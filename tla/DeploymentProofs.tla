--------------------------- MODULE DeploymentProofs ---------------------------
(***************************************************************************)
(* Theorems of Deployment, for any releases and any schemas of theirs.     *)
(***************************************************************************)
EXTENDS Deployment, SequenceTheorems, TLAPS

InstallStep ==
  {"prepare", "activate", "plist", "bootout", "port", "bootstrap", "kickstart",
   "ready", "mark", "dropCurrent", "dropPlist", "quarantine"}

Installing == op.at \in InstallStep

-----------------------------------------------------------------------------
(* The inductive invariant *)

\* The listing has every directory that is visible, once.
ListingSound ==
  /\ \A i, k \in DOMAIN order : order[i] = order[k] => i = k
  /\ \A r \in Releases :
       (\E i \in DOMAIN order : order[i] = r) <=> status[r] \in {"pending", "proven"}

\* A release that is current was built.
CurrentBuilt == current = NoRelease \/ status[current] # "absent"

\* launchd forgets a service with its process, and a process is of a release.
ServiceSound ==
  /\ service = "absent" => process.at = "none"
  /\ process.at \in {"starting", "ready"} => process.release \in Releases

\* A gateway that answers has opened the database, and is remembered to have answered.
ReadySound ==
  process.at = "ready" =>
    process.release \in wasReady /\ database = Supports[process.release]

\* A command is at a step of its own, and reports at its end only.
CommandSound ==
  /\ ~Idle => (Installing <=> op.job = "install")
  /\ ~Idle => op.report = "none"

\* An installation has a candidate of its own that nobody else marks; only the way
\* there writes the plist and marks, only the way back drops and quarantines.
CandidateSound ==
  Installing =>
    /\ op.candidate \in Releases /\ status[op.candidate] = "pending"
    /\ op.previous # op.candidate
    /\ op.previous = NoRelease \/ status[op.previous] # "absent"
    /\ op.at \in {"prepare", "plist", "mark"} => ~op.back
    /\ op.at \in {"dropCurrent", "dropPlist", "quarantine"} => op.back
    /\ op.at \in {"dropCurrent", "dropPlist"} => op.previous = NoRelease
    /\ op.back /\ op.at = "activate" => op.previous # NoRelease

\* Where `current' points while an installation goes forth and back.
CurrentSound ==
  Installing =>
    /\ op.previous = NoRelease \/ status[op.previous] = "proven" \/ loose
    /\ op.at = "prepare" => current = op.previous
    /\ ~op.back /\ op.at = "activate" => current = op.previous
    /\ ~op.back /\ op.at \notin {"prepare", "activate"} => current = op.candidate
    /\ op.back /\ op.at \in {"port", "bootstrap", "kickstart", "ready"} =>
         current = op.previous /\ op.previous # NoRelease
    /\ op.at \in {"dropPlist", "quarantine"} => current = op.previous

\* From the look at the port on nobody else has it, and from the start on the
\* process is that of the release that was started.
PortSound ==
  Installing =>
    /\ op.at \in {"bootstrap", "kickstart", "ready"} => ~foreign
    /\ /\ \/ op.at = "ready"
          \/ op.at = "quarantine" /\ op.previous # NoRelease
       /\ process.at \in {"starting", "ready"}
       => process.release = current

\* What has been reached on the way there, and on the way back.
ProgressSound ==
  Installing =>
    /\ op.at = "mark" => op.candidate \in wasReady
    /\ op.at \in {"kickstart", "ready"} => service = "loaded"
    /\ op.at = "quarantine" /\ op.previous # NoRelease =>
         service = "loaded" /\ database <= Supports[op.previous]
    /\ op.at \in {"dropCurrent", "dropPlist"} => service # "loaded"
    /\ op.at = "quarantine" /\ op.previous = NoRelease => ~plist /\ service # "loaded"

\* Outside of installations the selection stands.
SelectionStands == ~Installing => CurrentProven \/ loose

DeploymentInd ==
  /\ DeploymentTypeOK
  /\ ListingSound /\ CurrentBuilt
  /\ ServiceSound /\ ReadySound
  /\ CommandSound /\ CandidateSound /\ CurrentSound
  /\ PortSound /\ ProgressSound
  /\ SelectionStands
  /\ BackupIsCold
  /\ ProvenWasReady

-----------------------------------------------------------------------------
(* The listing *)

\* A directory that is made is the first of the listing.
LEMMA ListedFirst ==
  ASSUME NEW r \in Releases, NEW s \in Seq(Releases)
  PROVE  /\ <<r>> \o s \in Seq(Releases)
         /\ DOMAIN (<<r>> \o s) = 1 .. Len(s) + 1
         /\ (<<r>> \o s)[1] = r
         /\ \A i \in 1 .. Len(s) : (<<r>> \o s)[i + 1] = s[i]
         /\ \A i \in 2 .. Len(s) + 1 : (<<r>> \o s)[i] = s[i - 1]
<1>1. <<r>> \in Seq(Releases) /\ Len(<<r>>) = 1
  OBVIOUS
<1>2. /\ <<r>> \o s \in Seq(Releases)
      /\ Len(<<r>> \o s) = 1 + Len(s)
      /\ \A i \in 1 .. 1 + Len(s) :
           (<<r>> \o s)[i] = IF i <= 1 THEN <<r>>[i] ELSE s[i - 1]
  BY <1>1, ConcatProperties
<1> HIDE <1>1
<1>3. Len(s) \in Nat /\ DOMAIN (<<r>> \o s) = 1 .. Len(<<r>> \o s)
  BY <1>2, LenProperties
<1>4. <<r>>[1] = r
  OBVIOUS
<1> QED
  BY <1>2, <1>3, <1>4

First(r, s) == <<r>> \o s

\* It is listed once when it was not, and everything else as it was.
LEMMA FirstLists ==
  ASSUME NEW r \in Releases, NEW s \in Seq(Releases),
         \A i, k \in DOMAIN s : s[i] = s[k] => i = k,
         \A i \in DOMAIN s : s[i] # r,
         NEW t, t = First(r, s)
  PROVE  /\ \A i, k \in DOMAIN t : t[i] = t[k] => i = k
         /\ \A x \in Releases :
              (\E i \in DOMAIN t : t[i] = x) <=> x = r \/ \E i \in DOMAIN s : s[i] = x
<1>1. Len(s) \in Nat /\ DOMAIN s = 1 .. Len(s)
  BY LenProperties
<1>2. /\ DOMAIN t = 1 .. Len(s) + 1 /\ t[1] = r
      /\ \A i \in 1 .. Len(s) : t[i + 1] = s[i]
      /\ \A i \in 2 .. Len(s) + 1 : t[i] = s[i - 1]
  BY ListedFirst DEF First
<1>3. ASSUME NEW i \in DOMAIN t, NEW k \in DOMAIN t, t[i] = t[k]
      PROVE  i = k
  <2>0. Len(s) \in Nat
    BY <1>1
  <2>1. \A m \in DOMAIN t : m = 1 \/ (m \in 2 .. Len(s) + 1 /\ m - 1 \in DOMAIN s)
    BY <1>1, <1>2
  <2>2. i = 1 <=> k = 1
    BY <1>2, <1>3, <2>1
  <2>3. i # 1 => i - 1 = k - 1
    BY <1>2, <1>3, <2>1, <2>2
  <2> QED
    BY <1>1, <1>2, <2>2, <2>3
<1>4. ASSUME NEW x \in Releases, NEW i \in DOMAIN t, t[i] = x
      PROVE  x = r \/ \E k \in DOMAIN s : s[k] = x
  <2>1. i = 1 \/ (i \in 2 .. Len(s) + 1 /\ i - 1 \in DOMAIN s)
    BY <1>1, <1>2
  <2> QED
    BY <1>2, <1>4, <2>1
<1>5. ASSUME NEW x \in Releases, x = r \/ \E k \in DOMAIN s : s[k] = x
      PROVE  \E i \in DOMAIN t : t[i] = x
  <2>1. 1 \in DOMAIN t /\ \A k \in DOMAIN s : k + 1 \in DOMAIN t
    BY <1>1, <1>2
  <2> QED
    BY <1>1, <1>2, <1>5, <2>1
<1> QED
  BY <1>3, <1>4, <1>5

\* Without(r) lists the same directories, once each, but r.
LEMMA WithoutLists ==
  ASSUME order \in Seq(Releases),
         \A i, k \in DOMAIN order : order[i] = order[k] => i = k,
         NEW r \in Releases, NEW p \in DOMAIN order, order[p] = r
  PROVE  /\ Without(r) \in Seq(Releases)
         /\ \A i, k \in DOMAIN Without(r) : Without(r)[i] = Without(r)[k] => i = k
         /\ \A x \in Releases :
              (\E i \in DOMAIN Without(r) : Without(r)[i] = x)
                <=> x # r /\ \E i \in DOMAIN order : order[i] = x
<1> DEFINE n == Len(order) - 1
           w == Without(r)
<1>1. /\ Len(order) \in Nat /\ DOMAIN order = 1 .. Len(order)
      /\ \A i \in DOMAIN order : order[i] \in Releases
  BY LenProperties, ElementOfSeq
<1>2. n \in Nat /\ p \in 1 .. n + 1
  BY <1>1
<1>3. DOMAIN w = 1 .. n
  BY DEF Without
<1>4. ASSUME NEW i \in 1 .. n
      PROVE  w[i] = IF p <= i THEN order[i + 1] ELSE order[i]
  <2>1. (\E k \in 1 .. i : order[k] = r) <=> p <= i
    <3>1. \A k \in 1 .. i : k \in DOMAIN order
      BY <1>1, <1>2
    <3>2. \A k \in 1 .. i : order[k] = r => k = p
      BY <3>1
    <3> QED
      BY <1>2, <3>2
  <2> QED
    BY <2>1 DEF Without
<1>5. \A i \in 1 .. n : i \in DOMAIN order /\ i + 1 \in DOMAIN order
  BY <1>1, <1>2
<1>6. w \in Seq(Releases)
  <2>1. w \in [1 .. n -> Releases]
    <3>1. \A i \in 1 .. n : w[i] \in Releases
      BY <1>1, <1>4, <1>5
    <3> QED
      BY <3>1 DEF Without
  <2> QED
    BY <2>1, <1>2, SeqDef
<1>7. ASSUME NEW i \in 1 .. n, NEW k \in 1 .. n, w[i] = w[k] PROVE i = k
  <2> DEFINE at(m) == IF p <= m THEN m + 1 ELSE m
  <2>1. at(i) \in DOMAIN order /\ at(k) \in DOMAIN order
    BY <1>5
  <2>2. order[at(i)] = order[at(k)]
    BY <1>4, <1>7
  <2>3. at(i) = at(k)
    BY <2>1, <2>2
  <2> QED
    BY <1>2, <2>3
<1>8. ASSUME NEW x \in Releases, NEW i \in 1 .. n, w[i] = x
      PROVE  x # r /\ \E k \in DOMAIN order : order[k] = x
  <2> DEFINE m == IF p <= i THEN i + 1 ELSE i
  <2>1. m \in DOMAIN order /\ order[m] = x /\ m # p
    BY <1>2, <1>4, <1>5, <1>8
  <2> QED
    BY <2>1
<1>9. ASSUME NEW x \in Releases, x # r, NEW k \in DOMAIN order, order[k] = x
      PROVE  \E i \in 1 .. n : w[i] = x
  <2>1. k # p
    BY <1>9
  <2> DEFINE i == IF k < p THEN k ELSE k - 1
  <2>2. i \in 1 .. n /\ (p <= i => i + 1 = k) /\ (~(p <= i) => i = k)
    BY <1>1, <1>2, <2>1
  <2> QED
    BY <1>4, <1>9, <2>2
<1> HIDE DEF w
<1>10. /\ w \in Seq(Releases)
       /\ \A i, k \in DOMAIN w : w[i] = w[k] => i = k
       /\ \A x \in Releases :
            (\E i \in DOMAIN w : w[i] = x) <=> x # r /\ \E i \in DOMAIN order : order[i] = x
  BY <1>3, <1>6, <1>7, <1>8, <1>9
<1> QED
  BY <1>10 DEF w

-----------------------------------------------------------------------------
(* Commands *)

\* What a step makes of the command under way; what a backup remembers is left out.
OpIs(job, step, candidate, previous, back, report) ==
  /\ op' \in Op
  /\ op'.job = job /\ op'.at = step
  /\ op'.candidate = candidate /\ op'.previous = previous
  /\ op'.back = back /\ op'.report = report

LEMMA GoesTo ==
  ASSUME op \in Op, NEW step \in Step, Goes(step)
  PROVE  OpIs(op.job, step, op.candidate, op.previous, op.back, op.report)
BY DEF Goes, OpIs, Op

LEMMA EndsWith ==
  ASSUME op \in Op, NEW report \in Report, Ends(report)
  PROVE  OpIs(op.job, "idle", NoRelease, NoRelease, FALSE, report)
BY DEF Ends, OpIs, Op, Step

LEMMA BeginsAt ==
  ASSUME NEW job \in Job, NEW step \in Step, NEW candidate \in Releases \cup {NoRelease},
         NEW previous \in Releases \cup {NoRelease}, Begin(job, step, candidate, previous)
  PROVE  OpIs(job, step, candidate, previous, FALSE, "none")
BY DEF Begin, OpIs, Op, Report

\* The order of the steps, there and back.
LEMMA NextStep ==
  ASSUME op \in Op, Onwards
  PROVE  LET to(step) == OpIs(op.job, step, op.candidate, op.previous, op.back, op.report)
         IN  /\ op.at = "activate" => to(IF op.back THEN "port" ELSE "plist")
             /\ op.at = "plist" /\ ~op.back => to("bootout")
             /\ op.at = "bootout" =>
                  to(IF ~op.back THEN "port"
                     ELSE IF op.previous = NoRelease THEN "dropCurrent" ELSE "activate")
             /\ op.at = "port" => to("bootstrap")
             /\ op.at = "bootstrap" => to("kickstart")
             /\ op.at = "kickstart" => to("ready")
             /\ op.at = "ready" => to(IF op.back THEN "quarantine" ELSE "mark")
             /\ op.at = "dropCurrent" /\ op.back => to("dropPlist")
             /\ op.at = "dropPlist" /\ op.back => to("quarantine")
<1>1. op.back \in BOOLEAN
  BY DEF Op
<1>2. Goes(AfterOf(op.back)[op.at])
  BY DEF Onwards
<1>3. CASE ~op.back
  BY <1>2, <1>3, GoesTo DEF AfterOf, Step
<1>4. /\ AfterOf(TRUE)["bootout"] =
           IF op.previous = NoRelease THEN "dropCurrent" ELSE "activate"
      /\ AfterOf(TRUE)["activate"] = "port"
      /\ AfterOf(TRUE)["port"] = "bootstrap"
      /\ AfterOf(TRUE)["bootstrap"] = "kickstart"
      /\ AfterOf(TRUE)["kickstart"] = "ready"
      /\ AfterOf(TRUE)["ready"] = "quarantine"
      /\ AfterOf(TRUE)["dropCurrent"] = "dropPlist"
      /\ AfterOf(TRUE)["dropPlist"] = "quarantine"
  BY DEF AfterOf
<1>5. CASE op.back
  BY <1>2, <1>4, <1>5, GoesTo DEF Step
<1> QED
  BY <1>1, <1>3, <1>5

-----------------------------------------------------------------------------
(* What a step leaves *)

LEMMA TrappedStarts ==
  ASSUME op \in Op, Trapped
  PROVE  OpIs(op.job, "start", op.candidate, op.previous, TRUE, op.report)
BY DEF Trapped, OpIs, Op, Step

LEMMA GoesBack ==
  ASSUME op \in Op, op' = [op EXCEPT !.at = "bootout", !.back = TRUE]
  PROVE  OpIs(op.job, "bootout", op.candidate, op.previous, TRUE, op.report)
BY DEF OpIs, Op, Step

LEMMA StoppedGoes ==
  ASSUME op \in Op, AfterStop
  PROVE  \/ \E step \in {"start", "remove", "check"} :
              OpIs(op.job, step, op.candidate, op.previous, op.back, op.report)
         \/ OpIs(op.job, "idle", NoRelease, NoRelease, FALSE, "ok")
<1>1. CASE op.job = "backup"
  <2>1. op' = [op EXCEPT !.at = "check", !.restore = (service # "absent")]
    BY <1>1 DEF AfterStop
  <2>2. (service # "absent") \in BOOLEAN
    OBVIOUS
  <2> QED
    BY <2>1, <2>2 DEF OpIs, Op, Step
<1>2. CASE op.job # "backup"
  BY <1>2, GoesTo, EndsWith DEF AfterStop, Step, Report
<1> QED
  BY <1>1, <1>2

\* Where no directory is made, marked or renamed.
LEMMA SameDirectories ==
  ASSUME ListingSound, ProvenWasReady, UNCHANGED <<status, order>>,
         wasReady \subseteq wasReady'
  PROVE  ListingSound' /\ ProvenWasReady'
BY DEF ListingSound, ProvenWasReady

\* Where no installation is under way.
LEMMA Outside ==
  ASSUME ~Installing'
  PROVE  (CandidateSound /\ CurrentSound /\ PortSound /\ ProgressSound)'
BY DEF CandidateSound, CurrentSound, PortSound, ProgressSound, Installing

-----------------------------------------------------------------------------
(* The step *)

LEMMA StepSound ==
  ASSUME DeploymentInd, [Next]_vars
  PROVE  DeploymentInd'
<1> USE ReleasesAssumption
<1>0. /\ DeploymentTypeOK /\ op \in Op
      /\ ListingSound /\ CurrentBuilt
      /\ ServiceSound /\ ReadySound
      /\ CommandSound /\ CandidateSound /\ CurrentSound
      /\ PortSound /\ ProgressSound
      /\ SelectionStands
      /\ BackupIsCold
      /\ ProvenWasReady
  BY DEF DeploymentInd, DeploymentTypeOK
<1>1. CASE Launches
  <2>1. UNCHANGED op
    BY <1>0, <1>1 DEF Launches, CommandSound, CandidateSound, Installing, InstallStep, Idle, Step, Report, Job
  <2>2. DeploymentTypeOK'
    BY <1>0, <1>1, <2>1 DEF Launches, OpIs, DeploymentTypeOK, ServiceSound, disk, machine
  <2>3. (ListingSound /\ ProvenWasReady)'
    BY <1>0, <1>1, <2>1, SameDirectories DEF Launches, OpIs, disk, machine
  <2>4. CurrentBuilt'
    BY <1>0, <1>1, <2>1 DEF Launches, OpIs, CurrentBuilt, disk, CandidateSound, Idle, Selectable, DeploymentTypeOK, Installing, InstallStep
  <2>5. (ServiceSound /\ ReadySound)'
    BY <1>0, <1>1, <2>1 DEF Launches, OpIs, ServiceSound, ReadySound, machine, disk, DeploymentTypeOK
  <2>6. (BackupIsCold /\ CommandSound)'
    BY <1>0, <1>1, <2>1 DEF Launches, OpIs, BackupIsCold, CommandSound, machine, Idle, ServiceSound, Installing, InstallStep
  <2>7. CandidateSound'
    BY <1>0, <1>1, <2>1 DEF Launches, OpIs, CandidateSound, disk, CurrentSound, CurrentBuilt, CommandSound, Idle, Installing, InstallStep
  <2>8. CurrentSound'
    BY <1>0, <1>1, <2>1 DEF Launches, OpIs, CurrentSound, CandidateSound, CommandSound, Idle, disk, Installing, InstallStep
  <2>9. PortSound'
    BY <1>0, <1>1, <2>1 DEF Launches, OpIs, PortSound, CandidateSound, CurrentSound, CommandSound, ServiceSound, disk, machine, Installing, InstallStep, Idle
  <2>10. ProgressSound'
    BY <1>0, <1>1, <2>1 DEF Launches, OpIs, ProgressSound, PortSound, CandidateSound, CurrentSound, CommandSound, ServiceSound, ReadySound, DeploymentTypeOK, disk, machine, Installing, InstallStep
  <2>11. SelectionStands'
    BY <1>0, <1>1, <2>1 DEF Launches, OpIs, SelectionStands, CurrentSound, CandidateSound, CurrentProven, LeavesBehind, disk, Idle, CommandSound, Installing, InstallStep
  <2> QED
    BY <2>2, <2>3, <2>4, <2>5, <2>6, <2>7, <2>8, <2>9, <2>10, <2>11 DEF DeploymentInd
<1>2. CASE Migrates
  <2>1. UNCHANGED op
    BY <1>0, <1>2 DEF Migrates, CommandSound, CandidateSound, Installing, InstallStep, Idle, Step, Report, Job
  <2>2. DeploymentTypeOK'
    BY <1>0, <1>2, <2>1 DEF Migrates, OpIs, DeploymentTypeOK, ServiceSound, disk, machine
  <2>3. (ListingSound /\ ProvenWasReady)'
    BY <1>0, <1>2, <2>1, SameDirectories DEF Migrates, OpIs, disk, machine
  <2>4. CurrentBuilt'
    BY <1>0, <1>2, <2>1 DEF Migrates, OpIs, CurrentBuilt, disk, CandidateSound, Idle, Selectable, DeploymentTypeOK, Installing, InstallStep
  <2>5. (ServiceSound /\ ReadySound)'
    BY <1>0, <1>2, <2>1 DEF Migrates, OpIs, ServiceSound, ReadySound, machine, disk, DeploymentTypeOK
  <2>6. (BackupIsCold /\ CommandSound)'
    BY <1>0, <1>2, <2>1 DEF Migrates, OpIs, BackupIsCold, CommandSound, machine, Idle, ServiceSound, Installing, InstallStep
  <2>7. CandidateSound'
    BY <1>0, <1>2, <2>1 DEF Migrates, OpIs, CandidateSound, disk, CurrentSound, CurrentBuilt, CommandSound, Idle, Installing, InstallStep
  <2>8. CurrentSound'
    BY <1>0, <1>2, <2>1 DEF Migrates, OpIs, CurrentSound, CandidateSound, CommandSound, Idle, disk, Installing, InstallStep
  <2>9. PortSound'
    BY <1>0, <1>2, <2>1 DEF Migrates, OpIs, PortSound, CandidateSound, CurrentSound, CommandSound, ServiceSound, disk, machine, Installing, InstallStep, Idle
  <2>10. ProgressSound'
    BY <1>0, <1>2, <2>1 DEF Migrates, OpIs, ProgressSound, PortSound, CandidateSound, CurrentSound, CommandSound, ServiceSound, ReadySound, DeploymentTypeOK, disk, machine, Installing, InstallStep
  <2>11. SelectionStands'
    BY <1>0, <1>2, <2>1 DEF Migrates, OpIs, SelectionStands, CurrentSound, CandidateSound, CurrentProven, LeavesBehind, disk, Idle, CommandSound, Installing, InstallStep
  <2> QED
    BY <2>2, <2>3, <2>4, <2>5, <2>6, <2>7, <2>8, <2>9, <2>10, <2>11 DEF DeploymentInd
<1>3. CASE BecomesReady
  <2>1. UNCHANGED op
    BY <1>0, <1>3 DEF BecomesReady, CommandSound, CandidateSound, Installing, InstallStep, Idle, Step, Report, Job
  <2>2. DeploymentTypeOK'
    BY <1>0, <1>3, <2>1 DEF BecomesReady, OpIs, DeploymentTypeOK, ServiceSound, disk, machine
  <2>3. (ListingSound /\ ProvenWasReady)'
    BY <1>0, <1>3, <2>1, SameDirectories DEF BecomesReady, OpIs, disk, machine
  <2>4. CurrentBuilt'
    BY <1>0, <1>3, <2>1 DEF BecomesReady, OpIs, CurrentBuilt, disk, CandidateSound, Idle, Selectable, DeploymentTypeOK, Installing, InstallStep
  <2>5. (ServiceSound /\ ReadySound)'
    BY <1>0, <1>3, <2>1 DEF BecomesReady, OpIs, ServiceSound, ReadySound, machine, disk, DeploymentTypeOK
  <2>6. (BackupIsCold /\ CommandSound)'
    BY <1>0, <1>3, <2>1 DEF BecomesReady, OpIs, BackupIsCold, CommandSound, machine, Idle, ServiceSound, Installing, InstallStep
  <2>7. CandidateSound'
    BY <1>0, <1>3, <2>1 DEF BecomesReady, OpIs, CandidateSound, disk, CurrentSound, CurrentBuilt, CommandSound, Idle, Installing, InstallStep
  <2>8. CurrentSound'
    BY <1>0, <1>3, <2>1 DEF BecomesReady, OpIs, CurrentSound, CandidateSound, CommandSound, Idle, disk, Installing, InstallStep
  <2>9. PortSound'
    BY <1>0, <1>3, <2>1 DEF BecomesReady, OpIs, PortSound, CandidateSound, CurrentSound, CommandSound, ServiceSound, disk, machine, Installing, InstallStep, Idle
  <2>10. ProgressSound'
    BY <1>0, <1>3, <2>1 DEF BecomesReady, OpIs, ProgressSound, PortSound, CandidateSound, CurrentSound, CommandSound, ServiceSound, ReadySound, DeploymentTypeOK, disk, machine, Installing, InstallStep
  <2>11. SelectionStands'
    BY <1>0, <1>3, <2>1 DEF BecomesReady, OpIs, SelectionStands, CurrentSound, CandidateSound, CurrentProven, LeavesBehind, disk, Idle, CommandSound, Installing, InstallStep
  <2> QED
    BY <2>2, <2>3, <2>4, <2>5, <2>6, <2>7, <2>8, <2>9, <2>10, <2>11 DEF DeploymentInd
<1>4. CASE Dies
  <2>1. UNCHANGED op
    BY <1>0, <1>4 DEF Dies, NoProcess, CommandSound, CandidateSound, Installing, InstallStep, Idle, Step, Report, Job
  <2>2. DeploymentTypeOK'
    BY <1>0, <1>4, <2>1 DEF Dies, NoProcess, OpIs, DeploymentTypeOK, ServiceSound, disk, machine
  <2>3. (ListingSound /\ ProvenWasReady)'
    BY <1>0, <1>4, <2>1, SameDirectories DEF Dies, NoProcess, OpIs, disk, machine
  <2>4. CurrentBuilt'
    BY <1>0, <1>4, <2>1 DEF Dies, NoProcess, OpIs, CurrentBuilt, disk, CandidateSound, Idle, Selectable, DeploymentTypeOK, Installing, InstallStep
  <2>5. (ServiceSound /\ ReadySound)'
    BY <1>0, <1>4, <2>1 DEF Dies, NoProcess, OpIs, ServiceSound, ReadySound, machine, disk, DeploymentTypeOK
  <2>6. (BackupIsCold /\ CommandSound)'
    BY <1>0, <1>4, <2>1 DEF Dies, NoProcess, OpIs, BackupIsCold, CommandSound, machine, Idle, ServiceSound, Installing, InstallStep
  <2>7. CandidateSound'
    BY <1>0, <1>4, <2>1 DEF Dies, NoProcess, OpIs, CandidateSound, disk, CurrentSound, CurrentBuilt, CommandSound, Idle, Installing, InstallStep
  <2>8. CurrentSound'
    BY <1>0, <1>4, <2>1 DEF Dies, NoProcess, OpIs, CurrentSound, CandidateSound, CommandSound, Idle, disk, Installing, InstallStep
  <2>9. PortSound'
    BY <1>0, <1>4, <2>1 DEF Dies, NoProcess, OpIs, PortSound, CandidateSound, CurrentSound, CommandSound, ServiceSound, disk, machine, Installing, InstallStep, Idle
  <2>10. ProgressSound'
    BY <1>0, <1>4, <2>1 DEF Dies, NoProcess, OpIs, ProgressSound, PortSound, CandidateSound, CurrentSound, CommandSound, ServiceSound, ReadySound, DeploymentTypeOK, disk, machine, Installing, InstallStep
  <2>11. SelectionStands'
    BY <1>0, <1>4, <2>1 DEF Dies, NoProcess, OpIs, SelectionStands, CurrentSound, CandidateSound, CurrentProven, LeavesBehind, disk, Idle, CommandSound, Installing, InstallStep
  <2> QED
    BY <2>2, <2>3, <2>4, <2>5, <2>6, <2>7, <2>8, <2>9, <2>10, <2>11 DEF DeploymentInd
<1>5. CASE ForeignComes
  <2>1. UNCHANGED op
    BY <1>0, <1>5 DEF ForeignComes, Quiet, CommandSound, CandidateSound, Installing, InstallStep, Idle, Step, Report, Job
  <2>2. DeploymentTypeOK'
    BY <1>0, <1>5, <2>1 DEF ForeignComes, Quiet, OpIs, DeploymentTypeOK, ServiceSound, disk, machine
  <2>3. (ListingSound /\ ProvenWasReady)'
    BY <1>0, <1>5, <2>1, SameDirectories DEF ForeignComes, Quiet, OpIs, disk, machine
  <2>4. CurrentBuilt'
    BY <1>0, <1>5, <2>1 DEF ForeignComes, Quiet, OpIs, CurrentBuilt, disk, CandidateSound, Idle, Selectable, DeploymentTypeOK, Installing, InstallStep
  <2>5. (ServiceSound /\ ReadySound)'
    BY <1>0, <1>5, <2>1 DEF ForeignComes, Quiet, OpIs, ServiceSound, ReadySound, machine, disk, DeploymentTypeOK
  <2>6. (BackupIsCold /\ CommandSound)'
    BY <1>0, <1>5, <2>1 DEF ForeignComes, Quiet, OpIs, BackupIsCold, CommandSound, machine, Idle, ServiceSound, Installing, InstallStep
  <2>7. CandidateSound'
    BY <1>0, <1>5, <2>1 DEF ForeignComes, Quiet, OpIs, CandidateSound, disk, CurrentSound, CurrentBuilt, CommandSound, Idle, Installing, InstallStep
  <2>8. CurrentSound'
    BY <1>0, <1>5, <2>1 DEF ForeignComes, Quiet, OpIs, CurrentSound, CandidateSound, CommandSound, Idle, disk, Installing, InstallStep
  <2>9. PortSound'
    BY <1>0, <1>5, <2>1 DEF ForeignComes, Quiet, OpIs, PortSound, CandidateSound, CurrentSound, CommandSound, ServiceSound, disk, machine, Installing, InstallStep, Idle
  <2>10. ProgressSound'
    BY <1>0, <1>5, <2>1 DEF ForeignComes, Quiet, OpIs, ProgressSound, PortSound, CandidateSound, CurrentSound, CommandSound, ServiceSound, ReadySound, DeploymentTypeOK, disk, machine, Installing, InstallStep
  <2>11. SelectionStands'
    BY <1>0, <1>5, <2>1 DEF ForeignComes, Quiet, OpIs, SelectionStands, CurrentSound, CandidateSound, CurrentProven, LeavesBehind, disk, Idle, CommandSound, Installing, InstallStep
  <2> QED
    BY <2>2, <2>3, <2>4, <2>5, <2>6, <2>7, <2>8, <2>9, <2>10, <2>11 DEF DeploymentInd
<1>6. CASE ForeignLeaves
  <2>1. UNCHANGED op
    BY <1>0, <1>6 DEF ForeignLeaves, CommandSound, CandidateSound, Installing, InstallStep, Idle, Step, Report, Job
  <2>2. DeploymentTypeOK'
    BY <1>0, <1>6, <2>1 DEF ForeignLeaves, OpIs, DeploymentTypeOK, ServiceSound, disk, machine
  <2>3. (ListingSound /\ ProvenWasReady)'
    BY <1>0, <1>6, <2>1, SameDirectories DEF ForeignLeaves, OpIs, disk, machine
  <2>4. CurrentBuilt'
    BY <1>0, <1>6, <2>1 DEF ForeignLeaves, OpIs, CurrentBuilt, disk, CandidateSound, Idle, Selectable, DeploymentTypeOK, Installing, InstallStep
  <2>5. (ServiceSound /\ ReadySound)'
    BY <1>0, <1>6, <2>1 DEF ForeignLeaves, OpIs, ServiceSound, ReadySound, machine, disk, DeploymentTypeOK
  <2>6. (BackupIsCold /\ CommandSound)'
    BY <1>0, <1>6, <2>1 DEF ForeignLeaves, OpIs, BackupIsCold, CommandSound, machine, Idle, ServiceSound, Installing, InstallStep
  <2>7. CandidateSound'
    BY <1>0, <1>6, <2>1 DEF ForeignLeaves, OpIs, CandidateSound, disk, CurrentSound, CurrentBuilt, CommandSound, Idle, Installing, InstallStep
  <2>8. CurrentSound'
    BY <1>0, <1>6, <2>1 DEF ForeignLeaves, OpIs, CurrentSound, CandidateSound, CommandSound, Idle, disk, Installing, InstallStep
  <2>9. PortSound'
    BY <1>0, <1>6, <2>1 DEF ForeignLeaves, OpIs, PortSound, CandidateSound, CurrentSound, CommandSound, ServiceSound, disk, machine, Installing, InstallStep, Idle
  <2>10. ProgressSound'
    BY <1>0, <1>6, <2>1 DEF ForeignLeaves, OpIs, ProgressSound, PortSound, CandidateSound, CurrentSound, CommandSound, ServiceSound, ReadySound, DeploymentTypeOK, disk, machine, Installing, InstallStep
  <2>11. SelectionStands'
    BY <1>0, <1>6, <2>1 DEF ForeignLeaves, OpIs, SelectionStands, CurrentSound, CandidateSound, CurrentProven, LeavesBehind, disk, Idle, CommandSound, Installing, InstallStep
  <2> QED
    BY <2>2, <2>3, <2>4, <2>5, <2>6, <2>7, <2>8, <2>9, <2>10, <2>11 DEF DeploymentInd
<1>7. CASE Killed
  <2>1. OpIs(op.job, "idle", NoRelease, NoRelease, FALSE, "killed")
    BY <1>0, <1>7, EndsWith DEF Killed, LeavesBehind, CommandSound, CandidateSound, Installing, InstallStep, Idle, Step, Report, Job
  <2>2. DeploymentTypeOK'
    BY <1>0, <1>7, <2>1 DEF Killed, LeavesBehind, OpIs, DeploymentTypeOK, disk, machine
  <2>3. (ListingSound /\ ProvenWasReady)'
    BY <1>0, <1>7, <2>1, SameDirectories DEF Killed, LeavesBehind, OpIs, disk, machine
  <2>4. CurrentBuilt'
    BY <1>0, <1>7, <2>1 DEF Killed, LeavesBehind, OpIs, CurrentBuilt, disk, CandidateSound, Idle, Selectable, DeploymentTypeOK, Installing, InstallStep
  <2>5. (ServiceSound /\ ReadySound)'
    BY <1>0, <1>7, <2>1 DEF Killed, LeavesBehind, OpIs, ServiceSound, ReadySound, machine, disk, DeploymentTypeOK
  <2>6. (BackupIsCold /\ CommandSound)'
    BY <1>0, <1>7, <2>1 DEF Killed, LeavesBehind, OpIs, BackupIsCold, CommandSound, machine, Idle, ServiceSound, Installing, InstallStep
  <2>7. (CandidateSound /\ CurrentSound /\ PortSound /\ ProgressSound)'
    BY <1>0, <1>7, <2>1, Outside DEF Killed, LeavesBehind, OpIs, CommandSound, Idle, Installing, InstallStep
  <2>8. SelectionStands'
    BY <1>0, <1>7, <2>1 DEF Killed, LeavesBehind, OpIs, SelectionStands, CurrentSound, CandidateSound, CurrentProven, LeavesBehind, disk, Idle, CommandSound, Installing, InstallStep
  <2> QED
    BY <2>2, <2>3, <2>4, <2>5, <2>6, <2>7, <2>8 DEF DeploymentInd
<1>8. CASE Build
  <2>1. \E r \in Releases : /\ status[r] = "absent" /\ status' = [status EXCEPT ![r] = "pending"]
                            /\ order' = <<r>> \o order /\ OpIs("install", "prepare", r, current, FALSE, "none")
    BY <1>0, <1>8, BeginsAt DEF Build, DeploymentTypeOK, CommandSound, CandidateSound, Installing, InstallStep, Idle, Step, Report, Job
  <2>2. DeploymentTypeOK'
    BY <1>0, <1>8, <2>1, ListedFirst DEF Build, DeploymentTypeOK, OpIs, DeploymentTypeOK, machine
  <2>3. ListingSound'
    <3> PICK r \in Releases : /\ status[r] = "absent" /\ status' = [status EXCEPT ![r] = "pending"]
                              /\ order' = <<r>> \o order
      BY <2>1
    <3>1. order \in Seq(Releases) /\ Len(order) \in Nat /\ DOMAIN order = 1 .. Len(order)
      BY <1>0, LenProperties DEF DeploymentTypeOK
    <3>2. /\ DOMAIN order' = 1 .. Len(order) + 1 /\ order'[1] = r
          /\ \A i \in 1 .. Len(order) : order'[i + 1] = order[i]
          /\ \A i \in 2 .. Len(order) + 1 : order'[i] = order[i - 1]
      BY <3>1, ListedFirst
    <3>3. \A i \in 1 .. Len(order) : order[i] # r
      BY <1>0, <3>1 DEF ListingSound
    <3>4. /\ \A i, k \in DOMAIN order : order[i] = order[k] => i = k
          /\ \A i \in DOMAIN order : order[i] # r
      BY <1>0, <3>1, <3>3 DEF ListingSound
    <3>5. /\ \A i, k \in DOMAIN order' : order'[i] = order'[k] => i = k
          /\ \A x \in Releases :
               (\E i \in DOMAIN order' : order'[i] = x)
                 <=> x = r \/ \E i \in DOMAIN order : order[i] = x
      <4>1. order' = First(r, order)
        BY DEF First
      <4> QED
        BY <3>1, <3>4, <4>1, FirstLists
    <3>6. \A x \in Releases : status'[x] = IF x = r THEN "pending" ELSE status[x]
      BY <1>0 DEF DeploymentTypeOK
    <3>7. \A x \in Releases :
            (\E i \in DOMAIN order : order[i] = x) <=> status[x] \in {"pending", "proven"}
      BY <1>0 DEF ListingSound
    <3>8. \A x \in Releases :
            (\E i \in DOMAIN order' : order'[i] = x) <=> status'[x] \in {"pending", "proven"}
      BY <3>5, <3>6, <3>7
    <3> QED
      BY <3>5, <3>8 DEF ListingSound
  <2>4. (CurrentBuilt /\ ProvenWasReady)'
    BY <1>0, <1>8, <2>1 DEF Build, DeploymentTypeOK, OpIs, CurrentBuilt, ProvenWasReady, machine, DeploymentTypeOK
  <2>5. (ServiceSound /\ ReadySound)'
    BY <1>0, <1>8, <2>1 DEF Build, DeploymentTypeOK, OpIs, ServiceSound, ReadySound, machine, disk, DeploymentTypeOK
  <2>6. (BackupIsCold /\ CommandSound)'
    BY <1>0, <1>8, <2>1 DEF Build, DeploymentTypeOK, OpIs, BackupIsCold, CommandSound, machine, Idle, ServiceSound, Installing, InstallStep
  <2>7. CandidateSound'
    BY <1>0, <1>8, <2>1 DEF Build, DeploymentTypeOK, OpIs, CandidateSound, CurrentBuilt, DeploymentTypeOK, Installing, InstallStep
  <2>8. CurrentSound'
    BY <1>0, <1>8, <2>1 DEF Build, DeploymentTypeOK, OpIs, CurrentSound, SelectionStands, CurrentProven, CommandSound, Idle, DeploymentTypeOK, Installing, InstallStep
  <2>9. (PortSound /\ ProgressSound)'
    BY <1>0, <1>8, <2>1 DEF Build, DeploymentTypeOK, OpIs, PortSound, ProgressSound, Installing, InstallStep
  <2>10. SelectionStands'
    BY <1>0, <1>8, <2>1 DEF Build, DeploymentTypeOK, OpIs, SelectionStands, Installing, InstallStep
  <2> QED
    BY <2>2, <2>3, <2>4, <2>5, <2>6, <2>7, <2>8, <2>9, <2>10 DEF DeploymentInd
<1>9. CASE Prepares
  <2>1. OpIs(op.job, "activate", op.candidate, op.previous, op.back, op.report) \/ OpIs(op.job, "idle", NoRelease, NoRelease, FALSE, "error")
    BY <1>0, <1>9, GoesTo, EndsWith DEF Prepares, At, CommandSound, CandidateSound, Installing, InstallStep, Idle, Step, Report, Job
  <2>2. DeploymentTypeOK'
    BY <1>0, <1>9, <2>1 DEF Prepares, At, OpIs, DeploymentTypeOK, disk, machine
  <2>3. (ListingSound /\ ProvenWasReady)'
    BY <1>0, <1>9, <2>1, SameDirectories DEF Prepares, At, OpIs, disk, machine
  <2>4. CurrentBuilt'
    BY <1>0, <1>9, <2>1 DEF Prepares, At, OpIs, CurrentBuilt, disk, CandidateSound, Idle, Selectable, DeploymentTypeOK, Installing, InstallStep
  <2>5. (ServiceSound /\ ReadySound)'
    BY <1>0, <1>9, <2>1 DEF Prepares, At, OpIs, ServiceSound, ReadySound, machine, disk, DeploymentTypeOK
  <2>6. (BackupIsCold /\ CommandSound)'
    BY <1>0, <1>9, <2>1 DEF Prepares, At, OpIs, BackupIsCold, CommandSound, machine, Idle, ServiceSound, Installing, InstallStep
  <2>7. CandidateSound'
    BY <1>0, <1>9, <2>1 DEF Prepares, At, OpIs, CandidateSound, disk, CurrentSound, CurrentBuilt, CommandSound, Idle, Installing, InstallStep
  <2>8. CurrentSound'
    BY <1>0, <1>9, <2>1 DEF Prepares, At, OpIs, CurrentSound, CandidateSound, CommandSound, Idle, disk, Installing, InstallStep
  <2>9. PortSound'
    BY <1>0, <1>9, <2>1 DEF Prepares, At, OpIs, PortSound, CandidateSound, CurrentSound, CommandSound, ServiceSound, disk, machine, Installing, InstallStep
  <2>10. ProgressSound'
    BY <1>0, <1>9, <2>1 DEF Prepares, At, OpIs, ProgressSound, PortSound, CandidateSound, CurrentSound, CommandSound, ServiceSound, ReadySound, DeploymentTypeOK, disk, machine, Installing, InstallStep
  <2>11. SelectionStands'
    BY <1>0, <1>9, <2>1 DEF Prepares, At, OpIs, SelectionStands, CurrentSound, CandidateSound, CurrentProven, LeavesBehind, disk, Idle, CommandSound, Installing, InstallStep
  <2> QED
    BY <2>2, <2>3, <2>4, <2>5, <2>6, <2>7, <2>8, <2>9, <2>10, <2>11 DEF DeploymentInd
<1>10. CASE Throws
  <2>1. /\ UNCHANGED <<disk, database, foreign, wasReady>>
        /\ \/ /\ ~op.back /\ Installing /\ UNCHANGED <<service, process, loose>>
              /\ OpIs(op.job, "bootout", op.candidate, op.previous, TRUE, op.report)
           \/ /\ Bootout \/ UNCHANGED <<service, process>>
              /\ LeavesBehind
              /\ OpIs(op.job, "idle", NoRelease, NoRelease, FALSE, "stranded")
    BY <1>0, <1>10, EndsWith, GoesBack DEF Throws, CommandSound, CandidateSound, Installing, InstallStep, Idle, Step, Report, Job
  <2>2. DeploymentTypeOK'
    BY <1>0, <2>1 DEF disk, machine, OpIs, DeploymentTypeOK, Bootout, LeavesBehind, CurrentProven, disk
  <2>3. (ListingSound /\ ProvenWasReady)'
    BY <1>0, <2>1, SameDirectories DEF disk, machine, OpIs, disk, machine
  <2>4. CurrentBuilt'
    BY <1>0, <2>1 DEF disk, machine, OpIs, CurrentBuilt, disk, CandidateSound, Idle, Selectable, DeploymentTypeOK, Installing, InstallStep
  <2>5. (ServiceSound /\ ReadySound)'
    BY <1>0, <2>1 DEF disk, machine, OpIs, ServiceSound, ReadySound, machine, disk, DeploymentTypeOK, Bootout
  <2>6. (BackupIsCold /\ CommandSound)'
    BY <1>0, <2>1 DEF disk, machine, OpIs, BackupIsCold, CommandSound, machine, Idle, ServiceSound, Installing, InstallStep, Bootout
  <2>7. CandidateSound'
    BY <1>0, <2>1 DEF disk, machine, OpIs, CandidateSound, disk, CurrentSound, CurrentBuilt, CommandSound, Idle, Installing, InstallStep
  <2>8. CurrentSound'
    BY <1>0, <2>1 DEF disk, machine, OpIs, CurrentSound, CandidateSound, CommandSound, Idle, disk, Installing, InstallStep
  <2>9. PortSound'
    BY <1>0, <2>1 DEF disk, machine, OpIs, PortSound, CandidateSound, CurrentSound, CommandSound, ServiceSound, disk, machine, Installing, InstallStep, Bootout
  <2>10. ProgressSound'
    BY <1>0, <2>1 DEF disk, machine, OpIs, ProgressSound, PortSound, CandidateSound, CurrentSound, CommandSound, ServiceSound, ReadySound, DeploymentTypeOK, disk, machine, Installing, InstallStep, Bootout
  <2>11. SelectionStands'
    BY <1>0, <2>1 DEF disk, machine, OpIs, SelectionStands, CurrentProven, LeavesBehind, disk, Installing, InstallStep
  <2> QED
    BY <2>2, <2>3, <2>4, <2>5, <2>6, <2>7, <2>8, <2>9, <2>10, <2>11 DEF DeploymentInd
<1>11. CASE Activates
  <2>1. OpIs(op.job, IF op.back THEN "port" ELSE "plist", op.candidate, op.previous, op.back, op.report)
    BY <1>0, <1>11, NextStep DEF Activates, At, Onwards, CommandSound, CandidateSound, Installing, InstallStep, Idle, Step, Report, Job
  <2>2. DeploymentTypeOK'
    BY <1>0, <1>11, <2>1 DEF Activates, At, Onwards, OpIs, DeploymentTypeOK, Op, disk, machine
  <2>3. (ListingSound /\ ProvenWasReady)'
    BY <1>0, <1>11, <2>1, SameDirectories DEF Activates, At, Onwards, OpIs, disk, machine
  <2>4. CurrentBuilt'
    BY <1>0, <1>11, <2>1 DEF Activates, At, Onwards, OpIs, CurrentBuilt, disk, CandidateSound, Idle, Selectable, DeploymentTypeOK, Installing, InstallStep
  <2>5. (ServiceSound /\ ReadySound)'
    BY <1>0, <1>11, <2>1 DEF Activates, At, Onwards, OpIs, ServiceSound, ReadySound, machine, disk, DeploymentTypeOK
  <2>6. (BackupIsCold /\ CommandSound)'
    BY <1>0, <1>11, <2>1 DEF Activates, At, Onwards, OpIs, BackupIsCold, CommandSound, machine, Idle, ServiceSound, Installing, InstallStep
  <2>7. CandidateSound'
    BY <1>0, <1>11, <2>1 DEF Activates, At, Onwards, OpIs, CandidateSound, disk, CurrentSound, CurrentBuilt, CommandSound, Idle, Installing, InstallStep
  <2>8. CurrentSound'
    BY <1>0, <1>11, <2>1 DEF Activates, At, Onwards, OpIs, CurrentSound, CandidateSound, CommandSound, Idle, disk, Installing, InstallStep
  <2>9. PortSound'
    BY <1>0, <1>11, <2>1 DEF Activates, At, Onwards, OpIs, PortSound, CandidateSound, CurrentSound, CommandSound, ServiceSound, disk, machine, Installing, InstallStep
  <2>10. ProgressSound'
    BY <1>0, <1>11, <2>1 DEF Activates, At, Onwards, OpIs, ProgressSound, PortSound, CandidateSound, CurrentSound, CommandSound, ServiceSound, ReadySound, DeploymentTypeOK, disk, machine, Installing, InstallStep
  <2>11. SelectionStands'
    BY <1>0, <1>11, <2>1 DEF Activates, At, Onwards, OpIs, SelectionStands, CurrentSound, CandidateSound, CurrentProven, LeavesBehind, disk, Idle, CommandSound, Installing, InstallStep
  <2> QED
    BY <2>2, <2>3, <2>4, <2>5, <2>6, <2>7, <2>8, <2>9, <2>10, <2>11 DEF DeploymentInd
<1>12. CASE WritesPlist
  <2>1. OpIs(op.job, "bootout", op.candidate, op.previous, op.back, op.report)
    BY <1>0, <1>12, NextStep DEF WritesPlist, At, Onwards, CommandSound, CandidateSound, Installing, InstallStep, Idle, Step, Report, Job
  <2>2. DeploymentTypeOK'
    BY <1>0, <1>12, <2>1 DEF WritesPlist, At, Onwards, OpIs, DeploymentTypeOK, disk, machine
  <2>3. (ListingSound /\ ProvenWasReady)'
    BY <1>0, <1>12, <2>1, SameDirectories DEF WritesPlist, At, Onwards, OpIs, disk, machine
  <2>4. CurrentBuilt'
    BY <1>0, <1>12, <2>1 DEF WritesPlist, At, Onwards, OpIs, CurrentBuilt, disk, CandidateSound, Idle, Selectable, DeploymentTypeOK, Installing, InstallStep
  <2>5. (ServiceSound /\ ReadySound)'
    BY <1>0, <1>12, <2>1 DEF WritesPlist, At, Onwards, OpIs, ServiceSound, ReadySound, machine, disk, DeploymentTypeOK
  <2>6. (BackupIsCold /\ CommandSound)'
    BY <1>0, <1>12, <2>1 DEF WritesPlist, At, Onwards, OpIs, BackupIsCold, CommandSound, machine, Idle, ServiceSound, Installing, InstallStep
  <2>7. CandidateSound'
    BY <1>0, <1>12, <2>1 DEF WritesPlist, At, Onwards, OpIs, CandidateSound, disk, CurrentSound, CurrentBuilt, CommandSound, Idle, Installing, InstallStep
  <2>8. CurrentSound'
    BY <1>0, <1>12, <2>1 DEF WritesPlist, At, Onwards, OpIs, CurrentSound, CandidateSound, CommandSound, Idle, disk, Installing, InstallStep
  <2>9. PortSound'
    BY <1>0, <1>12, <2>1 DEF WritesPlist, At, Onwards, OpIs, PortSound, CandidateSound, CurrentSound, CommandSound, ServiceSound, disk, machine, Installing, InstallStep
  <2>10. ProgressSound'
    BY <1>0, <1>12, <2>1 DEF WritesPlist, At, Onwards, OpIs, ProgressSound, PortSound, CandidateSound, CurrentSound, CommandSound, ServiceSound, ReadySound, DeploymentTypeOK, disk, machine, Installing, InstallStep
  <2>11. SelectionStands'
    BY <1>0, <1>12, <2>1 DEF WritesPlist, At, Onwards, OpIs, SelectionStands, CurrentSound, CandidateSound, CurrentProven, LeavesBehind, disk, Idle, CommandSound, Installing, InstallStep
  <2> QED
    BY <2>2, <2>3, <2>4, <2>5, <2>6, <2>7, <2>8, <2>9, <2>10, <2>11 DEF DeploymentInd
<1>13. CASE BootsOut
  <2>1. OpIs(op.job, IF ~op.back THEN "port"
                     ELSE IF op.previous = NoRelease THEN "dropCurrent" ELSE "activate", op.candidate, op.previous, op.back, op.report)
    BY <1>0, <1>13, NextStep DEF BootsOut, At, Onwards, Bootout, CommandSound, CandidateSound, Installing, InstallStep, Idle, Step, Report, Job
  <2>2. DeploymentTypeOK'
    BY <1>0, <1>13, <2>1 DEF BootsOut, At, Onwards, Bootout, OpIs, DeploymentTypeOK, disk, machine
  <2>3. (ListingSound /\ ProvenWasReady)'
    BY <1>0, <1>13, <2>1, SameDirectories DEF BootsOut, At, Onwards, Bootout, OpIs, disk, machine
  <2>4. CurrentBuilt'
    BY <1>0, <1>13, <2>1 DEF BootsOut, At, Onwards, Bootout, OpIs, CurrentBuilt, disk, CandidateSound, Idle, Selectable, DeploymentTypeOK, Installing, InstallStep
  <2>5. (ServiceSound /\ ReadySound)'
    BY <1>0, <1>13, <2>1 DEF BootsOut, At, Onwards, Bootout, OpIs, ServiceSound, ReadySound, machine, disk, DeploymentTypeOK
  <2>6. (BackupIsCold /\ CommandSound)'
    BY <1>0, <1>13, <2>1 DEF BootsOut, At, Onwards, Bootout, OpIs, BackupIsCold, CommandSound, machine, Idle, ServiceSound, Installing, InstallStep
  <2>7. CandidateSound'
    BY <1>0, <1>13, <2>1 DEF BootsOut, At, Onwards, Bootout, OpIs, CandidateSound, disk, CurrentSound, CurrentBuilt, CommandSound, Idle, Installing, InstallStep
  <2>8. CurrentSound'
    BY <1>0, <1>13, <2>1 DEF BootsOut, At, Onwards, Bootout, OpIs, CurrentSound, CandidateSound, CommandSound, Idle, disk, Installing, InstallStep
  <2>9. PortSound'
    BY <1>0, <1>13, <2>1 DEF BootsOut, At, Onwards, Bootout, OpIs, PortSound, CandidateSound, CurrentSound, CommandSound, ServiceSound, disk, machine, Installing, InstallStep
  <2>10. ProgressSound'
    BY <1>0, <1>13, <2>1 DEF BootsOut, At, Onwards, Bootout, OpIs, ProgressSound, PortSound, CandidateSound, CurrentSound, CommandSound, ServiceSound, ReadySound, DeploymentTypeOK, disk, machine, Installing, InstallStep
  <2>11. SelectionStands'
    BY <1>0, <1>13, <2>1 DEF BootsOut, At, Onwards, Bootout, OpIs, SelectionStands, CurrentSound, CandidateSound, CurrentProven, LeavesBehind, disk, Idle, CommandSound, Installing, InstallStep
  <2> QED
    BY <2>2, <2>3, <2>4, <2>5, <2>6, <2>7, <2>8, <2>9, <2>10, <2>11 DEF DeploymentInd
<1>14. CASE PortFree
  <2>1. OpIs(op.job, "bootstrap", op.candidate, op.previous, op.back, op.report)
    BY <1>0, <1>14, NextStep DEF PortFree, At, Onwards, CommandSound, CandidateSound, Installing, InstallStep, Idle, Step, Report, Job
  <2>2. DeploymentTypeOK'
    BY <1>0, <1>14, <2>1 DEF PortFree, At, Onwards, OpIs, DeploymentTypeOK, disk, machine
  <2>3. (ListingSound /\ ProvenWasReady)'
    BY <1>0, <1>14, <2>1, SameDirectories DEF PortFree, At, Onwards, OpIs, disk, machine
  <2>4. CurrentBuilt'
    BY <1>0, <1>14, <2>1 DEF PortFree, At, Onwards, OpIs, CurrentBuilt, disk, CandidateSound, Idle, Selectable, DeploymentTypeOK, Installing, InstallStep
  <2>5. (ServiceSound /\ ReadySound)'
    BY <1>0, <1>14, <2>1 DEF PortFree, At, Onwards, OpIs, ServiceSound, ReadySound, machine, disk, DeploymentTypeOK
  <2>6. (BackupIsCold /\ CommandSound)'
    BY <1>0, <1>14, <2>1 DEF PortFree, At, Onwards, OpIs, BackupIsCold, CommandSound, machine, Idle, ServiceSound, Installing, InstallStep
  <2>7. CandidateSound'
    BY <1>0, <1>14, <2>1 DEF PortFree, At, Onwards, OpIs, CandidateSound, disk, CurrentSound, CurrentBuilt, CommandSound, Idle, Installing, InstallStep
  <2>8. CurrentSound'
    BY <1>0, <1>14, <2>1 DEF PortFree, At, Onwards, OpIs, CurrentSound, CandidateSound, CommandSound, Idle, disk, Installing, InstallStep
  <2>9. PortSound'
    BY <1>0, <1>14, <2>1 DEF PortFree, At, Onwards, OpIs, PortSound, CandidateSound, CurrentSound, CommandSound, ServiceSound, disk, machine, Installing, InstallStep
  <2>10. ProgressSound'
    BY <1>0, <1>14, <2>1 DEF PortFree, At, Onwards, OpIs, ProgressSound, PortSound, CandidateSound, CurrentSound, CommandSound, ServiceSound, ReadySound, DeploymentTypeOK, disk, machine, Installing, InstallStep
  <2>11. SelectionStands'
    BY <1>0, <1>14, <2>1 DEF PortFree, At, Onwards, OpIs, SelectionStands, CurrentSound, CandidateSound, CurrentProven, LeavesBehind, disk, Idle, CommandSound, Installing, InstallStep
  <2> QED
    BY <2>2, <2>3, <2>4, <2>5, <2>6, <2>7, <2>8, <2>9, <2>10, <2>11 DEF DeploymentInd
<1>15. CASE Bootstraps
  <2>1. OpIs(op.job, "kickstart", op.candidate, op.previous, op.back, op.report)
    BY <1>0, <1>15, NextStep DEF Bootstraps, At, Onwards, CanBootstrap, CommandSound, CandidateSound, Installing, InstallStep, Idle, Step, Report, Job
  <2>2. DeploymentTypeOK'
    BY <1>0, <1>15, <2>1 DEF Bootstraps, At, Onwards, CanBootstrap, OpIs, DeploymentTypeOK, disk, machine
  <2>3. (ListingSound /\ ProvenWasReady)'
    BY <1>0, <1>15, <2>1, SameDirectories DEF Bootstraps, At, Onwards, CanBootstrap, OpIs, disk, machine
  <2>4. CurrentBuilt'
    BY <1>0, <1>15, <2>1 DEF Bootstraps, At, Onwards, CanBootstrap, OpIs, CurrentBuilt, disk, CandidateSound, Idle, Selectable, DeploymentTypeOK, Installing, InstallStep
  <2>5. (ServiceSound /\ ReadySound)'
    BY <1>0, <1>15, <2>1 DEF Bootstraps, At, Onwards, CanBootstrap, OpIs, ServiceSound, ReadySound, machine, disk, DeploymentTypeOK
  <2>6. (BackupIsCold /\ CommandSound)'
    BY <1>0, <1>15, <2>1 DEF Bootstraps, At, Onwards, CanBootstrap, OpIs, BackupIsCold, CommandSound, machine, Idle, ServiceSound, Installing, InstallStep
  <2>7. CandidateSound'
    BY <1>0, <1>15, <2>1 DEF Bootstraps, At, Onwards, CanBootstrap, OpIs, CandidateSound, disk, CurrentSound, CurrentBuilt, CommandSound, Idle, Installing, InstallStep
  <2>8. CurrentSound'
    BY <1>0, <1>15, <2>1 DEF Bootstraps, At, Onwards, CanBootstrap, OpIs, CurrentSound, CandidateSound, CommandSound, Idle, disk, Installing, InstallStep
  <2>9. PortSound'
    BY <1>0, <1>15, <2>1 DEF Bootstraps, At, Onwards, CanBootstrap, OpIs, PortSound, CandidateSound, CurrentSound, CommandSound, ServiceSound, disk, machine, Installing, InstallStep
  <2>10. ProgressSound'
    BY <1>0, <1>15, <2>1 DEF Bootstraps, At, Onwards, CanBootstrap, OpIs, ProgressSound, PortSound, CandidateSound, CurrentSound, CommandSound, ServiceSound, ReadySound, DeploymentTypeOK, disk, machine, Installing, InstallStep
  <2>11. SelectionStands'
    BY <1>0, <1>15, <2>1 DEF Bootstraps, At, Onwards, CanBootstrap, OpIs, SelectionStands, CurrentSound, CandidateSound, CurrentProven, LeavesBehind, disk, Idle, CommandSound, Installing, InstallStep
  <2> QED
    BY <2>2, <2>3, <2>4, <2>5, <2>6, <2>7, <2>8, <2>9, <2>10, <2>11 DEF DeploymentInd
<1>16. CASE Kickstarts
  <2>1. OpIs(op.job, "ready", op.candidate, op.previous, op.back, op.report)
    BY <1>0, <1>16, NextStep DEF Kickstarts, At, Onwards, Kickstart, NoProcess, CommandSound, CandidateSound, Installing, InstallStep, Idle, Step, Report, Job
  <2>2. DeploymentTypeOK'
    BY <1>0, <1>16, <2>1 DEF Kickstarts, At, Onwards, Kickstart, NoProcess, OpIs, DeploymentTypeOK, disk, machine
  <2>3. (ListingSound /\ ProvenWasReady)'
    BY <1>0, <1>16, <2>1, SameDirectories DEF Kickstarts, At, Onwards, Kickstart, NoProcess, OpIs, disk, machine
  <2>4. CurrentBuilt'
    BY <1>0, <1>16, <2>1 DEF Kickstarts, At, Onwards, Kickstart, NoProcess, OpIs, CurrentBuilt, disk, CandidateSound, Idle, Selectable, DeploymentTypeOK, Installing, InstallStep
  <2>5. (ServiceSound /\ ReadySound)'
    BY <1>0, <1>16, <2>1 DEF Kickstarts, At, Onwards, Kickstart, NoProcess, OpIs, ServiceSound, ReadySound, machine, disk, DeploymentTypeOK
  <2>6. (BackupIsCold /\ CommandSound)'
    BY <1>0, <1>16, <2>1 DEF Kickstarts, At, Onwards, Kickstart, NoProcess, OpIs, BackupIsCold, CommandSound, machine, Idle, ServiceSound, Installing, InstallStep
  <2>7. CandidateSound'
    BY <1>0, <1>16, <2>1 DEF Kickstarts, At, Onwards, Kickstart, NoProcess, OpIs, CandidateSound, disk, CurrentSound, CurrentBuilt, CommandSound, Idle, Installing, InstallStep
  <2>8. CurrentSound'
    BY <1>0, <1>16, <2>1 DEF Kickstarts, At, Onwards, Kickstart, NoProcess, OpIs, CurrentSound, CandidateSound, CommandSound, Idle, disk, Installing, InstallStep
  <2>9. PortSound'
    BY <1>0, <1>16, <2>1 DEF Kickstarts, At, Onwards, Kickstart, NoProcess, OpIs, PortSound, CandidateSound, CurrentSound, CommandSound, ServiceSound, disk, machine, Installing, InstallStep
  <2>10. ProgressSound'
    BY <1>0, <1>16, <2>1 DEF Kickstarts, At, Onwards, Kickstart, NoProcess, OpIs, ProgressSound, PortSound, CandidateSound, CurrentSound, CommandSound, ServiceSound, ReadySound, DeploymentTypeOK, disk, machine, Installing, InstallStep
  <2>11. SelectionStands'
    BY <1>0, <1>16, <2>1 DEF Kickstarts, At, Onwards, Kickstart, NoProcess, OpIs, SelectionStands, CurrentSound, CandidateSound, CurrentProven, LeavesBehind, disk, Idle, CommandSound, Installing, InstallStep
  <2> QED
    BY <2>2, <2>3, <2>4, <2>5, <2>6, <2>7, <2>8, <2>9, <2>10, <2>11 DEF DeploymentInd
<1>17. CASE IsReady
  <2>1. OpIs(op.job, IF op.back THEN "quarantine" ELSE "mark", op.candidate, op.previous, op.back, op.report)
    BY <1>0, <1>17, NextStep DEF IsReady, At, Onwards, Answers, CommandSound, CandidateSound, Installing, InstallStep, Idle, Step, Report, Job
  <2>2. DeploymentTypeOK'
    BY <1>0, <1>17, <2>1 DEF IsReady, At, Onwards, Answers, OpIs, DeploymentTypeOK, disk, machine
  <2>3. (ListingSound /\ ProvenWasReady)'
    BY <1>0, <1>17, <2>1, SameDirectories DEF IsReady, At, Onwards, Answers, OpIs, disk, machine
  <2>4. CurrentBuilt'
    BY <1>0, <1>17, <2>1 DEF IsReady, At, Onwards, Answers, OpIs, CurrentBuilt, disk, CandidateSound, Idle, Selectable, DeploymentTypeOK, Installing, InstallStep
  <2>5. (ServiceSound /\ ReadySound)'
    BY <1>0, <1>17, <2>1 DEF IsReady, At, Onwards, Answers, OpIs, ServiceSound, ReadySound, machine, disk, DeploymentTypeOK
  <2>6. (BackupIsCold /\ CommandSound)'
    BY <1>0, <1>17, <2>1 DEF IsReady, At, Onwards, Answers, OpIs, BackupIsCold, CommandSound, machine, Idle, ServiceSound, Installing, InstallStep
  <2>7. CandidateSound'
    BY <1>0, <1>17, <2>1 DEF IsReady, At, Onwards, Answers, OpIs, CandidateSound, disk, CurrentSound, CurrentBuilt, CommandSound, Idle, Installing, InstallStep
  <2>8. CurrentSound'
    BY <1>0, <1>17, <2>1 DEF IsReady, At, Onwards, Answers, OpIs, CurrentSound, CandidateSound, CommandSound, Idle, disk, Installing, InstallStep
  <2>9. PortSound'
    BY <1>0, <1>17, <2>1 DEF IsReady, At, Onwards, Answers, OpIs, PortSound, CandidateSound, CurrentSound, CommandSound, ServiceSound, disk, machine, Installing, InstallStep
  <2>10. ProgressSound'
    BY <1>0, <1>17, <2>1 DEF IsReady, At, Onwards, Answers, OpIs, ProgressSound, PortSound, CandidateSound, CurrentSound, CommandSound, ServiceSound, ReadySound, DeploymentTypeOK, disk, machine, Installing, InstallStep
  <2>11. SelectionStands'
    BY <1>0, <1>17, <2>1 DEF IsReady, At, Onwards, Answers, OpIs, SelectionStands, CurrentSound, CandidateSound, CurrentProven, LeavesBehind, disk, Idle, CommandSound, Installing, InstallStep
  <2> QED
    BY <2>2, <2>3, <2>4, <2>5, <2>6, <2>7, <2>8, <2>9, <2>10, <2>11 DEF DeploymentInd
<1>18. CASE MarksActive
  <2>1. OpIs(op.job, "idle", NoRelease, NoRelease, FALSE, "ok")
    BY <1>0, <1>18, EndsWith DEF MarksActive, At, CommandSound, CandidateSound, Installing, InstallStep, Idle, Step, Report, Job
  <2>2. op.candidate \in Releases /\ status[op.candidate] = "pending"
        /\ \E p \in DOMAIN order : order[p] = op.candidate
    BY <1>0, <1>18, <2>1 DEF MarksActive, At, OpIs, CandidateSound, ListingSound, Installing, InstallStep
  <2>3. DeploymentTypeOK'
    BY <1>0, <1>18, <2>1, <2>2, WithoutLists, ListedFirst DEF MarksActive, At, OpIs, DeploymentTypeOK, ListingSound, machine
  <2>4. ListingSound'
    <3> DEFINE w == Without(op.candidate)
    <3>1. /\ w \in Seq(Releases)
          /\ \A i, k \in DOMAIN w : w[i] = w[k] => i = k
          /\ \A x \in Releases :
               (\E i \in DOMAIN w : w[i] = x)
                 <=> x # op.candidate /\ \E i \in DOMAIN order : order[i] = x
      BY <1>0, <2>2, WithoutLists DEF DeploymentTypeOK, ListingSound
    <3>2. /\ order' = <<op.candidate>> \o w
          /\ status' = [status EXCEPT ![op.candidate] = "proven"]
      BY <1>18 DEF MarksActive
    <3> HIDE DEF w
    <3>3. /\ \A i, k \in DOMAIN order' : order'[i] = order'[k] => i = k
          /\ \A x \in Releases :
               (\E i \in DOMAIN order' : order'[i] = x)
                 <=> x = op.candidate \/ \E i \in DOMAIN w : w[i] = x
      <4>1. op.candidate \in Releases
        BY <2>2
      <4>2. \A i \in DOMAIN w : w[i] # op.candidate
        BY <3>1, <4>1
      <4>3. order' = First(op.candidate, w)
        BY <3>2 DEF First
      <4> QED
        BY <3>1, <4>1, <4>2, <4>3, FirstLists
    <3>4. \A x \in Releases :
            (\E i \in DOMAIN order' : order'[i] = x)
              <=> x = op.candidate \/ \E i \in DOMAIN order : order[i] = x
      BY <3>1, <3>3
    <3>5. \A x \in Releases :
            status'[x] = IF x = op.candidate THEN "proven" ELSE status[x]
      BY <1>0, <3>2 DEF DeploymentTypeOK
    <3> QED
      BY <1>0, <3>3, <3>4, <3>5 DEF ListingSound
  <2>5. (CurrentBuilt /\ ProvenWasReady)'
    BY <1>0, <1>18, <2>1, <2>2 DEF MarksActive, At, OpIs, CurrentBuilt, ProvenWasReady, ProgressSound, machine, DeploymentTypeOK, Installing, InstallStep
  <2>6. (ServiceSound /\ ReadySound)'
    BY <1>0, <1>18, <2>1 DEF MarksActive, At, OpIs, ServiceSound, ReadySound, machine, disk, DeploymentTypeOK
  <2>7. (BackupIsCold /\ CommandSound)'
    BY <1>0, <1>18, <2>1 DEF MarksActive, At, OpIs, BackupIsCold, CommandSound, machine, Idle, ServiceSound, Installing, InstallStep
  <2>8. (CandidateSound /\ CurrentSound /\ PortSound /\ ProgressSound)'
    BY <1>0, <1>18, <2>1, Outside DEF MarksActive, At, OpIs, CommandSound, Idle, Installing, InstallStep
  <2>9. SelectionStands'
    BY <1>0, <1>18, <2>1, <2>2 DEF MarksActive, At, OpIs, SelectionStands, CurrentSound, CandidateSound, CurrentProven, DeploymentTypeOK, Installing, InstallStep
  <2> QED
    BY <2>2, <2>3, <2>4, <2>5, <2>6, <2>7, <2>8, <2>9 DEF DeploymentInd
<1>19. CASE DropsCurrent
  <2>1. OpIs(op.job, "dropPlist", op.candidate, op.previous, op.back, op.report)
    BY <1>0, <1>19, NextStep DEF DropsCurrent, At, Onwards, CommandSound, CandidateSound, Installing, InstallStep, Idle, Step, Report, Job
  <2>2. DeploymentTypeOK'
    BY <1>0, <1>19, <2>1 DEF DropsCurrent, At, Onwards, OpIs, DeploymentTypeOK, disk, machine
  <2>3. (ListingSound /\ ProvenWasReady)'
    BY <1>0, <1>19, <2>1, SameDirectories DEF DropsCurrent, At, Onwards, OpIs, disk, machine
  <2>4. CurrentBuilt'
    BY <1>0, <1>19, <2>1 DEF DropsCurrent, At, Onwards, OpIs, CurrentBuilt, disk, CandidateSound, Idle, Selectable, DeploymentTypeOK, Installing, InstallStep
  <2>5. (ServiceSound /\ ReadySound)'
    BY <1>0, <1>19, <2>1 DEF DropsCurrent, At, Onwards, OpIs, ServiceSound, ReadySound, machine, disk, DeploymentTypeOK
  <2>6. (BackupIsCold /\ CommandSound)'
    BY <1>0, <1>19, <2>1 DEF DropsCurrent, At, Onwards, OpIs, BackupIsCold, CommandSound, machine, Idle, ServiceSound, Installing, InstallStep
  <2>7. CandidateSound'
    BY <1>0, <1>19, <2>1 DEF DropsCurrent, At, Onwards, OpIs, CandidateSound, disk, CurrentSound, CurrentBuilt, CommandSound, Idle, Installing, InstallStep
  <2>8. CurrentSound'
    BY <1>0, <1>19, <2>1 DEF DropsCurrent, At, Onwards, OpIs, CurrentSound, CandidateSound, CommandSound, Idle, disk, Installing, InstallStep
  <2>9. PortSound'
    BY <1>0, <1>19, <2>1 DEF DropsCurrent, At, Onwards, OpIs, PortSound, CandidateSound, CurrentSound, CommandSound, ServiceSound, disk, machine, Installing, InstallStep
  <2>10. ProgressSound'
    BY <1>0, <1>19, <2>1 DEF DropsCurrent, At, Onwards, OpIs, ProgressSound, PortSound, CandidateSound, CurrentSound, CommandSound, ServiceSound, ReadySound, DeploymentTypeOK, disk, machine, Installing, InstallStep
  <2>11. SelectionStands'
    BY <1>0, <1>19, <2>1 DEF DropsCurrent, At, Onwards, OpIs, SelectionStands, CurrentSound, CandidateSound, CurrentProven, LeavesBehind, disk, Idle, CommandSound, Installing, InstallStep
  <2> QED
    BY <2>2, <2>3, <2>4, <2>5, <2>6, <2>7, <2>8, <2>9, <2>10, <2>11 DEF DeploymentInd
<1>20. CASE DropsPlist
  <2>1. OpIs(op.job, "quarantine", op.candidate, op.previous, op.back, op.report)
    BY <1>0, <1>20, NextStep DEF DropsPlist, At, Onwards, CommandSound, CandidateSound, Installing, InstallStep, Idle, Step, Report, Job
  <2>2. DeploymentTypeOK'
    BY <1>0, <1>20, <2>1 DEF DropsPlist, At, Onwards, OpIs, DeploymentTypeOK, disk, machine
  <2>3. (ListingSound /\ ProvenWasReady)'
    BY <1>0, <1>20, <2>1, SameDirectories DEF DropsPlist, At, Onwards, OpIs, disk, machine
  <2>4. CurrentBuilt'
    BY <1>0, <1>20, <2>1 DEF DropsPlist, At, Onwards, OpIs, CurrentBuilt, disk, CandidateSound, Idle, Selectable, DeploymentTypeOK, Installing, InstallStep
  <2>5. (ServiceSound /\ ReadySound)'
    BY <1>0, <1>20, <2>1 DEF DropsPlist, At, Onwards, OpIs, ServiceSound, ReadySound, machine, disk, DeploymentTypeOK
  <2>6. (BackupIsCold /\ CommandSound)'
    BY <1>0, <1>20, <2>1 DEF DropsPlist, At, Onwards, OpIs, BackupIsCold, CommandSound, machine, Idle, ServiceSound, Installing, InstallStep
  <2>7. CandidateSound'
    BY <1>0, <1>20, <2>1 DEF DropsPlist, At, Onwards, OpIs, CandidateSound, disk, CurrentSound, CurrentBuilt, CommandSound, Idle, Installing, InstallStep
  <2>8. CurrentSound'
    BY <1>0, <1>20, <2>1 DEF DropsPlist, At, Onwards, OpIs, CurrentSound, CandidateSound, CommandSound, Idle, disk, Installing, InstallStep
  <2>9. PortSound'
    BY <1>0, <1>20, <2>1 DEF DropsPlist, At, Onwards, OpIs, PortSound, CandidateSound, CurrentSound, CommandSound, ServiceSound, disk, machine, Installing, InstallStep
  <2>10. ProgressSound'
    BY <1>0, <1>20, <2>1 DEF DropsPlist, At, Onwards, OpIs, ProgressSound, PortSound, CandidateSound, CurrentSound, CommandSound, ServiceSound, ReadySound, DeploymentTypeOK, disk, machine, Installing, InstallStep
  <2>11. SelectionStands'
    BY <1>0, <1>20, <2>1 DEF DropsPlist, At, Onwards, OpIs, SelectionStands, CurrentSound, CandidateSound, CurrentProven, LeavesBehind, disk, Idle, CommandSound, Installing, InstallStep
  <2> QED
    BY <2>2, <2>3, <2>4, <2>5, <2>6, <2>7, <2>8, <2>9, <2>10, <2>11 DEF DeploymentInd
<1>21. CASE Quarantines
  <2>1. /\ op.at = "quarantine" /\ UNCHANGED <<current, plist, machine, loose>>
        /\ \/ /\ status' = [status EXCEPT ![op.candidate] = "failed"]
              /\ order' = Without(op.candidate)
              /\ OpIs(op.job, "idle", NoRelease, NoRelease, FALSE, "failed")
           \/ UNCHANGED <<status, order>> /\ OpIs(op.job, "idle", NoRelease, NoRelease, FALSE, "error")
    BY <1>0, <1>21, EndsWith DEF Quarantines, At, CommandSound, CandidateSound, Installing, InstallStep, Idle, Step, Report, Job
  <2>2. op.candidate \in Releases /\ status[op.candidate] = "pending"
        /\ \E p \in DOMAIN order : order[p] = op.candidate
    BY <1>0, <2>1 DEF disk, machine, OpIs, CandidateSound, ListingSound, Installing, InstallStep
  <2>3. DeploymentTypeOK'
    <3>1. order' \in Seq(Releases) /\ status' \in [Releases -> {"absent", "pending", "proven", "failed"}]
      <4>1. CASE UNCHANGED <<status, order>>
        BY <1>0, <4>1 DEF DeploymentTypeOK
      <4>2. CASE order' = Without(op.candidate) /\ status' = [status EXCEPT ![op.candidate] = "failed"]
        BY <1>0, <2>2, <4>2, WithoutLists DEF DeploymentTypeOK, ListingSound
      <4> QED
        BY <2>1, <4>1, <4>2
    <3> QED
      BY <1>0, <2>1, <3>1 DEF DeploymentTypeOK, machine, OpIs
  <2>4. ListingSound'
    <3>1. CASE UNCHANGED <<status, order>>
      BY <1>0, <3>1 DEF ListingSound
    <3>2. CASE order' = Without(op.candidate) /\ status' = [status EXCEPT ![op.candidate] = "failed"]
      <4>1. /\ \A i, k \in DOMAIN order' : order'[i] = order'[k] => i = k
            /\ \A x \in Releases :
                 (\E i \in DOMAIN order' : order'[i] = x)
                   <=> x # op.candidate /\ \E i \in DOMAIN order : order[i] = x
        BY <1>0, <2>2, <3>2, WithoutLists DEF DeploymentTypeOK, ListingSound
      <4> QED
        BY <1>0, <2>2, <3>2, <4>1 DEF ListingSound, DeploymentTypeOK
    <3> QED
      BY <2>1, <3>1, <3>2
  <2>5. (CurrentBuilt /\ ProvenWasReady)'
    BY <1>0, <2>1, <2>2 DEF disk, machine, OpIs, CurrentBuilt, ProvenWasReady, machine, DeploymentTypeOK, Installing, InstallStep
  <2>6. (ServiceSound /\ ReadySound)'
    BY <1>0, <2>1 DEF disk, machine, OpIs, ServiceSound, ReadySound, machine, disk, DeploymentTypeOK
  <2>7. (BackupIsCold /\ CommandSound)'
    BY <1>0, <2>1 DEF disk, machine, OpIs, BackupIsCold, CommandSound, machine, Idle, ServiceSound, Installing, InstallStep
  <2>8. (CandidateSound /\ CurrentSound /\ PortSound /\ ProgressSound)'
    BY <1>0, <2>1, Outside DEF disk, machine, OpIs, CommandSound, Idle, Installing, InstallStep
  <2>9. SelectionStands'
    BY <1>0, <2>1, <2>2 DEF disk, machine, OpIs, SelectionStands, CurrentSound, CandidateSound, CurrentProven, DeploymentTypeOK, Installing, InstallStep
  <2> QED
    BY <2>2, <2>3, <2>4, <2>5, <2>6, <2>7, <2>8, <2>9 DEF DeploymentInd
<1>22. CASE Commands
  <2>1. \E job \in Job \ {"install"}, step \in {"start", "stop"} :
          OpIs(job, step, NoRelease, NoRelease, FALSE, "none")
    BY <1>0, <1>22, BeginsAt DEF Commands, Order, CommandSound, CandidateSound, Installing, InstallStep, Idle, Step, Report, Job
  <2>2. DeploymentTypeOK'
    BY <1>0, <1>22, <2>1 DEF Commands, Order, OpIs, DeploymentTypeOK, disk, machine
  <2>3. (ListingSound /\ ProvenWasReady)'
    BY <1>0, <1>22, <2>1, SameDirectories DEF Commands, Order, OpIs, disk, machine
  <2>4. CurrentBuilt'
    BY <1>0, <1>22, <2>1 DEF Commands, Order, OpIs, CurrentBuilt, disk, CandidateSound, Idle, Selectable, DeploymentTypeOK, Installing, InstallStep
  <2>5. (ServiceSound /\ ReadySound)'
    BY <1>0, <1>22, <2>1 DEF Commands, Order, OpIs, ServiceSound, ReadySound, machine, disk, DeploymentTypeOK
  <2>6. (BackupIsCold /\ CommandSound)'
    BY <1>0, <1>22, <2>1 DEF Commands, Order, OpIs, BackupIsCold, CommandSound, machine, Idle, ServiceSound, Installing, InstallStep
  <2>7. (CandidateSound /\ CurrentSound /\ PortSound /\ ProgressSound)'
    BY <1>0, <1>22, <2>1, Outside DEF Commands, Order, OpIs, CommandSound, Idle, Installing, InstallStep
  <2>8. SelectionStands'
    BY <1>0, <1>22, <2>1 DEF Commands, Order, OpIs, SelectionStands, CurrentSound, CandidateSound, CurrentProven, LeavesBehind, disk, Idle, CommandSound, Installing, InstallStep
  <2> QED
    BY <2>2, <2>3, <2>4, <2>5, <2>6, <2>7, <2>8 DEF DeploymentInd
<1>23. CASE Selects
  <2>1. OpIs("rollback", "stop", NoRelease, NoRelease, FALSE, "none")
    BY <1>0, <1>23, BeginsAt DEF Selects, CommandSound, CandidateSound, Installing, InstallStep, Idle, Step, Report, Job
  <2>2. \E i \in DOMAIN order : /\ current' = order[i] /\ order[i] \in Releases
                               /\ status[order[i]] = "proven"
    BY <1>0, <1>23, <2>1, ElementOfSeq, LenProperties DEF Selects, OpIs, Selectable, ListingSound, DeploymentTypeOK
  <2>3. DeploymentTypeOK'
    BY <1>0, <1>23, <2>1, <2>2 DEF Selects, OpIs, DeploymentTypeOK, machine
  <2>4. (ListingSound /\ ProvenWasReady)'
    BY <1>0, <1>23, <2>1, SameDirectories DEF Selects, OpIs, disk, machine
  <2>5. (CurrentBuilt /\ SelectionStands)'
    BY <1>0, <1>23, <2>1, <2>2 DEF Selects, OpIs, CurrentBuilt, SelectionStands, CurrentProven, Selectable, ListingSound
  <2>6. (ServiceSound /\ ReadySound)'
    BY <1>0, <1>23, <2>1 DEF Selects, OpIs, ServiceSound, ReadySound, machine, disk, DeploymentTypeOK
  <2>7. (BackupIsCold /\ CommandSound)'
    BY <1>0, <1>23, <2>1 DEF Selects, OpIs, BackupIsCold, CommandSound, machine, Idle, ServiceSound, Installing, InstallStep
  <2>8. (CandidateSound /\ CurrentSound /\ PortSound /\ ProgressSound)'
    BY <1>0, <1>23, <2>1, Outside DEF Selects, OpIs, CommandSound, Idle, Installing, InstallStep
  <2> QED
    BY <2>2, <2>3, <2>4, <2>5, <2>6, <2>7, <2>8 DEF DeploymentInd
<1>24. CASE Fails
  <2>1. OpIs(op.job, "idle", NoRelease, NoRelease, FALSE, "error")
        \/ /\ op.at = "stop" /\ op.job = "backup"
           /\ OpIs(op.job, "start", op.candidate, op.previous, TRUE, op.report)
    BY <1>0, <1>24, EndsWith, TrappedStarts DEF Fails, CommandSound, CandidateSound, Installing, InstallStep, Idle, Step, Report, Job
  <2>2. DeploymentTypeOK'
    BY <1>0, <1>24, <2>1 DEF Fails, OpIs, DeploymentTypeOK, disk, machine
  <2>3. (ListingSound /\ ProvenWasReady)'
    BY <1>0, <1>24, <2>1, SameDirectories DEF Fails, OpIs, disk, machine
  <2>4. CurrentBuilt'
    BY <1>0, <1>24, <2>1 DEF Fails, OpIs, CurrentBuilt, disk, CandidateSound, Idle, Selectable, DeploymentTypeOK, Installing, InstallStep
  <2>5. (ServiceSound /\ ReadySound)'
    BY <1>0, <1>24, <2>1 DEF Fails, OpIs, ServiceSound, ReadySound, machine, disk, DeploymentTypeOK
  <2>6. (BackupIsCold /\ CommandSound)'
    BY <1>0, <1>24, <2>1 DEF Fails, OpIs, BackupIsCold, CommandSound, machine, Idle, ServiceSound, Installing, InstallStep
  <2>7. (CandidateSound /\ CurrentSound /\ PortSound /\ ProgressSound)'
    BY <1>0, <1>24, <2>1, Outside DEF Fails, OpIs, CommandSound, Idle, Installing, InstallStep
  <2>8. SelectionStands'
    BY <1>0, <1>24, <2>1 DEF Fails, OpIs, SelectionStands, CurrentSound, CandidateSound, CurrentProven, LeavesBehind, disk, Idle, CommandSound, Installing, InstallStep
  <2> QED
    BY <2>2, <2>3, <2>4, <2>5, <2>6, <2>7, <2>8 DEF DeploymentInd
<1>25. CASE Stops
  <2>1. \/ \E step \in {"start", "remove", "check"} : OpIs(op.job, step, op.candidate, op.previous, op.back, op.report)
        \/ OpIs(op.job, "idle", NoRelease, NoRelease, FALSE, "ok")
    BY <1>0, <1>25, StoppedGoes DEF Stops, Bootout, CommandSound, CandidateSound, Installing, InstallStep, Idle, Step, Report, Job
  <2>2. DeploymentTypeOK'
    BY <1>0, <1>25, <2>1 DEF Stops, Bootout, OpIs, DeploymentTypeOK, disk, machine
  <2>3. (ListingSound /\ ProvenWasReady)'
    BY <1>0, <1>25, <2>1, SameDirectories DEF Stops, Bootout, OpIs, disk, machine
  <2>4. CurrentBuilt'
    BY <1>0, <1>25, <2>1 DEF Stops, Bootout, OpIs, CurrentBuilt, disk, CandidateSound, Idle, Selectable, DeploymentTypeOK, Installing, InstallStep
  <2>5. (ServiceSound /\ ReadySound)'
    BY <1>0, <1>25, <2>1 DEF Stops, Bootout, OpIs, ServiceSound, ReadySound, machine, disk, DeploymentTypeOK
  <2>6. (BackupIsCold /\ CommandSound)'
    BY <1>0, <1>25, <2>1 DEF Stops, Bootout, OpIs, BackupIsCold, CommandSound, machine, Idle, ServiceSound, Installing, InstallStep
  <2>7. (CandidateSound /\ CurrentSound /\ PortSound /\ ProgressSound)'
    BY <1>0, <1>25, <2>1, Outside DEF Stops, Bootout, OpIs, CommandSound, Idle, Installing, InstallStep
  <2>8. SelectionStands'
    BY <1>0, <1>25, <2>1 DEF Stops, Bootout, OpIs, SelectionStands, CurrentSound, CandidateSound, CurrentProven, LeavesBehind, disk, Idle, CommandSound, Installing, InstallStep
  <2> QED
    BY <2>2, <2>3, <2>4, <2>5, <2>6, <2>7, <2>8 DEF DeploymentInd
<1>26. CASE Starts
  <2>1. OpIs(op.job, "kick", op.candidate, op.previous, op.back, op.report)
    BY <1>0, <1>26, GoesTo DEF Starts, CanBootstrap, Strict, CommandSound, CandidateSound, Installing, InstallStep, Idle, Step, Report, Job
  <2>2. DeploymentTypeOK'
    BY <1>0, <1>26, <2>1 DEF Starts, CanBootstrap, Strict, OpIs, DeploymentTypeOK, disk, machine
  <2>3. (ListingSound /\ ProvenWasReady)'
    BY <1>0, <1>26, <2>1, SameDirectories DEF Starts, CanBootstrap, Strict, OpIs, disk, machine
  <2>4. CurrentBuilt'
    BY <1>0, <1>26, <2>1 DEF Starts, CanBootstrap, Strict, OpIs, CurrentBuilt, disk, CandidateSound, Idle, Selectable, DeploymentTypeOK, Installing, InstallStep
  <2>5. (ServiceSound /\ ReadySound)'
    BY <1>0, <1>26, <2>1 DEF Starts, CanBootstrap, Strict, OpIs, ServiceSound, ReadySound, machine, disk, DeploymentTypeOK
  <2>6. (BackupIsCold /\ CommandSound)'
    BY <1>0, <1>26, <2>1 DEF Starts, CanBootstrap, Strict, OpIs, BackupIsCold, CommandSound, machine, Idle, ServiceSound, Installing, InstallStep
  <2>7. (CandidateSound /\ CurrentSound /\ PortSound /\ ProgressSound)'
    BY <1>0, <1>26, <2>1, Outside DEF Starts, CanBootstrap, Strict, OpIs, CommandSound, Idle, Installing, InstallStep
  <2>8. SelectionStands'
    BY <1>0, <1>26, <2>1 DEF Starts, CanBootstrap, Strict, OpIs, SelectionStands, CurrentSound, CandidateSound, CurrentProven, LeavesBehind, disk, Idle, CommandSound, Installing, InstallStep
  <2> QED
    BY <2>2, <2>3, <2>4, <2>5, <2>6, <2>7, <2>8 DEF DeploymentInd
<1>27. CASE Kicks
  <2>1. OpIs(op.job, "answer", op.candidate, op.previous, op.back, op.report)
    BY <1>0, <1>27, GoesTo DEF Kicks, Kickstart, NoProcess, CommandSound, CandidateSound, Installing, InstallStep, Idle, Step, Report, Job
  <2>2. DeploymentTypeOK'
    BY <1>0, <1>27, <2>1 DEF Kicks, Kickstart, NoProcess, OpIs, DeploymentTypeOK, disk, machine
  <2>3. (ListingSound /\ ProvenWasReady)'
    BY <1>0, <1>27, <2>1, SameDirectories DEF Kicks, Kickstart, NoProcess, OpIs, disk, machine
  <2>4. CurrentBuilt'
    BY <1>0, <1>27, <2>1 DEF Kicks, Kickstart, NoProcess, OpIs, CurrentBuilt, disk, CandidateSound, Idle, Selectable, DeploymentTypeOK, Installing, InstallStep
  <2>5. (ServiceSound /\ ReadySound)'
    BY <1>0, <1>27, <2>1 DEF Kicks, Kickstart, NoProcess, OpIs, ServiceSound, ReadySound, machine, disk, DeploymentTypeOK
  <2>6. (BackupIsCold /\ CommandSound)'
    BY <1>0, <1>27, <2>1 DEF Kicks, Kickstart, NoProcess, OpIs, BackupIsCold, CommandSound, machine, Idle, ServiceSound, Installing, InstallStep
  <2>7. (CandidateSound /\ CurrentSound /\ PortSound /\ ProgressSound)'
    BY <1>0, <1>27, <2>1, Outside DEF Kicks, Kickstart, NoProcess, OpIs, CommandSound, Idle, Installing, InstallStep
  <2>8. SelectionStands'
    BY <1>0, <1>27, <2>1 DEF Kicks, Kickstart, NoProcess, OpIs, SelectionStands, CurrentSound, CandidateSound, CurrentProven, LeavesBehind, disk, Idle, CommandSound, Installing, InstallStep
  <2> QED
    BY <2>2, <2>3, <2>4, <2>5, <2>6, <2>7, <2>8 DEF DeploymentInd
<1>28. CASE IsAnswered
  <2>1. OpIs(op.job, "idle", NoRelease, NoRelease, FALSE, "error") \/ OpIs(op.job, "idle", NoRelease, NoRelease, FALSE, "ok")
    BY <1>0, <1>28, EndsWith DEF IsAnswered, CommandSound, CandidateSound, Installing, InstallStep, Idle, Step, Report, Job
  <2>2. DeploymentTypeOK'
    BY <1>0, <1>28, <2>1 DEF IsAnswered, OpIs, DeploymentTypeOK, disk, machine
  <2>3. (ListingSound /\ ProvenWasReady)'
    BY <1>0, <1>28, <2>1, SameDirectories DEF IsAnswered, OpIs, disk, machine
  <2>4. CurrentBuilt'
    BY <1>0, <1>28, <2>1 DEF IsAnswered, OpIs, CurrentBuilt, disk, CandidateSound, Idle, Selectable, DeploymentTypeOK, Installing, InstallStep
  <2>5. (ServiceSound /\ ReadySound)'
    BY <1>0, <1>28, <2>1 DEF IsAnswered, OpIs, ServiceSound, ReadySound, machine, disk, DeploymentTypeOK
  <2>6. (BackupIsCold /\ CommandSound)'
    BY <1>0, <1>28, <2>1 DEF IsAnswered, OpIs, BackupIsCold, CommandSound, machine, Idle, ServiceSound, Installing, InstallStep
  <2>7. (CandidateSound /\ CurrentSound /\ PortSound /\ ProgressSound)'
    BY <1>0, <1>28, <2>1, Outside DEF IsAnswered, OpIs, CommandSound, Idle, Installing, InstallStep
  <2>8. SelectionStands'
    BY <1>0, <1>28, <2>1 DEF IsAnswered, OpIs, SelectionStands, CurrentSound, CandidateSound, CurrentProven, LeavesBehind, disk, Idle, CommandSound, Installing, InstallStep
  <2> QED
    BY <2>2, <2>3, <2>4, <2>5, <2>6, <2>7, <2>8 DEF DeploymentInd
<1>29. CASE RemovesPlist
  <2>1. OpIs(op.job, "idle", NoRelease, NoRelease, FALSE, "ok")
    BY <1>0, <1>29, EndsWith DEF RemovesPlist, CommandSound, CandidateSound, Installing, InstallStep, Idle, Step, Report, Job
  <2>2. DeploymentTypeOK'
    BY <1>0, <1>29, <2>1 DEF RemovesPlist, OpIs, DeploymentTypeOK, disk, machine
  <2>3. (ListingSound /\ ProvenWasReady)'
    BY <1>0, <1>29, <2>1, SameDirectories DEF RemovesPlist, OpIs, disk, machine
  <2>4. CurrentBuilt'
    BY <1>0, <1>29, <2>1 DEF RemovesPlist, OpIs, CurrentBuilt, disk, CandidateSound, Idle, Selectable, DeploymentTypeOK, Installing, InstallStep
  <2>5. (ServiceSound /\ ReadySound)'
    BY <1>0, <1>29, <2>1 DEF RemovesPlist, OpIs, ServiceSound, ReadySound, machine, disk, DeploymentTypeOK
  <2>6. (BackupIsCold /\ CommandSound)'
    BY <1>0, <1>29, <2>1 DEF RemovesPlist, OpIs, BackupIsCold, CommandSound, machine, Idle, ServiceSound, Installing, InstallStep
  <2>7. (CandidateSound /\ CurrentSound /\ PortSound /\ ProgressSound)'
    BY <1>0, <1>29, <2>1, Outside DEF RemovesPlist, OpIs, CommandSound, Idle, Installing, InstallStep
  <2>8. SelectionStands'
    BY <1>0, <1>29, <2>1 DEF RemovesPlist, OpIs, SelectionStands, CurrentSound, CandidateSound, CurrentProven, LeavesBehind, disk, Idle, CommandSound, Installing, InstallStep
  <2> QED
    BY <2>2, <2>3, <2>4, <2>5, <2>6, <2>7, <2>8 DEF DeploymentInd
<1>30. CASE Checks
  <2>1. \/ service = "absent" /\ OpIs(op.job, "copying", op.candidate, op.previous, op.back, op.report)
        \/ OpIs(op.job, "start", op.candidate, op.previous, TRUE, op.report)
    BY <1>0, <1>30, GoesTo, TrappedStarts DEF Checks, CommandSound, CandidateSound, Installing, InstallStep, Idle, Step, Report, Job
  <2>2. DeploymentTypeOK'
    BY <1>0, <1>30, <2>1 DEF Checks, OpIs, DeploymentTypeOK, disk, machine
  <2>3. (ListingSound /\ ProvenWasReady)'
    BY <1>0, <1>30, <2>1, SameDirectories DEF Checks, OpIs, disk, machine
  <2>4. CurrentBuilt'
    BY <1>0, <1>30, <2>1 DEF Checks, OpIs, CurrentBuilt, disk, CandidateSound, Idle, Selectable, DeploymentTypeOK, Installing, InstallStep
  <2>5. (ServiceSound /\ ReadySound)'
    BY <1>0, <1>30, <2>1 DEF Checks, OpIs, ServiceSound, ReadySound, machine, disk, DeploymentTypeOK
  <2>6. (BackupIsCold /\ CommandSound)'
    BY <1>0, <1>30, <2>1 DEF Checks, OpIs, BackupIsCold, CommandSound, machine, Idle, ServiceSound, Installing, InstallStep
  <2>7. (CandidateSound /\ CurrentSound /\ PortSound /\ ProgressSound)'
    BY <1>0, <1>30, <2>1, Outside DEF Checks, OpIs, CommandSound, Idle, Installing, InstallStep
  <2>8. SelectionStands'
    BY <1>0, <1>30, <2>1 DEF Checks, OpIs, SelectionStands, CurrentSound, CandidateSound, CurrentProven, LeavesBehind, disk, Idle, CommandSound, Installing, InstallStep
  <2> QED
    BY <2>2, <2>3, <2>4, <2>5, <2>6, <2>7, <2>8 DEF DeploymentInd
<1>31. CASE Copies
  <2>1. \/ /\ op.at = "copying"
           /\ OpIs(op.job, "copied", op.candidate, op.previous, op.back, op.report)
        \/ /\ op.at = "copied"
           /\ OpIs(op.job, "start", op.candidate, op.previous, op.back, op.report)
        \/ OpIs(op.job, "idle", NoRelease, NoRelease, FALSE, "ok")
        \/ OpIs(op.job, "start", op.candidate, op.previous, TRUE, op.report)
        \/ OpIs(op.job, "idle", NoRelease, NoRelease, FALSE, "error")
    BY <1>0, <1>31, GoesTo, EndsWith, TrappedStarts DEF Copies, CommandSound, CandidateSound, Installing, InstallStep, Idle, Step, Report, Job
  <2>2. DeploymentTypeOK'
    BY <1>0, <1>31, <2>1 DEF Copies, OpIs, DeploymentTypeOK, disk, machine
  <2>3. (ListingSound /\ ProvenWasReady)'
    BY <1>0, <1>31, <2>1, SameDirectories DEF Copies, OpIs, disk, machine
  <2>4. CurrentBuilt'
    BY <1>0, <1>31, <2>1 DEF Copies, OpIs, CurrentBuilt, disk, CandidateSound, Idle, Selectable, DeploymentTypeOK, Installing, InstallStep
  <2>5. (ServiceSound /\ ReadySound)'
    BY <1>0, <1>31, <2>1 DEF Copies, OpIs, ServiceSound, ReadySound, machine, disk, DeploymentTypeOK
  <2>6. (BackupIsCold /\ CommandSound)'
    BY <1>0, <1>31, <2>1 DEF Copies, OpIs, BackupIsCold, CommandSound, machine, Idle, ServiceSound, Installing, InstallStep
  <2>7. (CandidateSound /\ CurrentSound /\ PortSound /\ ProgressSound)'
    BY <1>0, <1>31, <2>1, Outside DEF Copies, OpIs, CommandSound, Idle, Installing, InstallStep
  <2>8. SelectionStands'
    BY <1>0, <1>31, <2>1 DEF Copies, OpIs, SelectionStands, CurrentSound, CandidateSound, CurrentProven, LeavesBehind, disk, Idle, CommandSound, Installing, InstallStep
  <2> QED
    BY <2>2, <2>3, <2>4, <2>5, <2>6, <2>7, <2>8 DEF DeploymentInd
<1>32. CASE UNCHANGED vars
  BY <1>0, <1>32 DEF DeploymentInd, vars, DeploymentTypeOK, ListingSound, CurrentBuilt, ServiceSound,
     ReadySound, CommandSound, CandidateSound, CurrentSound, PortSound, ProgressSound,
     SelectionStands, CurrentProven, BackupIsCold, ProvenWasReady, Installing, Idle
<1> QED
  BY <1>1, <1>2, <1>3, <1>4, <1>5, <1>6, <1>7, <1>8, <1>9, <1>10,
     <1>11, <1>12, <1>13, <1>14, <1>15, <1>16, <1>17, <1>18, <1>19, <1>20,
     <1>21, <1>22, <1>23, <1>24, <1>25, <1>26, <1>27, <1>28, <1>29, <1>30,
     <1>31, <1>32
     DEF Next, Install, Gatewayctl

-----------------------------------------------------------------------------
(* Theorems *)

LEMMA InitSound == Init => DeploymentInd
<1> SUFFICES ASSUME Init PROVE DeploymentInd
  OBVIOUS
<1> USE ReleasesAssumption DEF Init
<1>1. op \in Op /\ Idle /\ ~Installing
  BY DEF Op, Job, Step, Report, Idle, Installing, InstallStep
<1>2. order \in Seq(Releases) /\ DOMAIN order = {}
  OBVIOUS
<1>3. DeploymentTypeOK
  <2>1. database \in Nat
    OBVIOUS
  <2> QED
    BY <1>1, <1>2, <2>1 DEF DeploymentTypeOK, NoProcess
<1>4. ListingSound /\ CurrentBuilt /\ ProvenWasReady
  BY <1>2 DEF ListingSound, CurrentBuilt, ProvenWasReady
<1>5. ServiceSound /\ ReadySound /\ BackupIsCold
  BY DEF ServiceSound, ReadySound, BackupIsCold, NoProcess
<1>6. CommandSound /\ SelectionStands
  BY <1>1 DEF CommandSound, SelectionStands, CurrentProven
<1>7. CandidateSound /\ CurrentSound /\ PortSound /\ ProgressSound
  BY <1>1 DEF CandidateSound, CurrentSound, PortSound, ProgressSound
<1> QED
  BY <1>3, <1>4, <1>5, <1>6, <1>7 DEF DeploymentInd

LEMMA DeploymentInvariant == Spec => []DeploymentInd
<1>1. DeploymentInd /\ [Next]_vars => DeploymentInd'
  BY StepSound
<1> QED
  BY InitSound, <1>1, PTL DEF Spec

\* The variables are typed; between two commands `current' points to a release
\* that has been marked, or to none, unless a command was killed or could not go
\* back; and no process has the database open while gatewayctl copies it.
THEOREM DeploymentCorrect == Spec => []DeploymentInv
<1>1. DeploymentInd => DeploymentInv
  BY DEF DeploymentInd, DeploymentInv, CurrentStands, SelectionStands, Idle, Installing, InstallStep
<1> QED
  BY DeploymentInvariant, <1>1, PTL

\* Whatever fails or is killed, and in whatever order processes die, only a release
\* that has itself answered /readyz is ever marked.
THEOREM OnlyReadyIsProven == Spec => []ProvenWasReady
<1>1. DeploymentInd => ProvenWasReady
  BY DEF DeploymentInd
<1> QED
  BY DeploymentInvariant, <1>1, PTL

\* An installation that reports a failure has gone back to where it came from, and
\* no rollback finds its candidate.
THEOREM FailureGoesBack == Spec => FailureRestores
<1> DEFINE Restores ==
      op.at = "quarantine" /\ op'.report = "failed" =>
        /\ current' = op.previous
        /\ ~\E i \in DOMAIN order' : order'[i] = op.candidate
        /\ IF op.previous = NoRelease
             THEN ~plist' /\ service' # "loaded"
             ELSE service' = "loaded" /\ database' <= Supports[op.previous]
<1>1. ASSUME DeploymentInd, Next, op.at = "quarantine", op'.report = "failed"
      PROVE  Restores
  <2>1. op \in Op /\ Installing /\ op.report = "none" /\ op.job = "install"
    BY <1>1 DEF DeploymentInd, DeploymentTypeOK, CommandSound, Installing, InstallStep, Idle
  <2>2. Quarantines /\ Ends("failed") /\ order' = Without(op.candidate)
    <3>1. UNCHANGED op => FALSE
      BY <1>1, <2>1
    <3>2. \A report \in Report \ {"failed"} : ~Ends(report)
      BY <1>1, <2>1, EndsWith DEF OpIs
    <3>3. ~Build /\ ~Commands /\ ~Selects
      BY <1>1 DEF Build, Commands, Order, Selects, Idle
    <3>4. ~Prepares /\ ~Activates /\ ~WritesPlist /\ ~BootsOut /\ ~PortFree /\ ~Bootstraps
          /\ ~Kickstarts /\ ~IsReady /\ ~MarksActive /\ ~DropsCurrent /\ ~DropsPlist
      BY <1>1 DEF Prepares, Activates, WritesPlist, BootsOut, PortFree, Bootstraps, Kickstarts,
         IsReady, MarksActive, DropsCurrent, DropsPlist, At
    <3>5. ~Throws /\ ~Killed
      BY <1>1, <3>2 DEF Throws, Killed, Report
    <3>6. ~Fails /\ ~Stops /\ ~Starts /\ ~Kicks /\ ~IsAnswered /\ ~RemovesPlist /\ ~Checks /\ ~Copies
      BY <1>1 DEF Fails, Stops, Starts, Kicks, IsAnswered, RemovesPlist, Checks, Copies
    <3>7. ~Launches /\ ~Migrates /\ ~BecomesReady /\ ~Dies /\ ~ForeignComes /\ ~ForeignLeaves
      BY <3>1 DEF Launches, Migrates, BecomesReady, Dies, ForeignComes, ForeignLeaves
    <3>8. Quarantines
      BY <1>1, <3>3, <3>4, <3>5, <3>6, <3>7 DEF Next, Install, Gatewayctl
    <3> QED
      BY <3>2, <3>8 DEF Quarantines, Report
  <2>3. op.candidate \in Releases /\ \E p \in DOMAIN order : order[p] = op.candidate
    BY <1>1, <2>1 DEF DeploymentInd, CandidateSound, ListingSound
  <2>4. ~\E i \in DOMAIN order' : order'[i] = op.candidate
    BY <1>1, <2>2, <2>3, WithoutLists DEF DeploymentInd, DeploymentTypeOK, ListingSound
  <2>5. current' = op.previous
    BY <1>1, <2>1, <2>2 DEF DeploymentInd, CurrentSound, Quarantines
  <2>6. IF op.previous = NoRelease
          THEN ~plist' /\ service' # "loaded"
          ELSE service' = "loaded" /\ database' <= Supports[op.previous]
    BY <1>1, <2>1, <2>2 DEF DeploymentInd, ProgressSound, Quarantines, machine
  <2> QED
    BY <2>4, <2>5, <2>6
<1>2. ASSUME DeploymentInd, [Next]_vars PROVE [Restores]_vars
  BY <1>1, <1>2 DEF vars
<1> QED
  BY DeploymentInvariant, <1>2, PTL DEF Spec, FailureRestores
=============================================================================
