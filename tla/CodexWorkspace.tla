--------------------------- MODULE CodexWorkspace ---------------------------
(***************************************************************************)
(* What a Codex run needs before its App Server and leaves behind after    *)
(* it: AppServerLauncher (src/src/adapters/codex/launcher.ts).  On the     *)
(* host that is the version check alone; with Lima a snapshot is copied    *)
(* into the guest first (copySnapshot of lima/client.ts) and removed at    *)
(* the end.                                                                *)
(*                                                                         *)
(* Every step is a child process that closes, fails, or is killed by its   *)
(* timer or the signal of the run.  Killing limactl on the host does not   *)
(* stop what it has started in the guest.                                  *)
(***************************************************************************)
EXTENDS Naturals, Sequences

VARIABLE workspace

Commands == <<"mkdir", "tar", "chown", "chmod", "chmod", "version">>

WorkspaceTypeOK ==
  workspace \in
    [executor: {"host", "lima"},
     \* preparing: a child is at work; failed: its promise was rejected
     at: {"none", "preparing", "failed", "ready", "removing", "gone", "crashed"},
     step: 1 .. Len(Commands),
     children: SUBSET {"exec", "tar", "lima"},   \* processes of the host
     bad: BOOLEAN,         \* one side of the pipe closed with another code than 0
     dir: BOOLEAN,         \* the snapshot's directory, in the guest
     late: BOOLEAN,        \* a mkdir that was killed may still come to its end there
     removed: BOOLEAN]     \* rm -rf came back with 0

\* The next command; a signal that is aborted refuses it before it is spawned.
Runs(w, n, aborted) ==
  IF aborted
    THEN [w EXCEPT !.at = "failed", !.step = n, !.children = {}]
    ELSE [w EXCEPT !.at = "preparing", !.step = n, !.bad = FALSE,
            !.children = IF Commands[n] = "tar" THEN {"tar", "lima"} ELSE {"exec"}]

Proceeds(w, aborted) ==
  IF w.step = Len(Commands)
    THEN [w EXCEPT !.at = "ready", !.children = {}]
    ELSE Runs(w, w.step + 1, aborted)

CommandFails(w) == [w EXCEPT !.at = "failed", !.children = {}]

\* SIGKILL by a timer or the signal.
Kills(w) == [CommandFails(w) EXCEPT !.late = @ \/ (Commands[w.step] = "mkdir" /\ ~w.dir)]

PreparationBegins(aborted) ==
  /\ workspace.at = "none"
  /\ workspace' = Runs(workspace, IF workspace.executor = "lima" THEN 1 ELSE Len(Commands), aborted)

Command == Commands[workspace.step]

\* exec and readHostCliVersion.
ExecEnds(aborted) ==
  /\ workspace.at = "preparing" /\ workspace.children = {"exec"}
  /\ \/ workspace' = Proceeds([workspace EXCEPT !.dir = @ \/ Command = "mkdir"], aborted)
     \/ \E dir \in {workspace.dir, workspace.dir \/ Command = "mkdir"} :
          workspace' = CommandFails([workspace EXCEPT !.dir = dir])
     \/ workspace' = Kills(workspace)

\* pipeTar: complete() when both are closed.
SideCloses(side, aborted) ==
  /\ workspace.at = "preparing" /\ side \in workspace.children
  /\ \E bad \in BOOLEAN :
       LET w == [workspace EXCEPT !.children = @ \ {side}, !.bad = @ \/ bad] IN
       workspace' = IF w.children # {} THEN w
                    ELSE IF w.bad THEN CommandFails(w) ELSE Proceeds(w, aborted)

PipeTimesOut ==
  /\ workspace.at = "preparing" /\ Command = "tar"
  /\ workspace' = Kills(workspace)

\* limactl is gone and tar writes on: lima.stdin emits an error nobody listens to
\* once pipe() has let go of it, and the gateway ends.
PipeBreaks ==
  /\ workspace.at = "preparing" /\ workspace.children = {"tar", "lima"}
  /\ workspace' = [workspace EXCEPT !.at = "crashed", !.children = {}]

WorkspaceAborts ==
  IF workspace.at = "preparing" THEN workspace' = Kills(workspace) ELSE UNCHANGED workspace

\* cleanup(), which the signal does not reach.
Removes ==
  /\ workspace.at \in {"failed", "ready"}
  /\ workspace' =
       IF workspace.executor = "lima"
         THEN [workspace EXCEPT !.at = "removing", !.children = {"exec"}]
         ELSE [workspace EXCEPT !.at = "gone"]

\* A failure of rm, or its timer, is swallowed.
RemovalEnds ==
  /\ workspace.at = "removing"
  /\ \/ workspace' = [workspace EXCEPT !.at = "gone", !.children = {},
                                       !.dir = FALSE, !.removed = TRUE]
     \/ \E dir \in {workspace.dir, FALSE} :
          workspace' = [workspace EXCEPT !.at = "gone", !.children = {}, !.dir = dir]

GuestCatchesUp ==
  /\ workspace.late /\ ~workspace.dir /\ workspace.at # "crashed"
  /\ workspace' = [workspace EXCEPT !.dir = TRUE]

WorkspaceInit ==
  \E executor \in {"host", "lima"} :
    workspace = [executor |-> executor, at |-> "none", step |-> 1, children |-> {},
                 bad |-> FALSE, dir |-> FALSE, late |-> FALSE, removed |-> FALSE]

Prepares(aborted) ==
  \/ PreparationBegins(aborted) \/ ExecEnds(aborted)
  \/ \E side \in {"tar", "lima"} : SideCloses(side, aborted)
  \/ PipeTimesOut \/ PipeBreaks

\* "delete the snapshot after the turn": whatever step failed or was killed and
\* when, no child of the host is left at the end, and a directory in the guest
\* only where the removal itself failed or a killed mkdir outlived it.
NothingLeft ==
  workspace.at = "gone" =>
    /\ workspace.children = {}
    /\ workspace.dir => ~workspace.removed \/ workspace.late
=============================================================================
