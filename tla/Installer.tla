------------------------------ MODULE Installer ------------------------------
(***************************************************************************)
(* scripts/install.sh: the installation, and the rollback its ERR trap     *)
(* runs.  Every command may fail; the trap is set once the files that will *)
(* be replaced are saved.  The commands of systemd and of the file system  *)
(* are seen through what they leave behind; at any time a service may die, *)
(* and systemd may start it again by itself.                               *)
(***************************************************************************)
EXTENDS Integers

CONSTANTS
  Last   \* the files installed are 1..Last, in the order of `targets'

ASSUME InstallerAssumption == Last \in Nat \ {0}

Targets == 1..Last
Versions == {"none", "old", "new", "lost"}   \* lost: removed or half written

\* What a running service was started from: the new files by the script, or
\* "revived" from them by systemd.  "failed": dead, and systemd may revive it.
Down == {"off", "failed"}
Processes == Down \cup {"old", "new", "revived"}

VARIABLES
  pc, next,          \* the step; the file the next install or restore handles
  target, link,      \* what each target and `current' hold
  loaded,            \* the unit files systemd works with
  enabled,           \* the watcher's unit is enabled
  bds, watcher,      \* the services
  was,               \* the saved files and the *_was_* variables
  restart, attempted, rollback_ok

files == <<target, link, loaded, enabled>>
services == <<bds, watcher>>
vars == <<pc, next, files, services, was, restart, attempted, rollback_ok>>

Steps == {"save", "install", "link", "compile", "reload", "verify", "enable",
          "restart", "wait"}
RollbackSteps == {"stop", "restore", "rereload", "reenable", "rebds",
                  "rewatcher", "compare"}
Ends == {"done", "refused", "failed", "aborted"}   \* aborted: in the middle of the rollback

TypeOK ==
  /\ pc \in Steps \cup RollbackSteps \cup Ends /\ next \in 1..(Last + 1)
  /\ target \in [Targets -> Versions] /\ link \in Versions
  /\ loaded \in {"old", "new"} /\ enabled \in BOOLEAN
  /\ bds \in Processes /\ watcher \in Processes
  /\ was \in [target : [Targets -> Versions], link : Versions, enabled : BOOLEAN,
              bds : BOOLEAN, watcher : BOOLEAN]
  /\ restart \in BOOLEAN /\ attempted \in BOOLEAN /\ rollback_ok \in BOOLEAN

\* systemctl is-active
Runs(service) == service \notin Down

\* The facts are read and the files saved before anything is changed; the
\* watcher may be left without a server (Requires= does not follow a crash).
Init ==
  /\ pc = "save" /\ next = 1
  /\ target \in [Targets -> {"none", "old"}] /\ link \in {"none", "old"}
  /\ loaded = "old" /\ enabled \in BOOLEAN
  /\ bds \in Down \cup {"old"} /\ watcher \in Down \cup {"old"}
  /\ was = [target |-> target, link |-> link, enabled |-> enabled,
            bds |-> Runs(bds), watcher |-> Runs(watcher)]
  /\ restart \in BOOLEAN /\ attempted = FALSE /\ rollback_ok = TRUE

------------------------------------------------------------------------------
\* A service started now runs the old program only if everything is as it was.
Current ==
  IF target = was.target /\ link = was.link /\ loaded = "old" THEN "old" ELSE "new"

Goto(step) == pc' = step
Facts == <<was, restart>>

\* A failing command of the installation: the ERR trap.
Trap == Goto("stop") /\ next' = 1 /\ UNCHANGED <<Facts, rollback_ok>>

\* Before the trap is set, a failure ends the script; no target was touched.
Save ==
  /\ pc = "save"
  /\ pc' \in {"install", "refused"}
  /\ UNCHANGED <<next, files, services, Facts, attempted, rollback_ok>>

Install ==
  /\ pc = "install" /\ next \in Targets
  /\ UNCHANGED <<link, loaded, enabled, services, attempted>>
  /\ \/ /\ target' = [target EXCEPT ![next] = "new"] /\ next' = next + 1
        /\ UNCHANGED <<pc, Facts, rollback_ok>>
     \/ target' \in {target, [target EXCEPT ![next] = "lost"]} /\ Trap

\* ln -s and mv -T: the link moves at once or not at all.
Link ==
  /\ pc = "install" /\ next = Last + 1
  /\ UNCHANGED <<target, loaded, enabled, services, attempted>>
  /\ \/ link' = "new" /\ Goto("compile") /\ UNCHANGED <<next, Facts, rollback_ok>>
     \/ UNCHANGED link /\ Trap

\* compileall and the `status' command change nothing.
Compile ==
  /\ pc = "compile"
  /\ UNCHANGED <<files, services, attempted>>
  /\ \/ Goto("reload") /\ UNCHANGED <<next, Facts, rollback_ok>>
     \/ Trap

Reload ==
  /\ pc = "reload"
  /\ UNCHANGED <<target, link, enabled, services, attempted>>
  /\ \/ loaded' = "new" /\ Goto("verify") /\ UNCHANGED <<next, Facts, rollback_ok>>
     \/ UNCHANGED loaded /\ Trap

Verify ==
  /\ pc = "verify"
  /\ UNCHANGED <<files, services, attempted>>
  /\ \/ Goto("enable") /\ UNCHANGED <<next, Facts, rollback_ok>>
     \/ Trap

Enable ==
  /\ pc = "enable"
  /\ UNCHANGED <<target, link, loaded, services, attempted>>
  /\ \/ /\ enabled' = TRUE /\ Goto(IF restart THEN "restart" ELSE "done")
        /\ UNCHANGED <<next, Facts, rollback_ok>>
     \/ enabled' \in {enabled, TRUE} /\ Trap

\* The cursor may not be had; systemctl restart may leave anything.  A server
\* that comes up wants the watcher, which may fail to start.
Restart ==
  /\ pc = "restart" /\ attempted' = TRUE
  /\ UNCHANGED files
  /\ \/ /\ bds' = Current /\ watcher' \in Down \cup {Current} /\ Goto("wait")
        /\ UNCHANGED <<next, Facts, rollback_ok>>
     \/ /\ Trap
        /\ \/ UNCHANGED services
           \/ bds' \in Down \cup {Current} /\ watcher' \in Down \cup {Current}

\* "Server started." within a minute, both services active, the FIFO there.
Wait ==
  /\ pc = "wait"
  /\ UNCHANGED <<files, services, attempted>>
  /\ \/ /\ Runs(bds) /\ Runs(watcher) /\ Goto("done")
        /\ UNCHANGED <<next, Facts, rollback_ok>>
     \/ Trap

------------------------------------------------------------------------------
(***************************************************************************)
(* rollback()                                                              *)
(***************************************************************************)
\* `if ! command; then rollback_ok=0; fi' with the command's effect.
Try(effect, noEffect) ==
  \/ effect /\ UNCHANGED rollback_ok
  \/ noEffect /\ rollback_ok' = FALSE

\* PartOf=: the watcher stops with the server; what is stopped is not revived.
Stopped == bds' = "off" /\ watcher' = "off"

\* `set -e' is still on: a command no `if' guards ends the rollback on the spot.
Abort == Goto("aborted") /\ UNCHANGED rollback_ok

\* MUTANT: the services are stopped whether this run restarted them or not.
StopServices_Always ==
  /\ pc = "stop" /\ Goto("restore")
  /\ Try(Stopped, bds' \in {"off", bds} /\ watcher' \in {"off", watcher})
  /\ UNCHANGED <<next, files, Facts, attempted>>

\* The message of the first line may fail to be written.
StopServices ==
  /\ pc = "stop"
  /\ \/ /\ attempted /\ Goto("restore")
        /\ Try(Stopped, bds' \in {"off", bds} /\ watcher' \in {"off", watcher})
     \/ ~attempted /\ Goto("restore") /\ UNCHANGED <<services, rollback_ok>>
     \/ Abort /\ UNCHANGED services
  /\ UNCHANGED <<next, files, Facts, attempted>>

\* rm and cp -a of one target, or rm alone where there was none.
Restore ==
  /\ pc = "restore" /\ next \in Targets
  /\ Try(target' = [target EXCEPT ![next] = was.target[next]],
         \E v \in {target[next], "lost", was.target[next]} :
           target' = [target EXCEPT ![next] = v])
  /\ next' = next + 1
  /\ UNCHANGED <<pc, link, loaded, enabled, services, Facts, attempted>>

\* The saved target of the link is read unguarded.
Relink ==
  /\ pc = "restore" /\ next = Last + 1
  /\ \/ Goto("rereload") /\ Try(link' = was.link, UNCHANGED link)
     \/ was.link # "none" /\ Abort /\ UNCHANGED link
  /\ UNCHANGED <<next, target, loaded, enabled, services, Facts, attempted>>

\* systemd loads whatever the unit files now are.
Rereload ==
  /\ pc = "rereload" /\ Goto("reenable")
  /\ Try(loaded' = IF target = was.target THEN "old" ELSE "new", UNCHANGED loaded)
  /\ UNCHANGED <<next, target, link, enabled, services, Facts, attempted>>

\* A failing `disable' is ignored here; the comparison below sees it.
Reenable ==
  /\ pc = "reenable" /\ Goto("rebds")
  /\ IF was.enabled
     THEN Try(enabled' = TRUE, UNCHANGED enabled)
     ELSE enabled' \in {enabled, FALSE} /\ UNCHANGED rollback_ok
  /\ UNCHANGED <<next, target, link, loaded, services, Facts, attempted>>

\* A server that starts may want the watcher; one that runs is left alone.
StartBds ==
  IF Runs(bds) THEN UNCHANGED services
  ELSE bds' = Current /\ watcher' \in {watcher, IF Runs(watcher) THEN watcher ELSE Current}

Rebds ==
  /\ pc = "rebds" /\ Goto("rewatcher")
  /\ \/ was.bds /\ Try(StartBds, UNCHANGED services)
     \/ ~was.bds /\ Runs(bds) /\ Try(Stopped, UNCHANGED services)
     \/ ~was.bds /\ ~Runs(bds) /\ UNCHANGED <<services, rollback_ok>>
  /\ UNCHANGED <<next, files, Facts, attempted>>

\* Requires=: starting the watcher starts a server that is not running.
StartWatcher ==
  /\ bds' = IF Runs(bds) THEN bds ELSE Current
  /\ watcher' = IF Runs(watcher) THEN watcher ELSE Current

Rewatcher ==
  /\ pc = "rewatcher" /\ Goto("compare")
  /\ \/ was.watcher /\ Try(StartWatcher, UNCHANGED services)
     \/ /\ ~was.watcher /\ Runs(watcher)
        /\ Try(watcher' = "off" /\ UNCHANGED bds, UNCHANGED services)
     \/ ~was.watcher /\ ~Runs(watcher) /\ UNCHANGED <<services, rollback_ok>>
  /\ UNCHANGED <<next, files, Facts, attempted>>

\* MUTANT: whether the watcher is enabled is not compared.
AsItWas_Enabled == Runs(bds) = was.bds /\ Runs(watcher) = was.watcher

AsItWas ==
  /\ Runs(bds) = was.bds /\ Runs(watcher) = was.watcher /\ enabled = was.enabled

\* The message that it failed is unguarded too.
Compare ==
  /\ pc = "compare"
  /\ rollback_ok' = (rollback_ok /\ AsItWas)
  /\ Goto("failed") \/ (~rollback_ok' /\ Goto("aborted"))
  /\ UNCHANGED <<next, files, services, Facts, attempted>>

------------------------------------------------------------------------------
(***************************************************************************)
(* systemd and the services, at any time before the script's last look     *)
(***************************************************************************)
Surroundings == UNCHANGED <<pc, next, files, Facts, attempted, rollback_ok>>

\* A service dies; Requires= does not follow a crash.
Dies ==
  /\ pc \notin Ends /\ Surroundings
  /\ \/ Runs(bds) /\ bds' \in Down /\ UNCHANGED watcher
     \/ Runs(watcher) /\ watcher' \in Down /\ UNCHANGED bds

\* Restart=: systemd starts it again from the files of the moment.  The server
\* brings the watcher (Wants=, PartOf=), the watcher needs it (Requires=).
ByItself == IF Current = "old" THEN "old" ELSE "revived"

Revive ==
  /\ pc \notin Ends /\ Surroundings
  /\ \/ bds = "failed" /\ bds' = ByItself /\ watcher' \in {watcher, ByItself}
     \/ /\ watcher = "failed" /\ watcher' = ByItself
        /\ bds' = IF Runs(bds) THEN bds ELSE ByItself

Script ==
  \/ Save \/ Install \/ Link \/ Compile \/ Reload \/ Verify \/ Enable \/ Restart \/ Wait
  \/ StopServices \/ Restore \/ Relink \/ Rereload \/ Reenable \/ Rebds \/ Rewatcher \/ Compare

Next == Script \/ Dies \/ Revive

Spec == Init /\ [][Next]_vars

------------------------------------------------------------------------------
RestoredOrReported ==
  pc \in {"failed", "refused"} /\ rollback_ok =>
    /\ target = was.target /\ link = was.link /\ loaded = "old"
    /\ enabled = was.enabled
    /\ pc = "failed" => AsItWas
    /\ "new" \notin {bds, watcher}
    /\ attempted => "revived" \notin {bds, watcher}

InstalledIsComplete ==
  pc = "done" =>
    /\ \A t \in Targets : target[t] = "new"
    /\ link = "new" /\ loaded = "new" /\ enabled
    /\ restart => {bds, watcher} \subseteq {"new", "revived"}

\* A failed installation leaves the files, the link, the loaded units, the
\* enabling and the services' activity as they were, or says that it could not
\* ("manual service recovery is required"); it leaves no service it started
\* from the new files, and none systemd started from them if it had restarted
\* the server.  One that succeeds left no part of the old one, and after
\* --restart both services run the new program.  So it is though any command
\* and any service may fail.  Left out, since lines 131-153 do not see it: a
\* service that systemd revived from new files while the script restarted
\* nothing.  A rollback that ends on a command no `if' guards ("aborted")
\* promises nothing.
AllOrNothing == RestoredOrReported /\ InstalledIsComplete

\* Without --restart a server that was active stops only by itself, in a
\* rollback as well, and the script starts no service from new files, unless
\* in a rollback that says it could not restore everything.  What systemd
\* revives meanwhile from new files is not the script's, nor reported by it.
ServerUntouchedWithoutRestart ==
  [][~restart => /\ (bds' # "new" /\ watcher' # "new") \/ ~rollback_ok
                 /\ (was.bds /\ Runs(bds) /\ ~Runs(bds')) => Dies]_vars
=============================================================================
