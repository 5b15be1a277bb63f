--------------------------- MODULE InstallerProofs ----------------------------
(***************************************************************************)
(* Proofs about Installer, for any number of files: what each step of      *)
(* install.sh has established when the next one begins, of the             *)
(* installation (Forward) and of the rollback while it believes that it    *)
(* succeeds (Backward).                                                    *)
(***************************************************************************)
EXTENDS Installer, TLAPS

\* The script started no service from the new files; nor did systemd.
NoneNew == bds # "new" /\ watcher # "new"
NoneRevived == bds # "revived" /\ watcher # "revived"

Untouched ==
  target = was.target /\ link = was.link /\ loaded = "old" /\ enabled = was.enabled

SavedIsOld == \A t \in Targets : was.target[t] # "new"

FilesNew == (\A t \in Targets : target[t] = "new") /\ link = "new"

Forward ==
  /\ pc \in {"save", "refused"} => Untouched
  /\ pc \in {"save", "stop"} => next = 1
  /\ pc = "install" => \A t \in Targets : t < next => target[t] = "new"
  /\ pc \in {"compile", "reload", "verify", "enable", "restart", "wait", "done"} => FilesNew
  /\ pc \in {"verify", "enable", "restart", "wait", "done"} => loaded = "new"
  /\ pc \in {"restart", "wait", "done"} => enabled
  /\ pc = "wait" => bds # "old" /\ watcher # "old"
  /\ pc = "done" /\ restart => {bds, watcher} \subseteq {"new", "revived"}

\* Until Restart the script starts nothing.
Services ==
  /\ pc \in {"restart", "wait"} \/ attempted => restart
  /\ pc \in (Steps \ {"wait"}) \cup {"refused"} => ~attempted
  /\ pc \in Steps \cup {"refused", "stop", "done"} /\ ~attempted => NoneNew

Backward ==
  rollback_ok =>
    /\ pc \in {"restore", "rereload", "reenable", "rebds", "rewatcher", "compare"} => NoneNew
    /\ pc = "restore" => \A t \in Targets : t < next => target[t] = was.target[t]
    /\ pc \in {"rereload", "reenable", "rebds", "rewatcher", "compare", "failed"} =>
         target = was.target /\ link = was.link
    /\ pc \in {"reenable", "rebds", "rewatcher", "compare", "failed"} => loaded = "old"
    /\ pc = "aborted" /\ ~attempted => NoneNew
    /\ pc = "failed" => NoneNew /\ AsItWas
    /\ attempted /\ pc \in {"restore", "rereload", "reenable", "rebds"} =>
         bds = "off" /\ watcher = "off"
    /\ attempted /\ pc \in {"rewatcher", "compare", "failed"} => NoneRevived

Inv == TypeOK /\ SavedIsOld /\ Forward /\ Services /\ Backward

------------------------------------------------------------------------------
LEMMA SaveKeeps ==
  ASSUME Inv, Save
  PROVE  Inv'
<1>1. TypeOK'
  <2>1. /\ enabled' \in BOOLEAN /\ restart' \in BOOLEAN
        /\ attempted' \in BOOLEAN /\ rollback_ok' \in BOOLEAN
    BY DEF Inv, TypeOK, Save, Facts, files, services
  <2>2. pc' \in Steps \cup RollbackSteps \cup Ends /\ next' \in 1..(Last + 1)
    BY InstallerAssumption DEF Inv, TypeOK, Steps, RollbackSteps, Ends, Save, Facts, files,
       services
  <2>3. target' \in [Targets -> Versions] /\ link' \in Versions /\ loaded' \in {"old", "new"}
    BY DEF Inv, TypeOK, Versions, Save, Facts, files, services
  <2>4. bds' \in Processes /\ watcher' \in Processes
    BY DEF Inv, TypeOK, Processes, Down, Save, Facts, files, services
  <2>5. UNCHANGED was
    BY DEF Save, Facts, files, services
  <2>. QED  BY <2>1, <2>2, <2>3, <2>4, <2>5 DEF Inv, TypeOK
<1>2. SavedIsOld'
  BY DEF Inv, SavedIsOld, Save, Facts, files, services
<1>3. Forward'
  BY InstallerAssumption DEF Inv, TypeOK, Targets, Processes, Down, Forward, Untouched,
     FilesNew, Save, Facts, files, services
<1>4. Services'
  BY DEF Inv, TypeOK, Services, NoneNew, Steps, Save, Facts, files, services
<1>5. Backward'
  BY DEF Inv, TypeOK, Targets, Backward, NoneNew, NoneRevived, AsItWas, Save, Facts, files,
     services
<1>. QED  BY <1>1, <1>2, <1>3, <1>4, <1>5 DEF Inv

LEMMA InstallKeeps ==
  ASSUME Inv, Install
  PROVE  Inv'
<1>1. TypeOK'
  <2>1. /\ enabled' \in BOOLEAN /\ restart' \in BOOLEAN
        /\ attempted' \in BOOLEAN /\ rollback_ok' \in BOOLEAN
    BY DEF Inv, TypeOK, Install, Goto, Trap, Facts, services
  <2>2. pc' \in Steps \cup RollbackSteps \cup Ends /\ next' \in 1..(Last + 1)
    BY InstallerAssumption DEF Inv, TypeOK, Steps, RollbackSteps, Ends, Targets, Install,
       Goto, Trap, Facts, services
  <2>3. target' \in [Targets -> Versions] /\ link' \in Versions /\ loaded' \in {"old", "new"}
    BY DEF Inv, TypeOK, Versions, Install, Goto, Trap, Facts, services
  <2>4. bds' \in Processes /\ watcher' \in Processes
    BY DEF Inv, TypeOK, Processes, Down, Install, Goto, Trap, Facts, services
  <2>5. UNCHANGED was
    BY DEF Install, Goto, Trap, Facts, services
  <2>. QED  BY <2>1, <2>2, <2>3, <2>4, <2>5 DEF Inv, TypeOK
<1>2. SavedIsOld'
  BY DEF Inv, SavedIsOld, Install, Goto, Trap, Facts, services
<1>3. Forward'
  BY InstallerAssumption DEF Inv, TypeOK, Targets, Processes, Down, Forward, Untouched,
     FilesNew, Install, Goto, Trap, Facts, services
<1>4. Services'
  BY DEF Inv, TypeOK, Services, NoneNew, Steps, Install, Goto, Trap, Facts, services
<1>5. Backward'
  BY DEF Inv, TypeOK, Targets, Backward, NoneNew, NoneRevived, AsItWas, Install, Goto, Trap,
     Facts, services
<1>. QED  BY <1>1, <1>2, <1>3, <1>4, <1>5 DEF Inv

LEMMA LinkKeeps ==
  ASSUME Inv, Link
  PROVE  Inv'
<1>1. TypeOK'
  <2>1. /\ enabled' \in BOOLEAN /\ restart' \in BOOLEAN
        /\ attempted' \in BOOLEAN /\ rollback_ok' \in BOOLEAN
    BY DEF Inv, TypeOK, Link, Goto, Trap, Facts, services
  <2>2. pc' \in Steps \cup RollbackSteps \cup Ends /\ next' \in 1..(Last + 1)
    BY InstallerAssumption DEF Inv, TypeOK, Steps, RollbackSteps, Ends, Targets, Link, Goto,
       Trap, Facts, services
  <2>3. target' \in [Targets -> Versions] /\ link' \in Versions /\ loaded' \in {"old", "new"}
    BY DEF Inv, TypeOK, Versions, Link, Goto, Trap, Facts, services
  <2>4. bds' \in Processes /\ watcher' \in Processes
    BY DEF Inv, TypeOK, Processes, Down, Link, Goto, Trap, Facts, services
  <2>5. UNCHANGED was
    BY DEF Link, Goto, Trap, Facts, services
  <2>. QED  BY <2>1, <2>2, <2>3, <2>4, <2>5 DEF Inv, TypeOK
<1>2. SavedIsOld'
  BY DEF Inv, SavedIsOld, Link, Goto, Trap, Facts, services
<1>3. Forward'
  BY InstallerAssumption DEF Inv, TypeOK, Targets, Processes, Down, Forward, Untouched,
     FilesNew, Link, Goto, Trap, Facts, services
<1>4. Services'
  BY DEF Inv, TypeOK, Services, NoneNew, Steps, Link, Goto, Trap, Facts, services
<1>5. Backward'
  BY DEF Inv, TypeOK, Targets, Backward, NoneNew, NoneRevived, AsItWas, Link, Goto, Trap,
     Facts, services
<1>. QED  BY <1>1, <1>2, <1>3, <1>4, <1>5 DEF Inv

LEMMA CompileKeeps ==
  ASSUME Inv, Compile
  PROVE  Inv'
<1>1. TypeOK'
  <2>1. /\ enabled' \in BOOLEAN /\ restart' \in BOOLEAN
        /\ attempted' \in BOOLEAN /\ rollback_ok' \in BOOLEAN
    BY DEF Inv, TypeOK, Compile, Goto, Trap, Facts, files, services
  <2>2. pc' \in Steps \cup RollbackSteps \cup Ends /\ next' \in 1..(Last + 1)
    BY InstallerAssumption DEF Inv, TypeOK, Steps, RollbackSteps, Ends, Compile, Goto, Trap,
       Facts, files, services
  <2>3. target' \in [Targets -> Versions] /\ link' \in Versions /\ loaded' \in {"old", "new"}
    BY DEF Inv, TypeOK, Versions, Compile, Goto, Trap, Facts, files, services
  <2>4. bds' \in Processes /\ watcher' \in Processes
    BY DEF Inv, TypeOK, Processes, Down, Compile, Goto, Trap, Facts, files, services
  <2>5. UNCHANGED was
    BY DEF Compile, Goto, Trap, Facts, files, services
  <2>. QED  BY <2>1, <2>2, <2>3, <2>4, <2>5 DEF Inv, TypeOK
<1>2. SavedIsOld'
  BY DEF Inv, SavedIsOld, Compile, Goto, Trap, Facts, files, services
<1>3. Forward'
  BY InstallerAssumption DEF Inv, TypeOK, Targets, Processes, Down, Forward, Untouched,
     FilesNew, Compile, Goto, Trap, Facts, files, services
<1>4. Services'
  BY DEF Inv, TypeOK, Services, NoneNew, Steps, Compile, Goto, Trap, Facts, files, services
<1>5. Backward'
  BY DEF Inv, TypeOK, Targets, Backward, NoneNew, NoneRevived, AsItWas, Compile, Goto, Trap,
     Facts, files, services
<1>. QED  BY <1>1, <1>2, <1>3, <1>4, <1>5 DEF Inv

LEMMA ReloadKeeps ==
  ASSUME Inv, Reload
  PROVE  Inv'
<1>1. TypeOK'
  <2>1. /\ enabled' \in BOOLEAN /\ restart' \in BOOLEAN
        /\ attempted' \in BOOLEAN /\ rollback_ok' \in BOOLEAN
    BY DEF Inv, TypeOK, Reload, Goto, Trap, Facts, services
  <2>2. pc' \in Steps \cup RollbackSteps \cup Ends /\ next' \in 1..(Last + 1)
    BY InstallerAssumption DEF Inv, TypeOK, Steps, RollbackSteps, Ends, Reload, Goto, Trap,
       Facts, services
  <2>3. target' \in [Targets -> Versions] /\ link' \in Versions /\ loaded' \in {"old", "new"}
    BY DEF Inv, TypeOK, Versions, Reload, Goto, Trap, Facts, services
  <2>4. bds' \in Processes /\ watcher' \in Processes
    BY DEF Inv, TypeOK, Processes, Down, Reload, Goto, Trap, Facts, services
  <2>5. UNCHANGED was
    BY DEF Reload, Goto, Trap, Facts, services
  <2>. QED  BY <2>1, <2>2, <2>3, <2>4, <2>5 DEF Inv, TypeOK
<1>2. SavedIsOld'
  BY DEF Inv, SavedIsOld, Reload, Goto, Trap, Facts, services
<1>3. Forward'
  BY InstallerAssumption DEF Inv, TypeOK, Targets, Processes, Down, Forward, Untouched,
     FilesNew, Reload, Goto, Trap, Facts, services
<1>4. Services'
  BY DEF Inv, TypeOK, Services, NoneNew, Steps, Reload, Goto, Trap, Facts, services
<1>5. Backward'
  BY DEF Inv, TypeOK, Targets, Backward, NoneNew, NoneRevived, AsItWas, Reload, Goto, Trap,
     Facts, services
<1>. QED  BY <1>1, <1>2, <1>3, <1>4, <1>5 DEF Inv

LEMMA VerifyKeeps ==
  ASSUME Inv, Verify
  PROVE  Inv'
<1>1. TypeOK'
  <2>1. /\ enabled' \in BOOLEAN /\ restart' \in BOOLEAN
        /\ attempted' \in BOOLEAN /\ rollback_ok' \in BOOLEAN
    BY DEF Inv, TypeOK, Verify, Goto, Trap, Facts, files, services
  <2>2. pc' \in Steps \cup RollbackSteps \cup Ends /\ next' \in 1..(Last + 1)
    BY InstallerAssumption DEF Inv, TypeOK, Steps, RollbackSteps, Ends, Verify, Goto, Trap,
       Facts, files, services
  <2>3. target' \in [Targets -> Versions] /\ link' \in Versions /\ loaded' \in {"old", "new"}
    BY DEF Inv, TypeOK, Versions, Verify, Goto, Trap, Facts, files, services
  <2>4. bds' \in Processes /\ watcher' \in Processes
    BY DEF Inv, TypeOK, Processes, Down, Verify, Goto, Trap, Facts, files, services
  <2>5. UNCHANGED was
    BY DEF Verify, Goto, Trap, Facts, files, services
  <2>. QED  BY <2>1, <2>2, <2>3, <2>4, <2>5 DEF Inv, TypeOK
<1>2. SavedIsOld'
  BY DEF Inv, SavedIsOld, Verify, Goto, Trap, Facts, files, services
<1>3. Forward'
  BY InstallerAssumption DEF Inv, TypeOK, Targets, Processes, Down, Forward, Untouched,
     FilesNew, Verify, Goto, Trap, Facts, files, services
<1>4. Services'
  BY DEF Inv, TypeOK, Services, NoneNew, Steps, Verify, Goto, Trap, Facts, files, services
<1>5. Backward'
  BY DEF Inv, TypeOK, Targets, Backward, NoneNew, NoneRevived, AsItWas, Verify, Goto, Trap,
     Facts, files, services
<1>. QED  BY <1>1, <1>2, <1>3, <1>4, <1>5 DEF Inv

LEMMA EnableKeeps ==
  ASSUME Inv, Enable
  PROVE  Inv'
<1>1. TypeOK'
  <2>1. /\ enabled' \in BOOLEAN /\ restart' \in BOOLEAN
        /\ attempted' \in BOOLEAN /\ rollback_ok' \in BOOLEAN
    BY DEF Inv, TypeOK, Enable, Goto, Trap, Facts, services
  <2>2. pc' \in Steps \cup RollbackSteps \cup Ends /\ next' \in 1..(Last + 1)
    <3>1. pc' \in {"restart", "done", "stop"} /\ (next' = next \/ next' = 1)
      BY DEF Enable, Goto, Trap
    <3>. QED  BY <3>1, InstallerAssumption DEF Inv, TypeOK, Steps, RollbackSteps, Ends
  <2>3. target' \in [Targets -> Versions] /\ link' \in Versions /\ loaded' \in {"old", "new"}
    BY DEF Inv, TypeOK, Versions, Enable, Goto, Trap, Facts, services
  <2>4. bds' \in Processes /\ watcher' \in Processes
    BY DEF Inv, TypeOK, Processes, Down, Enable, Goto, Trap, Facts, services
  <2>5. UNCHANGED was
    BY DEF Enable, Goto, Trap, Facts, services
  <2>. QED  BY <2>1, <2>2, <2>3, <2>4, <2>5 DEF Inv, TypeOK
<1>2. SavedIsOld'
  BY DEF Inv, SavedIsOld, Enable, Goto, Trap, Facts, services
<1>3. Forward'
  <2>1. CASE enabled' = TRUE /\ pc' = (IF restart THEN "restart" ELSE "done")
    <3>1. enabled'
      BY <2>1
    <3>2. /\ target' = target /\ link' = link /\ loaded' = loaded /\ pc = "enable"
      BY <2>1 DEF Enable
    <3>3. restart' = restart /\ (pc' = "restart" \/ (pc' = "done" /\ ~restart))
      BY <2>1 DEF Enable, Trap, Facts, Goto
    <3>4. FilesNew /\ loaded = "new"
      BY <3>2 DEF Inv, Forward
    <3>5. FilesNew' /\ loaded' = "new"
      BY <3>2, <3>4 DEF FilesNew
    <3>. QED  BY <3>1, <3>3, <3>5 DEF Forward
  <2>2. CASE pc' = "stop" /\ next' = 1
    BY <2>2 DEF Forward
  <2>3. \/ enabled' = TRUE /\ pc' = (IF restart THEN "restart" ELSE "done")
        \/ pc' = "stop" /\ next' = 1
    BY DEF Enable, Goto, Trap
  <2>. QED  BY <2>1, <2>2, <2>3
<1>4. Services'
  BY DEF Inv, TypeOK, Services, NoneNew, Steps, Enable, Goto, Trap, Facts, services
<1>5. Backward'
  BY DEF Inv, TypeOK, Targets, Backward, NoneNew, NoneRevived, AsItWas, Enable, Goto, Trap,
     Facts, services
<1>. QED  BY <1>1, <1>2, <1>3, <1>4, <1>5 DEF Inv

LEMMA RestartKeeps ==
  ASSUME Inv, Restart
  PROVE  Inv'
<1>1. TypeOK'
  <2>1. /\ enabled' \in BOOLEAN /\ restart' \in BOOLEAN
        /\ attempted' \in BOOLEAN /\ rollback_ok' \in BOOLEAN
    BY DEF Inv, TypeOK, Restart, Goto, Trap, Facts, files, services, Current
  <2>2. pc' \in Steps \cup RollbackSteps \cup Ends /\ next' \in 1..(Last + 1)
    BY InstallerAssumption DEF Inv, TypeOK, Steps, RollbackSteps, Ends, Restart, Goto, Trap,
       Facts, files, services, Current
  <2>3. target' \in [Targets -> Versions] /\ link' \in Versions /\ loaded' \in {"old", "new"}
    BY DEF Inv, TypeOK, Versions, Restart, Goto, Trap, Facts, files, services, Current
  <2>4. bds' \in Processes /\ watcher' \in Processes
    BY DEF Inv, TypeOK, Processes, Down, Restart, Goto, Trap, Facts, files, services,
       Current
  <2>5. UNCHANGED was
    BY DEF Restart, Goto, Trap, Facts, files, services, Current
  <2>. QED  BY <2>1, <2>2, <2>3, <2>4, <2>5 DEF Inv, TypeOK
<1>2. SavedIsOld'
  BY DEF Inv, SavedIsOld, Restart, Goto, Trap, Facts, files, services, Current
<1>3. Forward'
  BY InstallerAssumption DEF Inv, TypeOK, Targets, Processes, Down, Forward, Untouched,
     FilesNew, SavedIsOld, Restart, Goto, Trap, Facts, files, services, Current
<1>4. Services'
  BY InstallerAssumption DEF Inv, TypeOK, Services, NoneNew, Steps, SavedIsOld, Restart,
     Goto, Trap, Facts, files, services, Current
<1>5. Backward'
  BY InstallerAssumption DEF Inv, TypeOK, Targets, Backward, NoneNew, NoneRevived, AsItWas,
     Restart, Goto, Trap, Facts, files, services, Current
<1>. QED  BY <1>1, <1>2, <1>3, <1>4, <1>5 DEF Inv

LEMMA WaitKeeps ==
  ASSUME Inv, Wait
  PROVE  Inv'
<1>1. TypeOK'
  <2>1. /\ enabled' \in BOOLEAN /\ restart' \in BOOLEAN
        /\ attempted' \in BOOLEAN /\ rollback_ok' \in BOOLEAN
    BY DEF Inv, TypeOK, Wait, Goto, Trap, Runs, Facts, files, services
  <2>2. pc' \in Steps \cup RollbackSteps \cup Ends /\ next' \in 1..(Last + 1)
    BY InstallerAssumption DEF Inv, TypeOK, Steps, RollbackSteps, Ends, Wait, Goto, Trap,
       Runs, Facts, files, services
  <2>3. target' \in [Targets -> Versions] /\ link' \in Versions /\ loaded' \in {"old", "new"}
    BY DEF Inv, TypeOK, Versions, Wait, Goto, Trap, Runs, Facts, files, services
  <2>4. bds' \in Processes /\ watcher' \in Processes
    BY DEF Inv, TypeOK, Processes, Down, Wait, Goto, Trap, Runs, Facts, files, services
  <2>5. UNCHANGED was
    BY DEF Wait, Goto, Trap, Runs, Facts, files, services
  <2>. QED  BY <2>1, <2>2, <2>3, <2>4, <2>5 DEF Inv, TypeOK
<1>2. SavedIsOld'
  BY DEF Inv, SavedIsOld, Wait, Goto, Trap, Runs, Facts, files, services
<1>3. Forward'
  BY InstallerAssumption DEF Inv, TypeOK, Targets, Processes, Down, Forward, Untouched,
     FilesNew, Wait, Goto, Trap, Runs, Facts, files, services
<1>4. Services'
  BY DEF Inv, TypeOK, Services, NoneNew, Steps, Wait, Goto, Trap, Runs, Facts, files,
     services
<1>5. Backward'
  BY DEF Inv, TypeOK, Targets, Backward, NoneNew, NoneRevived, AsItWas, Wait, Goto, Trap,
     Runs, Facts, files, services
<1>. QED  BY <1>1, <1>2, <1>3, <1>4, <1>5 DEF Inv

LEMMA StopServicesKeeps ==
  ASSUME Inv, StopServices
  PROVE  Inv'
<1>1. TypeOK'
  <2>1. /\ enabled' \in BOOLEAN /\ restart' \in BOOLEAN
        /\ attempted' \in BOOLEAN /\ rollback_ok' \in BOOLEAN
    BY DEF Inv, TypeOK, StopServices, Goto, Facts, files, services, Try, Stopped, Abort
  <2>2. pc' \in Steps \cup RollbackSteps \cup Ends /\ next' \in 1..(Last + 1)
    BY InstallerAssumption DEF Inv, TypeOK, Steps, RollbackSteps, Ends, StopServices, Goto,
       Facts, files, services, Try, Stopped, Abort
  <2>3. target' \in [Targets -> Versions] /\ link' \in Versions /\ loaded' \in {"old", "new"}
    BY DEF Inv, TypeOK, Versions, StopServices, Goto, Facts, files, services, Try, Stopped,
       Abort
  <2>4. bds' \in Processes /\ watcher' \in Processes
    BY DEF Inv, TypeOK, Processes, Down, StopServices, Goto, Facts, files, services, Try,
       Stopped, Abort
  <2>5. UNCHANGED was
    BY DEF StopServices, Goto, Facts, files, services, Try, Stopped, Abort
  <2>. QED  BY <2>1, <2>2, <2>3, <2>4, <2>5 DEF Inv, TypeOK
<1>2. SavedIsOld'
  BY DEF Inv, SavedIsOld, StopServices, Goto, Facts, files, services, Try, Stopped, Abort
<1>3. Forward'
  BY InstallerAssumption DEF Inv, TypeOK, Targets, Processes, Down, Forward, Untouched,
     FilesNew, StopServices, Goto, Facts, files, services, Try, Stopped, Abort
<1>4. Services'
  BY DEF Inv, TypeOK, Services, NoneNew, Steps, StopServices, Goto, Facts, files, services,
     Try, Stopped, Abort
<1>5. Backward'
  <2>. SUFFICES ASSUME rollback_ok' PROVE Backward'
    BY DEF Backward
  <2>1. CASE pc' = "aborted"
    <3>1. /\ pc = "stop" /\ UNCHANGED <<services, attempted>> /\ rollback_ok
      BY <2>1 DEF StopServices, Goto, Try, Abort
    <3>. QED  BY <2>1, <3>1 DEF Inv, Services, Backward, NoneNew, services
  <2>2. CASE pc' # "aborted"
    <3>1. /\ pc = "stop" /\ pc' = "restore" /\ next' = next /\ attempted' = attempted
          /\ attempted \/ UNCHANGED services
          /\ attempted => bds' = "off" /\ watcher' = "off"
      BY <2>2 DEF StopServices, Goto, Try, Stopped, Abort
    <3>. QED  BY <3>1 DEF Inv, TypeOK, Targets, Forward, Services, Backward, NoneNew,
       services
  <2>. QED  BY <2>1, <2>2
<1>. QED  BY <1>1, <1>2, <1>3, <1>4, <1>5 DEF Inv

LEMMA RestoreKeeps ==
  ASSUME Inv, Restore
  PROVE  Inv'
<1>1. TypeOK'
  <2>1. /\ enabled' \in BOOLEAN /\ restart' \in BOOLEAN
        /\ attempted' \in BOOLEAN /\ rollback_ok' \in BOOLEAN
    BY DEF Inv, TypeOK, Restore, Facts, services, Try
  <2>2. pc' \in Steps \cup RollbackSteps \cup Ends /\ next' \in 1..(Last + 1)
    BY InstallerAssumption DEF Inv, TypeOK, Steps, RollbackSteps, Ends, Targets, Restore,
       Facts, services, Try
  <2>3. target' \in [Targets -> Versions] /\ link' \in Versions /\ loaded' \in {"old", "new"}
    BY DEF Inv, TypeOK, Versions, Restore, Facts, services, Try
  <2>4. bds' \in Processes /\ watcher' \in Processes
    BY DEF Inv, TypeOK, Processes, Down, Restore, Facts, services, Try
  <2>5. UNCHANGED was
    BY DEF Restore, Facts, services, Try
  <2>. QED  BY <2>1, <2>2, <2>3, <2>4, <2>5 DEF Inv, TypeOK
<1>2. SavedIsOld'
  BY DEF Inv, SavedIsOld, Restore, Facts, services, Try
<1>3. Forward'
  BY InstallerAssumption DEF Inv, TypeOK, Targets, Processes, Down, Forward, Untouched,
     FilesNew, Restore, Facts, services, Try
<1>4. Services'
  BY DEF Inv, TypeOK, Services, NoneNew, Steps, Restore, Facts, services, Try
<1>5. Backward'
  <2>. SUFFICES ASSUME rollback_ok' PROVE Backward'
    BY DEF Backward
  <2>1. /\ pc = "restore" /\ pc' = "restore" /\ next \in Targets /\ next' = next + 1
        /\ rollback_ok
        /\ target' = [target EXCEPT ![next] = was.target[next]]
        /\ UNCHANGED <<services, was, attempted>>
    BY DEF Restore, Try, Facts
  <2>. QED  BY <2>1 DEF Inv, TypeOK, Targets, Backward, NoneNew, services
<1>. QED  BY <1>1, <1>2, <1>3, <1>4, <1>5 DEF Inv

LEMMA RelinkKeeps ==
  ASSUME Inv, Relink
  PROVE  Inv'
<1>1. TypeOK'
  <2>1. /\ enabled' \in BOOLEAN /\ restart' \in BOOLEAN
        /\ attempted' \in BOOLEAN /\ rollback_ok' \in BOOLEAN
    BY DEF Inv, TypeOK, Relink, Goto, Facts, services, Try, Abort
  <2>2. pc' \in Steps \cup RollbackSteps \cup Ends /\ next' \in 1..(Last + 1)
    BY InstallerAssumption DEF Inv, TypeOK, Steps, RollbackSteps, Ends, Targets, Relink,
       Goto, Facts, services, Try, Abort
  <2>3. target' \in [Targets -> Versions] /\ link' \in Versions /\ loaded' \in {"old", "new"}
    BY DEF Inv, TypeOK, Versions, Relink, Goto, Facts, services, Try, Abort
  <2>4. bds' \in Processes /\ watcher' \in Processes
    BY DEF Inv, TypeOK, Processes, Down, Relink, Goto, Facts, services, Try, Abort
  <2>5. UNCHANGED was
    BY DEF Relink, Goto, Facts, services, Try, Abort
  <2>. QED  BY <2>1, <2>2, <2>3, <2>4, <2>5 DEF Inv, TypeOK
<1>2. SavedIsOld'
  BY DEF Inv, SavedIsOld, Relink, Goto, Facts, services, Try, Abort
<1>3. Forward'
  BY InstallerAssumption DEF Inv, TypeOK, Targets, Processes, Down, Forward, Untouched,
     FilesNew, Relink, Goto, Facts, services, Try, Abort
<1>4. Services'
  BY DEF Inv, TypeOK, Services, NoneNew, Steps, Relink, Goto, Facts, services, Try, Abort
<1>5. Backward'
  <2>. SUFFICES ASSUME rollback_ok' PROVE Backward'
    BY DEF Backward
  <2>1. CASE pc' = "aborted"
    <3>1. /\ pc = "restore" /\ UNCHANGED <<services, attempted>> /\ rollback_ok
      BY <2>1 DEF Relink, Goto, Try, Abort
    <3>. QED  BY <2>1, <3>1 DEF Inv, Services, Backward, NoneNew, services
  <2>. SUFFICES ASSUME pc' # "aborted" PROVE Backward'
    BY <2>1
  <2>2. /\ pc = "restore" /\ pc' = "rereload" /\ next = Last + 1
        /\ rollback_ok
        /\ link' = was.link /\ UNCHANGED <<target, services, was, attempted>>
    BY DEF Relink, Goto, Try, Facts, Abort
  <2>3. \A t \in Targets : target[t] = was.target[t]
    BY <2>2, InstallerAssumption DEF Inv, Backward, Targets
  <2>4. target = was.target
    BY <2>3 DEF Inv, TypeOK
  <2>. QED  BY <2>2, <2>4 DEF Inv, Backward, NoneNew, services
<1>. QED  BY <1>1, <1>2, <1>3, <1>4, <1>5 DEF Inv

LEMMA RereloadKeeps ==
  ASSUME Inv, Rereload
  PROVE  Inv'
<1>1. TypeOK'
  <2>1. /\ enabled' \in BOOLEAN /\ restart' \in BOOLEAN
        /\ attempted' \in BOOLEAN /\ rollback_ok' \in BOOLEAN
    BY DEF Inv, TypeOK, Rereload, Goto, Facts, services, Try
  <2>2. pc' \in Steps \cup RollbackSteps \cup Ends /\ next' \in 1..(Last + 1)
    BY InstallerAssumption DEF Inv, TypeOK, Steps, RollbackSteps, Ends, Rereload, Goto,
       Facts, services, Try
  <2>3. target' \in [Targets -> Versions] /\ link' \in Versions /\ loaded' \in {"old", "new"}
    BY DEF Inv, TypeOK, Versions, Rereload, Goto, Facts, services, Try
  <2>4. bds' \in Processes /\ watcher' \in Processes
    BY DEF Inv, TypeOK, Processes, Down, Rereload, Goto, Facts, services, Try
  <2>5. UNCHANGED was
    BY DEF Rereload, Goto, Facts, services, Try
  <2>. QED  BY <2>1, <2>2, <2>3, <2>4, <2>5 DEF Inv, TypeOK
<1>2. SavedIsOld'
  BY DEF Inv, SavedIsOld, Rereload, Goto, Facts, services, Try
<1>3. Forward'
  BY InstallerAssumption DEF Inv, TypeOK, Targets, Processes, Down, Forward, Untouched,
     FilesNew, Rereload, Goto, Facts, services, Try
<1>4. Services'
  BY DEF Inv, TypeOK, Services, NoneNew, Steps, Rereload, Goto, Facts, services, Try
<1>5. Backward'
  BY DEF Inv, TypeOK, Targets, Backward, NoneNew, NoneRevived, AsItWas, Rereload, Goto,
     Facts, services, Try
<1>. QED  BY <1>1, <1>2, <1>3, <1>4, <1>5 DEF Inv

LEMMA ReenableKeeps ==
  ASSUME Inv, Reenable
  PROVE  Inv'
<1>1. TypeOK'
  <2>1. /\ enabled' \in BOOLEAN /\ restart' \in BOOLEAN
        /\ attempted' \in BOOLEAN /\ rollback_ok' \in BOOLEAN
    BY DEF Inv, TypeOK, Reenable, Goto, Facts, services, Try
  <2>2. pc' \in Steps \cup RollbackSteps \cup Ends /\ next' \in 1..(Last + 1)
    BY InstallerAssumption DEF Inv, TypeOK, Steps, RollbackSteps, Ends, Reenable, Goto,
       Facts, services, Try
  <2>3. target' \in [Targets -> Versions] /\ link' \in Versions /\ loaded' \in {"old", "new"}
    BY DEF Inv, TypeOK, Versions, Reenable, Goto, Facts, services, Try
  <2>4. bds' \in Processes /\ watcher' \in Processes
    BY DEF Inv, TypeOK, Processes, Down, Reenable, Goto, Facts, services, Try
  <2>5. UNCHANGED was
    BY DEF Reenable, Goto, Facts, services, Try
  <2>. QED  BY <2>1, <2>2, <2>3, <2>4, <2>5 DEF Inv, TypeOK
<1>2. SavedIsOld'
  BY DEF Inv, SavedIsOld, Reenable, Goto, Facts, services, Try
<1>3. Forward'
  BY InstallerAssumption DEF Inv, TypeOK, Targets, Processes, Down, Forward, Untouched,
     FilesNew, Reenable, Goto, Facts, services, Try
<1>4. Services'
  BY DEF Inv, TypeOK, Services, NoneNew, Steps, Reenable, Goto, Facts, services, Try
<1>5. Backward'
  BY DEF Inv, TypeOK, Targets, Backward, NoneNew, NoneRevived, AsItWas, Reenable, Goto,
     Facts, services, Try
<1>. QED  BY <1>1, <1>2, <1>3, <1>4, <1>5 DEF Inv

LEMMA RebdsKeeps ==
  ASSUME Inv, Rebds
  PROVE  Inv'
<1>1. TypeOK'
  <2>1. /\ enabled' \in BOOLEAN /\ restart' \in BOOLEAN
        /\ attempted' \in BOOLEAN /\ rollback_ok' \in BOOLEAN
    BY DEF Inv, TypeOK, Rebds, Goto, Facts, files, services, Try, Stopped, StartBds, Runs,
       Current
  <2>2. pc' \in Steps \cup RollbackSteps \cup Ends /\ next' \in 1..(Last + 1)
    BY InstallerAssumption DEF Inv, TypeOK, Steps, RollbackSteps, Ends, Rebds, Goto, Facts,
       files, services, Try, Stopped, StartBds, Runs, Current
  <2>3. target' \in [Targets -> Versions] /\ link' \in Versions /\ loaded' \in {"old", "new"}
    BY DEF Inv, TypeOK, Versions, Rebds, Goto, Facts, files, services, Try, Stopped,
       StartBds, Runs, Current
  <2>4. bds' \in Processes /\ watcher' \in Processes
    BY DEF Inv, TypeOK, Processes, Down, Rebds, Goto, Facts, files, services, Try, Stopped,
       StartBds, Runs, Current
  <2>5. UNCHANGED was
    BY DEF Rebds, Goto, Facts, files, services, Try, Stopped, StartBds, Runs, Current
  <2>. QED  BY <2>1, <2>2, <2>3, <2>4, <2>5 DEF Inv, TypeOK
<1>2. SavedIsOld'
  BY DEF Inv, SavedIsOld, Rebds, Goto, Facts, files, services, Try, Stopped, StartBds, Runs,
     Current
<1>3. Forward'
  BY InstallerAssumption DEF Inv, TypeOK, Targets, Processes, Down, Forward, Untouched,
     FilesNew, Rebds, Goto, Facts, files, services, Try, Stopped, StartBds, Runs, Current
<1>4. Services'
  BY InstallerAssumption DEF Inv, TypeOK, Services, NoneNew, Steps, Rebds, Goto, Facts,
     files, services, Try, Stopped, StartBds, Runs, Current
<1>5. Backward'
  BY InstallerAssumption DEF Inv, TypeOK, Targets, Backward, NoneNew, NoneRevived, AsItWas,
     Rebds, Goto, Facts, files, services, Try, Stopped, StartBds, Runs, Current
<1>. QED  BY <1>1, <1>2, <1>3, <1>4, <1>5 DEF Inv

LEMMA RewatcherKeeps ==
  ASSUME Inv, Rewatcher
  PROVE  Inv'
<1>1. TypeOK'
  <2>1. /\ enabled' \in BOOLEAN /\ restart' \in BOOLEAN
        /\ attempted' \in BOOLEAN /\ rollback_ok' \in BOOLEAN
    BY DEF Inv, TypeOK, Rewatcher, Goto, Facts, files, services, Try, Current, StartWatcher,
       Runs
  <2>2. pc' \in Steps \cup RollbackSteps \cup Ends /\ next' \in 1..(Last + 1)
    BY InstallerAssumption DEF Inv, TypeOK, Steps, RollbackSteps, Ends, Rewatcher, Goto,
       Facts, files, services, Try, Current, StartWatcher, Runs
  <2>3. target' \in [Targets -> Versions] /\ link' \in Versions /\ loaded' \in {"old", "new"}
    BY DEF Inv, TypeOK, Versions, Rewatcher, Goto, Facts, files, services, Try, Current,
       StartWatcher, Runs
  <2>4. bds' \in Processes /\ watcher' \in Processes
    BY DEF Inv, TypeOK, Processes, Down, Rewatcher, Goto, Facts, files, services, Try,
       Current, StartWatcher, Runs
  <2>5. UNCHANGED was
    BY DEF Rewatcher, Goto, Facts, files, services, Try, Current, StartWatcher, Runs
  <2>. QED  BY <2>1, <2>2, <2>3, <2>4, <2>5 DEF Inv, TypeOK
<1>2. SavedIsOld'
  BY DEF Inv, SavedIsOld, Rewatcher, Goto, Facts, files, services, Try, Current,
     StartWatcher, Runs
<1>3. Forward'
  BY InstallerAssumption DEF Inv, TypeOK, Targets, Processes, Down, Forward, Untouched,
     FilesNew, Rewatcher, Goto, Facts, files, services, Try, Current, StartWatcher, Runs
<1>4. Services'
  BY InstallerAssumption DEF Inv, TypeOK, Services, NoneNew, Steps, Rewatcher, Goto, Facts,
     files, services, Try, Current, StartWatcher, Runs
<1>5. Backward'
  BY InstallerAssumption DEF Inv, TypeOK, Targets, Backward, NoneNew, NoneRevived, AsItWas,
     Rewatcher, Goto, Facts, files, services, Try, Current, StartWatcher, Runs
<1>. QED  BY <1>1, <1>2, <1>3, <1>4, <1>5 DEF Inv

LEMMA CompareKeeps ==
  ASSUME Inv, Compare
  PROVE  Inv'
<1>1. TypeOK'
  <2>1. /\ enabled' \in BOOLEAN /\ restart' \in BOOLEAN
        /\ attempted' \in BOOLEAN /\ rollback_ok' \in BOOLEAN
    BY DEF Inv, TypeOK, Compare, Goto, Facts, files, services, AsItWas, Runs
  <2>2. pc' \in Steps \cup RollbackSteps \cup Ends /\ next' \in 1..(Last + 1)
    BY InstallerAssumption DEF Inv, TypeOK, Steps, RollbackSteps, Ends, Compare, Goto,
       Facts, files, services, AsItWas, Runs
  <2>3. target' \in [Targets -> Versions] /\ link' \in Versions /\ loaded' \in {"old", "new"}
    BY DEF Inv, TypeOK, Versions, Compare, Goto, Facts, files, services, AsItWas, Runs
  <2>4. bds' \in Processes /\ watcher' \in Processes
    BY DEF Inv, TypeOK, Processes, Down, Compare, Goto, Facts, files, services, AsItWas,
       Runs
  <2>5. UNCHANGED was
    BY DEF Compare, Goto, Facts, files, services, AsItWas, Runs
  <2>. QED  BY <2>1, <2>2, <2>3, <2>4, <2>5 DEF Inv, TypeOK
<1>2. SavedIsOld'
  BY DEF Inv, SavedIsOld, Compare, Goto, Facts, files, services, AsItWas, Runs
<1>3. Forward'
  BY InstallerAssumption DEF Inv, TypeOK, Targets, Processes, Down, Forward, Untouched,
     FilesNew, Compare, Goto, Facts, files, services, AsItWas, Runs
<1>4. Services'
  BY DEF Inv, TypeOK, Services, NoneNew, Steps, Compare, Goto, Facts, files, services,
     AsItWas, Runs
<1>5. Backward'
  BY DEF Inv, TypeOK, Targets, Backward, NoneNew, NoneRevived, AsItWas, Compare, Goto,
     Facts, files, services
<1>. QED  BY <1>1, <1>2, <1>3, <1>4, <1>5 DEF Inv

LEMMA DiesKeeps ==
  ASSUME Inv, Dies
  PROVE  Inv'
<1>1. UNCHANGED <<pc, next, target, link, loaded, enabled, was, restart, attempted,
                  rollback_ok>>
  BY DEF Dies, Surroundings, Facts, files
<1>2. pc \notin Ends
  BY DEF Dies
<1>3. TypeOK'
  BY <1>1 DEF Inv, TypeOK, Dies, Processes, Down, Down
<1>4. SavedIsOld'
  BY <1>1 DEF Inv, SavedIsOld
<1>5. /\ bds' = bds \/ bds' \in Down
      /\ watcher' = watcher \/ watcher' \in Down
      /\ bds = "off" => bds' = "off"
      /\ watcher = "off" => watcher' = "off"
  BY DEF Dies, Down, Runs
<1>6. Forward'
  BY <1>1, <1>2, <1>5 DEF Inv, Forward, Untouched, FilesNew, Ends, Down
<1>7. Services'
  BY <1>1, <1>5 DEF Inv, Services, NoneNew, Down
<1>8. Backward'
  BY <1>1, <1>2, <1>5 DEF Inv, Backward, NoneNew, NoneRevived, Ends, Down
<1>. QED  BY <1>3, <1>4, <1>6, <1>7, <1>8 DEF Inv

LEMMA ReviveKeeps ==
  ASSUME Inv, Revive
  PROVE  Inv'
<1>1. UNCHANGED <<pc, next, target, link, loaded, enabled, was, restart, attempted,
                  rollback_ok>>
  BY DEF Revive, Surroundings, Facts, files
<1>2. pc \notin Ends
  BY DEF Revive
<1>3. TypeOK'
  BY <1>1 DEF Inv, TypeOK, Revive, Processes, Down, Down, ByItself, Runs
<1>4. SavedIsOld'
  BY <1>1 DEF Inv, SavedIsOld
<1>5. /\ bds' = bds \/ bds' = ByItself
      /\ watcher' = watcher \/ watcher' = ByItself
      /\ bds # "failed" /\ watcher # "failed" => UNCHANGED <<bds, watcher>>
      /\ ByItself \in {"old", "revived"}
  BY DEF Revive, ByItself
<1>6. Forward'
  <2>1. pc = "wait" => ByItself = "revived"
    BY DEF Inv, Forward, ByItself, Current
  <2>. QED  BY <1>1, <1>2, <1>5, <2>1 DEF Inv, Forward, Untouched, FilesNew, Ends
<1>7. Services'
  BY <1>1, <1>5 DEF Inv, Services, NoneNew
<1>8. Backward'
  <2>1. rollback_ok /\ pc \in {"rewatcher", "compare"} => ByItself = "old"
    BY DEF Inv, Backward, ByItself, Current
  <2>. QED  BY <1>1, <1>2, <1>5, <2>1 DEF Inv, Backward, NoneNew, NoneRevived, Ends
<1>. QED  BY <1>3, <1>4, <1>6, <1>7, <1>8 DEF Inv

LEMMA InitEstablishes == Init => Inv
<1>. SUFFICES ASSUME Init PROVE Inv
  OBVIOUS
<1>1. /\ target \in [Targets -> Versions] /\ link \in Versions
      /\ \A t \in Targets : target[t] # "new"
  BY DEF Init, Versions
<1>2. /\ was.target = target /\ was.link = link /\ was.enabled = enabled
      /\ was.bds = Runs(bds) /\ was.watcher = Runs(watcher)
  BY DEF Init
<1>3. was \in [target : [Targets -> Versions], link : Versions, enabled : BOOLEAN,
                bds : BOOLEAN, watcher : BOOLEAN]
  BY <1>1 DEF Init, Runs
<1>4. attempted \in BOOLEAN /\ rollback_ok \in BOOLEAN /\ restart \in BOOLEAN
      /\ enabled \in BOOLEAN /\ ~attempted
  BY DEF Init
<1>5. /\ pc = "save" /\ next = 1 /\ loaded = "old"
      /\ bds \in Down \cup {"old"} /\ watcher \in Down \cup {"old"}
  BY DEF Init
<1>6. TypeOK
  BY <1>1, <1>3, <1>4, <1>5, InstallerAssumption DEF TypeOK, Steps, Processes, Down
<1>7. SavedIsOld /\ Forward
  BY <1>1, <1>2, <1>5 DEF SavedIsOld, Forward, Untouched
<1>8. Services /\ Backward
  BY <1>2, <1>4, <1>5 DEF Services, Backward, NoneNew, Steps, Down
<1>. QED  BY <1>6, <1>7, <1>8 DEF Inv

LEMMA NextKeeps == Inv /\ [Next]_vars => Inv'
<1>. SUFFICES ASSUME Inv, [Next]_vars PROVE Inv'
  OBVIOUS
<1>1. CASE UNCHANGED vars
  BY <1>1 DEF vars, files, services, Inv, TypeOK, SavedIsOld, Forward, Services, Backward,
     Untouched, FilesNew, NoneNew, NoneRevived, AsItWas
<1>2. CASE Next
  BY <1>2, SaveKeeps, InstallKeeps, LinkKeeps, CompileKeeps, ReloadKeeps, VerifyKeeps,
     EnableKeeps, RestartKeeps, WaitKeeps, StopServicesKeeps, RestoreKeeps, RelinkKeeps,
     RereloadKeeps, ReenableKeeps, RebdsKeeps, RewatcherKeeps, CompareKeeps, DiesKeeps,
     ReviveKeeps DEF Next, Script
<1>. QED  BY <1>1, <1>2

LEMMA InvHolds == Spec => []Inv
  BY InitEstablishes, NextKeeps, PTL DEF Spec

\* Every variable keeps its type, for any number of files.
THEOREM TypeCorrect == Spec => []TypeOK
  BY InvHolds, PTL DEF Inv

LEMMA InvMeansAllOrNothing == Inv => AllOrNothing
<1>. SUFFICES ASSUME Inv PROVE AllOrNothing
  OBVIOUS
<1>1. RestoredOrReported
  BY DEF Inv, Forward, Backward, Services, NoneNew, NoneRevived, Untouched, AsItWas, Steps,
     RestoredOrReported
<1>2. InstalledIsComplete
  BY DEF Inv, Forward, FilesNew, InstalledIsComplete
<1>. QED  BY <1>1, <1>2 DEF AllOrNothing

\* A failed installation leaves all as it was or says that it could not, a
\* successful one is complete, whichever commands and services fail, whatever
\* systemd starts again, and however many files there are (install.sh,
\* rollback).  A service revived from the new files, the server not having been
\* restarted, is outside it; so is a rollback cut off by an unguarded command.
THEOREM NothingIsHalfDone == Spec => []AllOrNothing
  BY InvHolds, InvMeansAllOrNothing, PTL

LEMMA StepIsGentle ==
  ASSUME Inv, Next, ~restart, was.bds, Runs(bds), ~Runs(bds')
  PROVE  Dies
<1>1. ~attempted
  BY DEF Inv, Services
<1>2. bds' # bds
  OBVIOUS
<1>3. ~Script
  BY <1>1, <1>2 DEF Script, Inv, Services, services, Save, Install, Link, Compile, Reload,
     Verify, Enable, Restart, Wait, StopServices, Restore, Relink, Rereload, Reenable,
     Rebds, Rewatcher, Compare, Try, Stopped, Abort, StartBds, StartWatcher
<1>4. ~Revive
  BY <1>2 DEF Revive, Runs, Down
<1>. QED  BY <1>3, <1>4 DEF Next

LEMMA StepStartsOld ==
  ASSUME Inv, [Next]_vars, ~restart, rollback_ok
  PROVE  NoneNew'
<1>1. ~attempted /\ pc # "restart" /\ pc # "wait"
  BY DEF Inv, Services
<1>2. NoneNew
  BY <1>1 DEF Inv, TypeOK, Services, Backward, Steps, RollbackSteps, Ends
<1>3. pc \in {"rebds", "rewatcher"} => Current = "old"
  BY DEF Inv, Backward, Current
<1>4. CASE Script
  BY <1>1, <1>2, <1>3, <1>4 DEF Script, NoneNew, services, Save, Install, Link, Compile,
     Reload, Verify, Enable, Restart, Wait, StopServices, Restore, Relink, Rereload,
     Reenable, Rebds, Rewatcher, Compare, Try, Stopped, Abort, StartBds, StartWatcher
<1>5. CASE Dies
  BY <1>2, <1>5 DEF Dies, Down, NoneNew
<1>6. CASE Revive
  BY <1>2, <1>6 DEF Revive, ByItself, NoneNew
<1>7. CASE UNCHANGED vars
  BY <1>2, <1>7 DEF vars, services, NoneNew
<1>. QED  BY <1>4, <1>5, <1>6, <1>7 DEF Next

\* Without --restart no server that was active is stopped and the script starts
\* no service from new files, whichever commands and services fail and whatever
\* systemd starts again (install.sh, rollback).
THEOREM ServerIsLeftAlone == Spec => ServerUntouchedWithoutRestart
<1>1. Inv /\ [Next]_vars =>
        [~restart => /\ (bds' # "new" /\ watcher' # "new") \/ ~rollback_ok
                     /\ (was.bds /\ Runs(bds) /\ ~Runs(bds')) => Dies]_vars
  <2>. SUFFICES ASSUME Inv, Next, ~restart
                PROVE  /\ (bds' # "new" /\ watcher' # "new") \/ ~rollback_ok
                       /\ (was.bds /\ Runs(bds) /\ ~Runs(bds')) => Dies
    OBVIOUS
  <2>1. (bds' # "new" /\ watcher' # "new") \/ ~rollback_ok
    BY StepStartsOld DEF NoneNew
  <2>2. (was.bds /\ Runs(bds) /\ ~Runs(bds')) => Dies
    BY StepIsGentle
  <2>. QED  BY <2>1, <2>2
<1>. QED  BY <1>1, InvHolds, PTL DEF Spec, ServerUntouchedWithoutRestart

==============================================================================
