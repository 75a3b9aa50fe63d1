------------------------------- MODULE Updater -------------------------------
(***************************************************************************)
(* src/client/updater: the update thread of every running process of       *)
(* s1x.exe compares the files on disk with the server's list, replaces the *)
(* running binary by moving it aside, and downloads the rest on several    *)
(* threads. Processes of the same installation share the disk, downloads   *)
(* fail or are cancelled, a process dies or the disk fills at any step.    *)
(* Windows lets a running image be moved, not deleted nor written.         *)
(***************************************************************************)
EXTENDS Integers, FiniteSets

CONSTANTS
  Procs,     \* processes of the installation
  Data,      \* files besides the binary
  Unlisted,  \* those of them the server's list does not name
  Threads,   \* get_optimal_concurrent_download_count
  MaxFaults  \* bound on crashes and on writes cut short

Host == "s1x.exe"
Dead == "s1x.exe.old"

ASSUME UpdaterAssumption ==
  /\ Host \notin Data /\ Dead \notin Data
  /\ Unlisted \subseteq Data /\ Threads \in Nat \ {0} /\ MaxFaults \in Nat

Listed == {Host} \cup (Data \ Unlisted)

VARIABLES
  disk,     \* content of each file: "none", "partial", "stale", "latest"
  opener,   \* the process that last opened a file for writing
  image,    \* the file a process runs from, "none" when it does not run
  pc,       \* where its update thread is
  tries,    \* delete_old_process_file
  job,      \* per process and file: "skip", "todo", "fetch", "write", "done", "failed"
  outcome,  \* what the last exception says: "ok", "error", "cancelled"
  faults

procVars == <<pc, tries, job, outcome>>
diskVars == <<disk, opener, image>>
updaterVars == <<diskVars, procVars, faults>>

NoJob == [f \in Listed |-> "skip"]

UpdaterInit ==
  /\ disk = [f \in Data \cup {Host, Dead} |-> IF f = Dead THEN "none" ELSE "stale"]
  /\ opener = [f \in Listed |-> "nobody"]
  /\ image = [p \in Procs |-> "none"]
  /\ pc = [p \in Procs |-> "off"] /\ tries = [p \in Procs |-> 0]
  /\ job = [p \in Procs |-> NoJob] /\ outcome = [p \in Procs |-> "ok"]
  /\ faults = 0

Locked(f) == \E p \in Procs : image[p] = f
Complete(f) == disk[f] \in {"stale", "latest"}
Goto(p, l) == pc' = [pc EXCEPT ![p] = l]

\* Mutant: the target is overwritten.
MoveFileReplacing(src, dst) ==
  IF disk[src] # "none"
  THEN /\ disk' = [disk EXCEPT ![dst] = disk[src], ![src] = "none"]
       /\ image' = [q \in Procs |-> IF image[q] = src THEN dst ELSE image[q]]
  ELSE UNCHANGED <<disk, image>>

\* MoveFileA does not overwrite its target; processes go on from the moved file.
MoveFile(src, dst) ==
  IF disk[src] # "none" /\ disk[dst] = "none"
  THEN /\ disk' = [disk EXCEPT ![dst] = disk[src], ![src] = "none"]
       /\ image' = [q \in Procs |-> IF image[q] = src THEN dst ELSE image[q]]
  ELSE UNCHANGED <<disk, image>>

----------------------------------------------------------------------------
StartProcess(p) ==
  /\ image[p] = "none" /\ Complete(Host)
  /\ image' = [image EXCEPT ![p] = Host]
  /\ Goto(p, "delete_old") /\ tries' = [tries EXCEPT ![p] = 0]
  /\ job' = [job EXCEPT ![p] = NoJob] /\ outcome' = [outcome EXCEPT ![p] = "ok"]
  /\ UNCHANGED <<disk, opener, faults>>

\* Two attempts, for the process that was replaced may still run.
DeleteOldProcessFile(p) ==
  /\ pc[p] = "delete_old"
  /\ disk' = IF Locked(Dead) THEN disk ELSE [disk EXCEPT ![Dead] = "none"]
  /\ tries' = [tries EXCEPT ![p] = @ + 1]
  /\ Goto(p, IF disk'[Dead] = "none" \/ tries'[p] = 2 THEN "run" ELSE "delete_old")
  /\ UNCHANGED <<opener, image, job, outcome, faults>>

\* get_outdated_files: a file that is missing, or whose size or hash differs
Outdated == {f \in Listed : disk[f] # "latest"}

\* cleanup_data_directory: the files the list does not name are removed.
CleanUp == disk' = [f \in DOMAIN disk |-> IF f \in Unlisted THEN "none" ELSE disk[f]]

\* file_updater::run up to the choice of what to update, the binary first: without a
\* list nothing is outdated.
Run(p) ==
  /\ pc[p] = "run"
  /\ \E reachable \in BOOLEAN :
       LET outdated == IF reachable THEN Outdated ELSE {}
           now == IF Host \in outdated THEN {Host} ELSE outdated
       IN /\ IF reachable THEN CleanUp ELSE UNCHANGED disk
          /\ job' = [job EXCEPT ![p] = [f \in Listed |-> IF f \in now THEN "todo" ELSE "skip"]]
          /\ Goto(p, IF Host \in outdated THEN "move" ELSE IF outdated = {} THEN "idle" ELSE "files")
          /\ outcome' = [outcome EXCEPT ![p] = IF reachable THEN "ok" ELSE "error"]
  /\ UNCHANGED <<opener, image, tries, faults>>

MoveCurrentProcessFile(p) ==
  /\ pc[p] = "move"
  /\ MoveFile(Host, Dead)
  /\ Goto(p, "host")
  /\ UNCHANGED <<opener, tries, job, outcome, faults>>

----------------------------------------------------------------------------
(* update_files: the threads take one file after the other until one of    *)
(* them failed.                                                            *)

Updating(p) == pc[p] \in {"host", "files"}
Busy(p) == {f \in Listed : job[p][f] \in {"fetch", "write"}}
Failed(p) == \E f \in Listed : job[p][f] = "failed"
SetJob(p, f, state) == job' = [job EXCEPT ![p][f] = state]

\* The listener may find the update cancelled before the first thread starts.
CancelUpdateFiles(p) ==
  /\ Updating(p) /\ \A f \in Listed : job[p][f] \in {"skip", "todo"}
  /\ \E f \in Listed : job[p][f] = "todo" /\ SetJob(p, f, "failed")
  /\ outcome' = [outcome EXCEPT ![p] = "cancelled"]
  /\ UNCHANGED <<diskVars, pc, tries, faults>>

BeginFile(p, f) ==
  /\ Updating(p) /\ job[p][f] = "todo"
  /\ ~Failed(p) /\ Cardinality(Busy(p)) < Threads
  /\ SetJob(p, f, "fetch")
  /\ UNCHANGED <<diskVars, pc, tries, outcome, faults>>

\* The download fails, has another size or hash, is cancelled, or the file cannot be opened.
FailFile(p, f) ==
  /\ job[p][f] = "fetch"
  /\ SetJob(p, f, "failed")
  /\ \E why \in {"error", "cancelled"} : outcome' = [outcome EXCEPT ![p] = why]
  /\ UNCHANGED <<diskVars, pc, tries, faults>>

OpenFile(p, f) ==
  /\ job[p][f] = "fetch" /\ ~Locked(f)
  /\ disk' = [disk EXCEPT ![f] = "partial"] /\ opener' = [opener EXCEPT ![f] = p]
  /\ SetJob(p, f, "write")
  /\ UNCHANGED <<image, pc, tries, outcome, faults>>

\* write_file does not look at the state of the stream: a short write is a success. A
\* file truncated by another process meanwhile is complete when that one is done.
EndFile(p, f) ==
  /\ job[p][f] = "write"
  /\ SetJob(p, f, "done")
  /\ \/ /\ disk' = IF opener[f] = p THEN [disk EXCEPT ![f] = "latest"] ELSE disk
        /\ UNCHANGED faults
     \/ faults < MaxFaults /\ faults' = faults + 1 /\ UNCHANGED disk
  /\ UNCHANGED <<opener, image, pc, tries, outcome>>

JoinThreads(p) == Updating(p) /\ Busy(p) = {} /\ (Failed(p) \/ \A f \in Listed : job[p][f] # "todo")

\* Mutant: the threads' exceptions are not looked at.
UpdatedFilesAnyway(p) ==
  /\ pc[p] = "files" /\ JoinThreads(p)
  /\ outcome' = [outcome EXCEPT ![p] = "ok"]
  /\ Goto(p, "idle")
  /\ UNCHANGED <<diskVars, tries, job, faults>>

\* update() swallows an error and ends the process when the update was cancelled.
UpdatedFiles(p) ==
  /\ pc[p] = "files" /\ JoinThreads(p)
  /\ Goto(p, IF outcome[p] = "cancelled" THEN "terminate" ELSE "idle")
  /\ UNCHANGED <<diskVars, tries, job, outcome, faults>>

UpdatedHost(p) ==
  /\ pc[p] = "host" /\ JoinThreads(p)
  /\ IF Failed(p) THEN MoveFile(Dead, Host) ELSE UNCHANGED <<disk, image>>
  /\ Goto(p, IF ~Failed(p) THEN "relaunch" ELSE IF outcome[p] = "cancelled" THEN "terminate" ELSE "idle")
  /\ UNCHANGED <<opener, tries, job, outcome, faults>>

\* relaunch_self starts the file under the old name, which may not be complete.
Relaunch(p) ==
  /\ pc[p] = "relaunch"
  /\ \/ \E q \in Procs :
          /\ image[q] = "none" /\ Complete(Host)
          /\ image' = [image EXCEPT ![q] = Host]
          /\ pc' = [pc EXCEPT ![p] = "terminate", ![q] = "delete_old"]
          /\ tries' = [tries EXCEPT ![q] = 0] /\ job' = [job EXCEPT ![q] = NoJob]
          /\ outcome' = [outcome EXCEPT ![q] = "ok"]
     \/ Goto(p, "terminate") /\ UNCHANGED <<image, tries, job, outcome>>
  /\ UNCHANGED <<disk, opener, faults>>

Gone(p) == /\ image' = [image EXCEPT ![p] = "none"] /\ Goto(p, "off")
           /\ job' = [job EXCEPT ![p] = NoJob]
           /\ UNCHANGED <<disk, opener, tries, outcome>>

\* TerminateProcess, or the game ends, which joins the update thread.
Terminate(p) == pc[p] \in {"terminate", "idle"} /\ Gone(p) /\ UNCHANGED faults

Crash(p) ==
  /\ image[p] # "none" /\ faults < MaxFaults /\ faults' = faults + 1
  /\ Gone(p)

UpdateThread(p) ==
  \/ DeleteOldProcessFile(p) \/ Run(p) \/ MoveCurrentProcessFile(p)
  \/ CancelUpdateFiles(p) \/ UpdatedFiles(p) \/ UpdatedHost(p) \/ Relaunch(p)
  \/ \E f \in Listed : BeginFile(p, f) \/ FailFile(p, f) \/ OpenFile(p, f) \/ EndFile(p, f)

UpdaterNext == \E p \in Procs : UpdateThread(p) \/ StartProcess(p) \/ Terminate(p) \/ Crash(p)
UpdaterSpec == UpdaterInit /\ [][UpdaterNext]_updaterVars

----------------------------------------------------------------------------
(* Properties *)

\* Contents, images, threads and jobs keep their types.
UpdaterTypeOK ==
  /\ disk \in [Data \cup {Host, Dead} -> {"none", "partial", "stale", "latest"}]
  /\ opener \in [Listed -> Procs \cup {"nobody"}]
  /\ image \in [Procs -> {"none", Host, Dead}]
  /\ pc \in [Procs -> {"off", "delete_old", "run", "move", "host", "files", "idle",
                       "relaunch", "terminate"}]
  /\ outcome \in [Procs -> {"ok", "error", "cancelled"}]
  /\ job \in [Procs -> [Listed -> {"skip", "todo", "fetch", "write", "done", "failed"}]]
  /\ faults \in Nat

\* Whatever the faults, a complete binary is on disk under one of its two names.
SomeBinaryIntact == Complete(Host) \/ Complete(Dead)

\* An update that ended without an exception left every listed file complete, unless
\* another process is writing it again.
SuccessMeansLatest ==
  \A p \in Procs : faults = 0 /\ pc[p] = "idle" /\ outcome[p] = "ok" =>
    \A f \in Listed : disk[f] = "latest" \/ \E q \in Procs : job[q][f] = "write"
=============================================================================
