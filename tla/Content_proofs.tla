--------------------------- MODULE Content_proofs ---------------------------
(***************************************************************************)
(* What the client makes out of files, settings and messages, for any      *)
(* number of processes, files, assets, lines, dvars, scripts, levels, mods *)
(* and fields: what a self-update keeps, translated assets, the in-game    *)
(* console's output, cheats, the scripts of the game and those of the      *)
(* interface, and the formats of the online services.                      *)
(***************************************************************************)
EXTENDS Updater, Language, GameConsole, Dvars, Scripts, UiScripting, Buffers, SequenceLemmas

----------------------------------------------------------------------------
(* updater.cpp *)

\* A process runs from a complete file under one of the binary's two names, and
\* only a process that runs has jobs.
RunsFromBinary ==
  \A p \in Procs :
    /\ pc[p] = "off" <=> image[p] = "none"
    /\ image[p] # "none" => Complete(image[p])
    /\ image[p] = "none" => job[p] = NoJob

IntactInv == UpdaterTypeOK /\ RunsFromBinary /\ SomeBinaryIntact

\* A listed file is the latest, or will be when the one that writes it is done.
Current(f) == disk[f] = "latest" \/ \E q \in Procs : job[q][f] = "write"

\* What is written was truncated, and only the last that opened it completes it.
WritersOwn ==
  \A f \in Listed :
    /\ disk[f] = "partial" => opener[f] \in Procs /\ job[opener[f]][f] = "write"
    /\ \A p \in Procs : job[p][f] = "write" =>
         /\ disk[f] \in {"partial", "latest"}
         /\ opener[f] = p => disk[f] = "partial"

\* Only an old binary is ever moved aside.
MovesOld ==
  /\ disk[Dead] \in {"none", "stale"}
  /\ \A p \in Procs : pc[p] = "move" /\ image[p] = Host => disk[Host] = "stale"

\* The threads run while a process updates, which ends well only with all files current.
JobsDone ==
  \A p \in Procs :
    /\ \A f \in Listed : job[p][f] \in {"fetch", "write"} => Updating(p)
    /\ (pc[p] = "move" \/ Updating(p)) /\ Failed(p) => outcome[p] # "ok"
    /\ pc[p] = "files" => \A f \in Listed : job[p][f] \in {"skip", "done"} => Current(f)
    /\ pc[p] = "idle" /\ outcome[p] = "ok" => \A f \in Listed : Current(f)

LatestInv == IntactInv /\ (faults = 0 => WritersOwn /\ MovesOld /\ JobsDone)

----------------------------------------------------------------------------
(* SomeBinaryIntact *)

\* Between them, the steps of a thread and of a process.
LEMMA UpdaterSteps ==
  ASSUME NEW p \in Procs, UpdateThread(p) \/ StartProcess(p) \/ Terminate(p) \/ Crash(p)
  PROVE  \/ DeleteOldProcessFile(p) \/ Run(p) \/ MoveCurrentProcessFile(p)
         \/ CancelUpdateFiles(p) \/ UpdatedFiles(p) \/ UpdatedHost(p) \/ Relaunch(p)
         \/ (\E f \in Listed : BeginFile(p, f)) \/ (\E f \in Listed : FailFile(p, f))
         \/ (\E f \in Listed : OpenFile(p, f)) \/ (\E f \in Listed : EndFile(p, f))
         \/ StartProcess(p) \/ Terminate(p) \/ Crash(p)
BY DEF UpdateThread

\* A move between the binary's names takes the processes with it, and loses nothing.
LEMMA MoveKeepsBinary ==
  ASSUME UpdaterTypeOK, RunsFromBinary, SomeBinaryIntact,
         NEW src \in {Host, Dead}, NEW dst \in {Host, Dead}, MoveFile(src, dst)
  PROVE  /\ disk' \in [Data \cup {Host, Dead} -> {"none", "partial", "stale", "latest"}]
         /\ image' \in [Procs -> {"none", Host, Dead}]
         /\ \A p \in Procs : /\ image[p] = "none" <=> image'[p] = "none"
                             /\ (image[p] # "none" => Complete(image[p]))'
         /\ SomeBinaryIntact'
<1> USE UpdaterAssumption DEF UpdaterTypeOK, RunsFromBinary, SomeBinaryIntact, MoveFile, Complete, Host, Dead
<1>1. CASE disk[src] # "none" /\ disk[dst] = "none"
  <2>1. src # dst /\ {src, dst} = {Host, Dead} /\ src # "none" /\ dst # "none"
    BY <1>1
  <2>2. disk[src] \in {"stale", "latest"}
    BY <1>1, <2>1
  <2>3. /\ disk' = [disk EXCEPT ![dst] = disk[src], ![src] = "none"]
        /\ image' = [q \in Procs |-> IF image[q] = src THEN dst ELSE image[q]]
    BY <1>1
  <2>4. disk'[dst] \in {"stale", "latest"}
    BY <2>1, <2>2, <2>3
  <2>5. \A p \in Procs : image[p] # dst
    BY <1>1, <2>1
  <2>6. \A p \in Procs : image'[p] \in {"none", dst} /\ (image[p] = "none" <=> image'[p] = "none")
    BY <2>1, <2>3, <2>5
  <2>7. QED
    BY <2>1, <2>2, <2>3, <2>4, <2>6
<1>2. CASE ~(disk[src] # "none" /\ disk[dst] = "none")
  BY <1>2
<1>3. QED
  BY <1>1, <1>2

LEMMA IntactInitially == UpdaterInit => IntactInv
<1> SUFFICES ASSUME UpdaterInit PROVE IntactInv
  OBVIOUS
<1>1. UpdaterTypeOK
  BY UpdaterAssumption DEF UpdaterInit, UpdaterTypeOK, NoJob, Listed, Host, Dead
<1>2. RunsFromBinary
  BY DEF UpdaterInit, RunsFromBinary
<1>3. SomeBinaryIntact
  BY DEF UpdaterInit, SomeBinaryIntact, Complete, Host, Dead
<1>4. QED
  BY <1>1, <1>2, <1>3 DEF IntactInv

LEMMA IntactStep == IntactInv /\ [UpdaterNext]_updaterVars => IntactInv'
<1> USE UpdaterAssumption DEF IntactInv, Goto
<1>1. SUFFICES ASSUME IntactInv, UpdaterNext PROVE IntactInv'
  BY DEF updaterVars, diskVars, procVars, UpdaterTypeOK, RunsFromBinary, SomeBinaryIntact, Complete
<1>2. PICK p \in Procs : UpdateThread(p) \/ StartProcess(p) \/ Terminate(p) \/ Crash(p)
  BY <1>1 DEF UpdaterNext
<1>a. CASE DeleteOldProcessFile(p)
  BY <1>1, <1>a DEF DeleteOldProcessFile, UpdaterTypeOK, RunsFromBinary, SomeBinaryIntact, Complete, Locked, Host, Dead
<1>b. CASE Run(p)
  BY <1>1, <1>b DEF Run, Outdated, CleanUp, UpdaterTypeOK, RunsFromBinary, SomeBinaryIntact, Complete, Listed, Host, Dead
<1>c. CASE MoveCurrentProcessFile(p)
  BY <1>1, <1>c, MoveKeepsBinary DEF MoveCurrentProcessFile, UpdaterTypeOK, RunsFromBinary
<1>d. CASE CancelUpdateFiles(p)
  BY <1>1, <1>d DEF CancelUpdateFiles, SetJob, Updating, UpdaterTypeOK, RunsFromBinary, SomeBinaryIntact, Complete, diskVars, NoJob
<1>e. CASE UpdatedFiles(p)
  BY <1>1, <1>e DEF UpdatedFiles, UpdaterTypeOK, RunsFromBinary, SomeBinaryIntact, Complete, diskVars
<1>f. CASE UpdatedHost(p)
  BY <1>1, <1>f, MoveKeepsBinary DEF UpdatedHost, UpdaterTypeOK, RunsFromBinary, SomeBinaryIntact, Complete
<1>g. CASE Relaunch(p)
  <2>1. CASE pc' = [pc EXCEPT ![p] = "terminate"] /\ UNCHANGED <<image, tries, job, outcome>>
    BY <1>1, <1>g, <2>1 DEF Relaunch, UpdaterTypeOK, RunsFromBinary, SomeBinaryIntact, Complete
  <2>2. ASSUME NEW q \in Procs,
               image[q] = "none" /\ Complete(Host),
               image' = [image EXCEPT ![q] = Host],
               pc' = [pc EXCEPT ![p] = "terminate", ![q] = "delete_old"],
               job' = [job EXCEPT ![q] = NoJob],
               outcome' = [outcome EXCEPT ![q] = "ok"]
        PROVE  IntactInv'
    <3>1. p # q /\ pc[p] = "relaunch" /\ UNCHANGED <<disk, opener, faults>>
      BY <1>1, <1>g, <2>2 DEF Relaunch, RunsFromBinary
    <3>2. UpdaterTypeOK'
      BY <1>1, <2>2, <3>1 DEF UpdaterTypeOK, NoJob, Host, Dead
    <3>3. RunsFromBinary'
      BY <1>1, <2>2, <3>1 DEF UpdaterTypeOK, RunsFromBinary, Complete, Host, Dead
    <3>4. QED
      BY <1>1, <3>1, <3>2, <3>3 DEF SomeBinaryIntact, Complete
  <2>3. QED
    BY <1>g, <2>1, <2>2 DEF Relaunch
<1>h. ASSUME NEW f \in Listed, BeginFile(p, f) PROVE IntactInv'
  BY <1>1, <1>h DEF BeginFile, SetJob, Updating, UpdaterTypeOK, RunsFromBinary, SomeBinaryIntact, Complete, diskVars, NoJob
<1>i. ASSUME NEW f \in Listed, FailFile(p, f) PROVE IntactInv'
  BY <1>1, <1>i DEF FailFile, SetJob, UpdaterTypeOK, RunsFromBinary, SomeBinaryIntact, Complete, diskVars, NoJob
<1>j. ASSUME NEW f \in Listed, OpenFile(p, f) PROVE IntactInv'
  <2>1. /\ job[p][f] = "fetch" /\ \A q \in Procs : image[q] # f
        /\ disk' = [disk EXCEPT ![f] = "partial"] /\ opener' = [opener EXCEPT ![f] = p]
        /\ job' = [job EXCEPT ![p][f] = "write"]
        /\ UNCHANGED <<image, pc, tries, outcome, faults>>
    BY <1>j DEF OpenFile, SetJob, Locked
  <2>2. image[p] # "none"
    BY <1>1, <1>j, <2>1 DEF RunsFromBinary, NoJob
  <2>3. image[p] \in {Host, Dead} /\ Complete(image[p])
    BY <1>1, <2>2 DEF RunsFromBinary, UpdaterTypeOK
  <2>4. UpdaterTypeOK'
    BY <1>1, <1>j, <2>1 DEF UpdaterTypeOK, Listed
  <2>5. RunsFromBinary'
    BY <1>1, <1>j, <2>1, <2>2 DEF UpdaterTypeOK, RunsFromBinary, Complete
  <2>6. SomeBinaryIntact'
    BY <1>1, <1>j, <2>1, <2>3 DEF UpdaterTypeOK, SomeBinaryIntact, Complete
  <2>7. QED
    BY <2>4, <2>5, <2>6
<1>k. ASSUME NEW f \in Listed, EndFile(p, f) PROVE IntactInv'
  BY <1>1, <1>k DEF EndFile, SetJob, UpdaterTypeOK, RunsFromBinary, SomeBinaryIntact, Complete, NoJob, Listed
<1>l. CASE StartProcess(p)
  BY <1>1, <1>l DEF StartProcess, NoJob, UpdaterTypeOK, RunsFromBinary, SomeBinaryIntact, Complete, Host, Dead
<1>m. CASE Terminate(p)
  BY <1>1, <1>m DEF Terminate, Gone, NoJob, UpdaterTypeOK, RunsFromBinary, SomeBinaryIntact, Complete
<1>n. CASE Crash(p)
  BY <1>1, <1>n DEF Crash, Gone, NoJob, UpdaterTypeOK, RunsFromBinary, SomeBinaryIntact, Complete
<1>q. QED
  BY <1>2, <1>a, <1>b, <1>c, <1>d, <1>e, <1>f, <1>g, <1>h, <1>i, <1>j, <1>k, <1>l, <1>m, <1>n, UpdaterSteps

\* Whatever fails and however many processes update at once, a complete binary is on
\* disk under one of its two names (file_updater.cpp:190-215, 328-341).
THEOREM BinarySurvives == UpdaterSpec => []SomeBinaryIntact
<1>1. IntactInv => SomeBinaryIntact
  BY DEF IntactInv
<1>2. QED
  BY <1>1, IntactInitially, IntactStep, PTL DEF UpdaterSpec
----------------------------------------------------------------------------
(* SuccessMeansLatest *)

LEMMA LatestInitially == UpdaterInit => LatestInv
<1> SUFFICES ASSUME UpdaterInit PROVE LatestInv
  OBVIOUS
<1>1. IntactInv
  BY IntactInitially
<1>2. WritersOwn /\ MovesOld /\ JobsDone
  BY UpdaterAssumption DEF UpdaterInit, NoJob, Listed, Host, Dead, WritersOwn, MovesOld, JobsDone, Failed, Updating
<1>3. QED
  BY <1>1, <1>2 DEF LatestInv

\* The process that relaunches ends, the new one begins: neither has jobs to lose.
LEMMA RelaunchKeepsJobs ==
  ASSUME LatestInv, NEW p \in Procs, Relaunch(p)
  PROVE  /\ job' = job /\ UNCHANGED <<disk, opener, faults>>
         /\ \A r \in Procs :
              \/ pc'[r] = pc[r] /\ image'[r] = image[r] /\ outcome'[r] = outcome[r]
              \/ pc'[r] \in {"terminate", "delete_old"} /\ pc[r] \in {"relaunch", "off"}
<1> USE DEF LatestInv, IntactInv, UpdaterTypeOK, Goto
<1>1. CASE pc' = [pc EXCEPT ![p] = "terminate"] /\ UNCHANGED <<image, tries, job, outcome>>
  BY <1>1 DEF Relaunch
<1>2. ASSUME NEW q \in Procs, image[q] = "none",
             image' = [image EXCEPT ![q] = Host],
             pc' = [pc EXCEPT ![p] = "terminate", ![q] = "delete_old"],
             job' = [job EXCEPT ![q] = NoJob],
             outcome' = [outcome EXCEPT ![q] = "ok"]
      PROVE  /\ job' = job
             /\ \A r \in Procs :
                  \/ pc'[r] = pc[r] /\ image'[r] = image[r] /\ outcome'[r] = outcome[r]
                  \/ pc'[r] \in {"terminate", "delete_old"} /\ pc[r] \in {"relaunch", "off"}
  <2>1. job[q] = NoJob /\ pc[q] = "off" /\ pc[p] = "relaunch"
    BY <1>2 DEF RunsFromBinary, Relaunch
  <2>2. QED
    BY <1>2, <2>1
<1>3. QED
  BY <1>1, <1>2 DEF Relaunch

\* MovesOld is kept: nobody writes to a binary some process runs from.
LEMMA MovesStayOld ==
  ASSUME LatestInv, faults = 0, faults' = 0, UpdaterNext
  PROVE  MovesOld'
<1> USE UpdaterAssumption DEF LatestInv, IntactInv, UpdaterTypeOK, Goto, MovesOld, WritersOwn, RunsFromBinary, SomeBinaryIntact, Complete, Host, Dead, Listed
<1>1. PICK p \in Procs : UpdateThread(p) \/ StartProcess(p) \/ Terminate(p) \/ Crash(p)
  BY DEF UpdaterNext
<1>a. CASE DeleteOldProcessFile(p)
  BY <1>a DEF DeleteOldProcessFile, Locked
<1>b. CASE Run(p)
  BY <1>b DEF Run, Outdated, CleanUp, Listed
<1>c. CASE MoveCurrentProcessFile(p)
  BY <1>c DEF MoveCurrentProcessFile, MoveFile
<1>d. CASE CancelUpdateFiles(p)
  BY <1>d DEF CancelUpdateFiles, SetJob, diskVars
<1>e. CASE UpdatedFiles(p)
  BY <1>e DEF UpdatedFiles, JoinThreads, Busy, diskVars
<1>f. CASE UpdatedHost(p)
  BY <1>f DEF UpdatedHost, JoinThreads, Busy, MoveFile
<1>g. CASE Relaunch(p)
  BY <1>g DEF Relaunch, NoJob
<1>h. ASSUME NEW g \in Listed, BeginFile(p, g) PROVE MovesOld'
  BY <1>h DEF BeginFile, SetJob, diskVars
<1>i. ASSUME NEW g \in Listed, FailFile(p, g) PROVE MovesOld'
  BY <1>i DEF FailFile, SetJob, diskVars
<1>j. ASSUME NEW g \in Listed, OpenFile(p, g) PROVE MovesOld'
  BY <1>j DEF OpenFile, SetJob, Locked
<1>k. ASSUME NEW g \in Listed, EndFile(p, g) PROVE MovesOld'
  BY <1>k DEF EndFile, SetJob
<1>l. CASE StartProcess(p)
  BY <1>l DEF StartProcess, NoJob
<1>m. CASE Terminate(p)
  BY <1>m DEF Terminate, Gone, NoJob
<1>n. ~Crash(p)
  BY DEF Crash
<1>q. QED
  BY <1>1, <1>a, <1>b, <1>c, <1>d, <1>e, <1>f, <1>g, <1>h, <1>i, <1>j, <1>k, <1>l, <1>m, <1>n, UpdaterSteps

\* WritersOwn is kept.
LEMMA WritersStayOwn ==
  ASSUME LatestInv, faults = 0, faults' = 0, UpdaterNext
  PROVE  WritersOwn'
<1> USE UpdaterAssumption DEF LatestInv, IntactInv, UpdaterTypeOK, Goto, WritersOwn, MovesOld, JobsDone, Updating, RunsFromBinary, SomeBinaryIntact, Complete, Host, Dead, Listed
<1>1. PICK p \in Procs : UpdateThread(p) \/ StartProcess(p) \/ Terminate(p) \/ Crash(p)
  BY DEF UpdaterNext
<1>a. CASE DeleteOldProcessFile(p)
  BY <1>a DEF DeleteOldProcessFile, Locked
<1>b. CASE Run(p)
  BY <1>b DEF Run, Outdated, CleanUp, Listed
<1>c. CASE MoveCurrentProcessFile(p)
  <2>1. UNCHANGED <<job, opener>> /\ MoveFile(Host, Dead)
    BY <1>c DEF MoveCurrentProcessFile
  <2>2. CASE disk[Host] # "none" /\ disk[Dead] = "none"
    <3>1. disk[Host] = "stale" /\ \A f \in Listed \ {Host} : disk'[f] = disk[f]
      BY <1>c, <2>1, <2>2 DEF MoveFile, MoveCurrentProcessFile
    <3>2. disk'[Host] = "none"
      BY <2>1, <2>2 DEF MoveFile
    <3>3. \A q \in Procs : job[q][Host] # "write"
      BY <3>1
    <3>4. QED
      BY <2>1, <3>1, <3>2, <3>3
  <2>3. CASE ~(disk[Host] # "none" /\ disk[Dead] = "none")
    BY <2>1, <2>3 DEF MoveFile
  <2>4. QED
    BY <2>2, <2>3
<1>d. CASE CancelUpdateFiles(p)
  <2>1. PICK g \in Listed : job[p][g] = "todo" /\ job' = [job EXCEPT ![p][g] = "failed"]
    BY <1>d DEF CancelUpdateFiles, SetJob
  <2>2. UNCHANGED <<disk, opener>>
    BY <1>d DEF CancelUpdateFiles, diskVars
  <2>3. \A q \in Procs, f \in Listed : job'[q][f] = "write" <=> job[q][f] = "write"
    BY <2>1
  <2>4. ASSUME NEW f \in Listed
        PROVE  /\ disk'[f] = "partial" => opener'[f] \in Procs /\ job'[opener'[f]][f] = "write"
               /\ \A q \in Procs : job'[q][f] = "write" =>
                    /\ disk'[f] \in {"partial", "latest"}
                    /\ opener'[f] = q => disk'[f] = "partial"
    BY <2>2, <2>3
  <2>5. QED
    BY <2>4
<1>e. CASE UpdatedFiles(p)
  BY <1>e DEF UpdatedFiles, JoinThreads, Busy, diskVars
<1>f. CASE UpdatedHost(p)
  <2>1. job[p][Host] # "write" /\ UNCHANGED <<job, opener>>
    BY <1>f DEF UpdatedHost, JoinThreads, Busy
  <2>2. CASE MoveFile(Dead, Host)
    <3>1. CASE disk[Dead] # "none" /\ disk[Host] = "none"
      <4>1. disk'[Host] = "stale" /\ \A f \in Listed \ {Host} : disk'[f] = disk[f]
        BY <2>2, <3>1 DEF MoveFile
      <4>2. \A q \in Procs : job[q][Host] # "write"
        BY <3>1
      <4>3. QED
        BY <2>1, <4>1, <4>2
    <3>2. CASE ~(disk[Dead] # "none" /\ disk[Host] = "none")
      BY <2>1, <2>2, <3>2 DEF MoveFile
    <3>3. QED
      BY <3>1, <3>2
  <2>3. CASE UNCHANGED disk
    BY <2>1, <2>3
  <2>4. QED
    BY <1>f, <2>2, <2>3 DEF UpdatedHost
<1>g. CASE Relaunch(p)
  <2>1. UNCHANGED <<job, disk, opener>>
    BY <1>g, RelaunchKeepsJobs
  <2>2. QED
    BY <2>1
<1>h. ASSUME NEW g \in Listed, BeginFile(p, g) PROVE WritersOwn'
  BY <1>h DEF BeginFile, SetJob, diskVars
<1>i. ASSUME NEW g \in Listed, FailFile(p, g) PROVE WritersOwn'
  BY <1>i DEF FailFile, SetJob, diskVars
<1>j. ASSUME NEW g \in Listed, OpenFile(p, g) PROVE WritersOwn'
  BY <1>j DEF OpenFile, SetJob, Locked
<1>k. ASSUME NEW g \in Listed, EndFile(p, g) PROVE WritersOwn'
  BY <1>k DEF EndFile, SetJob
<1>l. CASE StartProcess(p)
  BY <1>l DEF StartProcess, NoJob
<1>m. CASE Terminate(p)
  BY <1>m DEF Terminate, Gone, NoJob
<1>n. ~Crash(p)
  BY DEF Crash
<1>q. QED
  BY <1>1, <1>a, <1>b, <1>c, <1>d, <1>e, <1>f, <1>g, <1>h, <1>i, <1>j, <1>k, <1>l, <1>m, <1>n, UpdaterSteps

\* What is current stays so, though other processes update too.
LEMMA CurrentStays ==
  ASSUME LatestInv, faults = 0, faults' = 0, UpdaterNext
  PROVE  \A f \in Listed : Current(f) => Current(f)'
<1> USE UpdaterAssumption DEF LatestInv, IntactInv, UpdaterTypeOK, Goto, Current, WritersOwn, MovesOld, JobsDone, Updating, RunsFromBinary, SomeBinaryIntact, Complete, Host, Dead, Listed
<1>1. PICK p \in Procs : UpdateThread(p) \/ StartProcess(p) \/ Terminate(p) \/ Crash(p)
  BY DEF UpdaterNext
<1>a. CASE DeleteOldProcessFile(p)
  BY <1>a DEF DeleteOldProcessFile, Locked
<1>b. CASE Run(p)
  BY <1>b DEF Run, Outdated, CleanUp, Listed
<1>c. CASE MoveCurrentProcessFile(p)
  BY <1>c DEF MoveCurrentProcessFile, MoveFile
<1>d. CASE CancelUpdateFiles(p)
  BY <1>d DEF CancelUpdateFiles, SetJob, diskVars
<1>e. CASE UpdatedFiles(p)
  BY <1>e DEF UpdatedFiles, JoinThreads, Busy, diskVars
<1>f. CASE UpdatedHost(p)
  BY <1>f DEF UpdatedHost, JoinThreads, Busy, MoveFile
<1>g. CASE Relaunch(p)
  <2>1. UNCHANGED <<job, disk, opener>>
    BY <1>g, RelaunchKeepsJobs
  <2>2. QED
    BY <2>1
<1>h. ASSUME NEW g \in Listed, BeginFile(p, g) PROVE \A f \in Listed : Current(f) => Current(f)'
  BY <1>h DEF BeginFile, SetJob, diskVars
<1>i. ASSUME NEW g \in Listed, FailFile(p, g) PROVE \A f \in Listed : Current(f) => Current(f)'
  BY <1>i DEF FailFile, SetJob, diskVars
<1>j. ASSUME NEW g \in Listed, OpenFile(p, g) PROVE \A f \in Listed : Current(f) => Current(f)'
  BY <1>j DEF OpenFile, SetJob, Locked
<1>k. ASSUME NEW g \in Listed, EndFile(p, g) PROVE \A f \in Listed : Current(f) => Current(f)'
  BY <1>k DEF EndFile, SetJob
<1>l. CASE StartProcess(p)
  BY <1>l DEF StartProcess, NoJob
<1>m. CASE Terminate(p)
  BY <1>m DEF Terminate, Gone, NoJob
<1>n. ~Crash(p)
  BY DEF Crash
<1>q. QED
  BY <1>1, <1>a, <1>b, <1>c, <1>d, <1>e, <1>f, <1>g, <1>h, <1>i, <1>j, <1>k, <1>l, <1>m, <1>n, UpdaterSteps

\* JobsDone is kept.
LEMMA JobsStayDone ==
  ASSUME LatestInv, faults = 0, faults' = 0, UpdaterNext
  PROVE  JobsDone'
<1> USE UpdaterAssumption DEF LatestInv, IntactInv, UpdaterTypeOK, Goto, JobsDone, Updating, Failed, RunsFromBinary
<1>1. PICK p \in Procs : UpdateThread(p) \/ StartProcess(p) \/ Terminate(p) \/ Crash(p)
  BY DEF UpdaterNext
<1>a. CASE DeleteOldProcessFile(p)
  BY <1>a, CurrentStays DEF DeleteOldProcessFile, Locked
<1>b. CASE Run(p)
  <2>1. PICK reachable \in BOOLEAN :
          LET outdated == IF reachable THEN {f \in Listed : disk[f] # "latest"} ELSE {}
              now == IF Host \in outdated THEN {Host} ELSE outdated
          IN /\ job' = [job EXCEPT ![p] = [f \in Listed |-> IF f \in now THEN "todo" ELSE "skip"]]
             /\ pc' = [pc EXCEPT ![p] = IF Host \in outdated THEN "move" ELSE IF outdated = {} THEN "idle" ELSE "files"]
             /\ outcome' = [outcome EXCEPT ![p] = IF reachable THEN "ok" ELSE "error"]
    BY <1>b DEF Run, Outdated
  <2>2. \A f \in Listed : disk[f] = "latest" => Current(f)'
    BY CurrentStays DEF Current
  <2>3. CASE ~reachable
    BY <2>1, <2>3, CurrentStays
  <2>4. CASE reachable
    <3>1. pc'[p] = "files" => \A f \in Listed : job'[p][f] = "skip" => disk[f] = "latest"
      BY <2>1, <2>4
    <3>2. pc'[p] = "idle" => \A f \in Listed : disk[f] = "latest"
      BY <2>1, <2>4
    <3>3. pc'[p] \in {"move", "files", "idle"} /\ \A f \in Listed : job'[p][f] \in {"todo", "skip"}
      BY <2>1, <2>4
    <3>4. \A q \in Procs \ {p} : pc'[q] = pc[q] /\ job'[q] = job[q] /\ outcome'[q] = outcome[q]
      BY <2>1
    <3>5. \A f \in Listed : Current(f) => Current(f)'
      BY CurrentStays
    <3> DEFINE Done(q) ==
          /\ \A f \in Listed : job[q][f] \in {"fetch", "write"} => Updating(q)
          /\ (pc[q] = "move" \/ Updating(q)) /\ Failed(q) => outcome[q] # "ok"
          /\ pc[q] = "files" => \A f \in Listed : job[q][f] \in {"skip", "done"} => Current(f)
          /\ pc[q] = "idle" /\ outcome[q] = "ok" => \A f \in Listed : Current(f)
    <3>6. Done(p)'
      BY <2>2, <3>1, <3>2, <3>3
    <3>7. ASSUME NEW q \in Procs \ {p} PROVE Done(q)'
      BY <3>4, <3>5
    <3>8. QED
      BY <3>6, <3>7
  <2>5. QED
    BY <2>3, <2>4
<1>c. CASE MoveCurrentProcessFile(p)
  BY <1>c, CurrentStays DEF MoveCurrentProcessFile, MoveFile
<1>d. CASE CancelUpdateFiles(p)
  BY <1>d, CurrentStays DEF CancelUpdateFiles, SetJob, diskVars
<1>e. CASE UpdatedFiles(p)
  BY <1>e, CurrentStays DEF UpdatedFiles, JoinThreads, Busy, diskVars
<1>f. CASE UpdatedHost(p)
  <2>1. /\ UNCHANGED <<job, outcome>> /\ Updating(p) /\ pc'[p] \in {"relaunch", "terminate", "idle"}
        /\ pc'[p] = "idle" => Failed(p)
        /\ \A q \in Procs \ {p} : pc'[q] = pc[q]
        /\ \A f \in Listed : job[p][f] \notin {"fetch", "write"}
    BY <1>f DEF UpdatedHost, JoinThreads, Busy
  <2>2. \A f \in Listed : Current(f) => Current(f)'
    BY CurrentStays
  <2>3. QED
    BY <2>1, <2>2
<1>g. CASE Relaunch(p)
  <2>1. UNCHANGED <<job, disk, opener>>
    BY <1>g, RelaunchKeepsJobs
  <2>2. \A f \in Listed : Current(f)' <=> Current(f)
    BY <2>1 DEF Current
  <2>3. ASSUME NEW q \in Procs
        PROVE  (pc'[q] = pc[q] /\ outcome'[q] = outcome[q]) \/ pc'[q] = "terminate" \/ pc'[q] = "delete_old"
    BY <1>g DEF Relaunch
  <2>4. ASSUME NEW q \in Procs, NEW f \in Listed, job[q][f] \in {"fetch", "write"} PROVE Updating(q)'
    BY <1>g, <2>1, <2>4 DEF Relaunch, NoJob
  <2>5. QED
    BY <2>1, <2>2, <2>3, <2>4
<1>h. ASSUME NEW g \in Listed, BeginFile(p, g) PROVE JobsDone'
  BY <1>h, CurrentStays DEF BeginFile, SetJob, diskVars
<1>i. ASSUME NEW g \in Listed, FailFile(p, g) PROVE JobsDone'
  BY <1>i, CurrentStays DEF FailFile, SetJob, diskVars
<1>j. ASSUME NEW g \in Listed, OpenFile(p, g) PROVE JobsDone'
  BY <1>j, CurrentStays DEF OpenFile, SetJob, Locked
<1>k. ASSUME NEW g \in Listed, EndFile(p, g) PROVE JobsDone'
  <2>1. /\ job[p][g] = "write" /\ job' = [job EXCEPT ![p][g] = "done"]
        /\ disk' = IF opener[g] = p THEN [disk EXCEPT ![g] = "latest"] ELSE disk
        /\ UNCHANGED <<opener, image, pc, tries, outcome>>
    BY <1>k DEF EndFile, SetJob
  <2>2. Current(g)'
    BY <2>1, CurrentStays DEF Current
  <2>3. QED
    BY <2>1, <2>2, CurrentStays
<1>l. CASE StartProcess(p)
  BY <1>l, CurrentStays DEF StartProcess, NoJob
<1>m. CASE Terminate(p)
  BY <1>m, CurrentStays DEF Terminate, Gone, NoJob
<1>n. ~Crash(p)
  BY DEF Crash
<1>q. QED
  BY <1>1, <1>a, <1>b, <1>c, <1>d, <1>e, <1>f, <1>g, <1>h, <1>i, <1>j, <1>k, <1>l, <1>m, <1>n, UpdaterSteps

LEMMA LatestStep == LatestInv /\ [UpdaterNext]_updaterVars => LatestInv'
<1>1. SUFFICES ASSUME LatestInv, UpdaterNext PROVE LatestInv'
  <2>1. CASE UNCHANGED updaterVars
    BY <2>1 DEF updaterVars, diskVars, procVars, LatestInv, IntactInv, UpdaterTypeOK, RunsFromBinary,
       SomeBinaryIntact, Complete, WritersOwn, MovesOld, JobsDone, Updating, Failed, Current
  <2>2. QED
    BY <2>1
<1>2. IntactInv'
  BY <1>1, IntactStep DEF LatestInv
<1>3. faults' = 0 => faults = 0
  <2>1. PICK p \in Procs : UpdateThread(p) \/ StartProcess(p) \/ Terminate(p) \/ Crash(p)
    BY <1>1 DEF UpdaterNext
  <2>2. faults' = faults \/ faults' = faults + 1
    BY <2>1, UpdaterSteps DEF DeleteOldProcessFile, Run, MoveCurrentProcessFile, CancelUpdateFiles,
       UpdatedFiles, UpdatedHost, Relaunch, BeginFile, FailFile, OpenFile, EndFile, StartProcess,
       Terminate, Crash
  <2>3. QED
    BY <1>1, <2>2 DEF LatestInv, IntactInv, UpdaterTypeOK
<1>4. QED
  BY <1>1, <1>2, <1>3, MovesStayOld, WritersStayOwn, JobsStayDone DEF LatestInv

\* An update that ended without an exception left every listed file complete, however
\* many processes update the installation at once (file_updater.cpp:128-173, 217-280).
THEOREM SuccessfulUpdateIsLatest == UpdaterSpec => []SuccessMeansLatest
<1>1. LatestInv => SuccessMeansLatest
  BY DEF LatestInv, JobsDone, Current, SuccessMeansLatest
<1>2. QED
  BY <1>1, LatestInitially, LatestStep, PTL DEF UpdaterSpec

----------------------------------------------------------------------------
(* language.cpp *)

LEMMA PatchAllPatches ==
  ASSUME NEW keys, NEW newer, NEW patched, PatchAll(keys, newer, patched)
  PROVE  FoundEntries(keys, newer) \subseteq chinese'
BY DEF PatchAll

\* What comes to a free place covers what was found before, and uncovers nothing.
LEMMA ArrivalFound ==
  ASSUME NEW p \in Places \ Used, NEW key,
         keyAt' = [q \in Places |-> IF q = p THEN key ELSE keyAt[q]],
         over' = over \cup ({p} \X Used)
  PROVE  FoundEntries(keyAt', over') \subseteq FoundEntries(keyAt, over) \cup {p}
<1>1. SUFFICES ASSUME NEW k \in Translated, NEW x \in Found(keyAt', over', k), x # p
               PROVE  x \in Found(keyAt, over, k)
  BY DEF FoundEntries
<1>2. keyAt[p] # k
  BY LanguageAssumption DEF Used
<1>3. x \in Places /\ keyAt[x] = k
  BY <1>1 DEF Found
<1>4. ASSUME NEW q \in Places, q # x, keyAt[q] = k PROVE <<x, q>> \in over
  <2>1. keyAt'[q] = k
    BY <1>2, <1>4
  <2>2. <<x, q>> \in over'
    BY <1>1, <1>4, <2>1 DEF Found
  <2>3. QED
    BY <1>1, <2>2
<1>5. QED
  BY <1>3, <1>4 DEF Found

\* The property is inductive: every change of the assets patches what is found
\* by name afterwards, and nothing else takes a patch back.
LEMMA TranslatedStep == ShownIsTranslated /\ [LanguageNext]_languageVars => ShownIsTranslated'
<1> SUFFICES ASSUME ShownIsTranslated, [LanguageNext]_languageVars, hooked'
             PROVE  FoundEntries(keyAt, over)' \subseteq chinese' \cup late' /\ subtitles' # "english"
  BY DEF ShownIsTranslated
<1> USE DEF ShownIsTranslated
<1>1. ASSUME FoundEntries(keyAt', over') \subseteq chinese' \cup late'
      PROVE  FoundEntries(keyAt, over)' \subseteq chinese' \cup late'
  BY <1>1
<1>2. CASE LoadXAssets
  <2>1. \E keys, patched :
          keyAt' = keys /\ hooked' = hooked /\ (hooked => PatchAll(keys, over', patched))
    BY <1>2 DEF LoadXAssets
  <2>2. hooked => subtitles' # "english"
    BY <1>2 DEF LoadXAssets, PatchSubtitles
  <2>3. QED
    BY <1>1, <2>1, <2>2, PatchAllPatches
<1>3. CASE OnGameInitialized
  BY <1>1, <1>3, PatchAllPatches DEF OnGameInitialized, PatchSubtitles
<1>4. CASE PatchLoop
  BY <1>1, <1>4 DEF PatchLoop
<1>5. CASE SubtitleTask
  BY <1>1, <1>5 DEF SubtitleTask, PatchSubtitles
<1>6. CASE Monitor \/ TimePasses \/ MapExits \/ MapLoads \/ UNCHANGED languageVars
  BY <1>1, <1>6 DEF Monitor, TimePasses, MapExits, MapLoads, languageVars, assetVars
<1>7. CASE AssetArrives
  <2>1. CASE ~(subtitles' = "late" /\ UNCHANGED <<keyAt, over, chinese, late>>)
    <3>1. PICK p \in Places \ Used, key \in Keys :
            /\ late' = late \cup {p} /\ chinese' = chinese \ {p} /\ UNCHANGED subtitles
            /\ keyAt' = [q \in Places |-> IF q = p THEN key ELSE keyAt[q]]
            /\ over' = over \cup ({p} \X Used)
      BY <1>7, <2>1 DEF AssetArrives
    <3>2. FoundEntries(keyAt', over') \subseteq FoundEntries(keyAt, over) \cup {p}
      BY <3>1, ArrivalFound
    <3>3. QED
      BY <1>1, <1>7, <2>1, <3>1, <3>2 DEF AssetArrives
  <2>2. CASE /\ subtitles' = "late" /\ UNCHANGED <<keyAt, over, chinese, late>>
    BY <1>1, <1>7, <2>2 DEF AssetArrives
  <2>3. QED
    BY <1>7, <2>1, <2>2 DEF AssetArrives
<1>8. QED
  BY <1>2, <1>3, <1>4, <1>5, <1>6, <1>7 DEF LanguageNext

\* Zones that load and unload in any order, with assets in the places of
\* former ones, leave no text by name in English, but what comes after
\* DB_LoadXAssets returned (language.cpp:306-386, 607-627).
THEOREM TextsTranslated == LanguageSpec => []ShownIsTranslated
<1>1. LanguageInit => ShownIsTranslated
  BY DEF LanguageInit, ShownIsTranslated
<1>2. QED
  BY <1>1, TranslatedStep, PTL DEF LanguageSpec

----------------------------------------------------------------------------
(* game_console.cpp *)

ViewInv == {lines, view, offset} \subseteq Int /\ (view = 0 \/ view \in ViewSizes)

LEMMA ViewInitially == GameConsoleInit => ViewInv
BY DEF GameConsoleInit, ViewInv

\* A view of two lines or more that ends with the newest line, or goes beyond
\* it, still shows the newest after a print, at the limit too.
LEMMA PrintFollows ==
  ASSUME ViewInv, PrintInternal, view' = view, NewestVisible
  PROVE  NewestVisible'
<1>1. view \in Int /\ view >= 2
  BY ConsoleAssumption DEF ViewInv, NewestVisible
<1>2. QED
  BY <1>1, ConsoleAssumption DEF ViewInv, PrintInternal, NewestVisible

LEMMA ViewStep ==
  ASSUME ViewInv, [GameConsoleNext]_gameConsoleVars
  PROVE  /\ ViewInv'
         /\ view' = view /\ offset' >= offset /\ lines > 0 /\ lines' > 0 /\ NewestVisible
              => NewestVisible'
<1>1. CASE PrintInternal /\ view' = view
  <2>1. {lines', offset'} \subseteq Int
    BY <1>1, ConsoleAssumption DEF PrintInternal, ViewInv
  <2>2. QED
    BY <1>1, <2>1, PrintFollows DEF ViewInv
<1>2. CASE UNCHANGED <<lines, view, offset>>
  BY <1>2 DEF ViewInv, NewestVisible
<1>3. CASE ScrollOutput
  <2>1. lines' = lines /\ view' = view
    BY <1>3 DEF ScrollOutput
  <2>2. CASE PageUp
    BY <2>1, <2>2 DEF PageUp, ViewInv
  <2>3. CASE PageDown
    BY <2>1, <2>3, ConsoleAssumption DEF PageDown, ViewInv, NewestVisible
  <2>4. QED
    BY <1>3, <2>2, <2>3 DEF ScrollOutput
<1>4. CASE ClearConsole
  BY <1>4 DEF ClearConsole, ViewInv, NewestVisible
<1>5. CASE ClearOutput
  BY <1>5 DEF ClearOutput, ViewInv
<1>6. CASE DrawConsole
  <2>1. view' \in ViewSizes /\ UNCHANGED <<lines, offset>> /\ view' \in Int
    BY <1>6, ConsoleAssumption DEF DrawConsole
  <2>2. QED
    BY <2>1 DEF ViewInv, NewestVisible
<1>7. CASE ToggleConsole \/ ToggleOutput \/ Edit \/ AutoComplete \/ UpArrow \/ DownArrow \/ UNCHANGED gameConsoleVars
  BY <1>2, <1>7 DEF ToggleConsole, ToggleOutput, Edit, AutoComplete, UpArrow, DownArrow, Recall,
                    gameConsoleVars, outputVars
<1>8. CASE ConsolePrint \/ Enter
  BY <1>1, <1>8 DEF ConsolePrint, Enter
<1>9. QED
  BY <1>3, <1>4, <1>5, <1>6, <1>7, <1>8 DEF GameConsoleNext

\* Whoever sees the newest line of the output keeps seeing it while others
\* print (game_console.cpp:73-88).
THEOREM ViewFollows == GameConsoleSpec => FollowsNewest
<1>1. ViewInv /\ [GameConsoleNext]_gameConsoleVars => ViewInv'
  BY ViewStep
<1>2. ViewInv /\ [GameConsoleNext]_gameConsoleVars =>
        [view' = view /\ offset' >= offset /\ lines > 0 /\ lines' > 0 /\ NewestVisible
           => NewestVisible']_gameConsoleVars
  BY ViewStep
<1>3. QED
  BY ViewInitially, <1>1, <1>2, PTL DEF GameConsoleSpec, FollowsNewest

----------------------------------------------------------------------------
(* dvar_cheats.cpp *)

\* No flag lets the console or a server's message change a cheat dvar while
\* cheats are off, and turning them off resets what was changed.
CheatInv == setBy \in [Dvars -> Sources] /\ CheatsAreReset

LEMMA SetDvarKeepsCheats ==
  ASSUME CheatInv, NEW d \in Dvars, NEW source \in Sources, NEW v, SetDvar(d, source, v)
  PROVE  CheatInv'
<1>1. setBy' = [setBy EXCEPT ![d] = source] /\ cheats' = cheats
  BY DEF SetDvar
<1>2. ~cheats /\ d \in CheatDvars => source # "external"
  BY DEF SetDvar, FlagsAllow
<1>3. QED
  BY <1>1, <1>2 DEF CheatInv, CheatsAreReset

LEMMA SetCheatsKeepsCheats ==
  ASSUME CheatInv, NEW source, NEW enabled \in BOOLEAN, SetCheats(source, enabled)
  PROVE  CheatInv'
<1>1. CASE ResetCheatDvars
  <2>1. setBy' = [d \in Dvars |-> IF d \in CheatDvars THEN "internal" ELSE setBy[d]]
    BY <1>1 DEF ResetCheatDvars
  <2>2. QED
    BY <2>1, DvarAssumption DEF CheatInv, CheatsAreReset, Sources
<1>2. CASE setBy' = setBy /\ ((dediServer /\ source = "internal") \/ ~cheats \/ enabled)
  <2>1. ~cheats' => ~cheats
    BY <1>2 DEF SetCheats
  <2>2. QED
    BY <1>2, <2>1 DEF CheatInv, CheatsAreReset
<1>3. QED
  BY <1>1, <1>2 DEF SetCheats

LEMMA CheatStep == CheatInv /\ [DvarsNext]_dvarVars => CheatInv'
<1> SUFFICES ASSUME CheatInv, [DvarsNext]_dvarVars PROVE CheatInv'
  OBVIOUS
<1>1. CASE Change
  <2>1. CASE \E d \in Dvars, v \in {"reset", "other"} : EngineSets(d, v)
    BY <2>1, SetDvarKeepsCheats DEF EngineSets, Sources
  <2>2. CASE \E d \in Dvars, v \in {"reset", "other"}, source \in Sources \ {"internal"} : ByName(d, source, v)
    BY <2>2, SetDvarKeepsCheats DEF ByName
  <2>3. CASE \E source \in Sources, enabled \in BOOLEAN : SetCheats(source, enabled)
    BY <2>3, SetCheatsKeepsCheats
  <2>4. QED
    BY <1>1, <2>1, <2>2, <2>3 DEF Change
<1>2. CASE ChangeSide \/ UNCHANGED dvarVars
  BY <1>2 DEF ChangeSide, dvarVars, CheatInv, CheatsAreReset
<1>3. QED
  BY <1>1, <1>2 DEF DvarsNext

\* Whoever turns cheats off, and whether the change is then refused or not, no
\* cheat dvar keeps what the console or a server's message gave it
\* (dvar_cheats.cpp:14-75).
THEOREM CheatsReset == DvarsSpec => []CheatsAreReset
<1>1. DvarsInit => CheatInv
  BY DvarAssumption DEF DvarsInit, CheatInv, CheatsAreReset, Sources
<1>2. CheatInv => CheatsAreReset
  BY DEF CheatInv
<1>3. QED
  BY <1>1, <1>2, CheatStep, PTL DEF DvarsSpec

----------------------------------------------------------------------------
(* script_loading.cpp: addresses of code *)

At(s) == IF s \in DOMAIN loadedScripts THEN loadedScripts[s] ELSE s

\* Every linked script is in the table of functions, and no other.
CodeInv ==
  /\ DOMAIN functionTable = linked
  /\ \A s \in linked : functionTable[s] = At(s)
  /\ DOMAIN mains \subseteq linked /\ \A s \in DOMAIN mains : mains[s] = At(s)
  /\ DOMAIN inits \subseteq linked /\ \A s \in DOMAIN inits : inits[s] = At(s)
  /\ \A a \in DOMAIN hooks : (\E s \in linked : a = At(s)) /\ (\E s \in linked : hooks[a] = At(s))

LEMMA CodeInvPoints == CodeInv => PointsIntoLinkedCode
BY DEF CodeInv, PointsIntoLinkedCode, At

LEMMA CodeInitially == ScriptsInit => CodeInv
<1>1. ScriptsInit => functionTable = <<>> /\ mains = <<>> /\ inits = <<>> /\ hooks = <<>> /\ linked = {}
  BY DEF ScriptsInit
<1>2. DOMAIN <<>> = {}
  OBVIOUS
<1>3. QED
  BY <1>1, <1>2 DEF CodeInv

\* A script that is linked moves no other, and is found where its code is.
LEMMA ProcessKeepsCode ==
  ASSUME CodeInv, NEW s, s \notin linked, ProcessScript(s), UNCHANGED <<mains, inits, hooks>>
  PROVE  CodeInv'
<1>1. /\ linked' = linked \cup {s} /\ functionTable' = With(functionTable, s, CodeOf(s))
      /\ loadedScripts' = IF Compiles(s) THEN With(loadedScripts, s, CodeOf(s)) ELSE loadedScripts
  BY DEF ProcessScript
<1>2. \A r \in linked : At(r)' = At(r)
  BY <1>1 DEF At, With
<1>3. At(s)' = CodeOf(s)
  BY <1>1 DEF At, With, CodeOf, Compiles
<1>4. /\ DOMAIN functionTable' = linked' /\ functionTable'[s] = CodeOf(s)
      /\ \A r \in linked : functionTable'[r] = functionTable[r]
  BY <1>1 DEF With, CodeInv
<1>5. QED
  BY <1>1, <1>2, <1>3, <1>4 DEF CodeInv

LEMMA ShutdownKeepsCode == ShutdownGame => CodeInv'
<1>1. ShutdownGame => functionTable' = <<>> /\ mains' = <<>> /\ inits' = <<>> /\ hooks' = <<>> /\ linked' = {}
  BY DEF ShutdownGame, ClearHooks, ClearLoading
<1>2. DOMAIN <<>> = {}
  OBVIOUS
<1>3. QED
  BY <1>1, <1>2 DEF CodeInv

LEMMA CodeStep == CodeInv /\ [ScriptsNext]_scriptVars => CodeInv'
<1> SUFFICES ASSUME CodeInv, [ScriptsNext]_scriptVars PROVE CodeInv'
  OBVIOUS
<1>1. CASE UNCHANGED <<linked, codeVars, handleVars, hooks>>
  BY <1>1 DEF CodeInv, At, codeVars, handleVars
<1>2. CASE LoadScript
  <2> DEFINE s == Head(requests)
  <2>1. hooks' = hooks
    BY <1>2 DEF LoadScript
  <2>2. CASE /\ s \in linked /\ UNCHANGED <<linked, codeVars>>
             /\ mains' \in {mains, With(mains, s, functionTable[s])}
             /\ inits' \in {inits, With(inits, s, functionTable[s])}
    <3>1. \A r : At(r)' = At(r)
      BY <2>2 DEF At, codeVars
    <3>2. DOMAIN mains' \subseteq linked /\ \A r \in DOMAIN mains' : mains'[r] = At(r)
      BY <2>2 DEF CodeInv, With
    <3>3. DOMAIN inits' \subseteq linked /\ \A r \in DOMAIN inits' : inits'[r] = At(r)
      BY <2>2 DEF CodeInv, With
    <3>4. QED
      BY <2>1, <2>2, <3>1, <3>2, <3>3 DEF CodeInv, codeVars
  <2>3. CASE s \notin linked /\ ProcessScript(s) /\ UNCHANGED <<requests, handleVars>>
    BY <2>1, <2>3, ProcessKeepsCode DEF handleVars
  <2>4. CASE UNCHANGED <<linked, codeVars, handleVars>>
    BY <1>1, <2>1, <2>4
  <2>5. QED
    BY <1>2, <2>2, <2>3, <2>4 DEF LoadScript
<1>3. CASE LinkFile
  <2>1. UNCHANGED <<handleVars, hooks>>
    BY <1>3 DEF LinkFile
  <2>2. CASE \E r : r \notin linked /\ ProcessScript(r)
    BY <2>1, <2>2, ProcessKeepsCode DEF handleVars
  <2>3. CASE UNCHANGED <<linked, codeVars>>
    BY <1>1, <2>1, <2>3
  <2>4. QED
    BY <1>3, <2>2, <2>3 DEF LinkFile
<1>4. CASE CompileError \/ EndLevel
  BY <1>4, ShutdownKeepsCode DEF CompileError, EndLevel
<1>5. CASE RunMain
  <2>1. UNCHANGED <<linked, codeVars, handleVars>>
    BY <1>5 DEF RunMain, linkVars
  <2>2. \A r : At(r)' = At(r)
    BY <2>1 DEF At, codeVars
  <2>3. CASE ReplaceFunc
    <3>1. PICK source, target \in {functionTable[s] : s \in DOMAIN functionTable} :
            hooks' = With(hooks, source, target)
      BY <2>3 DEF ReplaceFunc
    <3>2. (\E s \in linked : source = At(s)) /\ (\E s \in linked : target = At(s))
      BY <3>1 DEF CodeInv
    <3>3. \A a \in DOMAIN hooks' : (\E s \in linked : a = At(s)) /\ (\E s \in linked : hooks'[a] = At(s))
      BY <3>1, <3>2 DEF CodeInv, With
    <3>4. QED
      BY <2>1, <2>2, <3>3 DEF CodeInv, codeVars, handleVars
  <2>4. CASE UNCHANGED hooks
    BY <1>1, <2>1, <2>4
  <2>5. QED
    BY <1>5, <2>3, <2>4 DEF RunMain
<1>6. CASE BeginLoadScripts \/ PostLoadScripts \/ EndLoadScripts \/ LoadStructs \/ LoadLevel
  BY <1>1, <1>6 DEF BeginLoadScripts, PostLoadScripts, EndLoadScripts, LoadStructs, LoadLevel, linkVars
<1>7. CASE RunInit \/ LevelRuns \/ FastRestart \/ EditFile \/ UNCHANGED scriptVars
  BY <1>1, <1>7 DEF RunInit, LevelRuns, FastRestart, EditFile, scriptVars, linkVars
<1>8. QED
  BY <1>2, <1>3, <1>4, <1>5, <1>6, <1>7 DEF ScriptsNext

\* Handles, functions and replaced functions never point to code of an earlier
\* level, which the engine has freed (scripting.cpp:52-133, script_loading.cpp:30-37).
THEOREM NoFreedCode == ScriptsSpec => []PointsIntoLinkedCode
<1>1. QED
  BY CodeInvPoints, CodeInitially, CodeStep, PTL DEF ScriptsSpec

----------------------------------------------------------------------------
(* script_loading.cpp: which scripts run                                   *)

\* What the search paths have for s, as the sources are now, and what is read
Text(s) ==
  LET at == SelectInSeq(SearchPaths, LAMBDA p : sources[p][s] # "absent") IN
  IF at = 0 THEN "absent" ELSE sources[SearchPaths[at]][s]
Source(s) ==
  LET at == SelectInSeq(SearchPaths, LAMBDA p : sources[p][s] # "absent") IN
  IF at # 0 THEN sources[SearchPaths[at]][s] ELSE IF s \in RawFiles THEN "good" ELSE "absent"
Loadable(s) == Source(s) = "good" \/ s \in InZone

\* The scripts this level asks for after the engine's
Wanted == IF lobby THEN {}
          ELSE {s \in Scripts : Folder[s] \in {AnyLevel, level} /\ Text(s) # "absent"}

Once(S) == [s \in Scripts |-> IF s \in S THEN 1 ELSE 0]
Mains == promised \cap HasMain
Inits == promised \cap HasInit

\* Scripts are loaded between the stages off and ready, from files nobody changes
\* meanwhile.
LoadInv ==
  /\ stage \in {"off", "link", "custom", "ready", "mains", "inits", "play"}
  /\ searchPaths \in {<<>>, SearchPaths}
  /\ searchPaths # SearchPaths => stage = "off" \/ (stage = "link" /\ requests # <<>>)
  /\ requests \in Seq(Scripts)
  /\ stage \notin {"link", "custom"} => requests = <<>> /\ linking = <<>>
  /\ stage = "off" => linked = {} /\ DOMAIN loadedScripts = {}
  /\ stage \in {"link", "custom"} =>
       /\ \A s \in linked : Loadable(s)
       /\ \A s \in DOMAIN loadedScripts : Source(s) = "good"
  /\ stage \in {"off", "link"} => DOMAIN mains = {} /\ DOMAIN inits = {}

\* While the folders' scripts are loaded, each of them that can be is either done or
\* still to come.
PromiseInv ==
  /\ promised \subseteq Scripts
  /\ stage = "custom" =>
       /\ promised = {s \in Wanted : Loadable(s)}
       /\ Range(requests) \subseteq Wanted
       /\ DOMAIN mains \subseteq Mains /\ Mains \subseteq DOMAIN mains \cup Range(requests)
       /\ DOMAIN inits \subseteq Inits /\ Inits \subseteq DOMAIN inits \cup Range(requests)
  /\ stage \in {"ready", "mains", "inits", "play"} => DOMAIN mains = Mains /\ DOMAIN inits = Inits
  /\ stage \in {"custom", "ready", "mains", "inits", "play"} /\ lobby => promised = {}

\* What has run of the handles that are no longer left
RanInv ==
  /\ stage \in {"off", "link", "custom", "ready"} => ran = NeverRan
  /\ stage = "mains" => left \subseteq Mains /\ ran = [main |-> Once(Mains \ left), init |-> Never]
  /\ stage = "inits" => left \subseteq Inits /\ ran = [main |-> Once(Mains), init |-> Once(Inits \ left)]
  /\ stage = "play" => ran = [main |-> Once(Mains), init |-> Once(Inits)]

RunInv == LoadInv /\ PromiseInv /\ RanInv

----------------------------------------------------------------------------
(* RunsItsScripts: files *)

LEMMA ReadIsText ==
  ASSUME searchPaths' = SearchPaths, NEW s
  PROVE  ReadFile(s) = Source(s)
BY DEF ReadFile, Source, SelectInSeq

First(i, s) ==
  /\ i \in DOMAIN SearchPaths /\ sources[SearchPaths[i]][s] # "absent"
  /\ \A j \in 1 .. i - 1 : sources[SearchPaths[j]][s] = "absent"

\* The text is the one of the first path that has a file.
LEMMA TextOfFirst ==
  ASSUME NEW s
  PROVE  /\ Text(s) # "absent" <=> \E i \in DOMAIN SearchPaths : sources[SearchPaths[i]][s] # "absent"
         /\ Text(s) # "absent" => \E i : First(i, s)
         /\ \A i : First(i, s) => Text(s) = sources[SearchPaths[i]][s]
<1> DEFINE I == {i \in 1..Len(SearchPaths) : sources[SearchPaths[i]][s] # "absent"}
<1>1. DOMAIN SearchPaths = 1..Len(SearchPaths) /\ Len(SearchPaths) \in Nat
  BY ScriptsAssumption
<1>2. Text(s) = IF I # {} THEN sources[SearchPaths[Min(I)]][s] ELSE "absent"
  <2>1. I # {} => Min(I) # 0
    <3>1. I \in SUBSET Nat /\ \A i \in I : i # 0
      OBVIOUS
    <3>2. QED
      BY <3>1, LeastOf
  <2>2. Text(s) = LET at == IF I # {} THEN Min(I) ELSE 0 IN
                  IF at = 0 THEN "absent" ELSE sources[SearchPaths[at]][s]
    BY DEF Text, SelectInSeq
  <2>3. QED
    BY <2>1, <2>2
<1>3. ASSUME I # {} PROVE First(Min(I), s)
  <2>1. I \in SUBSET Nat
    OBVIOUS
  <2>2. Min(I) \in I /\ \A i \in I : Min(I) <= i
    BY <1>3, <2>1, LeastOf
  <2>3. PICK m \in I : m = Min(I) /\ \A i \in I : m <= i
    BY <2>2
  <2>4. \A j \in 1 .. m - 1 : j \in 1..Len(SearchPaths) /\ ~(m <= j)
    BY <1>1, <2>3
  <2>5. \A j \in 1 .. m - 1 : j \notin I
    BY <2>3, <2>4
  <2>6. First(m, s)
    BY <1>1, <2>3, <2>4, <2>5 DEF First
  <2>7. QED
    BY <2>3, <2>6, Zenon
<1>4. ASSUME NEW i, First(i, s) PROVE I # {} /\ Min(I) = i
  <2>1. I \in SUBSET Nat /\ i \in I
    BY <1>1, <1>4 DEF First
  <2>2. Min(I) \in I /\ Min(I) <= i
    BY <2>1, LeastOf
  <2>3. ~(Min(I) \in 1..i-1)
    BY <1>4, <2>2 DEF First
  <2>4. QED
    BY <2>1, <2>2, <2>3
<1>5. Text(s) # "absent" => I # {}
  BY <1>2
<1>6. I # {} => sources[SearchPaths[Min(I)]][s] # "absent"
  BY <1>3 DEF First
<1>7. I # {} <=> \E i \in DOMAIN SearchPaths : sources[SearchPaths[i]][s] # "absent"
  BY <1>1
<1> HIDE DEF I
<1>8. QED
  BY <1>2, <1>3, <1>4, <1>5, <1>6, <1>7

\* What a level's folders promise is what is asked for and can be loaded.
LEMMA PromiseIs ==
  ASSUME ~lobby
  PROVE  Promise = {s \in Wanted : Loadable(s)}
<1>1. ASSUME NEW s \in Scripts
      PROVE  (\E i \in DOMAIN SearchPaths :
                /\ sources[SearchPaths[i]][s] # "absent"
                /\ \A j \in 1 .. i - 1 : sources[SearchPaths[j]][s] = "absent"
                /\ sources[SearchPaths[i]][s] = "good" \/ s \in InZone)
             <=> Text(s) # "absent" /\ Loadable(s)
  <2>1. (\E i : First(i, s) /\ (sources[SearchPaths[i]][s] = "good" \/ s \in InZone))
        <=> Text(s) # "absent" /\ Loadable(s)
    <3>1. Text(s) # "absent" => Source(s) = Text(s)
      BY DEF Text, Source
    <3>2. QED
      BY <3>1, TextOfFirst DEF Loadable, First
  <2>2. QED
    BY <2>1 DEF First
<1>2. QED
  BY <1>1 DEF Promise, Wanted

LEMMA ScriptFilesAre ==
  ASSUME searchPaths = SearchPaths, ~lobby
  PROVE  ScriptFiles \in Seq(Scripts) /\ Range(ScriptFiles) = Wanted
<1> DEFINE In(p, f) == {s \in Scripts : Folder[s] = f /\ sources[p][s] # "absent"}
           ss == [i \in DOMAIN searchPaths |->
                    SetToSeq(In(searchPaths[i], AnyLevel)) \o SetToSeq(In(searchPaths[i], level))]
           n == Len(searchPaths)
<1>1. DOMAIN searchPaths = 1..n /\ n \in Nat
  BY ScriptsAssumption
<1>2. ScriptFiles = FlattenSeq(ss)
  BY DEF ScriptFiles
<1>3. ASSUME NEW p, NEW f PROVE SetToSeq(In(p, f)) \in Seq(Scripts) /\ Range(SetToSeq(In(p, f))) = In(p, f)
  <2>1. IsFiniteSet(In(p, f))
    <3>1. In(p, f) \in SUBSET Scripts /\ IsFiniteSet(Scripts)
      BY ScriptsAssumption
    <3>2. QED
      BY <3>1, FS_Subset
  <2>2. SetToSeq(In(p, f)) \in Seq(In(p, f)) /\ Range(SetToSeq(In(p, f))) = In(p, f)
    BY <2>1, SetToSeqElements
  <2>3. In(p, f) \subseteq Scripts
    OBVIOUS
  <2> HIDE DEF In
  <2>4. QED
    BY <2>2, <2>3
<1>4. ASSUME NEW i \in 1..n
      PROVE  ss[i] \in Seq(Scripts) /\ Range(ss[i]) = In(searchPaths[i], AnyLevel) \cup In(searchPaths[i], level)
  <2>1. PICK p \in Seq(Scripts), q \in Seq(Scripts) :
          p = SetToSeq(In(searchPaths[i], AnyLevel)) /\ q = SetToSeq(In(searchPaths[i], level))
    BY <1>3
  <2>2. ss[i] = p \o q
    BY <1>1, <2>1
  <2>3. p \o q \in Seq(Scripts) /\ Range(p \o q) = Range(p) \cup Range(q)
    BY RangeConcatenation, ConcatProperties
  <2> HIDE DEF In, ss
  <2>4. Range(p) = In(searchPaths[i], AnyLevel) /\ Range(q) = In(searchPaths[i], level)
    BY <1>3, <2>1, Zenon
  <2>5. QED
    BY <2>2, <2>3, <2>4
<1>5. ss \in Seq(Seq(Scripts)) /\ Len(ss) = n
  BY <1>1, <1>4
<1>6. /\ FlattenSeq(ss) \in Seq(Scripts)
      /\ \A x : x \in Range(FlattenSeq(ss)) <=> \E i \in 1..n : x \in Range(ss[i])
  <2> HIDE DEF ss
  <2>1. QED
    BY <1>5, FlattenElements
<1>7. ASSUME NEW x
      PROVE  (\E i \in 1..n : x \in Range(ss[i])) <=> x \in Wanted
  <2>1. (\E i \in 1..n : x \in Range(ss[i]))
        <=> \E i \in 1..n : x \in In(searchPaths[i], AnyLevel) \cup In(searchPaths[i], level)
    <3> HIDE DEF In, ss
    <3>1. QED
      BY <1>4
  <2>2. Text(x) # "absent" <=> \E i \in 1..n : sources[searchPaths[i]][x] # "absent"
    BY <1>1, TextOfFirst
  <2>3. QED
    BY <2>1, <2>2 DEF Wanted
<1>8. QED
  <2> HIDE DEF ss
  <2>1. QED
    BY <1>2, <1>6, <1>7

----------------------------------------------------------------------------
(* RunsItsScripts: steps *)

LEMMA SameFiles ==
  ASSUME UNCHANGED sources
  PROVE  /\ \A s : Text(s)' = Text(s) /\ Source(s)' = Source(s) /\ Loadable(s)' = Loadable(s)
         /\ UNCHANGED <<level, lobby>> => Wanted' = Wanted
<1>1. \A s : Text(s)' = Text(s) /\ Source(s)' = Source(s)
  BY DEF Text, Source, SelectInSeq
<1>2. QED
  BY <1>1 DEF Loadable, Wanted

LEMMA RunsInitially == ScriptsInit => RunInv
<1> SUFFICES ASSUME ScriptsInit PROVE RunInv
  OBVIOUS
<1>1. DOMAIN <<>> = {} /\ <<>> \in Seq(Scripts)
  OBVIOUS
<1>2. QED
  BY <1>1 DEF ScriptsInit, RunInv, LoadInv, PromiseInv, RanInv

\* A script that is linked was found, now or before.
LEMMA ProcessKeepsRuns ==
  ASSUME RunInv, NEW s, ProcessScript(s), searchPaths' = SearchPaths, stage \in {"link", "custom"},
         UNCHANGED <<sources, stage, level, lobby, requests, mains, inits, left, ran, promised>>
  PROVE  RunInv'
<1>1. /\ linked' = linked \cup {s} /\ Finds(s)
      /\ loadedScripts' = IF Compiles(s) THEN With(loadedScripts, s, CodeOf(s)) ELSE loadedScripts
  BY DEF ProcessScript
<1>2. \A r : ReadFile(r) = Source(r)
  BY ReadIsText
<1>3. Compiles(s) => Source(s) = "good"
  BY <1>2 DEF Compiles, RunInv, LoadInv
<1>4. Loadable(s)
  BY <1>1, <1>3 DEF Finds, Loadable
<1>5. \A r \in DOMAIN loadedScripts' : r \in DOMAIN loadedScripts \/ (r = s /\ Compiles(s))
  BY <1>1 DEF With
<1>6. LoadInv'
  BY <1>1, <1>3, <1>4, <1>5, SameFiles DEF RunInv, LoadInv
<1>7. PromiseInv'
  BY SameFiles DEF RunInv, PromiseInv, Mains, Inits
<1>8. RanInv'
  BY DEF RunInv, RanInv, Mains, Inits
<1>9. QED
  BY <1>6, <1>7, <1>8 DEF RunInv

LEMMA HeadTail ==
  ASSUME NEW X, NEW q \in Seq(X), q # <<>>
  PROVE  /\ Head(q) \in X /\ Tail(q) \in Seq(X)
         /\ Range(q) = {Head(q)} \cup Range(Tail(q))
<1>1. Head(q) \in X /\ Tail(q) \in Seq(X) /\ Len(q) \in Nat /\ Len(q) # 0 /\ Len(Tail(q)) = Len(q) - 1
      /\ DOMAIN q = 1..Len(q) /\ DOMAIN Tail(q) = 1..Len(q)-1 /\ Head(q) = q[1]
      /\ \A i \in 1..Len(q)-1 : Tail(q)[i] = q[i+1]
  OBVIOUS
<1>2. ASSUME NEW i \in 1..Len(q) PROVE q[i] \in {Head(q)} \cup Range(Tail(q))
  <2>1. CASE i = 1
    BY <1>1, <2>1
  <2>2. CASE i # 1
    <3>1. i - 1 \in 1..Len(q)-1 /\ (i - 1) + 1 = i
      BY <1>1, <2>2
    <3>2. Tail(q)[i-1] = q[i]
      BY <1>1, <3>1
    <3>3. QED
      BY <1>1, <3>1, <3>2 DEF Range
  <2>3. QED
    BY <2>1, <2>2
<1>3. Head(q) \in Range(q)
  BY <1>1 DEF Range
<1>4. ASSUME NEW i \in 1..Len(q)-1 PROVE Tail(q)[i] \in Range(q)
  BY <1>1 DEF Range
<1>5. QED
  BY <1>1, <1>2, <1>3, <1>4 DEF Range

LEMMA LoadKeepsRuns == RunInv /\ LoadScript => RunInv'
<1> SUFFICES ASSUME RunInv, LoadScript PROVE RunInv'
  OBVIOUS
<1> DEFINE s == Head(requests)
<1>1. /\ requests # <<>> /\ linking = <<>> /\ searchPaths' = SearchPaths
      /\ UNCHANGED <<sources, stage, level, lobby, left, ran, promised>>
  BY DEF LoadScript, CheckForStartup, levelVars, runVars
<1>2. stage \in {"link", "custom"}
  BY <1>1 DEF RunInv, LoadInv
<1>3. requests \in Seq(Scripts)
  BY DEF RunInv, LoadInv
<1>4. s \in Scripts /\ Tail(requests) \in Seq(Scripts) /\ Range(requests) = {s} \cup Range(Tail(requests))
  BY <1>1, <1>3, HeadTail
<1>5. RanInv'
  BY <1>1 DEF RunInv, RanInv, Mains, Inits
<1>6. \A r : ReadFile(r) = Source(r)
  BY <1>1, ReadIsText
<1>7. CASE s \notin linked /\ ProcessScript(s) /\ UNCHANGED <<requests, handleVars>>
  BY <1>1, <1>2, <1>7, ProcessKeepsRuns DEF handleVars
<1>8. CASE /\ requests' = Tail(requests) /\ UNCHANGED <<linking, linked, codeVars>>
           /\ DOMAIN mains \subseteq DOMAIN mains' /\ DOMAIN inits \subseteq DOMAIN inits'
           /\ stage = "link" => UNCHANGED handleVars
           /\ stage = "custom" => /\ DOMAIN mains' \subseteq Mains /\ DOMAIN inits' \subseteq Inits
                                  /\ s \in Mains => s \in DOMAIN mains'
                                  /\ s \in Inits => s \in DOMAIN inits'
  <2>1. LoadInv'
    BY <1>1, <1>2, <1>4, <1>8, SameFiles DEF RunInv, LoadInv, codeVars, handleVars
  <2>2. Mains' = Mains /\ Inits' = Inits
    BY <1>1 DEF Mains, Inits
  <2> HIDE DEF s
  <2>3. PromiseInv'
    BY <1>1, <1>2, <1>4, <1>8, <2>2, SameFiles DEF RunInv, PromiseInv
  <2>4. QED
    BY <1>5, <2>1, <2>3 DEF RunInv
<1>9. CASE s \in linked /\ ~(s \notin linked /\ ProcessScript(s) /\ UNCHANGED <<requests, handleVars>>)
  <2>1. /\ requests' = Tail(requests) /\ UNCHANGED <<linking, linked, codeVars>>
        /\ mains' = IF stage = "custom" /\ s \in HasMain THEN With(mains, s, functionTable[s]) ELSE mains
        /\ inits' = IF stage = "custom" /\ s \in HasInit THEN With(inits, s, functionTable[s]) ELSE inits
    BY <1>9 DEF LoadScript
  <2>2. stage = "custom" => s \in promised
    BY <1>2, <1>4, <1>9 DEF RunInv, LoadInv, PromiseInv
  <2>3. /\ DOMAIN mains' = IF stage = "custom" /\ s \in HasMain THEN DOMAIN mains \cup {s} ELSE DOMAIN mains
        /\ DOMAIN inits' = IF stage = "custom" /\ s \in HasInit THEN DOMAIN inits \cup {s} ELSE DOMAIN inits
    BY <2>1 DEF With
  <2>4. stage = "link" => UNCHANGED handleVars
    BY <2>1 DEF handleVars
  <2> HIDE DEF s
  <2>5. stage = "custom" => /\ DOMAIN mains' \subseteq Mains /\ DOMAIN inits' \subseteq Inits
                            /\ s \in Mains => s \in DOMAIN mains'
                            /\ s \in Inits => s \in DOMAIN inits'
    BY <2>2, <2>3 DEF RunInv, PromiseInv, Mains, Inits
  <2>6. QED
    BY <1>8, <2>1, <2>3, <2>4, <2>5 DEF s
<1>10. CASE /\ s \notin linked /\ ~Finds(s)
            /\ requests' = Tail(requests)
            /\ UNCHANGED <<linking, linked, codeVars, handleVars>>
  <2>1. ~Loadable(s)
    BY <1>6, <1>10 DEF Finds, Compiles, Loadable
  <2> HIDE DEF s
  <2>2. stage = "custom" => s \notin promised
    BY <2>1 DEF RunInv, PromiseInv
  <2>3. QED
    BY <1>8, <1>10, <2>2 DEF RunInv, PromiseInv, Mains, Inits, handleVars, s
<1>11. QED
  BY <1>7, <1>9, <1>10 DEF LoadScript

LEMMA LinkKeepsRuns == RunInv /\ LinkFile => RunInv'
<1> SUFFICES ASSUME RunInv, LinkFile PROVE RunInv'
  OBVIOUS
<1>1. /\ linking # <<>> /\ searchPaths' = SearchPaths
      /\ UNCHANGED <<sources, stage, level, lobby, requests, mains, inits, left, ran, promised>>
  BY DEF LinkFile, CheckForStartup, levelVars, handleVars, runVars
<1>2. stage \in {"link", "custom"}
  BY <1>1 DEF RunInv, LoadInv
<1>3. CASE \E r : ProcessScript(r)
  BY <1>1, <1>2, <1>3, ProcessKeepsRuns
<1>4. CASE UNCHANGED <<linked, codeVars>>
  <2>1. LoadInv'
    BY <1>1, <1>2, <1>4, SameFiles DEF RunInv, LoadInv, codeVars
  <2>2. PromiseInv' /\ RanInv'
    BY <1>1, SameFiles DEF RunInv, PromiseInv, RanInv, Mains, Inits
  <2>3. QED
    BY <2>1, <2>2 DEF RunInv
<1>5. QED
  BY <1>3, <1>4 DEF LinkFile

LEMMA ShutdownKeepsRuns ==
  ASSUME ShutdownGame, searchPaths' \in {<<>>, SearchPaths}
  PROVE  RunInv'
<1>1. /\ requests' = <<>> /\ linking' = <<>> /\ linked' = {} /\ loadedScripts' = <<>>
      /\ mains' = <<>> /\ inits' = <<>> /\ ran' = NeverRan /\ promised' = {} /\ stage' = "off"
  BY DEF ShutdownGame, ClearLoading
<1>2. DOMAIN <<>> = {} /\ <<>> \in Seq(Scripts)
  OBVIOUS
<1>3. QED
  BY <1>1, <1>2 DEF RunInv, LoadInv, PromiseInv, RanInv

LEMMA BeginKeepsRuns == RunInv /\ BeginLoadScripts => RunInv'
<1> SUFFICES ASSUME RunInv, BeginLoadScripts PROVE RunInv'
  OBVIOUS
<1>1. /\ stage = "off" /\ stage' = "link" /\ requests' = SetToSeq(EngineScripts)
      /\ UNCHANGED <<searchPaths, sources, linking, linked, loadedScripts, mains, inits, ran, promised>>
  BY DEF BeginLoadScripts, fileVars, codeVars, handleVars, runVars
<1>2. requests' \in Seq(Scripts) /\ requests' # <<>>
  <2>1. IsFiniteSet(EngineScripts) /\ EngineScripts # {} /\ EngineScripts \subseteq Scripts
    <3>1. EngineScripts \in SUBSET Scripts /\ IsFiniteSet(Scripts) /\ EngineScripts # {}
      BY ScriptsAssumption
    <3>2. QED
      BY <3>1, FS_Subset
  <2>2. requests' \in Seq(EngineScripts) /\ Range(requests') = EngineScripts
    BY <1>1, <2>1, SetToSeqElements
  <2>3. Range(<<>>) = {}
    BY DEF Range
  <2>4. QED
    BY <2>1, <2>2, <2>3
<1>3. LoadInv'
  BY <1>1, <1>2 DEF RunInv, LoadInv
<1>4. PromiseInv' /\ RanInv'
  BY <1>1 DEF RunInv, PromiseInv, RanInv
<1>5. QED
  BY <1>3, <1>4 DEF RunInv

LEMMA PostKeepsRuns == RunInv /\ PostLoadScripts => RunInv'
<1> SUFFICES ASSUME RunInv, PostLoadScripts PROVE RunInv'
  OBVIOUS
<1>1. /\ stage = "link" /\ requests = <<>> /\ linking = <<>> /\ stage' = "custom"
      /\ requests' = IF lobby THEN <<>> ELSE ScriptFiles
      /\ promised' = IF lobby THEN {} ELSE Promise
      /\ UNCHANGED <<searchPaths, sources, level, lobby, linking, linked, loadedScripts, mains, inits, ran>>
  BY DEF PostLoadScripts, fileVars, codeVars, handleVars, runVars
<1>2. searchPaths = SearchPaths /\ DOMAIN mains = {} /\ DOMAIN inits = {} /\ ran = NeverRan
  BY <1>1 DEF RunInv, LoadInv, RanInv
<1>3. /\ requests' \in Seq(Scripts) /\ Range(requests') = Wanted
      /\ promised' = {s \in Wanted : Loadable(s)}
  <2>1. CASE lobby
    <3>1. requests' = <<>> /\ promised' = {} /\ Wanted = {}
      BY <1>1, <2>1 DEF Wanted
    <3>2. Range(<<>>) = {} /\ <<>> \in Seq(Scripts)
      BY DEF Range
    <3>3. QED
      BY <3>1, <3>2
  <2>2. CASE ~lobby
    BY <1>1, <1>2, <2>2, ScriptFilesAre, PromiseIs
  <2>3. QED
    BY <2>1, <2>2
<1>4. (\A s : Source(s)' = Source(s) /\ Loadable(s)' = Loadable(s)) /\ Wanted' = Wanted
  BY <1>1, SameFiles
<1>5. LoadInv'
  BY <1>1, <1>2, <1>3, <1>4 DEF RunInv, LoadInv
<1>6. PromiseInv'
  <2>1. Wanted \subseteq Scripts /\ (lobby => Wanted = {})
    BY DEF Wanted
  <2>2. QED
    BY <1>1, <1>2, <1>3, <1>4, <2>1 DEF PromiseInv, Mains, Inits
<1>7. RanInv'
  BY <1>1, <1>2 DEF RanInv
<1>8. QED
  BY <1>5, <1>6, <1>7 DEF RunInv

\* One more of the handles has run.
LEMMA OneMore ==
  ASSUME NEW S, NEW T \in SUBSET S, NEW s \in T \cap Scripts
  PROVE  [Once(S \ T) EXCEPT ![s] = @ + 1] = Once(S \ (T \ {s}))
<1> DEFINE f == [Once(S \ T) EXCEPT ![s] = @ + 1]
           g == Once(S \ (T \ {s}))
<1>1. DOMAIN f = Scripts /\ DOMAIN g = Scripts
  BY DEF Once
<1>2. ASSUME NEW r \in Scripts PROVE f[r] = g[r]
  <2>1. Once(S \ T)[s] = 0 /\ g[s] = 1
    BY DEF Once
  <2>2. f[s] = 1
    BY <2>1 DEF Once
  <2>3. r # s => f[r] = Once(S \ T)[r] /\ Once(S \ T)[r] = g[r]
    BY DEF Once
  <2>4. QED
    BY <2>1, <2>2, <2>3
<1>3. f = [r \in Scripts |-> f[r]] /\ g = [r \in Scripts |-> g[r]]
  BY DEF Once
<1> HIDE DEF f, g
<1>4. QED
  BY <1>2, <1>3 DEF f, g

\* The steps after the last script is loaded
LEMMA PlayKeepsRuns ==
  RunInv /\ (EndLoadScripts \/ LoadStructs \/ RunMain \/ LoadLevel \/ RunInit \/ LevelRuns \/ FastRestart)
    => RunInv'
<1> SUFFICES ASSUME RunInv,
                    EndLoadScripts \/ LoadStructs \/ RunMain \/ LoadLevel \/ RunInit \/ LevelRuns \/ FastRestart
             PROVE  RunInv'
  OBVIOUS
<1>1. /\ UNCHANGED <<searchPaths, sources, level, lobby, requests, linking, linked, loadedScripts, mains, inits, promised>>
      /\ \/ stage = "custom" /\ requests = <<>> /\ linking = <<>> /\ stage' = "ready" /\ ran' = ran
         \/ stage \notin {"off", "link", "custom"} /\ stage' \in {"ready", "mains", "inits", "play"}
  BY DEF EndLoadScripts, LoadStructs, RunMain, LoadLevel, RunInit, LevelRuns, FastRestart,
         fileVars, levelVars, linkVars, codeVars, handleVars, runVars
<1>2. Mains' = Mains /\ Inits' = Inits
  BY <1>1 DEF Mains, Inits
<1>3. LoadInv'
  BY <1>1 DEF RunInv, LoadInv
<1>4. PromiseInv'
  <2>1. CASE stage = "custom" /\ requests = <<>> /\ stage' = "ready"
    <3>1. Range(<<>>) = {}
      BY DEF Range
    <3>2. DOMAIN mains = Mains /\ DOMAIN inits = Inits /\ promised \subseteq Scripts /\ (lobby => promised = {})
      BY <2>1, <3>1 DEF RunInv, PromiseInv
    <3>3. QED
      BY <1>1, <1>2, <2>1, <3>2 DEF PromiseInv
  <2>2. CASE stage \notin {"off", "link", "custom"} /\ stage' \in {"ready", "mains", "inits", "play"}
    <3>1. stage \in {"ready", "mains", "inits", "play"}
      BY <2>2 DEF RunInv, LoadInv
    <3>2. QED
      BY <1>1, <1>2, <2>2, <3>1 DEF RunInv, PromiseInv
  <2>3. QED
    BY <1>1, <2>1, <2>2
<1>5. Mains \subseteq Scripts /\ Inits \subseteq Scripts
  BY DEF RunInv, PromiseInv, Mains, Inits
<1>6. \A S : Once(S \ S) = Never /\ Once(S \ {}) = Once(S)
  BY DEF Once, Never
<1>7. RanInv'
  <2>1. CASE EndLoadScripts \/ FastRestart
    BY <2>1 DEF EndLoadScripts, FastRestart, runVars, RunInv, RanInv
  <2>2. CASE LoadStructs
    <3>1. stage = "ready" /\ stage' = "mains" /\ left' = (IF lobby THEN {} ELSE DOMAIN mains) /\ ran' = ran
      BY <2>2 DEF LoadStructs
    <3>2. left' = Mains /\ ran' = [main |-> Never, init |-> Never]
      BY <3>1 DEF RunInv, PromiseInv, RanInv, NeverRan, Mains
    <3>3. QED
      BY <1>2, <1>6, <3>1, <3>2 DEF RanInv
  <2>3. CASE RunMain
    <3>1. PICK s \in left : stage = "mains" /\ left' = left \ {s} /\ ran' = [ran EXCEPT !.main[s] = @ + 1]
      BY <2>3 DEF RunMain
    <3>2. stage' = "mains"
      BY <2>3, <3>1 DEF RunMain, levelVars
    <3>3. left \subseteq Mains /\ ran = [main |-> Once(Mains \ left), init |-> Never]
      BY <3>1 DEF RunInv, RanInv
    <3>4. ran' = [main |-> [Once(Mains \ left) EXCEPT ![s] = @ + 1], init |-> Never]
      BY <3>1, <3>3
    <3>5. [Once(Mains \ left) EXCEPT ![s] = @ + 1] = Once(Mains \ (left \ {s}))
      BY <1>5, <3>1, <3>3, OneMore
    <3>6. QED
      BY <1>2, <3>1, <3>2, <3>3, <3>4, <3>5 DEF RanInv
  <2>4. CASE LoadLevel
    <3>1. stage = "mains" /\ stage' = "inits" /\ left = {} /\ left' = (IF lobby THEN {} ELSE DOMAIN inits) /\ ran' = ran
      BY <2>4 DEF LoadLevel
    <3>2. left' = Inits /\ ran' = [main |-> Once(Mains), init |-> Never]
      BY <1>6, <3>1 DEF RunInv, PromiseInv, RanInv, Inits
    <3>3. QED
      BY <1>2, <1>6, <3>1, <3>2 DEF RanInv
  <2>5. CASE RunInit
    <3>1. PICK s \in left : stage = "inits" /\ left' = left \ {s} /\ ran' = [ran EXCEPT !.init[s] = @ + 1]
      BY <2>5 DEF RunInit
    <3>2. stage' = "inits"
      BY <2>5, <3>1 DEF RunInit, levelVars
    <3>3. left \subseteq Inits /\ ran = [main |-> Once(Mains), init |-> Once(Inits \ left)]
      BY <3>1 DEF RunInv, RanInv
    <3>4. ran' = [main |-> Once(Mains), init |-> [Once(Inits \ left) EXCEPT ![s] = @ + 1]]
      BY <3>1, <3>3
    <3>5. [Once(Inits \ left) EXCEPT ![s] = @ + 1] = Once(Inits \ (left \ {s}))
      BY <1>5, <3>1, <3>3, OneMore
    <3>6. QED
      BY <1>2, <3>1, <3>2, <3>3, <3>4, <3>5 DEF RanInv
  <2>6. CASE LevelRuns
    BY <1>2, <1>6, <2>6 DEF LevelRuns, runVars, RunInv, RanInv
  <2>7. QED
    BY <2>1, <2>2, <2>3, <2>4, <2>5, <2>6
<1>8. QED
  BY <1>3, <1>4, <1>7 DEF RunInv

LEMMA RunStep == RunInv /\ [ScriptsNext]_scriptVars => RunInv'
<1> SUFFICES ASSUME RunInv, [ScriptsNext]_scriptVars PROVE RunInv'
  OBVIOUS
<1>1. CASE CompileError \/ EndLevel
  <2>1. ShutdownGame /\ searchPaths' \in {searchPaths, SearchPaths}
    BY <1>1 DEF CompileError, CheckForStartup, EndLevel, fileVars
  <2>2. QED
    BY <2>1, ShutdownKeepsRuns DEF RunInv, LoadInv
<1>2. CASE EditFile
  <2>1. /\ stage \in {"off", "play"}
        /\ UNCHANGED <<searchPaths, stage, level, lobby, requests, linking, linked, loadedScripts, mains, inits, left, ran, promised>>
    BY <1>2 DEF EditFile, levelVars, linkVars, codeVars, handleVars, runVars
  <2>2. QED
    BY <2>1 DEF RunInv, LoadInv, PromiseInv, RanInv, Mains, Inits
<1>3. CASE UNCHANGED scriptVars
  <2>1. UNCHANGED <<searchPaths, sources, stage, level, lobby, requests, linking, linked, loadedScripts, mains, inits, left, ran, promised>>
    BY <1>3 DEF scriptVars, fileVars, levelVars, linkVars, codeVars, handleVars, runVars
  <2>2. QED
    BY <2>1, SameFiles DEF RunInv, LoadInv, PromiseInv, RanInv, Mains, Inits
<1>4. QED
  BY <1>1, <1>2, <1>3, LoadKeepsRuns, LinkKeepsRuns, BeginKeepsRuns, PostKeepsRuns, PlayKeepsRuns
     DEF ScriptsNext

\* However scripts refer to each other, whichever files fail to compile or lie in
\* several paths, and however often a level ends or is restarted: when it runs, main
\* and init of the scripts its folders promised have run once, and no others
\* (script_loading.cpp:169-349).
THEOREM PromisedScriptsRun == ScriptsSpec => []RunsItsScripts
<1>1. RunInv => RunsItsScripts
  BY DEF RunInv, RanInv, RunsItsScripts, Once, Mains, Inits
<1>2. QED
  BY <1>1, RunsInitially, RunStep, PTL DEF ScriptsSpec

----------------------------------------------------------------------------
(* ui_scripting.cpp: what a script's require finds *)

Known(script) == \E p \in knownScripts : p[1] = script

\* What package.loaded has is of the root that asked for it first.
PackagesInv ==
  /\ \A name \in DOMAIN packages : packages[name].got = Beside(packages[name].root, name)
  /\ given.name \in DOMAIN packages => given.got = packages[given.name].got

\* A known script lies beside its root, which is known too; what runs is known
\* or the engine's; a require that is under way is that of the innermost call.
RequireInv ==
  /\ \A p \in knownScripts : p[1] = <<p[1][1], p[1][2]>> /\ p[2] = p[1][1] /\ p[2] \in Roots
                             /\ Known(RootScript(p[2]))
  /\ \A script \in loaded : script = EngineScript \/ Known(script)
  /\ calls \in Seq(loaded)
  /\ ~running => calls = <<>>
  /\ required # NoModule => calls # <<>> /\ inRequireScript = Last(calls)[1]
  /\ required = NoModule => found = "no"
  /\ found = "no" => rawScript = {}
  /\ found # "no" => IF <<inRequireScript, required>> \in Files
                     THEN rawScript = {<<inRequireScript, required>>} ELSE rawScript = {}
  /\ rawScript # {} => Known(RootScript(inRequireScript))
  /\ starting \subseteq Roots
  /\ PackagesInv

LEMMA RequireInitially == UiInit => RequireInv
<1> SUFFICES ASSUME UiInit PROVE RequireInv
  OBVIOUS
<1>1. QED
  BY DEF UiInit, RequireInv, PackagesInv

LEMMA RequireRoot ==
  ASSUME RequireInv, NEW script, script = EngineScript \/ Known(script)
  PROVE  RootOf(script) = script[1]
<1>1. CASE Known(script)
  BY <1>1 DEF RootOf, RequireInv, Known
<1>2. CASE ~Known(script)
  BY <1>2 DEF RootOf, Known, EngineScript
<1>3. QED
  BY <1>1, <1>2
LEMMA LastCall ==
  ASSUME RequireInv, calls # <<>>
  PROVE  Last(calls) = EngineScript \/ Known(Last(calls))
<1>1. Len(calls) \in DOMAIN calls
  BY DEF RequireInv
<1>2. calls[Len(calls)] \in loaded
  BY <1>1, ElementOfSeq DEF RequireInv
<1>3. QED
  BY <1>2 DEF Last, RequireInv

LEMMA FrontIsSeq ==
  ASSUME NEW S, NEW s \in Seq(S), s # <<>>
  PROVE  Front(s) \in Seq(S)
BY DEF Front

LEMMA RequireStep == RequireInv /\ [UiNext]_uiVars => RequireInv'
<1> SUFFICES ASSUME RequireInv, [UiNext]_uiVars PROVE RequireInv'
  OBVIOUS
<1>1. CASE Require
  <2>1. calls # <<>> /\ required = NoModule /\ found' = "no"
        /\ UNCHANGED <<running, starting, knownScripts, rawScript, calls, loaded, packages>>
        /\ (given' = given \/ \E name \in DOMAIN packages : given' = [name |-> name, got |-> packages[name].got])
    BY <1>1 DEF Require
  <2>2. inRequireScript' = Last(calls)[1]
    BY <1>1, <2>1, LastCall, RequireRoot DEF Require, SetRequirer
  <2>3. rawScript = {}
    BY <2>1 DEF RequireInv
  <2>4. PackagesInv'
    BY <2>1 DEF RequireInv, PackagesInv
  <2>5. QED
    BY <2>1, <2>2, <2>3, <2>4 DEF RequireInv, Known
<1>2. CASE FindAsset
  <2>1. /\ required # NoModule /\ found = "no" /\ rawScript = {}
        /\ UNCHANGED <<running, starting, inRequireScript, knownScripts, loaded, packages, given>>
    BY <1>2 DEF FindAsset, RequireInv
  <2>2. calls # <<>> /\ inRequireScript = Last(calls)[1]
    BY <2>1 DEF RequireInv
  <2>3. CASE /\ \A p \in knownScripts : p[1] # RootScript(inRequireScript)
             /\ found' = "asset" /\ UNCHANGED <<rawScript, required, calls>>
    <3>1. <<inRequireScript, required>> \notin Files
      <4>1. CASE Last(calls) = EngineScript
        BY <2>2, <4>1, UiScriptingAssumption DEF EngineScript
      <4>2. CASE Known(Last(calls))
        BY <2>2, <2>3, <4>2 DEF RequireInv, Known
      <4>3. QED
        BY <2>2, <4>1, <4>2, LastCall
    <3>2. QED
      BY <2>1, <2>3, <3>1 DEF RequireInv, Known, PackagesInv
  <2>4. CASE /\ ~ \A p \in knownScripts : p[1] # RootScript(inRequireScript)
             /\ <<inRequireScript, required>> \in Files
             /\ rawScript' = {<<inRequireScript, required>>} /\ found' = "raw"
             /\ UNCHANGED <<required, calls>>
    BY <2>1, <2>4 DEF RequireInv, Known, PackagesInv
  <2>5. CASE /\ <<inRequireScript, required>> \notin Files
             /\ found' = "asset" /\ UNCHANGED <<rawScript, required, calls>>
    BY <2>1, <2>5 DEF RequireInv, Known, PackagesInv
  <2>6. CASE ScriptError /\ UNCHANGED rawScript
    <3>1. calls' \in Seq(loaded) /\ required' = NoModule /\ found' = "no"
      BY <2>6 DEF ScriptError, RequireInv
    <3>2. running
      BY <2>2 DEF RequireInv
    <3>3. QED
      BY <2>1, <2>6, <3>1, <3>2 DEF RequireInv, Known, PackagesInv
  <2>7. QED
    BY <1>2, <2>3, <2>4, <2>5, <2>6 DEF FindAsset
<1>3. CASE HksLoad
  <2> DEFINE got == IF rawScript # {} THEN CHOOSE s \in rawScript : TRUE ELSE EngineScript
  <2>1. /\ found # "no" /\ rawScript' = {} /\ UNCHANGED <<running, inRequireScript>>
        /\ knownScripts' = IF rawScript = {} THEN knownScripts
                           ELSE knownScripts \cup {<<got, inRequireScript>>}
        /\ starting' = starting
    BY <1>3 DEF HksLoad
  <2>2. required # NoModule /\ calls # <<>> /\ inRequireScript = Last(calls)[1] /\ running
    BY <2>1 DEF RequireInv
  <2>3. got = Beside(inRequireScript, required)
    BY <2>1 DEF RequireInv, Beside
  <2>4. rawScript # {} <=> <<inRequireScript, required>> \in Files
    BY <2>1 DEF RequireInv
  <2>5. ASSUME packages' = [name \in DOMAIN packages \cup {required} |->
                             IF name = required THEN [root |-> Last(calls)[1], got |-> got]
                             ELSE packages[name]],
               given' = [name |-> required, got |-> got]
        PROVE  PackagesInv'
    <3> HIDE DEF got
    <3>1. \A name \in DOMAIN packages' : packages'[name].got = Beside(packages'[name].root, name)
      BY <2>2, <2>3, <2>5 DEF RequireInv, PackagesInv
    <3>2. given'.name \in DOMAIN packages' /\ given'.got = packages'[given'.name].got
      BY <2>5
    <3>3. QED
      BY <3>1, <3>2 DEF PackagesInv
  <2>6. \A script : Known(script) => Known(script)'
    BY <2>1 DEF Known
  <2>7. got = EngineScript \/ \E p \in knownScripts' : p[1] = got
    <3>1. rawScript = {} => got = EngineScript
      OBVIOUS
    <3>2. rawScript # {} => <<got, inRequireScript>> \in knownScripts'
      BY <2>1
    <3>3. QED
      BY <3>1, <3>2
  <2>8. \A p \in knownScripts' :
          p[1] = <<p[1][1], p[1][2]>> /\ p[2] = p[1][1] /\ p[2] \in Roots /\ Known(RootScript(p[2]))'
    <3>1. CASE rawScript = {}
      BY <2>1, <2>6, <3>1 DEF RequireInv
    <3>2. CASE rawScript # {}
      <4>1. got = <<inRequireScript, required>> /\ inRequireScript \in Roots
        BY <2>3, <2>4, <3>2, UiScriptingAssumption DEF Beside
      <4>2. Known(RootScript(inRequireScript))'
        BY <2>1, <2>6, <3>2 DEF RequireInv
      <4> HIDE DEF got
      <4>3. QED
        BY <2>1, <2>6, <3>2, <4>1, <4>2 DEF RequireInv
    <3>3. QED
      BY <3>1, <3>2
  <2>9. CASE /\ calls' = Append(calls, got) /\ loaded' = loaded \cup {got}
             /\ required' = NoModule /\ found' = "no" /\ PackagesInv'
    <3>1. \A script \in loaded' : script = EngineScript \/ Known(script)'
      BY <2>6, <2>7, <2>9 DEF RequireInv, Known
    <3>2. calls' \in Seq(loaded')
      BY <2>9 DEF RequireInv
    <3>3. QED
      BY <2>1, <2>2, <2>8, <2>9, <3>1, <3>2 DEF RequireInv
  <2>10. CASE ScriptError /\ UNCHANGED <<packages, loaded, given>>
    <3>1. calls' \in Seq(loaded) /\ required' = NoModule /\ found' = "no"
      BY <2>10 DEF ScriptError, RequireInv
    <3>2. \A script \in loaded' : script = EngineScript \/ Known(script)'
      BY <2>6, <2>10 DEF RequireInv
    <3>3. QED
      BY <2>1, <2>2, <2>8, <2>10, <3>1, <3>2 DEF RequireInv, PackagesInv
  <2>11. QED
    BY <1>3, <2>5, <2>9, <2>10 DEF HksLoad
<1>4. CASE Start
  <2>1. /\ calls = <<>> /\ knownScripts' = {} /\ rawScript' = {} /\ loaded' = {EngineScript}
        /\ starting' = Roots /\ packages' = <<>> /\ UNCHANGED <<calls, required, found, given>>
    BY <1>4 DEF Start, requireVars, RequireInv
  <2>2. required = NoModule
    BY <2>1 DEF RequireInv
  <2>3. QED
    BY <2>1, <2>2 DEF RequireInv, Known, PackagesInv
<1>5. CASE LoadRoot
  <2>1. PICK r \in starting :
          /\ starting' = starting \ {r}
          /\ knownScripts' = knownScripts \cup {<<RootScript(r), r>>}
          /\ \/ calls' = <<RootScript(r)>> /\ loaded' = loaded \cup {RootScript(r)}
             \/ UNCHANGED <<calls, loaded>>
    BY <1>5 DEF LoadRoot
  <2>2. running /\ calls = <<>> /\ UNCHANGED <<running, inRequireScript, rawScript, required, found, packages, given>>
    BY <1>5 DEF LoadRoot, requireVars
  <2>3. required = NoModule /\ found = "no" /\ rawScript = {}
    BY <2>2 DEF RequireInv
  <2>4. \A script : Known(script) => Known(script)'
    BY <2>1 DEF Known
  <2>5. r \in Roots /\ <<RootScript(r), r>> \in knownScripts'
    BY <2>1 DEF RequireInv
  <2>5a. Known(RootScript(r))'
    BY <2>5 DEF Known, RootScript
  <2>6. \A p \in knownScripts' :
          p[1] = <<p[1][1], p[1][2]>> /\ p[2] = p[1][1] /\ p[2] \in Roots /\ Known(RootScript(p[2]))'
    BY <2>1, <2>4, <2>5, <2>5a DEF RequireInv, RootScript
  <2>7. \A script \in loaded' : script = EngineScript \/ Known(script)'
    BY <2>1, <2>4, <2>5a DEF RequireInv
  <2>8. calls' \in Seq(loaded')
    <3>1. <<>> \in Seq(loaded)
      OBVIOUS
    <3>2. <<RootScript(r)>> \in Seq(loaded \cup {RootScript(r)})
      OBVIOUS
    <3>3. QED
      BY <2>1, <2>2, <3>1, <3>2
  <2>9. QED
    BY <2>1, <2>2, <2>3, <2>6, <2>7, <2>8 DEF RequireInv, PackagesInv
<1>6. CASE Call \/ Return
  <2>1. /\ required = NoModule
        /\ UNCHANGED <<running, starting, inRequireScript, knownScripts, rawScript, required, found, loaded, packages, given>>
    BY <1>6 DEF Call, Return, globalVars, requireVars
  <2>2. running
    BY <1>6 DEF Call, Return, RequireInv
  <2>3. calls' \in Seq(loaded)
    <3>1. CASE Call
      BY <3>1 DEF Call, RequireInv
    <3>2. CASE Return
      BY <3>2, FrontIsSeq DEF Return, RequireInv
    <3>3. QED
      BY <1>6, <3>1, <3>2
  <2>4. QED
    BY <2>1, <2>2, <2>3 DEF RequireInv, Known, PackagesInv
<1>7. CASE Shutdown
  <2>1. /\ calls = <<>> /\ knownScripts' = {} /\ rawScript' = {} /\ loaded' = {} /\ running' = FALSE
        /\ UNCHANGED <<starting, calls, required, found, packages, given>>
    BY <1>7 DEF Shutdown, requireVars
  <2>2. required = NoModule /\ calls' \in Seq(loaded')
    BY <2>1 DEF RequireInv
  <2>3. QED
    BY <2>1, <2>2 DEF RequireInv, Known, PackagesInv
<1>8. CASE UNCHANGED uiVars
  BY <1>8 DEF uiVars, globalVars, requireVars, RequireInv, Known, PackagesInv
<1>9. QED
  BY <1>1, <1>2, <1>3, <1>4, <1>5, <1>6, <1>7, <1>8 DEF UiNext

\* The globals of three hooks pass on the right requirer: a name is loaded from
\* beside the root of the script that required it first, or by the engine, and
\* every other script is given the same, however calls, loads and errors nest
\* (ui_scripting.cpp:286-332).
THEOREM FirstRequireDecides == UiSpec => []RequireIsOfFirst
<1>1. RequireInv => RequireIsOfFirst
  BY DEF RequireInv, PackagesInv, RequireIsOfFirst
<1>2. QED
  BY <1>1, RequireInitially, RequireStep, PTL DEF UiSpec

----------------------------------------------------------------------------
(* byte_buffer.cpp: where the fields lie *)

Octet == 0 .. 255

\* From a place on the buffer has the bytes of s.
HoldsAt(b, from, s) ==
  from + Len(s) <= Len(b) /\ \A j \in 1 .. Len(s) : b[from + j] = s[j]

\* Where the fields w lie in b, if marked is the setting: each behind the one before
LaidOut(begins, w, b, marked) ==
  /\ begins \in [1 .. Len(w) + 1 -> Nat]
  /\ begins[1] = 0 /\ begins[Len(w) + 1] = Len(b)
  /\ \A i \in 1 .. Len(w) :
       /\ begins[i + 1] = begins[i] + Len(Encoded(marked, w[i]))
       /\ HoldsAt(b, begins[i], Encoded(marked, w[i]))

\* Up to an array without types the reader stands where the next field begins.
ByteInv ==
  /\ types \in BOOLEAN /\ readerTypes \in BOOLEAN /\ reading \in BOOLEAN
  /\ bytes \in Seq(Octet) /\ written \in Seq(ByteFields)
  /\ \E S : read \in Seq(S)
  /\ Len(read) <= Len(written)
  /\ ~reading => read = <<>> /\ readerTypes = types /\ currentByte = 0
  /\ \E begins : /\ LaidOut(begins, written, bytes, types)
                 /\ ArraysMarked(Len(read)) => currentByte = begins[Len(read) + 1] /\ readerTypes = types
  /\ BytesReadBack

LEMMA ShiftedNumber ==
  ASSUME NEW n \in Nat
  PROVE  Shifted(n) \in Nat /\ n % 256 \in Octet /\ n = (n % 256) + 256 * Shifted(n)
BY SMT DEF Shifted, Octet

LEMMA Uint32Bytes ==
  ASSUME NEW n \in Nat, n <= MaxInt
  PROVE  /\ Uint32(n) \in Seq(Octet) /\ Len(Uint32(n)) = 4
         /\ n = Uint32(n)[1] + 256 * (Uint32(n)[2] + 256 * (Uint32(n)[3] + 256 * Uint32(n)[4]))
<1> DEFINE b == Shifted(n)
           c == Shifted(b)
           d == Shifted(c)
<1>1. n \in Nat
  OBVIOUS
<1>2. b \in Nat /\ n % 256 \in Octet /\ n = (n % 256) + 256 * b
  BY <1>1, ShiftedNumber
<1>3. c \in Nat /\ b % 256 \in Octet /\ b = (b % 256) + 256 * c
  BY <1>2, ShiftedNumber
<1>4. d \in Nat /\ c % 256 \in Octet /\ c = (c % 256) + 256 * d
  BY <1>3, ShiftedNumber
<1>5. d \in Octet
  <2> HIDE DEF b, c, d
  <2>1. n <= 2147483647
    BY SMT DEF MaxInt
  <2>2. QED
    BY <1>2, <1>3, <1>4, <2>1, SMT DEF Octet
<1>6. Uint32(n) = <<n % 256, b % 256, c % 256, d>>
  BY DEF Uint32
<1> HIDE DEF b, c, d
<1>7. QED
  BY <1>2, <1>3, <1>4, <1>5, <1>6, SMT

LEMMA MarkerBytes ==
  ASSUME NEW marked \in BOOLEAN, NEW kind \in DOMAIN ByteMarker
  PROVE  /\ Marker(marked, kind) \in Seq(Octet)
         /\ Len(Marker(marked, kind)) = IF marked THEN 1 ELSE 0
         /\ marked => Marker(marked, kind)[1] = ByteMarker[kind]
<1>1. ByteMarker[kind] \in Octet
  BY DEF ByteMarker, Octet
<1>2. QED
  BY <1>1 DEF Marker

LEMMA FieldKinds ==
  ASSUME NEW field \in ByteFields
  PROVE  /\ field.kind \in DOMAIN ByteMarker
         /\ \/ /\ field.kind \in DOMAIN Fixed /\ field.value \in Seq(Octet)
               /\ Len(field.value) = Fixed[field.kind]
            \/ field.kind = "string" /\ field.value \in Seq(1 .. 255)
            \/ field.kind = "blob" /\ field.value \in Seq(Octet) /\ Len(field.value) <= MaxInt
            \/ field.kind = "array" /\ field.value \in Seq(1 .. MaxInt \div 4) /\ Len(field.value) = 1
BY ByteFieldsAssumption DEF ByteMarker, Fixed, Octet

LEMMA Parts ==
  ASSUME bytes \in Seq(Octet), NEW from \in Nat, NEW a \in Seq(Octet), NEW b \in Seq(Octet),
         HoldsAt(bytes, from, a \o b)
  PROVE  HoldsAt(bytes, from, a) /\ HoldsAt(bytes, from + Len(a), b)
<1> DEFINE ab == a \o b
<1>1. /\ ab \in Seq(Octet) /\ Len(ab) = Len(a) + Len(b)
      /\ \A j \in 1 .. Len(a) : ab[j] = a[j]
      /\ \A j \in 1 .. Len(b) : ab[Len(a) + j] = b[j]
  BY Concatenated
<1>2. from + Len(ab) <= Len(bytes) /\ \A j \in 1 .. Len(ab) : bytes[from + j] = ab[j]
  BY DEF HoldsAt
<1> HIDE DEF ab
<1>3. ASSUME NEW j \in 1 .. Len(a) PROVE bytes[from + j] = a[j]
  <2>1. j \in 1 .. Len(ab)
    BY <1>1
  <2>2. QED
    BY <1>1, <1>2, <2>1, Zenon
<1>4. ASSUME NEW j \in 1 .. Len(b) PROVE bytes[from + Len(a) + j] = b[j]
  <2>1. Len(a) + j \in 1 .. Len(ab) /\ from + (Len(a) + j) = from + Len(a) + j
    BY <1>1
  <2>2. bytes[from + (Len(a) + j)] = ab[Len(a) + j]
    BY <1>2, <2>1, Zenon
  <2>3. QED
    BY <1>1, <2>1, <2>2, Zenon
<1>5. from + Len(a) <= Len(bytes) /\ from + Len(a) + Len(b) <= Len(bytes)
  BY <1>1, <1>2
<1>6. QED
  BY <1>3, <1>4, <1>5 DEF HoldsAt

LEMMA BytesHeld ==
  ASSUME bytes \in Seq(Octet), NEW from \in Nat, NEW s \in Seq(Octet), HoldsAt(bytes, from, s)
  PROVE  Bytes(from, Len(s)) = s
<1>1. from + Len(s) <= Len(bytes) /\ \A j \in 1 .. Len(s) : bytes[from + j] = s[j]
  BY DEF HoldsAt
<1> DEFINE t == SubSeq(bytes, from + 1, from + Len(s))
<1>2. t \in Seq(Octet) /\ Len(t) = Len(s) /\ \A j \in 1 .. Len(s) : t[j] = bytes[from + j]
  BY <1>1
<1> HIDE DEF t
<1>3. t = s
  BY <1>1, <1>2, SeqEqual
<1>4. QED
  BY <1>3 DEF Bytes, t

LEMMA NumberHeld ==
  ASSUME bytes \in Seq(Octet), NEW from \in Nat, NEW n \in Nat, n <= MaxInt, HoldsAt(bytes, from, Uint32(n))
  PROVE  Number(from) = n /\ Len(Uint32(n)) = 4
<1> DEFINE u == Uint32(n)
<1>1. u \in Seq(Octet) /\ Len(u) = 4 /\ n = u[1] + 256 * (u[2] + 256 * (u[3] + 256 * u[4]))
  BY Uint32Bytes
<1>2. \A j \in 1 .. Len(u) : bytes[from + j] = u[j]
  BY DEF HoldsAt
<1> HIDE DEF u
<1>3. bytes[from + 1] = u[1] /\ bytes[from + 2] = u[2] /\ bytes[from + 3] = u[3] /\ bytes[from + 4] = u[4]
  BY <1>1, <1>2
<1>4. QED
  BY <1>1, <1>3 DEF Number, u

LEMMA MarkerHeld ==
  ASSUME bytes \in Seq(Octet), NEW from \in Nat, NEW marked \in BOOLEAN, NEW kind \in DOMAIN ByteMarker,
         HoldsAt(bytes, from, Marker(marked, kind))
  PROVE  marked => HasMarker(from, kind)
<1> SUFFICES ASSUME marked PROVE HasMarker(from, kind)
  OBVIOUS
<1> DEFINE m == Marker(marked, kind)
<1>1. Len(m) = 1 /\ m[1] = ByteMarker[kind]
  BY MarkerBytes
<1>2. from + Len(m) <= Len(bytes) /\ \A j \in 1 .. Len(m) : bytes[from + j] = m[j]
  BY DEF HoldsAt
<1> HIDE DEF m
<1>3. QED
  BY <1>1, <1>2 DEF HasMarker

\* Where a field begins the reader finds its marker; it reads what the field
\* means and comes to its end.
ReadsField(field) ==
  /\ Encoded(types, field) \in Seq(Octet) /\ Meaning(field) \in Seq(Int)
  /\ /\ field.kind = "array" => types
     /\ currentByte \in Nat /\ HoldsAt(bytes, currentByte, Encoded(types, field))
     => /\ Readable(field)
        /\ ReadField(field) => /\ read' = Append(read, Meaning(field))
                               /\ currentByte' = currentByte + Len(Encoded(types, field))

LEMMA MarkBytes ==
  ASSUME types \in BOOLEAN, readerTypes = types, NEW kind \in DOMAIN ByteMarker
  PROVE  /\ Marker(types, kind) \in Seq(Octet) /\ Len(Marker(types, kind)) = Marks /\ Marks \in Nat
BY MarkerBytes DEF Marks

LEMMA FixedRead ==
  ASSUME types \in BOOLEAN, readerTypes = types, bytes \in Seq(Octet),
         NEW field \in ByteFields, field.kind \in DOMAIN Fixed
  PROVE  ReadsField(field)
<1> DEFINE mark == Marker(types, field.kind)
           content == field.value
           whole == Encoded(types, field)
<1>1. /\ content \in Seq(Octet) /\ Len(content) = Fixed[field.kind] /\ field.kind \in DOMAIN ByteMarker
      /\ field.kind \notin {"string", "blob", "array"}
  BY FieldKinds DEF Fixed
<1>2. mark \in Seq(Octet) /\ Len(mark) = Marks /\ Marks \in Nat
  BY <1>1, MarkBytes
<1>3. whole = mark \o content
  BY <1>1 DEF Encoded
<1>4. Meaning(field) = content
  BY <1>1 DEF Meaning
<1> HIDE DEF mark, content, whole
<1>5. whole \in Seq(Octet) /\ Len(whole) = Len(mark) + Len(content)
  <2>1. mark \in Seq(Octet) /\ content \in Seq(Octet)
    BY <1>1, <1>2
  <2>2. mark \o content \in Seq(Octet) /\ Len(mark \o content) = Len(mark) + Len(content)
    BY ONLY <2>1, Concatenated
  <2>3. QED
    BY <1>3, <2>2, Zenon
<1>6. content \in Seq(Int)
  <2>1. Octet \subseteq Int
    BY DEF Octet
  <2>2. QED
    BY <1>1, <2>1, SeqMonotonic, Zenon
<1>7. ASSUME currentByte \in Nat, HoldsAt(bytes, currentByte, whole)
      PROVE  /\ Readable(field)
             /\ ReadField(field) => read' = Append(read, content) /\ currentByte' = currentByte + Len(whole)
  <2> DEFINE from == currentByte + Marks
  <2>1. HoldsAt(bytes, currentByte, mark) /\ HoldsAt(bytes, from, content)
    BY <1>1, <1>2, <1>3, <1>7, Parts
  <2>2. types => HasMarker(currentByte, field.kind)
    BY <1>1, <1>7, <2>1, MarkerHeld DEF mark
  <2>3. from \in Nat
    BY <1>2, <1>7
  <2>4. Bytes(from, Fixed[field.kind]) = content
    BY <1>1, <2>1, <2>3, BytesHeld
  <2>5. from + Fixed[field.kind] <= Len(bytes)
    BY <1>1, <2>1 DEF HoldsAt
  <2>6. Readable(field)
    BY <1>1, <2>2, <2>5 DEF Readable
  <2>7. from + Fixed[field.kind] = currentByte + Len(whole)
    BY <1>1, <1>2, <1>5, <1>7
  <2>8. ReadField(field) => read' = Append(read, Bytes(from, Fixed[field.kind]))
                            /\ currentByte' = from + Fixed[field.kind]
    BY <1>1 DEF ReadField
  <2>9. QED
    BY <2>4, <2>6, <2>7, <2>8
<1>8. QED
  BY <1>4, <1>5, <1>6, <1>7 DEF ReadsField, whole

LEMMA StringRead ==
  ASSUME types \in BOOLEAN, readerTypes = types, bytes \in Seq(Octet),
         NEW field \in ByteFields, field.kind = "string"
  PROVE  ReadsField(field)
<1> DEFINE mark == Marker(types, "string")
           content == field.value
           zero == <<0>>
           whole == Encoded(types, field)
<1>1. content \in Seq(1 .. 255) /\ "string" \in DOMAIN ByteMarker /\ "string" \notin DOMAIN Fixed
  BY FieldKinds DEF Fixed, ByteMarker
<1>2. mark \in Seq(Octet) /\ Len(mark) = Marks /\ Marks \in Nat
  BY <1>1, MarkBytes
<1>3. content \in Seq(Octet) /\ content \in Seq(Int) /\ zero \in Seq(Octet) /\ Len(zero) = 1 /\ zero[1] = 0
  <2>1. content \in Seq(Octet)
    BY <1>1 DEF Octet
  <2>2. content \in Seq(Int)
    <3>1. Octet \subseteq Int
      BY DEF Octet
    <3>2. QED
      BY <2>1, <3>1, SeqMonotonic, Zenon
  <2>3. zero \in Seq(Octet) /\ Len(zero) = 1 /\ zero[1] = 0
    BY DEF Octet
  <2>4. QED
    BY <2>1, <2>2, <2>3
<1>4. whole = (mark \o content) \o zero
  BY DEF Encoded
<1>5. Meaning(field) = content
  BY DEF Meaning
<1> HIDE DEF mark, content, zero, whole
<1>6. mark \o content \in Seq(Octet) /\ Len(mark \o content) = Len(mark) + Len(content)
  BY <1>2, <1>3, Concatenated, Zenon
<1>7. whole \in Seq(Octet) /\ Len(whole) = Len(mark \o content) + Len(zero)
  BY <1>3, <1>4, <1>6, Concatenated, Zenon
<1>8. ASSUME currentByte \in Nat, HoldsAt(bytes, currentByte, whole)
      PROVE  /\ Readable(field)
             /\ ReadField(field) => read' = Append(read, content) /\ currentByte' = currentByte + Len(whole)
  <2> DEFINE from == currentByte + Marks
             place == from + Len(content) + 1
  <2>1. HoldsAt(bytes, currentByte, mark \o content) /\ HoldsAt(bytes, currentByte + Len(mark \o content), zero)
    BY <1>3, <1>4, <1>6, <1>8, Parts
  <2>2. HoldsAt(bytes, currentByte, mark) /\ HoldsAt(bytes, from, content)
    BY <1>2, <1>3, <1>8, <2>1, Parts
  <2>3. types => HasMarker(currentByte, "string")
    BY <1>1, <1>8, <2>2, MarkerHeld DEF mark
  <2>4. from \in Nat /\ place \in Nat /\ Len(content) \in Nat
    BY <1>2, <1>3, <1>8
  <2>5. Bytes(from, Len(content)) = content
    BY <1>3, <2>2, <2>4, BytesHeld
  <2>6. place <= Len(bytes) /\ bytes[place] = 0
    <3>1. currentByte + Len(mark \o content) + 1 = place
      BY <1>2, <1>3, <1>6, <1>8
    <3>2. QED
      BY <1>3, <2>1, <3>1 DEF HoldsAt
  <2>7. ASSUME NEW i \in from + 1 .. Len(bytes), bytes[i] = 0 PROVE place <= i
    <3>1. CASE i <= from + Len(content)
      <4>1. i - from \in 1 .. Len(content) /\ from + (i - from) = i
        BY <2>4, <3>1
      <4>2. bytes[i] = content[i - from]
        BY <2>2, <4>1 DEF HoldsAt
      <4>3. content[i - from] \in 1 .. 255
        BY <1>1, <4>1, ElementOfSeq DEF content
      <4>4. 0 \in 1 .. 255
        BY <2>7, <4>2, <4>3, Zenon
      <4>5. QED
        BY <4>4
    <3>2. CASE ~(i <= from + Len(content))
      BY <2>4, <3>2
    <3>3. QED
      BY <3>1, <3>2
  <2>8. Zero(from) = place
    <3> DEFINE Z == {i \in from + 1 .. Len(bytes) : bytes[i] = 0} \cup {Len(bytes) + 1}
    <3>1. Z \in SUBSET Nat /\ place \in Z
      BY <2>4, <2>6
    <3>2. \A i \in Z : place <= i
      BY <2>4, <2>6, <2>7
    <3> HIDE DEF Z
    <3>3. Min(Z) \in Z /\ \A i \in Z : Min(Z) <= i
      BY <3>1, LeastOf
    <3>4. Min(Z) = place
      <4>1. Min(Z) <= place /\ place <= Min(Z) /\ Min(Z) \in Nat
        BY <3>1, <3>2, <3>3, Zenon
      <4>2. QED
        BY <2>4, <4>1
    <3>5. QED
      BY <3>4 DEF Zero, Z
  <2>9. Readable(field)
    BY <1>1, <2>3 DEF Readable
  <2>10. place = currentByte + Len(whole) /\ place - from - 1 = Len(content)
    BY <1>2, <1>3, <1>6, <1>7, <1>8, <2>4
  <2>11. ReadField(field) => read' = Append(read, Bytes(from, Zero(from) - from - 1)) /\ currentByte' = Zero(from)
    BY <1>1 DEF ReadField
  <2>12. QED
    BY <2>5, <2>8, <2>9, <2>10, <2>11
<1>9. QED
  BY <1>3, <1>5, <1>7, <1>8 DEF ReadsField, whole

LEMMA BlobRead ==
  ASSUME types \in BOOLEAN, readerTypes = types, bytes \in Seq(Octet),
         NEW field \in ByteFields, field.kind = "blob"
  PROVE  ReadsField(field)
<1> DEFINE mark == Marker(types, "blob")
           second == Marker(types, "uint32")
           content == field.value
           size == Uint32(Len(content))
           whole == Encoded(types, field)
<1>1. /\ content \in Seq(Octet) /\ Len(content) \in Nat /\ Len(content) <= MaxInt
      /\ {"blob", "uint32"} \subseteq DOMAIN ByteMarker /\ "blob" \notin DOMAIN Fixed
  BY FieldKinds DEF Fixed, ByteMarker
<1>2. /\ mark \in Seq(Octet) /\ Len(mark) = Marks /\ Marks \in Nat
      /\ second \in Seq(Octet) /\ Len(second) = Marks
  BY <1>1, MarkBytes
<1>3. size \in Seq(Octet) /\ Len(size) = 4
  BY <1>1, Uint32Bytes
<1>4. whole = ((mark \o second) \o size) \o content
  BY DEF Encoded
<1>5. Meaning(field) = content
  BY DEF Meaning
<1> HIDE DEF mark, second, content, size, whole
<1>6. mark \o second \in Seq(Octet) /\ Len(mark \o second) = Len(mark) + Len(second)
  BY <1>2, Concatenated, Zenon
<1>7. /\ (mark \o second) \o size \in Seq(Octet)
      /\ Len((mark \o second) \o size) = Len(mark \o second) + Len(size)
  BY <1>3, <1>6, Concatenated, Zenon
<1>8. whole \in Seq(Octet) /\ Len(whole) = Len((mark \o second) \o size) + Len(content)
  BY <1>1, <1>4, <1>7, Concatenated, Zenon
<1>9. content \in Seq(Int)
  <2>1. Octet \subseteq Int
    BY DEF Octet
  <2>2. QED
    BY <1>1, <2>1, SeqMonotonic, Zenon
<1>10. ASSUME currentByte \in Nat, HoldsAt(bytes, currentByte, whole)
       PROVE  /\ Readable(field)
              /\ ReadField(field) => read' = Append(read, content) /\ currentByte' = currentByte + Len(whole)
  <2> DEFINE from == currentByte + Marks
             start == from + Marks + 4
  <2>1. HoldsAt(bytes, currentByte, (mark \o second) \o size) /\ HoldsAt(bytes, currentByte + Len((mark \o second) \o size), content)
    BY <1>1, <1>4, <1>7, <1>10, Parts
  <2>2. HoldsAt(bytes, currentByte, mark \o second) /\ HoldsAt(bytes, currentByte + Len(mark \o second), size)
    BY <1>3, <1>6, <1>10, <2>1, Parts
  <2>3. HoldsAt(bytes, currentByte, mark) /\ HoldsAt(bytes, from, second)
    BY <1>2, <1>10, <2>2, Parts
  <2>4. from \in Nat /\ from + Marks \in Nat /\ start \in Nat
    BY <1>2, <1>10
  <2>5. /\ currentByte + Len(mark \o second) = from + Marks
        /\ currentByte + Len((mark \o second) \o size) = start
        /\ start + Len(content) = currentByte + Len(whole)
    BY <1>1, <1>2, <1>3, <1>6, <1>7, <1>8, <1>10
  <2>6. types => HasMarker(currentByte, "blob")
    BY <1>1, <1>10, <2>3, MarkerHeld DEF mark
  <2>7. types => HasMarker(from, "uint32")
    BY <1>1, <2>3, <2>4, MarkerHeld DEF second
  <2>8. HoldsAt(bytes, from + Marks, size) /\ HoldsAt(bytes, start, content)
    BY <2>1, <2>2, <2>5, Zenon
  <2>9. Number(from + Marks) = Len(content)
    BY <1>1, <2>4, <2>8, NumberHeld DEF size
  <2>10. from + Marks + 4 <= Len(bytes)
    BY <1>3, <2>8 DEF HoldsAt
  <2>10a. start + Number(from + Marks) <= Len(bytes)
    BY <1>1, <2>8, <2>9 DEF HoldsAt
  <2>11. Readable(field)
    BY <1>1, <2>6, <2>7, <2>10, <2>10a DEF Readable
  <2>12. Bytes(start, Len(content)) = content
    BY <1>1, <2>4, <2>8, BytesHeld
  <2>13. ReadField(field) => /\ read' = Append(read, Bytes(start, Number(from + Marks)))
                             /\ currentByte' = start + Number(from + Marks)
    BY <1>1 DEF ReadField
  <2>14. QED
    BY <2>5, <2>9, <2>11, <2>12, <2>13
<1>11. QED
  BY <1>5, <1>8, <1>9, <1>10 DEF ReadsField, whole

LEMMA ArrayRead ==
  ASSUME types \in BOOLEAN, readerTypes = types, bytes \in Seq(Octet),
         NEW field \in ByteFields, field.kind = "array"
  PROVE  ReadsField(field)
<1> DEFINE mark == Marker(TRUE, "array")
           second == Marker(TRUE, "uint32")
           count == field.value[1]
           size == Uint32(4 * count)
           number == Uint32(count)
           whole == Encoded(types, field)
<1>1. /\ count \in Nat \ {0} /\ count <= MaxInt \div 4
      /\ {"array", "uint32"} \subseteq DOMAIN ByteMarker /\ "array" \notin DOMAIN Fixed
  <2>1. field.value \in Seq(1 .. MaxInt \div 4) /\ Len(field.value) = 1
    BY FieldKinds DEF Fixed
  <2>2. field.value[1] \in 1 .. MaxInt \div 4
    <3>1. 1 \in 1 .. Len(field.value)
      BY <2>1
    <3>2. QED
      BY <2>1, <3>1, ElementOfSeq, Zenon
  <2>3. QED
    BY <2>2 DEF Fixed, ByteMarker
<1>2. 4 * count \in Nat /\ 4 * count <= MaxInt /\ count <= MaxInt
  <2> HIDE DEF count
  <2>1. QED
    BY <1>1, SMT DEF MaxInt
<1>3. /\ mark \in Seq(Octet) /\ Len(mark) = 1 /\ second \in Seq(Octet) /\ Len(second) = 1
  BY <1>1, MarkerBytes
<1>4. size \in Seq(Octet) /\ Len(size) = 4 /\ number \in Seq(Octet) /\ Len(number) = 4
  BY <1>1, <1>2, Uint32Bytes
<1>5. whole = ((mark \o second) \o size) \o number
  BY DEF Encoded
<1>6. Meaning(field) = <<count, 4>>
  BY DEF Meaning
<1> HIDE DEF mark, second, count, size, number, whole
<1>7. mark \o second \in Seq(Octet) /\ Len(mark \o second) = Len(mark) + Len(second)
  BY <1>3, Concatenated, Zenon
<1>8. /\ (mark \o second) \o size \in Seq(Octet)
      /\ Len((mark \o second) \o size) = Len(mark \o second) + Len(size)
  BY <1>4, <1>7, Concatenated, Zenon
<1>9. whole \in Seq(Octet) /\ Len(whole) = Len((mark \o second) \o size) + Len(number)
  BY <1>4, <1>5, <1>8, Concatenated, Zenon
<1>10. <<count, 4>> \in Seq(Int)
  BY <1>1
<1>11. ASSUME types, currentByte \in Nat, HoldsAt(bytes, currentByte, whole)
       PROVE  /\ Readable(field)
              /\ ReadField(field) => /\ read' = Append(read, <<count, 4>>)
                                     /\ currentByte' = currentByte + Len(whole)
  <2> DEFINE from == currentByte + 1
  <2>0. Marks = 1
    BY <1>11 DEF Marks
  <2>1. HoldsAt(bytes, currentByte, (mark \o second) \o size) /\ HoldsAt(bytes, currentByte + Len((mark \o second) \o size), number)
    BY <1>4, <1>5, <1>8, <1>11, Parts
  <2>2. HoldsAt(bytes, currentByte, mark \o second) /\ HoldsAt(bytes, currentByte + Len(mark \o second), size)
    BY <1>4, <1>7, <1>11, <2>1, Parts
  <2>3. HoldsAt(bytes, currentByte, mark) /\ HoldsAt(bytes, from, second)
    BY <1>3, <1>11, <2>2, Parts
  <2>4. from \in Nat /\ from + 1 \in Nat /\ from + 5 \in Nat
    BY <1>11
  <2>5. /\ currentByte + Len(mark \o second) = from + 1
        /\ currentByte + Len((mark \o second) \o size) = from + 5
        /\ from + 9 = currentByte + Len(whole)
    BY <1>3, <1>4, <1>7, <1>8, <1>9, <1>11
  <2>6. HasMarker(currentByte, "array")
    BY <1>1, <1>11, <2>3, MarkerHeld DEF mark
  <2>7. HasMarker(from, "uint32")
    BY <1>1, <2>3, <2>4, MarkerHeld DEF second
  <2>8. HoldsAt(bytes, from + 1, size) /\ HoldsAt(bytes, from + 5, number)
    BY <2>1, <2>2, <2>5, Zenon
  <2>9. Number(from + 1) = 4 * count /\ Number(from + 5) = count
    BY <1>1, <1>2, <2>4, <2>8, NumberHeld DEF size, number
  <2>10. from + 9 <= Len(bytes)
    <3>1. from + 5 + 4 <= Len(bytes)
      BY <1>4, <2>8 DEF HoldsAt
    <3>2. QED
      BY <2>4, <3>1
  <2>11. Readable(field)
    <3>1. from + Marks + 4 = from + 5 /\ from + Marks + 8 = from + 9
      BY <2>0, <2>4
    <3>2. Number(from + 5) # 0
      BY <1>1, <2>9
    <3>3. currentByte + Marks = from
      BY <2>0
    <3>4. QED
      BY <1>1, <2>6, <2>7, <2>10, <3>1, <3>2, <3>3 DEF Readable
  <2>12. (4 * count) \div count = 4
    BY <1>1
  <2>13. ReadField(field) => /\ read' = Append(read, <<Number(from + 5), Number(from + 1) \div Number(from + 5)>>)
                             /\ currentByte' = from + 9
    <3>1. from + Marks + 4 = from + 5 /\ from + Marks + 8 = from + 9 /\ from + Marks = from + 1
      BY <2>0, <2>4
    <3>2. currentByte + Marks = from
      BY <2>0
    <3>3. QED
      BY <1>1, <3>1, <3>2 DEF ReadField
  <2>14. QED
    BY <2>5, <2>9, <2>11, <2>12, <2>13
<1>12. QED
  BY <1>6, <1>9, <1>10, <1>11 DEF ReadsField, whole

LEMMA FieldRead ==
  ASSUME types \in BOOLEAN, readerTypes = types, bytes \in Seq(Octet), NEW field \in ByteFields
  PROVE  ReadsField(field)
<1>1. field.kind \in DOMAIN Fixed \/ field.kind \in {"string", "blob", "array"}
  BY FieldKinds
<1>2. QED
  BY <1>1, FixedRead, StringRead, BlobRead, ArrayRead

LEMMA EncodedBytes ==
  ASSUME types \in BOOLEAN, readerTypes = types, bytes \in Seq(Octet), NEW field \in ByteFields
  PROVE  Encoded(types, field) \in Seq(Octet)
BY FieldRead DEF ReadsField

----------------------------------------------------------------------------

LEMMA ByteInitially == ByteInit => ByteInv
<1> SUFFICES ASSUME ByteInit PROVE ByteInv
  OBVIOUS
<1> DEFINE begins == [i \in 1 .. 1 |-> 0]
<1>1. /\ types \in BOOLEAN /\ readerTypes = types /\ bytes = <<>> /\ currentByte = 0
      /\ written = <<>> /\ read = <<>> /\ reading = FALSE
  BY DEF ByteInit
<1>2. LaidOut(begins, written, bytes, types) /\ currentByte = begins[Len(read) + 1]
  BY <1>1 DEF LaidOut
<1> HIDE DEF begins
<1>3. bytes \in Seq(Octet) /\ written \in Seq(ByteFields) /\ read \in Seq({}) /\ Len(read) = 0 /\ Len(written) = 0
  BY <1>1
<1>4. \E s : /\ LaidOut(s, written, bytes, types)
             /\ ArraysMarked(Len(read)) => currentByte = s[Len(read) + 1] /\ readerTypes = types
  BY <1>1, <1>2, Zenon
<1>5. BytesReadBack
  BY <1>1 DEF BytesReadBack
<1>6. /\ types \in BOOLEAN /\ readerTypes \in BOOLEAN /\ reading \in BOOLEAN
      /\ Len(read) <= Len(written)
      /\ ~reading => read = <<>> /\ readerTypes = types /\ currentByte = 0
  <2>1. Len(read) <= Len(written)
    BY <1>3
  <2>2. QED
    BY <1>1, <2>1, Zenon
<1>7. QED
  BY <1>3, <1>4, <1>5, <1>6, Zenon DEF ByteInv

LEMMA ByteWrite == ByteInv /\ Write => ByteInv'
<1> SUFFICES ASSUME ByteInv, Write PROVE ByteInv'
  OBVIOUS
<1>1. PICK field \in ByteFields :
        /\ bytes' = bytes \o Encoded(types, field)
        /\ written' = Append(written, field)
  BY DEF Write
<1>2. /\ UNCHANGED <<types, readerTypes, currentByte, read, reading>> /\ ~reading
      /\ read = <<>> /\ readerTypes = types /\ currentByte = 0
  BY DEF Write, ByteInv
<1>3. PICK begins : LaidOut(begins, written, bytes, types)
  BY DEF ByteInv
<1> DEFINE n == Len(written)
           code == Encoded(types, field)
           more == [i \in 1 .. n + 2 |-> IF i = n + 2 THEN Len(bytes') ELSE begins[i]]
<1>4. n \in Nat /\ written \in Seq(ByteFields) /\ bytes \in Seq(Octet) /\ types \in BOOLEAN
  BY DEF ByteInv
<1>5. code \in Seq(Octet)
  BY <1>2, <1>4, EncodedBytes
<1>6. /\ written' \in Seq(ByteFields) /\ Len(written') = n + 1 /\ written'[n + 1] = field
      /\ \A i \in 1 .. n : written'[i] = written[i]
  BY <1>1, <1>4
<1> HIDE DEF code
<1>7. /\ bytes' \in Seq(Octet) /\ Len(bytes') = Len(bytes) + Len(code)
      /\ \A j \in 1 .. Len(bytes) : bytes'[j] = bytes[j]
      /\ \A j \in 1 .. Len(code) : bytes'[Len(bytes) + j] = code[j]
  <2>1. bytes' = bytes \o code
    BY <1>1 DEF code
  <2>2. bytes \in Seq(Octet) /\ code \in Seq(Octet)
    BY <1>4, <1>5
  <2>3. /\ bytes \o code \in Seq(Octet) /\ Len(bytes \o code) = Len(bytes) + Len(code)
        /\ \A j \in 1 .. Len(bytes) : (bytes \o code)[j] = bytes[j]
        /\ \A j \in 1 .. Len(code) : (bytes \o code)[Len(bytes) + j] = code[j]
    BY ONLY <2>2, Concatenated
  <2>4. QED
    BY <2>1, <2>3, Zenon
<1>8. /\ begins \in [1 .. n + 1 -> Nat] /\ begins[1] = 0 /\ begins[n + 1] = Len(bytes)
      /\ \A i \in 1 .. n : /\ begins[i + 1] = begins[i] + Len(Encoded(types, written[i]))
                          /\ HoldsAt(bytes, begins[i], Encoded(types, written[i]))
  BY <1>3 DEF LaidOut
<1>9. /\ more \in [1 .. n + 2 -> Nat] /\ more[n + 2] = Len(bytes')
      /\ \A i \in 1 .. n + 1 : more[i] = begins[i]
  BY <1>4, <1>7, <1>8
<1> HIDE DEF more
<1>10. ASSUME NEW i \in 1 .. n
       PROVE  /\ more[i + 1] = more[i] + Len(Encoded(types, written'[i]))
              /\ HoldsAt(bytes', more[i], Encoded(types, written'[i]))
  <2> DEFINE e == Encoded(types, written[i])
  <2>1. written'[i] = written[i] /\ more[i] = begins[i] /\ more[i + 1] = begins[i + 1]
    BY <1>4, <1>6, <1>9
  <2>2. begins[i] \in Nat
    <3>1. i \in 1 .. n + 1
      BY <1>4
    <3>2. QED
      BY <1>8, <3>1, Zenon
  <2>3. begins[i] + Len(e) <= Len(bytes) /\ \A j \in 1 .. Len(e) : bytes[begins[i] + j] = e[j]
    BY <1>8 DEF HoldsAt
  <2>4. Len(e) \in Nat
    <3>1. written[i] \in ByteFields
      BY <1>4, ElementOfSeq
    <3>2. e \in Seq(Octet)
      BY <1>2, <1>4, <3>1, EncodedBytes
    <3>3. QED
      BY <3>2
  <2> HIDE DEF e
  <2>5. \A j \in 1 .. Len(e) : bytes'[begins[i] + j] = e[j]
    <3>1. \A j \in 1 .. Len(e) : begins[i] + j \in 1 .. Len(bytes)
      BY <1>4, <2>2, <2>3, <2>4
    <3>2. QED
      BY <1>7, <2>3, <3>1, Zenon
  <2>6. begins[i] + Len(e) <= Len(bytes')
    BY <1>4, <1>5, <1>7, <2>2, <2>3, <2>4
  <2>7. HoldsAt(bytes', begins[i], e)
    BY <2>5, <2>6 DEF HoldsAt
  <2>8. QED
    BY <1>8, <2>1, <2>7 DEF e
<1>11. /\ more[n + 2] = more[n + 1] + Len(Encoded(types, written'[n + 1]))
       /\ HoldsAt(bytes', more[n + 1], Encoded(types, written'[n + 1]))
  <2>1. more[n + 1] = Len(bytes)
    <3>1. n + 1 \in 1 .. n + 1
      BY <1>4
    <3>2. QED
      BY <1>8, <1>9, <3>1, Zenon
  <2>2. Encoded(types, written'[n + 1]) = code
    BY <1>6 DEF code
  <2>3. HoldsAt(bytes', Len(bytes), code)
    BY <1>4, <1>5, <1>7 DEF HoldsAt
  <2>4. QED
    BY <1>7, <1>9, <2>1, <2>2, <2>3
<1>12. LaidOut(more, written', bytes', types)
  <2>1. ASSUME NEW i \in 1 .. n + 1
        PROVE  /\ more[i + 1] = more[i] + Len(Encoded(types, written'[i]))
               /\ HoldsAt(bytes', more[i], Encoded(types, written'[i]))
    <3>1. CASE i = n + 1
      BY <1>4, <1>11, <3>1
    <3>2. CASE i # n + 1
      <4>1. i \in 1 .. n
        BY <1>4, <3>2
      <4>2. QED
        BY <1>10, <4>1
    <3>3. QED
      BY <3>1, <3>2
  <2>2. more \in [1 .. Len(written') + 1 -> Nat] /\ more[1] = 0 /\ more[Len(written') + 1] = Len(bytes')
    BY <1>4, <1>6, <1>8, <1>9
  <2>3. QED
    BY <1>6, <2>1, <2>2 DEF LaidOut
<1>13. currentByte' = more[Len(read') + 1]
  BY <1>2, <1>4, <1>8, <1>9
<1>14. \E s : /\ LaidOut(s, written', bytes', types')
              /\ ArraysMarked(Len(read))' => currentByte' = s[Len(read') + 1] /\ readerTypes' = types'
  <2>1. LaidOut(more, written', bytes', types') /\ readerTypes' = types'
    BY <1>2, <1>12
  <2>2. QED
    BY <1>13, <2>1
<1>15. Len(read') = 0 /\ DOMAIN read' = {} /\ Len(read') <= Len(written')
  BY <1>2, <1>4, <1>6
<1>16. QED
  BY <1>2, <1>4, <1>6, <1>7, <1>14, <1>15 DEF ByteInv, BytesReadBack

LEMMA ByteRead == ByteInv /\ Read => ByteInv'
<1> SUFFICES ASSUME ByteInv, Read PROVE ByteInv'
  OBVIOUS
<1> DEFINE m == Len(read) + 1
           field == written[m]
<1>1. PICK begins : /\ LaidOut(begins, written, bytes, types)
                    /\ ArraysMarked(Len(read)) => currentByte = begins[m] /\ readerTypes = types
  BY DEF ByteInv
<1>2. PICK S : read \in Seq(S)
  BY DEF ByteInv
<1>3. /\ types \in BOOLEAN /\ readerTypes \in BOOLEAN /\ bytes \in Seq(Octet) /\ written \in Seq(ByteFields)
      /\ UNCHANGED <<types, bytes, written, reading>> /\ reading = TRUE
  BY DEF ByteInv, Read
<1>4. m \in 1 .. Len(written) /\ Len(read) \in Nat
  BY <1>2, <1>3 DEF Read
<1>5. field \in ByteFields
  BY <1>3, <1>4, ElementOfSeq
<1>6. IF Readable(field) THEN ReadField(field) /\ readerTypes' = (readerTypes \/ field.kind = "array")
      ELSE read' = Append(read, Unreadable) /\ UNCHANGED <<currentByte, readerTypes>>
  BY DEF Read
<1>7. \E v : read' = Append(read, v)
  BY <1>6 DEF ReadField
<1>8. /\ Len(read') = m /\ \A i \in 1 .. Len(read) : read'[i] = read[i]
      /\ \E T : read' \in Seq(T)
  <2>1. PICK v : read' = Append(read, v)
    BY <1>7
  <2>2. read \in Seq(S \cup {v})
    BY <1>2, SeqMonotonic
  <2>3. QED
    BY <2>1, <2>2
<1>9. ASSUME ArraysMarked(m)
      PROVE  /\ read'[m] = Meaning(field)
             /\ currentByte' = begins[m + 1] /\ readerTypes' = types
  <2>1. ArraysMarked(Len(read)) /\ (field.kind = "array" => types)
    BY <1>4, <1>9 DEF ArraysMarked
  <2>2. currentByte = begins[m] /\ readerTypes = types
    BY <1>1, <2>1
  <2>3. /\ HoldsAt(bytes, currentByte, Encoded(types, field))
        /\ begins[m + 1] = currentByte + Len(Encoded(types, field))
        /\ currentByte \in Nat
    <3>1. m \in 1 .. Len(written) + 1
      BY <1>3, <1>4
    <3>2. QED
      BY <1>1, <1>4, <2>2, <3>1 DEF LaidOut
  <2>4. ReadsField(field)
    BY <1>3, <1>5, <2>2, FieldRead
  <2>5. Readable(field)
    BY <2>1, <2>3, <2>4 DEF ReadsField
  <2>6. read' = Append(read, Meaning(field)) /\ currentByte' = begins[m + 1]
    BY <1>6, <2>1, <2>3, <2>4, <2>5 DEF ReadsField
  <2>7. readerTypes' = types
    BY <1>3, <1>6, <2>1, <2>2, <2>5, Zenon
  <2>8. read'[m] = Meaning(field)
    <3> DEFINE content == Meaning(field)
    <3>1. read \in Seq(S \cup {content}) /\ read' = Append(read, content)
      BY <1>2, <2>6, SeqMonotonic
    <3> HIDE DEF content
    <3>2. read'[m] = content
      BY <3>1
    <3>3. QED
      BY <3>2 DEF content
  <2>9. QED
    BY <2>6, <2>7, <2>8, Zenon
<1>10. \A n : ArraysMarked(n)' = ArraysMarked(n)
  BY <1>3 DEF ArraysMarked
<1>11. BytesReadBack'
  <2>1. ASSUME NEW i \in DOMAIN read', ArraysMarked(i) PROVE read'[i] = Meaning(written[i])
    <3>1. i = m \/ i \in 1 .. Len(read)
      BY <1>4, <1>8
    <3>2. CASE i = m
      BY <1>9, <2>1, <3>2, Zenon
    <3>3. CASE i \in 1 .. Len(read)
      <4>1. i \in DOMAIN read
        BY <1>2, <3>3
      <4>2. read[i] = Meaning(written[i])
        BY <2>1, <4>1 DEF ByteInv, BytesReadBack
      <4>3. QED
        BY <1>8, <3>3, <4>2, Zenon
    <3>4. QED
      BY <3>1, <3>2, <3>3
  <2>2. \A f : Meaning(f)' = Meaning(f)
    BY DEF Meaning
  <2>3. QED
    BY <1>3, <1>10, <2>1 DEF BytesReadBack, Meaning
<1>12. /\ LaidOut(begins, written', bytes', types')
       /\ ArraysMarked(Len(read))' => currentByte' = begins[Len(read') + 1] /\ readerTypes' = types'
  <2>1. LaidOut(begins, written', bytes', types')
    BY <1>1, <1>3
  <2>2. ArraysMarked(Len(read))' => ArraysMarked(m)
    BY <1>3, <1>8 DEF ArraysMarked
  <2>3. QED
    BY <1>3, <1>8, <1>9, <2>1, <2>2, Zenon
<1>13. readerTypes' \in BOOLEAN
  BY <1>3, <1>6
<1>14. QED
  BY <1>3, <1>4, <1>8, <1>11, <1>12, <1>13 DEF ByteInv

LEMMA ByteStep == ByteInv /\ [ByteNext]_byteVars => ByteInv'
<1> SUFFICES ASSUME ByteInv, [ByteNext]_byteVars PROVE ByteInv'
  OBVIOUS
<1>1. CASE Send
  <2>1. UNCHANGED <<types, readerTypes, bytes, currentByte, written, read>> /\ reading' = TRUE
    BY <1>1 DEF Send
  <2>2. QED
    BY <2>1 DEF ByteInv, BytesReadBack, ArraysMarked
<1>2. CASE UNCHANGED byteVars
  BY <1>2 DEF byteVars, ByteInv, BytesReadBack, ArraysMarked
<1>3. QED
  BY <1>1, <1>2, ByteWrite, ByteRead DEF ByteNext

\* Whatever fields a message has, with the types marked or not, byte_buffer's
\* reader finds each where the writer put it and reads the value written, up to
\* an array that is written without types (write_string, write_blob,
\* write_array_header, their reads).
THEOREM ByteBufferReadsBack == ByteSpec => []BytesReadBack
<1>1. ByteInv => BytesReadBack
  BY DEF ByteInv
<1>2. QED
  BY <1>1, ByteInitially, ByteStep, PTL DEF ByteSpec

----------------------------------------------------------------------------
(* bit_buffer.cpp: what a round of write and of read does to each bit *)

\* Bit k of a sequence of bytes
BitAt(s, k) == k % 8 \in s[k \div 8 + 1]

LEMMA BitPlace ==
  ASSUME NEW n \in Nat
  PROVE  n \div 8 \in Nat /\ n % 8 \in Bit /\ n = 8 * (n \div 8) + (n % 8)
<1>1. n \div 8 \in Nat
  OBVIOUS
<1>2. n % 8 \in Bit
  BY DEF Bit
<1>3. n = 8 * (n \div 8) + (n % 8)
  OBVIOUS
<1>4. QED
  BY <1>1, <1>2, <1>3

LEMMA PlaceOf ==
  ASSUME NEW q \in Nat, NEW r \in Bit, NEW n, n = 8 * q + r
  PROVE  n \in Nat /\ n \div 8 = q /\ n % 8 = r
BY DEF Bit

LEMMA BitAtPlace ==
  ASSUME NEW s, NEW q \in Nat, NEW r \in Bit
  PROVE  BitAt(s, 8 * q + r) <=> r \in s[q + 1]
<1>1. (8 * q + r) \div 8 = q /\ (8 * q + r) % 8 = r
  BY PlaceOf
<1>2. QED
  BY <1>1, Zenon DEF BitAt

\* A call of write: the bits of its data are the first, and no more are set.
Calls ==
  {put \in [bits : Nat \ {0}, data : Seq(SUBSET Bit)] :
     /\ 8 * Len(put.data) < put.bits + 8 /\ put.bits <= 8 * Len(put.data)
     /\ \A k \in put.bits .. 8 * Len(put.data) - 1 : ~BitAt(put.data, k)}

LEMMA ThisDataBits ==
  ASSUME NEW put \in Calls, NEW done \in Nat, NEW k \in Bit, done + k < put.bits
  PROVE  k \in ThisData(put, done) <=> BitAt(put.data, done + k)
<1> DEFINE q == done \div 8
           r == done % 8
           data == put.data
           bits == put.bits
           next == IF (bits - 1) \div 8 >= q + 1 THEN data[q + 2] ELSE {}
<1>1. q \in Nat /\ r \in Bit /\ done = 8 * q + r
  BY BitPlace
<1>2. data \in Seq(SUBSET Bit) /\ bits \in Nat \ {0} /\ bits <= 8 * Len(data)
  BY DEF Calls
<1>3. k \in ThisData(put, done) <=> (k \in ShiftedLeft(next, 8 - r) \/ k \in ShiftedRight(data[q + 1], r))
  <2>1. q + 1 + 1 = q + 2
    BY <1>1
  <2>2. QED
    BY <2>1 DEF ThisData
<1> HIDE DEF q, r, data, bits
<1>4. done + k < bits
  BY DEF bits
<1>5. CASE k + r < 8
  <2>1. k + r \in Bit /\ done + k = 8 * q + (k + r)
    BY <1>1, <1>5 DEF Bit
  <2>2. BitAt(data, done + k) <=> k + r \in data[q + 1]
    BY <1>1, <2>1, BitAtPlace
  <2>3. k \notin ShiftedLeft(next, 8 - r)
    <3>1. q + 1 \in 1 .. Len(data)
      BY <1>1, <1>2, <1>4, <2>1 DEF Bit
    <3>2. next \subseteq Bit
      <4>1. CASE (bits - 1) \div 8 >= q + 1
        <5>1. q + 2 \in 1 .. Len(data)
          BY <1>1, <1>2, <4>1
        <5>2. data[q + 2] \in SUBSET Bit
          BY <1>2, <5>1, ElementOfSeq
        <5>3. QED
          BY <4>1, <5>2
      <4>2. CASE ~((bits - 1) \div 8 >= q + 1)
        BY <4>2
      <4>3. QED
        BY <4>1, <4>2
    <3>3. k - (8 - r) \notin Bit
      BY <1>1, <1>5 DEF Bit
    <3> HIDE DEF next
    <3>4. QED
      BY <3>2, <3>3 DEF ShiftedLeft
  <2>4. k \in ShiftedRight(data[q + 1], r) <=> k + r \in data[q + 1]
    BY DEF ShiftedRight
  <2>5. QED
    BY <1>3, <2>2, <2>3, <2>4 DEF data
<1>6. CASE ~(k + r < 8)
  <2>1. k + r - 8 \in Bit /\ done + k = 8 * (q + 1) + (k + r - 8)
    BY <1>1, <1>6 DEF Bit
  <2>2. BitAt(data, done + k) <=> k + r - 8 \in data[q + 1 + 1]
    <3>1. q + 1 \in Nat
      BY <1>1
    <3>2. BitAt(data, 8 * (q + 1) + (k + r - 8)) <=> k + r - 8 \in data[q + 1 + 1]
      BY <2>1, <3>1, BitAtPlace, Zenon
    <3>3. QED
      BY <2>1, <3>2
  <2>3. (bits - 1) \div 8 >= q + 1 /\ q + 1 \in 1 .. Len(data) /\ q + 1 + 1 = q + 2
    BY <1>1, <1>2, <1>4, <2>1 DEF Bit
  <2>4. next = data[q + 2]
    BY <2>3
  <2> HIDE DEF next
  <2>5. k \in ShiftedLeft(next, 8 - r) <=> k - (8 - r) \in next
    BY DEF ShiftedLeft
  <2>6. k - (8 - r) = k + r - 8
    BY <1>1 DEF Bit
  <2>7. k \notin ShiftedRight(data[q + 1], r)
    <3>1. data[q + 1] \in SUBSET Bit
      BY <1>2, <2>3, ElementOfSeq
    <3>2. k + r \notin Bit
      BY <1>1, <1>6 DEF Bit
    <3>3. QED
      BY <3>1, <3>2 DEF ShiftedRight
  <2>8. QED
    BY <1>3, <2>2, <2>3, <2>4, <2>5, <2>6, <2>7, Zenon DEF data
<1>7. QED
  BY <1>5, <1>6

LEMMA MergedBits ==
  ASSUME NEW old \in SUBSET Bit, NEW new, NEW bitPos \in Bit, NEW thisWrite \in Nat, bitPos + thisWrite <= 8
  PROVE  /\ Merged(old, new, bitPos, thisWrite) \in SUBSET Bit
         /\ \A k \in Bit : k \in Merged(old, new, bitPos, thisWrite)
                             <=> IF bitPos <= k /\ k < bitPos + thisWrite THEN k - bitPos \in new ELSE k \in old
<1>1. Merged(old, new, bitPos, thisWrite) \in SUBSET Bit
  BY DEF Merged, ShiftedLeft
<1>2. ASSUME NEW k \in Bit
      PROVE  k \in Merged(old, new, bitPos, thisWrite)
               <=> IF bitPos <= k /\ k < bitPos + thisWrite THEN k - bitPos \in new ELSE k \in old
  <2> DEFINE mask == LowBits(bitPos) \cup (bitPos + thisWrite .. 7)
  <2>1. k \in mask <=> ~(bitPos <= k /\ k < bitPos + thisWrite)
    BY DEF Bit, LowBits
  <2>2. k \in ShiftedLeft(new, bitPos) <=> k - bitPos \in new
    BY DEF ShiftedLeft
  <2>3. k \in Merged(old, new, bitPos, thisWrite)
          <=> (k \in ShiftedLeft(new, bitPos) /\ k \notin mask) \/ (k \in mask /\ k \in old)
    BY DEF Merged
  <2> HIDE DEF mask
  <2>4. QED
    BY <2>1, <2>2, <2>3
<1>3. QED
  BY <1>1, <1>2

LEMMA SmallestOf ==
  ASSUME NEW m \in Nat, NEW n \in Nat
  PROVE  AtMost(m, n) \in Nat /\ AtMost(m, n) <= m /\ AtMost(m, n) <= n /\ AtMost(m, n) \in {m, n}
BY DEF AtMost

\* A round of write leaves the bits of data it is due at its place, and every
\* other bit as it was.
HasRound(b, c, pos, data, done, n) ==
  /\ c \in Seq(SUBSET Bit) /\ Len(c) = Len(b)
  /\ \A k \in Nat : k < 8 * Len(b) =>
       (BitAt(c, k) <=> IF pos <= k /\ k < pos + n THEN BitAt(data, done + (k - pos)) ELSE BitAt(b, k))

LEMMA RoundWrites ==
  ASSUME NEW b \in Seq(SUBSET Bit), NEW pos \in Nat, pos < 8 * Len(b),
         NEW put \in Calls, NEW done \in Nat, NEW n \in Nat \ {0},
         done + n <= put.bits, (pos % 8) + n <= 8
  PROVE  HasRound(b, [b EXCEPT ![pos \div 8 + 1] = Merged(@, ThisData(put, done), pos % 8, n)],
                  pos, put.data, done, n)
<1> DEFINE c == [b EXCEPT ![pos \div 8 + 1] = Merged(@, ThisData(put, done), pos % 8, n)]
<1> DEFINE q == pos \div 8
           r == pos % 8
           new == ThisData(put, done)
           out == Merged(b[q + 1], new, r, n)
<1>1. q \in Nat /\ r \in Bit /\ pos = 8 * q + r /\ r + n <= 8
  BY BitPlace
<1>2. c = [b EXCEPT ![q + 1] = out]
  OBVIOUS
<1> HIDE DEF q, r, c
<1>3. q + 1 \in 1 .. Len(b)
  BY <1>1 DEF Bit
<1>4. b[q + 1] \in SUBSET Bit
  BY <1>3, ElementOfSeq
<1>5. /\ out \in SUBSET Bit
      /\ \A i \in Bit : i \in out <=> IF r <= i /\ i < r + n THEN i - r \in new ELSE i \in b[q + 1]
  BY <1>1, <1>4, MergedBits
<1> HIDE DEF new, out
<1>6. c \in Seq(SUBSET Bit) /\ Len(c) = Len(b) /\ c[q + 1] = out /\ \A j \in 1 .. Len(b) : j # q + 1 => c[j] = b[j]
  BY <1>2, <1>3, <1>5
<1>7. ASSUME NEW k \in Nat, k < 8 * Len(b)
      PROVE  BitAt(c, k) <=> IF pos <= k /\ k < pos + n THEN BitAt(put.data, done + (k - pos)) ELSE BitAt(b, k)
  <2> DEFINE j == k \div 8
             i == k % 8
  <2>1. j \in Nat /\ i \in Bit /\ k = 8 * j + i
    BY BitPlace
  <2>2. (BitAt(c, k) <=> i \in c[j + 1]) /\ (BitAt(b, k) <=> i \in b[j + 1])
    BY DEF BitAt
  <2> HIDE DEF i, j
  <2>3. j + 1 \in 1 .. Len(b)
    BY <1>7, <2>1 DEF Bit
  <2>4. CASE j # q
    <3>1. ~(pos <= k /\ k < pos + n)
      BY <1>1, <2>1, <2>4 DEF Bit
    <3>2. c[j + 1] = b[j + 1]
      BY <1>1, <1>6, <2>1, <2>3, <2>4
    <3>3. QED
      BY <2>2, <3>1, <3>2, Zenon
  <2>5. CASE j = q
    <3>1. (pos <= k /\ k < pos + n) <=> (r <= i /\ i < r + n)
      BY <1>1, <2>1, <2>5 DEF Bit
    <3>2. CASE pos <= k /\ k < pos + n
      <4>1. i - r \in Bit /\ k - pos = i - r /\ done + (i - r) < put.bits
        BY <1>1, <2>1, <2>5, <3>1, <3>2 DEF Bit, Calls
      <4>2. i - r \in new <=> BitAt(put.data, done + (i - r))
        BY <4>1, ThisDataBits, Zenon DEF new
      <4>3. i \in c[j + 1] <=> i - r \in new
        BY <1>5, <1>6, <2>1, <2>5, <3>1, <3>2, Zenon
      <4>4. QED
        BY <2>2, <3>2, <4>1, <4>2, <4>3, Zenon
    <3>3. CASE ~(pos <= k /\ k < pos + n)
      <4>1. i \in c[j + 1] <=> i \in b[j + 1]
        BY <1>5, <1>6, <2>1, <2>5, <3>1, <3>3, Zenon
      <4>2. QED
        BY <2>2, <3>3, <4>1, Zenon
    <3>4. QED
      BY <3>2, <3>3
  <2>6. QED
    BY <2>4, <2>5
<1>8. QED
  BY <1>6, <1>7 DEF HasRound, c

\* A round of read takes the bits that are next, as many as are left of a byte.
LEMMA RoundReads ==
  ASSUME bitBuffer \in Seq(SUBSET Bit), currentBit \in Nat, bitsLeft \in Nat \ {0},
         currentBit + bitsLeft <= 8 * Len(bitBuffer)
  PROVE  /\ ThisRead \in SUBSET Bit
         /\ \A k \in Bit : k \in ThisRead <=> k < bitsLeft /\ BitAt(bitBuffer, currentBit + k)
<1> DEFINE q == currentBit \div 8
           r == currentBit % 8
           n == AtMost(bitsLeft, 8)
           this == bitBuffer[q + 1]
           next == bitBuffer[q + 2]
<1>1. q \in Nat /\ r \in Bit /\ currentBit = 8 * q + r
  BY BitPlace
<1>2. n \in Nat /\ n <= bitsLeft /\ n <= 8 /\ n \in {bitsLeft, 8}
  BY SmallestOf
<1>3. ThisRead = IF n + r <= 8 THEN LowBits(n) \cap ShiftedRight(this, r)
                 ELSE (LowBits(n) \cap ShiftedLeft(next, 8 - r)) \cup ShiftedRight(this, r)
  BY DEF ThisRead
<1> HIDE DEF q, r, n
<1>4. ThisRead \in SUBSET Bit
  BY <1>3 DEF ShiftedLeft, ShiftedRight
<1>5. this \in SUBSET Bit
  <2>1. q + 1 \in 1 .. Len(bitBuffer)
    BY <1>1 DEF Bit
  <2>2. QED
    BY <2>1, ElementOfSeq
<1> HIDE DEF this
<1>6. ASSUME NEW k \in Bit
      PROVE  k \in ThisRead <=> k < bitsLeft /\ BitAt(bitBuffer, currentBit + k)
  <2>1. k \in LowBits(n) <=> k < bitsLeft
    BY <1>2 DEF Bit, LowBits
  <2>2. k \in ShiftedRight(this, r) <=> k + r \in this
    BY DEF ShiftedRight
  <2>3. CASE k + r < 8
    <3>1. k + r \in Bit /\ currentBit + k = 8 * q + (k + r)
      BY <1>1, <2>3 DEF Bit
    <3>2. BitAt(bitBuffer, 8 * q + (k + r)) <=> k + r \in this
      BY <1>1, <3>1, BitAtPlace, Zenon DEF this
    <3>3. CASE n + r <= 8
      BY <1>3, <2>1, <2>2, <3>1, <3>2, <3>3
    <3>4. CASE ~(n + r <= 8)
      <4>1. k < bitsLeft
        BY <1>1, <1>2, <2>3, <3>4 DEF Bit
      <4>2. k \notin ShiftedLeft(next, 8 - r)
        <5>1. q + 2 \in 1 .. Len(bitBuffer)
          BY <1>1, <1>2, <3>4 DEF Bit
        <5>2. next \in SUBSET Bit
          BY <5>1, ElementOfSeq
        <5>3. k - (8 - r) \notin Bit
          BY <1>1, <2>3 DEF Bit
        <5>4. QED
          BY <5>2, <5>3 DEF ShiftedLeft
      <4>3. QED
        BY <1>3, <2>2, <3>1, <3>2, <3>4, <4>1, <4>2
    <3>5. QED
      BY <3>3, <3>4
  <2>4. CASE ~(k + r < 8)
    <3>1. k + r - 8 \in Bit /\ currentBit + k = 8 * (q + 1) + (k + r - 8) /\ q + 1 \in Nat
      BY <1>1, <2>4 DEF Bit
    <3>2. BitAt(bitBuffer, 8 * (q + 1) + (k + r - 8)) <=> k + r - 8 \in bitBuffer[q + 1 + 1]
      BY <3>1, BitAtPlace, Zenon
    <3>3. q + 1 + 1 = q + 2 /\ k - (8 - r) = k + r - 8
      BY <1>1 DEF Bit
    <3>4. k + r \notin this
      BY <1>1, <1>5, <2>4 DEF Bit
    <3>5. CASE n + r <= 8
      <4>1. ~(k < bitsLeft)
        BY <1>1, <1>2, <2>4, <3>5 DEF Bit
      <4>2. QED
        BY <1>3, <2>1, <3>5, <4>1
    <3>6. CASE ~(n + r <= 8)
      <4>1. k \in ShiftedLeft(next, 8 - r) <=> k - (8 - r) \in next
        BY DEF ShiftedLeft
      <4>2. k \in ThisRead <=> k < bitsLeft /\ k - (8 - r) \in next
        BY <1>3, <2>1, <2>2, <3>4, <3>6, <4>1, Zenon
      <4>3. QED
        BY <3>1, <3>2, <3>3, <4>2
    <3>7. QED
      BY <3>5, <3>6
  <2>5. QED
    BY <2>3, <2>4
<1>7. QED
  BY <1>4, <1>6

----------------------------------------------------------------------------
(* bit_buffer.cpp: where the bits of the calls lie *)

LEMMA ShortPut ==
  ASSUME NEW n \in 1 .. 8, NEW m \in SUBSET (0 .. n - 1)
  PROVE  Put(n, <<m>>) \in Calls
<1> DEFINE put == Put(n, <<m>>)
<1>1. put.bits = n /\ put.data = <<m>> /\ put = [bits |-> n, data |-> <<m>>]
  BY DEF Put
<1>2. m \in SUBSET Bit
  BY DEF Bit
<1>3. n \in Nat \ {0} /\ <<m>> \in Seq(SUBSET Bit) /\ Len(<<m>>) = 1
  BY <1>2
<1>4. ASSUME NEW k \in n .. 8 * 1 - 1 PROVE ~BitAt(<<m>>, k)
  <2>1. k = 8 * 0 + k /\ k \in Bit
    BY DEF Bit
  <2>2. BitAt(<<m>>, 8 * 0 + k) <=> k \in <<m>>[0 + 1]
    BY <2>1, BitAtPlace
  <2>3. k \notin m
    OBVIOUS
  <2>4. <<m>>[0 + 1] = m
    OBVIOUS
  <2>5. QED
    BY <2>1, <2>2, <2>3, <2>4
<1> HIDE DEF put
<1>5. put \in [bits : Nat \ {0}, data : Seq(SUBSET Bit)]
  BY <1>1, <1>3
<1>6. \A k \in put.bits .. 8 * Len(put.data) - 1 : ~BitAt(put.data, k)
  BY <1>1, <1>3, <1>4
<1>7. 8 * Len(put.data) < put.bits + 8 /\ put.bits <= 8 * Len(put.data)
  BY <1>1, <1>3
<1>8. QED
  BY <1>5, <1>6, <1>7 DEF Calls, put

LEMMA WholePut ==
  ASSUME NEW content \in Seq(SUBSET Bit), content # <<>>
  PROVE  Put(8 * Len(content), content) \in Calls
<1> DEFINE put == Put(8 * Len(content), content)
<1>1. put.bits = 8 * Len(content) /\ put.data = content /\ put = [bits |-> 8 * Len(content), data |-> content]
  BY DEF Put
<1>2. 8 * Len(content) \in Nat \ {0}
  OBVIOUS
<1> HIDE DEF put
<1>3. put \in [bits : Nat \ {0}, data : Seq(SUBSET Bit)]
  BY <1>1, <1>2
<1>4. \A k \in put.bits .. 8 * Len(put.data) - 1 : FALSE
  BY <1>1
<1>5. 8 * Len(put.data) < put.bits + 8 /\ put.bits <= 8 * Len(put.data)
  BY <1>1, <1>2
<1>6. QED
  BY <1>3, <1>4, <1>5 DEF Calls, put

LEMMA PutsOfField ==
  ASSUME bitTypes \in BOOLEAN, NEW field \in BitFields
  PROVE  Puts(field) \in Seq(Calls)
<1>1. /\ field.value \in Seq(SUBSET Bit) /\ field.value # <<>>
      /\ \/ field.kind = "bool" /\ field.value \in {<<{}>>, <<{0}>>}
         \/ field.kind \in {"int32", "uint32"} /\ Len(field.value) = 4
         \/ field.kind = "bytes"
  BY BitFieldsAssumption
<1>2. CASE field.kind = "bytes"
  <2>1. Puts(field) = <<Put(8 * Len(field.value), field.value)>>
    BY <1>2 DEF Puts
  <2>2. Put(8 * Len(field.value), field.value) \in Calls
    BY <1>1, WholePut
  <2>3. QED
    BY <2>1, <2>2
<1>3. CASE field.kind \in {"bool", "int32", "uint32"}
  <2> DEFINE marker == Put(5, <<BitMarker[field.kind]>>)
             content == Put(BitWidth[field.kind], field.value)
  <2>1. marker \in Calls
    <3>1. BitMarker[field.kind] \in SUBSET (0 .. 5 - 1) /\ 5 \in 1 .. 8
      BY <1>3 DEF BitMarker
    <3>2. QED
      BY <3>1, ShortPut
  <2>2. content \in Calls
    <3>1. CASE field.kind = "bool"
      <4>1. PICK m \in SUBSET (0 .. 1 - 1) : field.value = <<m>>
        BY <1>1, <3>1
      <4>2. BitWidth[field.kind] = 1 /\ 1 \in 1 .. 8
        BY <3>1 DEF BitWidth
      <4>3. Put(1, <<m>>) \in Calls
        BY <4>2, ShortPut
      <4>4. QED
        BY <4>1, <4>2, <4>3
    <3>2. CASE field.kind \in {"int32", "uint32"}
      <4>1. BitWidth[field.kind] = 8 * Len(field.value)
        <5>1. Len(field.value) = 4
          BY <1>1, <3>2
        <5>2. BitWidth[field.kind] = 32
          BY <3>2 DEF BitWidth
        <5>3. QED
          BY <5>1, <5>2
      <4>2. QED
        BY <1>1, <4>1, WholePut
    <3>3. QED
      BY <1>3, <3>1, <3>2
  <2>3. Puts(field) = (IF bitTypes THEN <<marker>> ELSE <<>>) \o <<content>>
    BY <1>3 DEF Puts
  <2> HIDE DEF marker, content
  <2>4. QED
    BY <2>1, <2>2, <2>3
<1>4. QED
  BY <1>1, <1>2, <1>3

\* From a place on the buffer has the first n bits of data.
HasBits(b, from, data, n) == \A k \in 0 .. n - 1 : BitAt(b, from + k) <=> BitAt(data, k)

\* Where the calls p put their bits in b: each behind the one before
BitsLaidOut(begins, p, b) ==
  /\ begins \in [1 .. Len(p) + 1 -> Nat]
  /\ begins[1] = 0 /\ begins[Len(p) + 1] <= 8 * Len(b)
  /\ \A i \in 1 .. Len(p) :
       /\ begins[i + 1] = begins[i] + p[i].bits /\ begins[i + 1] <= begins[Len(p) + 1]
       /\ HasBits(b, begins[i], p[i].data, p[i].bits)

LEMMA SameBits ==
  ASSUME NEW b, NEW c, NEW n \in Nat, \A j \in 1 .. n : c[j] = b[j]
  PROVE  \A k \in Nat : k < 8 * n => (BitAt(c, k) <=> BitAt(b, k))
<1> SUFFICES ASSUME NEW k \in Nat, k < 8 * n PROVE BitAt(c, k) <=> BitAt(b, k)
  OBVIOUS
<1> DEFINE q == k \div 8
<1>1. q \in Nat /\ k % 8 \in Bit /\ k = 8 * q + (k % 8)
  BY BitPlace
<1>2. q + 1 \in 1 .. n
  <2> HIDE DEF q
  <2>1. \A r \in Bit : k = 8 * q + r => q + 1 \in 1 .. n
    BY <1>1 DEF Bit
  <2>2. QED
    BY <1>1, <2>1
<1>3. c[q + 1] = b[q + 1]
  BY <1>2
<1>4. QED
  BY <1>3, Zenon DEF BitAt

\* What lies before the end of the calls is all that they need.
LEMMA KeptBits ==
  ASSUME NEW begins, NEW p \in Seq(Calls), NEW b, NEW c \in Seq(SUBSET Bit), BitsLaidOut(begins, p, b),
         begins[Len(p) + 1] <= 8 * Len(c),
         \A k \in Nat : k < begins[Len(p) + 1] => (BitAt(c, k) <=> BitAt(b, k))
  PROVE  BitsLaidOut(begins, p, c)
<1> DEFINE last == begins[Len(p) + 1]
<1>1. /\ begins \in [1 .. Len(p) + 1 -> Nat] /\ begins[1] = 0
      /\ \A i \in 1 .. Len(p) :
           /\ begins[i + 1] = begins[i] + p[i].bits /\ begins[i + 1] <= last
           /\ HasBits(b, begins[i], p[i].data, p[i].bits)
  BY DEF BitsLaidOut
<1>2. ASSUME NEW i \in 1 .. Len(p) PROVE HasBits(c, begins[i], p[i].data, p[i].bits)
  <2>1. i \in 1 .. Len(p) + 1
    OBVIOUS
  <2>2. begins[i] \in Nat
    BY <1>1, <2>1, Zenon
  <2>3. p[i].bits \in Nat
    BY ElementOfSeq DEF Calls
  <2>4. Len(p) + 1 \in 1 .. Len(p) + 1
    OBVIOUS
  <2>5. last \in Nat
    BY <1>1, <2>4, Zenon
  <2> HIDE DEF last
  <2>6. ASSUME NEW k \in 0 .. p[i].bits - 1 PROVE BitAt(c, begins[i] + k) <=> BitAt(p[i].data, k)
    <3>1. begins[i] + k \in Nat /\ begins[i] + k < last
      BY <1>1, <2>2, <2>3, <2>5
    <3>2. BitAt(c, begins[i] + k) <=> BitAt(b, begins[i] + k)
      BY <3>1, Zenon DEF last
    <3>3. BitAt(b, begins[i] + k) <=> BitAt(p[i].data, k)
      BY <1>1, Zenon DEF HasBits
    <3>4. QED
      BY <3>2, <3>3, Zenon
  <2>7. QED
    BY <2>6 DEF HasBits
<1>3. QED
  BY <1>1, <1>2, Zenon DEF BitsLaidOut

\* The bits of one more call lie behind the others.
LEMMA OneMorePut ==
  ASSUME NEW begins, NEW p \in Seq(Calls), NEW put \in Calls, NEW b, Len(b) \in Nat, BitsLaidOut(begins, p, b),
         HasBits(b, begins[Len(p) + 1], put.data, put.bits),
         begins[Len(p) + 1] + put.bits <= 8 * Len(b)
  PROVE  \E more : /\ BitsLaidOut(more, Append(p, put), b)
                   /\ more[Len(Append(p, put)) + 1] = begins[Len(p) + 1] + put.bits
<1> DEFINE n == Len(p)
           last == begins[n + 1]
           end == last + put.bits
           more == [i \in 1 .. n + 2 |-> IF i = n + 2 THEN end ELSE begins[i]]
           ap == Append(p, put)
<1>1. /\ begins \in [1 .. n + 1 -> Nat] /\ begins[1] = 0
      /\ \A i \in 1 .. n :
           /\ begins[i + 1] = begins[i] + p[i].bits /\ begins[i + 1] <= last
           /\ HasBits(b, begins[i], p[i].data, p[i].bits)
  BY DEF BitsLaidOut
<1>2. n \in Nat /\ n + 1 \in 1 .. n + 1
  OBVIOUS
<1>3. last \in Nat
  BY <1>1, <1>2, Zenon
<1>4. put.bits \in Nat
  BY DEF Calls
<1>5. Len(ap) = n + 1 /\ ap[n + 1] = put /\ \A i \in 1 .. n : ap[i] = p[i]
  OBVIOUS
<1>6. end \in Nat /\ last <= end
  BY <1>3, <1>4
<1>7. end <= 8 * Len(b)
  OBVIOUS
<1> HIDE DEF n, last, ap
<1>8. /\ more \in [1 .. n + 2 -> Nat] /\ more[n + 2] = end
      /\ \A i \in 1 .. n + 1 : more[i] = begins[i]
  BY <1>1, <1>2, <1>6
<1>9. end = last + put.bits
  OBVIOUS
<1> HIDE DEF more, end
<1>10. HasBits(b, last, put.data, put.bits)
  BY DEF last, n
<1>11. ASSUME NEW i \in 1 .. n + 1
       PROVE  /\ more[i + 1] = more[i] + ap[i].bits /\ more[i + 1] <= end
              /\ HasBits(b, more[i], ap[i].data, ap[i].bits)
  <2>1. CASE i = n + 1
    <3>1. more[n + 1] = last /\ more[n + 1 + 1] = end
      <4>1. more[n + 1] = begins[n + 1]
        BY <1>2, <1>8, Zenon
      <4>2. n + 1 + 1 = n + 2
        BY <1>2
      <4>3. QED
        BY <1>8, <4>1, <4>2 DEF last
    <3>2. QED
      BY <1>5, <1>6, <1>9, <1>10, <2>1, <3>1
  <2>2. CASE i # n + 1
    <3>1. i \in 1 .. n /\ i \in 1 .. n + 1 /\ i + 1 \in 1 .. n + 1
      BY <1>2, <2>2
    <3>2. more[i] = begins[i] /\ more[i + 1] = begins[i + 1] /\ ap[i] = p[i]
      BY <1>5, <1>8, <3>1, Zenon
    <3>3. begins[i + 1] \in Nat
      BY <1>1, <3>1, Zenon
    <3>4. begins[i + 1] <= last
      BY <1>1, <3>1
    <3>5. begins[i + 1] <= end
      BY <1>3, <1>6, <3>3, <3>4
    <3>6. begins[i + 1] = begins[i] + p[i].bits /\ HasBits(b, begins[i], p[i].data, p[i].bits)
      BY <1>1, <3>1
    <3>7. QED
      BY <3>2, <3>5, <3>6
  <2>3. QED
    BY <2>1, <2>2
<1>12. more[1] = 0
  <2>1. 1 \in 1 .. n + 1
    BY <1>2
  <2>2. QED
    BY <1>1, <1>8, <2>1, Zenon
<1>13. Len(ap) + 1 = n + 2
  BY <1>2, <1>5
<1>14. BitsLaidOut(more, ap, b) /\ more[Len(ap) + 1] = end
  BY <1>5, <1>7, <1>8, <1>11, <1>12, <1>13, Zenon DEF BitsLaidOut
<1>15. QED
  BY <1>14 DEF end, last, n, ap

----------------------------------------------------------------------------

\* The writer stands behind the bits of the calls made and of its current one.
Writing(begins) ==
  \/ bitsLeft = 0 /\ currentBit = begins[Len(puts) + 1]
  \/ /\ bitsLeft > 0 /\ pending # <<>>
     /\ \E done \in Nat :
          /\ bitsLeft + done = Head(pending).bits
          /\ currentBit = begins[Len(puts) + 1] + done
          /\ currentBit + bitsLeft <= 8 * Len(bitBuffer)
          /\ HasBits(bitBuffer, begins[Len(puts) + 1], Head(pending).data, done)

\* The reader stands where the bits of the next call begin, or behind the bytes
\* that its current one has read.
Reading(begins) ==
  \/ bitsLeft = 0 /\ currentBit = begins[Len(gets) + 1]
  \/ /\ bitsLeft > 0 /\ gets # <<>>
     /\ bitsLeft + 8 * Len(gets[Len(gets)]) = puts[Len(gets)].bits
     /\ currentBit = begins[Len(gets)] + 8 * Len(gets[Len(gets)])
     /\ \A j \in 1 .. Len(gets[Len(gets)]) : gets[Len(gets)][j] = puts[Len(gets)].data[j]

BitTypeOK ==
  /\ bitTypes \in BOOLEAN /\ bitReading \in BOOLEAN
  /\ bitBuffer \in Seq(SUBSET Bit) /\ currentBit \in Nat /\ bitsLeft \in Nat
  /\ pending \in Seq(Calls) /\ puts \in Seq(Calls)
  /\ gets \in Seq(Seq(SUBSET Bit)) /\ Len(gets) <= Len(puts)
  /\ ~bitReading => gets = <<>>
  /\ bitReading => pending = <<>>

\* The calls' bits lie one behind the other, whoever of the two goes through them.
BitInv ==
  /\ BitTypeOK
  /\ \E begins : BitsLaidOut(begins, puts, bitBuffer) /\ IF bitReading THEN Reading(begins) ELSE Writing(begins)
  /\ BitsReadBack

LEMMA BitInitially == BitInit => BitInv
<1> SUFFICES ASSUME BitInit PROVE BitInv
  OBVIOUS
<1> DEFINE begins == [i \in 1 .. 1 |-> 0]
<1>1. /\ bitTypes \in BOOLEAN /\ bitBuffer = <<>> /\ currentBit = 0 /\ bitsLeft = 0
      /\ pending = <<>> /\ puts = <<>> /\ gets = <<>> /\ bitReading = FALSE
  BY DEF BitInit
<1>2. BitTypeOK
  <2>1. /\ bitBuffer \in Seq(SUBSET Bit) /\ currentBit \in Nat /\ bitsLeft \in Nat
        /\ pending \in Seq(Calls) /\ puts \in Seq(Calls)
        /\ gets \in Seq(Seq(SUBSET Bit)) /\ Len(gets) <= Len(puts)
    BY <1>1
  <2>2. QED
    BY <1>1, <2>1, Zenon DEF BitTypeOK
<1>3. BitsLaidOut(begins, puts, bitBuffer)
  BY <1>1 DEF BitsLaidOut
<1>4. Writing(begins)
  BY <1>1 DEF Writing
<1> HIDE DEF begins
<1>5. \E s : BitsLaidOut(s, puts, bitBuffer) /\ IF bitReading THEN Reading(s) ELSE Writing(s)
  BY <1>1, <1>3, <1>4, Zenon
<1>6. BitsReadBack
  BY <1>1 DEF BitsReadBack
<1>7. QED
  BY <1>2, <1>5, <1>6 DEF BitInv

\* While nothing is read there is nothing to read back.
LEMMA NothingRead == gets = <<>> => BitsReadBack
BY DEF BitsReadBack

LEMMA BitWriteField == BitInv /\ WriteField => BitInv'
<1> SUFFICES ASSUME BitInv, WriteField PROVE BitInv'
  OBVIOUS
<1>1. PICK begins : BitsLaidOut(begins, puts, bitBuffer) /\ IF bitReading THEN Reading(begins) ELSE Writing(begins)
  BY DEF BitInv
<1>2. ~bitReading /\ pending = <<>> /\ UNCHANGED <<bitTypes, bitBuffer, currentBit, bitsLeft, puts, gets, bitReading>>
  BY DEF WriteField
<1>3. pending' \in Seq(Calls)
  <2>1. PICK field \in BitFields : pending' = Puts(field)
    BY DEF WriteField
  <2>2. QED
    BY <2>1, PutsOfField DEF BitInv, BitTypeOK
<1>4. BitTypeOK'
  BY <1>2, <1>3 DEF BitInv, BitTypeOK
<1>5. Writing(begins)
  BY <1>1, <1>2
<1>6. bitsLeft = 0 /\ currentBit = begins[Len(puts) + 1]
  BY <1>2, <1>5 DEF Writing
<1>7. bitsLeft' = 0 /\ currentBit' = begins[Len(puts') + 1] /\ ~bitReading' /\ BitsLaidOut(begins, puts', bitBuffer')
  BY <1>1, <1>2, <1>6
<1>8. (\E s : BitsLaidOut(s, puts, bitBuffer) /\ IF bitReading THEN Reading(s) ELSE Writing(s))'
  BY <1>7 DEF Writing
<1>9. BitsReadBack'
  BY <1>2 DEF BitInv, BitsReadBack
<1>10. QED
  BY <1>4, <1>8, <1>9 DEF BitInv

LEMMA BitBeginWrite == BitInv /\ BeginWrite => BitInv'
<1> SUFFICES ASSUME BitInv, BeginWrite PROVE BitInv'
  OBVIOUS
<1>1. PICK begins : BitsLaidOut(begins, puts, bitBuffer) /\ IF bitReading THEN Reading(begins) ELSE Writing(begins)
  BY DEF BitInv
<1> DEFINE put == Head(pending)
           room == [i \in 1 .. put.bits \div 8 + 1 |-> {}]
           here == begins[Len(puts) + 1]
<1>2. /\ ~bitReading /\ pending # <<>> /\ bitsLeft = 0 /\ bitsLeft' = put.bits
      /\ bitBuffer' = bitBuffer \o room
      /\ UNCHANGED <<bitTypes, currentBit, pending, puts, gets, bitReading>>
  BY DEF BeginWrite
<1>3. bitBuffer \in Seq(SUBSET Bit) /\ puts \in Seq(Calls) /\ pending \in Seq(Calls) /\ currentBit \in Nat
  BY DEF BitInv, BitTypeOK
<1>4. put \in Calls /\ put.bits \in Nat \ {0}
  <2>1. put \in Calls
    BY <1>2, <1>3
  <2> HIDE DEF put
  <2>2. QED
    BY <2>1 DEF Calls
<1>5. room \in Seq(SUBSET Bit) /\ Len(room) = put.bits \div 8 + 1 /\ Len(room) \in Nat
  <2>1. put.bits \div 8 + 1 \in Nat
    BY <1>4
  <2>2. QED
    BY <2>1
<1>6. 8 * Len(room) > put.bits
  BY <1>4, <1>5
<1> HIDE DEF room
<1>7. /\ bitBuffer' \in Seq(SUBSET Bit) /\ Len(bitBuffer') = Len(bitBuffer) + Len(room)
      /\ \A j \in 1 .. Len(bitBuffer) : bitBuffer'[j] = bitBuffer[j]
  <2>1. bitBuffer \in Seq(SUBSET Bit) /\ room \in Seq(SUBSET Bit)
    BY <1>3, <1>5
  <2>2. /\ bitBuffer \o room \in Seq(SUBSET Bit) /\ Len(bitBuffer \o room) = Len(bitBuffer) + Len(room)
        /\ \A j \in 1 .. Len(bitBuffer) : (bitBuffer \o room)[j] = bitBuffer[j]
    BY ONLY <2>1, Concatenated
  <2>3. QED
    BY <1>2, <2>2, Zenon
<1>8. here \in Nat /\ here <= 8 * Len(bitBuffer) /\ currentBit = here
  <2>1. Len(puts) + 1 \in 1 .. Len(puts) + 1
    BY <1>3
  <2>2. here \in Nat /\ here <= 8 * Len(bitBuffer)
    BY <1>1, <2>1 DEF BitsLaidOut
  <2>3. Writing(begins)
    BY <1>1, <1>2
  <2>4. QED
    BY <1>2, <2>2, <2>3 DEF Writing
<1>9. BitsLaidOut(begins, puts, bitBuffer')
  <2>1. \A k \in Nat : k < here => (BitAt(bitBuffer', k) <=> BitAt(bitBuffer, k))
    <3>1. \A k \in Nat : k < 8 * Len(bitBuffer) => (BitAt(bitBuffer', k) <=> BitAt(bitBuffer, k))
      <4>1. Len(bitBuffer) \in Nat
        BY <1>3
      <4>2. QED
        BY <1>7, <4>1, SameBits, Zenon
    <3>2. \A k \in Nat : k < here => k < 8 * Len(bitBuffer)
      BY <1>3, <1>8
    <3>3. QED
      BY <3>1, <3>2, Zenon
  <2>2. here <= 8 * Len(bitBuffer')
    BY <1>3, <1>5, <1>7, <1>8
  <2>3. QED
    BY <1>1, <1>3, <1>7, <2>1, <2>2, KeptBits
<1>10. /\ bitsLeft' > 0 /\ pending' # <<>> /\ bitsLeft' + 0 = Head(pending').bits
       /\ currentBit' = begins[Len(puts') + 1] + 0
       /\ currentBit' + bitsLeft' <= 8 * Len(bitBuffer')
  <2>1. currentBit' = here /\ bitsLeft' = put.bits /\ Head(pending') = put /\ begins[Len(puts') + 1] = here
    BY <1>2, <1>8
  <2>2. here + put.bits <= 8 * Len(bitBuffer')
    <3> HIDE DEF put, here
    <3>1. Len(bitBuffer) \in Nat
      BY <1>3
    <3>2. QED
      BY <1>4, <1>5, <1>6, <1>7, <1>8, <3>1
  <2> HIDE DEF put, here
  <2>3. QED
    BY <1>2, <1>4, <1>8, <2>1, <2>2
<1>11. HasBits(bitBuffer', begins[Len(puts') + 1], Head(pending').data, 0)
  BY DEF HasBits
<1>12. BitsLaidOut(begins, puts', bitBuffer') /\ ~bitReading'
  BY <1>2, <1>9
<1>13. (\E s : BitsLaidOut(s, puts, bitBuffer) /\ IF bitReading THEN Reading(s) ELSE Writing(s))'
  <2>1. Writing(begins)'
    BY <1>10, <1>11 DEF Writing
  <2>2. QED
    BY <1>12, <2>1
<1>14. BitTypeOK'
  BY <1>2, <1>4, <1>7 DEF BitInv, BitTypeOK
<1>15. BitsReadBack'
  BY <1>2 DEF BitInv, BitsReadBack, BitTypeOK
<1>16. QED
  BY <1>13, <1>14, <1>15 DEF BitInv

LEMMA BitBitSend == BitInv /\ BitSend => BitInv'
<1> SUFFICES ASSUME BitInv, BitSend PROVE BitInv'
  OBVIOUS
<1>1. PICK begins : BitsLaidOut(begins, puts, bitBuffer) /\ IF bitReading THEN Reading(begins) ELSE Writing(begins)
  BY DEF BitInv
<1> DEFINE n == (currentBit + 7) \div 8
<1>2. /\ ~bitReading /\ pending = <<>> /\ bitReading' = TRUE /\ currentBit' = 0
      /\ bitBuffer' = SubSeq(bitBuffer, 1, n)
      /\ UNCHANGED <<bitTypes, pending, bitsLeft, puts, gets>>
  BY DEF BitSend
<1>3. bitBuffer \in Seq(SUBSET Bit) /\ puts \in Seq(Calls) /\ currentBit \in Nat /\ gets = <<>>
  BY <1>2 DEF BitInv, BitTypeOK
<1>4. bitsLeft = 0 /\ currentBit = begins[Len(puts) + 1] /\ currentBit <= 8 * Len(bitBuffer)
  <2>1. Writing(begins)
    BY <1>1, <1>2
  <2>2. begins[Len(puts) + 1] <= 8 * Len(bitBuffer)
    BY <1>1 DEF BitsLaidOut
  <2>3. QED
    BY <1>2, <2>1, <2>2 DEF Writing
<1>5. n \in Nat /\ n <= Len(bitBuffer) /\ currentBit <= 8 * n
  BY <1>3, <1>4
<1> HIDE DEF n
<1>6. /\ bitBuffer' \in Seq(SUBSET Bit) /\ Len(bitBuffer') = n
      /\ \A j \in 1 .. n : bitBuffer'[j] = bitBuffer[j]
  BY <1>2, <1>3, <1>5
<1>7. BitsLaidOut(begins, puts, bitBuffer')
  <2>1. \A k \in Nat : k < currentBit => (BitAt(bitBuffer', k) <=> BitAt(bitBuffer, k))
    <3>1. \A k \in Nat : k < 8 * n => (BitAt(bitBuffer', k) <=> BitAt(bitBuffer, k))
      BY <1>5, <1>6, SameBits
    <3>2. \A k \in Nat : k < currentBit => k < 8 * n
      BY <1>3, <1>5
    <3>3. QED
      BY <3>1, <3>2, Zenon
  <2>2. begins[Len(puts) + 1] <= 8 * Len(bitBuffer')
    BY <1>4, <1>5, <1>6
  <2>3. QED
    BY <1>1, <1>3, <1>4, <1>6, <2>1, <2>2, KeptBits
<1>8. currentBit' = begins[Len(gets') + 1] /\ bitsLeft' = 0
  <2>1. begins[1] = 0
    BY <1>1 DEF BitsLaidOut
  <2>2. QED
    BY <1>2, <1>3, <1>4, <2>1
<1>9. (\E s : BitsLaidOut(s, puts, bitBuffer) /\ IF bitReading THEN Reading(s) ELSE Writing(s))'
  <2>1. Reading(begins)'
    BY <1>8 DEF Reading
  <2>2. BitsLaidOut(begins, puts', bitBuffer')
    BY <1>2, <1>7
  <2>3. QED
    BY <1>2, <2>1, <2>2
<1>10. BitTypeOK'
  BY <1>2, <1>6 DEF BitInv, BitTypeOK
<1>11. BitsReadBack'
  BY <1>2, <1>3 DEF BitsReadBack
<1>12. QED
  BY <1>9, <1>10, <1>11 DEF BitInv

LEMMA BitWriteRound == BitInv /\ WriteRound => BitInv'
<1> SUFFICES ASSUME BitInv, WriteRound PROVE BitInv'
  OBVIOUS
<1>1. PICK begins : BitsLaidOut(begins, puts, bitBuffer) /\ IF bitReading THEN Reading(begins) ELSE Writing(begins)
  BY DEF BitInv
<1> DEFINE put == Head(pending)
           here == begins[Len(puts) + 1]
           n == AtMost(bitsLeft, 8 - (currentBit % 8))
           old == put.bits - bitsLeft
<1>2. /\ ~bitReading /\ bitsLeft > 0
      /\ bitBuffer' = [bitBuffer EXCEPT ![currentBit \div 8 + 1] = Merged(@, ThisData(put, old), currentBit % 8, n)]
      /\ currentBit' = currentBit + n
      /\ bitsLeft' = bitsLeft - n
      /\ IF bitsLeft' = 0 THEN puts' = Append(puts, put) /\ pending' = Tail(pending) ELSE UNCHANGED <<puts, pending>>
      /\ UNCHANGED <<bitTypes, gets, bitReading>>
  BY DEF WriteRound
<1>3. /\ bitBuffer \in Seq(SUBSET Bit) /\ puts \in Seq(Calls) /\ pending \in Seq(Calls)
      /\ currentBit \in Nat /\ bitsLeft \in Nat /\ gets = <<>>
  BY <1>2 DEF BitInv, BitTypeOK
<1>4. /\ pending # <<>>
      /\ \E done \in Nat :
           /\ bitsLeft + done = put.bits
           /\ currentBit = here + done
           /\ currentBit + bitsLeft <= 8 * Len(bitBuffer)
           /\ HasBits(bitBuffer, here, put.data, done)
  <2>1. Writing(begins) /\ ~(bitsLeft = 0)
    BY <1>1, <1>2, <1>3
  <2>2. QED
    BY <2>1 DEF Writing
<1>5. put \in Calls /\ Len(bitBuffer) \in Nat
  BY <1>3, <1>4
<1>6. PICK done \in Nat :
        /\ bitsLeft + done = put.bits
        /\ currentBit = here + done
        /\ currentBit + bitsLeft <= 8 * Len(bitBuffer)
        /\ HasBits(bitBuffer, here, put.data, done)
  BY <1>4
<1>7. here \in Nat
  <2>1. Len(puts) + 1 \in 1 .. Len(puts) + 1
    BY <1>3
  <2>2. QED
    BY <1>1, <2>1 DEF BitsLaidOut
<1> HIDE DEF put
<1>8. put.bits \in Nat
  BY <1>5 DEF Calls
<1>9. old = done
  BY <1>3, <1>6, <1>8
<1>10. n \in Nat \ {0} /\ n <= bitsLeft /\ (currentBit % 8) + n <= 8
  <2>1. currentBit % 8 \in 0 .. 7
    BY <1>3
  <2>2. 8 - (currentBit % 8) \in Nat \ {0}
    BY <2>1
  <2>3. n \in Nat /\ n <= bitsLeft /\ n <= 8 - (currentBit % 8) /\ n \in {bitsLeft, 8 - (currentBit % 8)}
    BY <1>3, <2>2, SmallestOf
  <2> HIDE DEF n
  <2>4. QED
    BY <1>2, <1>3, <2>1, <2>2, <2>3
<1> HIDE DEF old, n, here
<1>11. currentBit < 8 * Len(bitBuffer) /\ done + n <= put.bits /\ currentBit + n <= 8 * Len(bitBuffer)
  <2>1. bitsLeft + done = put.bits /\ currentBit + bitsLeft <= 8 * Len(bitBuffer)
    BY <1>6
  <2>2. n \in Nat \ {0} /\ n <= bitsLeft
    BY <1>10
  <2>3. QED
    BY <1>3, <1>5, <2>1, <2>2
<1>12. /\ bitBuffer' \in Seq(SUBSET Bit) /\ Len(bitBuffer') = Len(bitBuffer)
       /\ \A k \in Nat : k < 8 * Len(bitBuffer) =>
            (BitAt(bitBuffer', k) <=> IF currentBit <= k /\ k < currentBit + n THEN BitAt(put.data, done + (k - currentBit))
                                      ELSE BitAt(bitBuffer, k))
  <2> DEFINE c == [bitBuffer EXCEPT ![currentBit \div 8 + 1] = Merged(@, ThisData(put, done), currentBit % 8, n)]
  <2>1. bitBuffer' = c
    BY <1>2, <1>9
  <2>2. done + n <= put.bits /\ (currentBit % 8) + n <= 8 /\ currentBit < 8 * Len(bitBuffer)
    BY <1>10, <1>11
  <2>3. n \in Nat \ {0} /\ done \in Nat /\ put \in Calls /\ bitBuffer \in Seq(SUBSET Bit) /\ currentBit \in Nat
    BY <1>3, <1>5, <1>10
  <2>4. HasRound(bitBuffer, c, currentBit, put.data, done, n)
    BY <2>2, <2>3, RoundWrites
  <2> HIDE DEF c
  <2>5. HasRound(bitBuffer, bitBuffer', currentBit, put.data, done, n)
    BY <2>1, <2>4, Zenon
  <2>6. QED
    BY <2>5, Zenon DEF HasRound
<1>13. BitsLaidOut(begins, puts, bitBuffer')
  <2>1. here <= 8 * Len(bitBuffer')
    BY <1>1, <1>12 DEF BitsLaidOut, here
  <2>2. ASSUME NEW k \in Nat, k < here PROVE BitAt(bitBuffer', k) <=> BitAt(bitBuffer, k)
    <3>1. k < 8 * Len(bitBuffer) /\ ~(currentBit <= k /\ k < currentBit + n)
      BY <1>3, <1>5, <1>6, <1>7, <1>10, <1>11, <2>2
    <3>2. QED
      BY <1>12, <3>1, Zenon
  <2>3. \A k \in Nat : k < here => (BitAt(bitBuffer', k) <=> BitAt(bitBuffer, k))
    BY <2>2
  <2>4. QED
    BY <1>1, <1>3, <1>12, <2>1, <2>3, KeptBits DEF here
<1>14. HasBits(bitBuffer', here, put.data, done + n)
  <2>1. ASSUME NEW k \in 0 .. (done + n) - 1 PROVE BitAt(bitBuffer', here + k) <=> BitAt(put.data, k)
    <3>1. here + k \in Nat /\ here + k < 8 * Len(bitBuffer)
      BY <1>5, <1>6, <1>7, <1>10, <1>11
    <3>2. CASE k < done
      <4>1. k \in 0 .. done - 1 /\ ~(currentBit <= here + k /\ here + k < currentBit + n)
        BY <1>6, <1>7, <1>10, <3>2
      <4>2. BitAt(bitBuffer, here + k) <=> BitAt(put.data, k)
        BY <1>6, <4>1, Zenon DEF HasBits
      <4>3. QED
        BY <1>12, <3>1, <4>1, <4>2, Zenon
    <3>3. CASE ~(k < done)
      <4>1. currentBit <= here + k /\ here + k < currentBit + n /\ done + ((here + k) - currentBit) = k
        BY <1>6, <1>7, <1>10, <3>3
      <4>2. BitAt(bitBuffer', here + k) <=> BitAt(put.data, done + ((here + k) - currentBit))
        BY <1>12, <3>1, <4>1, Zenon
      <4>3. QED
        BY <4>1, <4>2
    <3>4. QED
      BY <3>2, <3>3
  <2>2. QED
    BY <2>1, Zenon DEF HasBits
<1>15. currentBit' = here + (done + n) /\ currentBit' \in Nat /\ bitsLeft' \in Nat /\ bitsLeft' + (done + n) = put.bits
  <2>1. n \in Nat \ {0} /\ n <= bitsLeft
    BY <1>10
  <2>2. bitsLeft + done = put.bits /\ currentBit = here + done
    BY <1>6
  <2>3. QED
    BY <1>2, <1>3, <1>7, <2>1, <2>2
<1>16. CASE bitsLeft' = 0
  <2>1. puts' = Append(puts, put) /\ pending' = Tail(pending)
    BY <1>2, <1>16
  <2>2. put.bits = done + n /\ here + put.bits <= 8 * Len(bitBuffer') /\ currentBit' = here + put.bits
    <3>1. put.bits = done + n
      BY <1>10, <1>15, <1>16
    <3>2. currentBit' = here + put.bits /\ currentBit + n = currentBit'
      BY <1>2, <1>15, <3>1
    <3>3. QED
      BY <1>11, <1>12, <3>1, <3>2
  <2>3. HasBits(bitBuffer', here, put.data, put.bits)
    BY <1>14, <2>2
  <2>4. PICK more : BitsLaidOut(more, puts', bitBuffer') /\ more[Len(puts') + 1] = here + put.bits
    <3>1. Len(bitBuffer') \in Nat
      BY <1>5, <1>12
    <3>2. \E more : /\ BitsLaidOut(more, Append(puts, put), bitBuffer')
                    /\ more[Len(Append(puts, put)) + 1] = here + put.bits
      BY <1>3, <1>5, <1>13, <2>2, <2>3, <3>1, OneMorePut DEF here
    <3>3. QED
      BY <2>1, <3>2
  <2>5. (\E s : BitsLaidOut(s, puts, bitBuffer) /\ IF bitReading THEN Reading(s) ELSE Writing(s))'
    <3>1. Writing(more)'
      BY <1>16, <2>2, <2>4 DEF Writing
    <3>2. QED
      BY <1>2, <2>4, <3>1
  <2>6. BitTypeOK'
    <3>1. puts' \in Seq(Calls) /\ pending' \in Seq(Calls)
      BY <1>3, <1>4, <1>5, <2>1
    <3>2. QED
      BY <1>2, <1>3, <1>12, <1>15, <3>1 DEF BitInv, BitTypeOK
  <2>7. BitsReadBack'
    BY <1>2, <1>3 DEF BitsReadBack
  <2>8. QED
    BY <2>5, <2>6, <2>7 DEF BitInv
<1>17. CASE bitsLeft' # 0
  <2>1. puts' = puts /\ pending' = pending
    BY <1>2, <1>17
  <2>2. (\E s : BitsLaidOut(s, puts, bitBuffer) /\ IF bitReading THEN Reading(s) ELSE Writing(s))'
    <3>1. /\ bitsLeft' > 0 /\ pending' # <<>> /\ done + n \in Nat
          /\ bitsLeft' + (done + n) = Head(pending').bits
          /\ currentBit' = begins[Len(puts') + 1] + (done + n)
          /\ HasBits(bitBuffer', begins[Len(puts') + 1], Head(pending').data, done + n)
      BY <1>4, <1>10, <1>14, <1>15, <1>17, <2>1 DEF put, here
    <3>2. currentBit' + bitsLeft' <= 8 * Len(bitBuffer')
      BY <1>2, <1>3, <1>6, <1>10, <1>12
    <3>3. Writing(begins)'
      BY <3>1, <3>2 DEF Writing
    <3>4. BitsLaidOut(begins, puts', bitBuffer')
      BY <1>13, <2>1
    <3>5. QED
      BY <1>2, <3>3, <3>4
  <2>3. BitTypeOK'
    BY <1>2, <1>3, <1>12, <1>15, <2>1 DEF BitInv, BitTypeOK
  <2>4. BitsReadBack'
    BY <1>2, <1>3 DEF BitsReadBack
  <2>5. QED
    BY <2>2, <2>3, <2>4 DEF BitInv
<1>18. QED
  BY <1>16, <1>17

LEMMA BitBeginRead == BitInv /\ BeginRead => BitInv'
<1> SUFFICES ASSUME BitInv, BeginRead PROVE BitInv'
  OBVIOUS
<1>1. PICK begins : BitsLaidOut(begins, puts, bitBuffer) /\ IF bitReading THEN Reading(begins) ELSE Writing(begins)
  BY DEF BitInv
<1> DEFINE m == Len(gets) + 1
           put == puts[m]
<1>2. /\ bitReading /\ bitsLeft = 0 /\ Len(gets) < Len(puts)
      /\ bitsLeft' = IF currentBit + put.bits > 8 * Len(bitBuffer) THEN 0 ELSE put.bits
      /\ gets' = Append(gets, <<>>)
      /\ UNCHANGED <<bitTypes, bitBuffer, currentBit, pending, puts, bitReading>>
  BY DEF BeginRead
<1>3. bitBuffer \in Seq(SUBSET Bit) /\ puts \in Seq(Calls) /\ currentBit \in Nat /\ gets \in Seq(Seq(SUBSET Bit))
  BY DEF BitInv, BitTypeOK
<1>4. m \in 1 .. Len(puts) /\ m \in 1 .. Len(puts) + 1 /\ m + 1 \in 1 .. Len(puts) + 1 /\ Len(puts) + 1 \in 1 .. Len(puts) + 1
  BY <1>2, <1>3
<1>5. put \in Calls
  BY <1>3, <1>4, ElementOfSeq
<1> HIDE DEF put
<1>6. put.bits \in Nat \ {0}
  BY <1>5 DEF Calls
<1>7. currentBit = begins[m]
  <2>1. Reading(begins)
    BY <1>1, <1>2
  <2>2. QED
    BY <1>2, <2>1 DEF Reading
<1> HIDE DEF m
<1>8. currentBit + put.bits <= 8 * Len(bitBuffer)
  <2>1. begins[m + 1] \in Nat /\ begins[Len(puts) + 1] \in Nat
    BY <1>1, <1>4 DEF BitsLaidOut
  <2>2. begins[m + 1] = begins[m] + put.bits /\ begins[m + 1] <= begins[Len(puts) + 1]
        /\ begins[Len(puts) + 1] <= 8 * Len(bitBuffer)
    BY <1>1, <1>4 DEF BitsLaidOut, put
  <2>3. QED
    BY <1>3, <1>7, <2>1, <2>2
<1>9. bitsLeft' = put.bits
  <2>1. ~(currentBit + put.bits > 8 * Len(bitBuffer))
    BY <1>3, <1>6, <1>8
  <2>2. QED
    BY <1>2, <2>1
<1>10. /\ gets' \in Seq(Seq(SUBSET Bit)) /\ Len(gets') = m /\ gets'[m] = <<>> /\ gets' # <<>>
       /\ \A i \in 1 .. Len(gets) : gets'[i] = gets[i]
  <2>1. <<>> \in Seq(SUBSET Bit)
    OBVIOUS
  <2>2. /\ gets' \in Seq(Seq(SUBSET Bit)) /\ Len(gets') = Len(gets) + 1 /\ gets'[Len(gets) + 1] = <<>>
        /\ \A i \in 1 .. Len(gets) : gets'[i] = gets[i]
    BY <1>2, <1>3, <2>1
  <2>3. gets' # <<>>
    BY <1>3, <2>2
  <2>4. QED
    BY <2>2, <2>3 DEF m
<1>11. (\E s : BitsLaidOut(s, puts, bitBuffer) /\ IF bitReading THEN Reading(s) ELSE Writing(s))'
  <2>1. /\ bitsLeft' > 0 /\ gets' # <<>>
        /\ bitsLeft' + 8 * Len(gets'[Len(gets')]) = puts'[Len(gets')].bits
        /\ currentBit' = begins[Len(gets')] + 8 * Len(gets'[Len(gets')])
        /\ \A j \in 1 .. Len(gets'[Len(gets')]) : gets'[Len(gets')][j] = puts'[Len(gets')].data[j]
    <3>1. gets'[Len(gets')] = <<>> /\ puts'[Len(gets')] = put /\ begins[Len(gets')] = begins[m]
      BY <1>2, <1>10 DEF put
    <3>2. Len(<<>>) = 0
      OBVIOUS
    <3>3. currentBit' = begins[m] + 8 * 0 /\ bitsLeft' + 8 * 0 = put.bits /\ bitsLeft' > 0
      BY <1>2, <1>3, <1>6, <1>7, <1>9
    <3>4. \A j \in 1 .. 0 : FALSE
      OBVIOUS
    <3>5. QED
      BY <1>10, <3>1, <3>2, <3>3, <3>4
  <2>2. Reading(begins)'
    BY <2>1 DEF Reading
  <2>3. BitsLaidOut(begins, puts', bitBuffer')
    BY <1>1, <1>2
  <2>4. QED
    BY <1>2, <2>2, <2>3
<1>12. BitTypeOK'
  <2>1. bitsLeft' \in Nat /\ Len(gets') <= Len(puts)
    BY <1>4, <1>6, <1>9, <1>10
  <2>2. QED
    BY <1>2, <1>10, <2>1 DEF BitInv, BitTypeOK
<1>13. BitsReadBack'
  <2>1. \A i \in DOMAIN gets : gets[i] = puts[i].data
    BY <1>2 DEF BitInv, BitsReadBack
  <2>2. ASSUME NEW i \in DOMAIN gets', i < Len(gets') \/ bitsLeft' = 0 PROVE gets'[i] = puts'[i].data
    <3>1. i \in 1 .. Len(gets)
      BY <1>3, <1>6, <1>9, <1>10, <2>2 DEF m
    <3>2. i \in DOMAIN gets
      BY <1>3, <3>1
    <3>3. QED
      BY <1>2, <1>10, <2>1, <3>1, <3>2
  <2>3. QED
    BY <2>2 DEF BitsReadBack
<1>14. QED
  BY <1>11, <1>12, <1>13 DEF BitInv

\* A round of read is the next byte of the data of the call, with no bits behind it.
LEMMA TakesByte ==
  ASSUME NEW put \in Calls, NEW l \in Nat, NEW from \in Nat,
         bitBuffer \in Seq(SUBSET Bit), bitsLeft \in Nat \ {0},
         bitsLeft + 8 * l = put.bits, currentBit = from + 8 * l, currentBit + bitsLeft <= 8 * Len(bitBuffer),
         HasBits(bitBuffer, from, put.data, put.bits)
  PROVE  l + 1 \in 1 .. Len(put.data) /\ ThisRead = put.data[l + 1]
<1>1. put.data \in Seq(SUBSET Bit) /\ put.bits <= 8 * Len(put.data) /\ 8 * Len(put.data) < put.bits + 8
      /\ \A k \in put.bits .. 8 * Len(put.data) - 1 : ~BitAt(put.data, k)
  BY DEF Calls
<1>2. Len(put.data) \in Nat /\ put.bits \in Nat
  BY DEF Calls
<1>3. l + 1 \in 1 .. Len(put.data)
  BY <1>1, <1>2
<1>4. put.data[l + 1] \in SUBSET Bit
  BY <1>1, <1>3, ElementOfSeq
<1>5. ThisRead \in SUBSET Bit /\ \A k \in Bit : k \in ThisRead <=> k < bitsLeft /\ BitAt(bitBuffer, currentBit + k)
  <2>1. currentBit \in Nat
    OBVIOUS
  <2>2. QED
    BY <2>1, RoundReads
<1>6. ASSUME NEW k \in Bit PROVE k \in ThisRead <=> k \in put.data[l + 1]
  <2>1. BitAt(put.data, 8 * l + k) <=> k \in put.data[l + 1]
    BY BitAtPlace, Zenon
  <2>2. k \in Nat /\ k < 8
    BY DEF Bit
  <2>3. CASE k < bitsLeft
    <3>1. 8 * l + k \in 0 .. put.bits - 1 /\ from + (8 * l + k) = currentBit + k
      BY <1>2, <2>2, <2>3
    <3>2. BitAt(bitBuffer, from + (8 * l + k)) <=> BitAt(put.data, 8 * l + k)
      BY <3>1, Zenon DEF HasBits
    <3>3. BitAt(bitBuffer, currentBit + k) <=> BitAt(put.data, 8 * l + k)
      BY <3>1, <3>2
    <3>4. QED
      BY <1>5, <2>1, <2>3, <3>3, Zenon
  <2>4. CASE ~(k < bitsLeft)
    <3>1. 8 * l + k \in put.bits .. 8 * Len(put.data) - 1
      BY <1>2, <1>3, <2>2, <2>4
    <3>2. ~BitAt(put.data, 8 * l + k)
      BY <1>1, <3>1, Zenon
    <3>3. QED
      BY <1>5, <2>1, <2>4, <3>2, Zenon
  <2>5. QED
    BY <2>3, <2>4
<1>7. QED
  BY <1>3, <1>4, <1>5, <1>6

LEMMA BitReadRound == BitInv /\ ReadRound => BitInv'
<1> SUFFICES ASSUME BitInv, ReadRound PROVE BitInv'
  OBVIOUS
<1>1. PICK begins : BitsLaidOut(begins, puts, bitBuffer) /\ IF bitReading THEN Reading(begins) ELSE Writing(begins)
  BY DEF BitInv
<1> DEFINE m == Len(gets)
           got == gets[m]
           l == Len(got)
           n == AtMost(bitsLeft, 8)
           put == puts[m]
           this == ThisRead
<1>2. /\ bitReading /\ bitsLeft > 0
      /\ gets' = [gets EXCEPT ![m] = Append(@, this)]
      /\ currentBit' = currentBit + n /\ bitsLeft' = bitsLeft - n
      /\ UNCHANGED <<bitTypes, bitBuffer, pending, puts, bitReading>>
  BY DEF ReadRound
<1>3. /\ bitBuffer \in Seq(SUBSET Bit) /\ puts \in Seq(Calls) /\ currentBit \in Nat /\ bitsLeft \in Nat
      /\ gets \in Seq(Seq(SUBSET Bit)) /\ Len(gets) <= Len(puts)
  BY DEF BitInv, BitTypeOK
<1>4. /\ gets # <<>> /\ bitsLeft + 8 * l = put.bits /\ currentBit = begins[m] + 8 * l
      /\ \A j \in 1 .. l : got[j] = put.data[j]
  <2>1. Reading(begins) /\ bitsLeft # 0
    BY <1>1, <1>2, <1>3
  <2>2. QED
    BY <2>1 DEF Reading
<1>5. m \in 1 .. Len(puts) /\ m \in 1 .. Len(gets) /\ m \in 1 .. Len(puts) + 1 /\ m + 1 \in 1 .. Len(puts) + 1
      /\ Len(puts) + 1 \in 1 .. Len(puts) + 1
  BY <1>3, <1>4
<1>6. put \in Calls /\ got \in Seq(SUBSET Bit)
  BY <1>3, <1>5, ElementOfSeq
<1> HIDE DEF put, got
<1>7. put.bits \in Nat /\ put.data \in Seq(SUBSET Bit) /\ l \in Nat
      /\ put.bits <= 8 * Len(put.data) /\ 8 * Len(put.data) < put.bits + 8
  BY <1>6 DEF Calls
<1> HIDE DEF l
<1>8. /\ begins[m] \in Nat /\ begins[m + 1] = begins[m] + put.bits /\ begins[m] + put.bits <= 8 * Len(bitBuffer)
      /\ HasBits(bitBuffer, begins[m], put.data, put.bits)
  <2>1. begins[m] \in Nat /\ begins[m + 1] \in Nat /\ begins[Len(puts) + 1] \in Nat
    BY <1>1, <1>5 DEF BitsLaidOut
  <2>2. /\ begins[m + 1] = begins[m] + put.bits /\ begins[m + 1] <= begins[Len(puts) + 1]
        /\ begins[Len(puts) + 1] <= 8 * Len(bitBuffer)
        /\ HasBits(bitBuffer, begins[m], put.data, put.bits)
    BY <1>1, <1>5 DEF BitsLaidOut, put
  <2>3. Len(bitBuffer) \in Nat
    BY <1>3
  <2>4. QED
    BY <1>7, <2>1, <2>2, <2>3
<1>9. l + 1 \in 1 .. Len(put.data) /\ this = put.data[l + 1]
  <2>1. currentBit + bitsLeft <= 8 * Len(bitBuffer) /\ bitsLeft \in Nat \ {0}
    <3>1. bitsLeft + 8 * l = put.bits /\ currentBit = begins[m] + 8 * l
      BY <1>4
    <3>2. begins[m] + put.bits <= 8 * Len(bitBuffer) /\ begins[m] \in Nat /\ Len(bitBuffer) \in Nat
      BY <1>3, <1>8
    <3>3. bitsLeft \in Nat \ {0}
      BY <1>2, <1>3
    <3> HIDE DEF m
    <3>4. currentBit + bitsLeft = begins[m] + put.bits
      BY <1>7, <3>1, <3>2, <3>3
    <3>5. QED
      BY <3>2, <3>3, <3>4
  <2>2. QED
    BY <1>3, <1>4, <1>6, <1>7, <1>8, <2>1, TakesByte
<1>10. this \in SUBSET Bit
  BY <1>7, <1>9, ElementOfSeq
<1>11. n \in Nat \ {0} /\ n <= bitsLeft /\ n <= 8 /\ n \in {bitsLeft, 8}
  BY <1>2, <1>3 DEF AtMost
<1> HIDE DEF this, n
<1> DEFINE more == Append(got, this)
<1>12. /\ more \in Seq(SUBSET Bit) /\ Len(more) = l + 1
       /\ \A j \in 1 .. Len(more) : more[j] = put.data[j]
  <2>1. /\ more \in Seq(SUBSET Bit) /\ Len(more) = l + 1 /\ more[l + 1] = this
        /\ \A j \in 1 .. l : more[j] = got[j]
    BY <1>6, <1>10 DEF l
  <2> HIDE DEF more
  <2>2. \A j \in 1 .. l + 1 : j = l + 1 \/ j \in 1 .. l
    BY <1>7
  <2>3. QED
    BY <1>4, <1>9, <2>1, <2>2, Zenon
<1>13. /\ gets' \in Seq(Seq(SUBSET Bit)) /\ Len(gets') = m /\ gets'[m] = more
       /\ \A i \in 1 .. m : i # m => gets'[i] = gets[i]
  <2>1. gets' = [gets EXCEPT ![m] = more]
    BY <1>2 DEF got
  <2> HIDE DEF more
  <2>2. QED
    BY <1>3, <1>5, <1>12, <2>1
<1> HIDE DEF more
<1>14. currentBit' = begins[m] + 8 * l + n /\ bitsLeft' + (8 * l + n) = put.bits /\ bitsLeft' \in Nat /\ currentBit' \in Nat
  <2>1. bitsLeft + 8 * l = put.bits /\ currentBit = begins[m] + 8 * l
    BY <1>4
  <2>2. begins[m] \in Nat
    BY <1>8
  <2> HIDE DEF m
  <2>3. QED
    BY <1>2, <1>3, <1>7, <1>11, <2>1, <2>2
<1>15. BitTypeOK'
  <2>1. Len(gets') <= Len(puts')
    BY <1>2, <1>3, <1>13
  <2>2. QED
    BY <1>2, <1>13, <1>14, <2>1 DEF BitInv, BitTypeOK
<1>16. BitsLaidOut(begins, puts', bitBuffer') /\ bitReading'
  BY <1>1, <1>2
<1>17. (\E s : BitsLaidOut(s, puts, bitBuffer) /\ IF bitReading THEN Reading(s) ELSE Writing(s))'
  <2>1. CASE bitsLeft' = 0
    <3>1. currentBit' = begins[m + 1]
      BY <1>4, <1>7, <1>8, <1>11, <1>14, <2>1
    <3>2. Reading(begins)'
      BY <1>13, <2>1, <3>1 DEF Reading
    <3>3. QED
      BY <1>16, <3>2
  <2>2. CASE bitsLeft' # 0
    <3>1. n = 8
      BY <1>2, <1>3, <1>11, <2>2
    <3>2. /\ bitsLeft' > 0 /\ gets' # <<>> /\ puts'[Len(gets')] = put /\ Len(gets'[Len(gets')]) = l + 1
          /\ begins[Len(gets')] = begins[m]
      <4>1. gets' # <<>>
        BY <1>5, <1>13
      <4>2. bitsLeft' > 0
        BY <1>14, <2>2
      <4>3. puts'[m] = put
        BY <1>2 DEF put
      <4>4. QED
        BY <1>12, <1>13, <4>1, <4>2, <4>3
    <3>3. currentBit' = begins[m] + 8 * (l + 1) /\ bitsLeft' + 8 * (l + 1) = put.bits
      BY <1>7, <1>8, <1>14, <3>1
    <3>4. \A j \in 1 .. Len(gets'[Len(gets')]) : gets'[Len(gets')][j] = puts'[Len(gets')].data[j]
      BY <1>12, <1>13, <3>2
    <3>5. Reading(begins)'
      BY <3>2, <3>3, <3>4 DEF Reading
    <3>6. QED
      BY <1>16, <3>5
  <2>3. QED
    BY <2>1, <2>2
<1>18. BitsReadBack'
  <2>1. ASSUME NEW i \in DOMAIN gets', i < Len(gets') \/ bitsLeft' = 0 PROVE gets'[i] = puts'[i].data
    <3>1. i \in 1 .. m
      BY <1>13
    <3>2. CASE i # m
      <4>1. i \in DOMAIN gets /\ i < Len(gets)
        BY <1>3, <1>5, <3>1, <3>2
      <4>2. gets[i] = puts[i].data
        BY <4>1 DEF BitInv, BitsReadBack
      <4>3. QED
        BY <1>2, <1>13, <3>1, <3>2, <4>2
    <3>3. CASE i = m
      <4>1. bitsLeft' = 0
        BY <1>5, <1>13, <2>1, <3>3
      <4>2. Len(more) = Len(put.data)
        BY <1>7, <1>9, <1>11, <1>12, <1>14, <4>1
      <4>3. more = put.data
        BY <1>7, <1>12, <4>2, SeqEqual
      <4>4. QED
        BY <1>2, <1>13, <3>3, <4>3 DEF put
    <3>4. QED
      BY <3>2, <3>3
  <2>2. QED
    BY <2>1 DEF BitsReadBack
<1>19. QED
  BY <1>15, <1>17, <1>18 DEF BitInv

LEMMA BitStep == BitInv /\ [BitNext]_bitVars => BitInv'
<1> SUFFICES ASSUME BitInv, [BitNext]_bitVars PROVE BitInv'
  OBVIOUS
<1>1. CASE UNCHANGED bitVars
  BY <1>1 DEF bitVars, BitInv, BitTypeOK, BitsReadBack, Reading, Writing
<1>2. CASE BitNext
  BY <1>2, BitWriteField, BitBeginWrite, BitWriteRound, BitBitSend, BitBeginRead, BitReadRound DEF BitNext
<1>3. QED
  BY <1>1, <1>2

\* Whatever calls of bit_buffer's write follow each other, the loop of read puts
\* out their data, wherever in a byte they begin.
THEOREM BitBufferReadsBack == BitSpec => []BitsReadBack
<1>1. BitInv => BitsReadBack
  BY DEF BitInv
<1>2. QED
  BY <1>1, BitInitially, BitStep, PTL DEF BitSpec

\* In both formats of the online services the other side reads what was written,
\* in byte_buffer up to an array without types.
THEOREM BuffersReadBack == ByteSpec /\ BitSpec => []ReadsWhatWasWritten
BY ByteBufferReadsBack, BitBufferReadsBack, PTL DEF ReadsWhatWasWritten
=============================================================================
