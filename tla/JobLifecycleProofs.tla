------------------------- MODULE JobLifecycleProofs -------------------------
(***************************************************************************)
(* Theorems about JobLifecycle, for any number of StopJob calls and any    *)
(* exit codes.                                                             *)
(***************************************************************************)
EXTENDS JobLifecycle, TLAPS

USE DEF ThePid, Signaled

\* A record that ends a job from a well-typed copy is well typed.
LEMMA FinalRecordType ==
    ASSUME NEW j \in Jobs \cup {NoJob}, NEW c \in ExitCodes
    PROVE  /\ Complete(j, c) \in Jobs /\ Complete(j, c).ended /\ IsCompleted(Complete(j, c))
           /\ Fail(j, c) \in Jobs /\ Fail(j, c).ended /\ IsCompleted(Fail(j, c))
           /\ Stop(j) \in Jobs /\ Stop(j).ended /\ IsCompleted(Stop(j))
<1>1. -1 \in ExitCodes
  BY DEF ExitCodes
<1>2. Complete(j, c) \in Jobs /\ Complete(j, c).ended /\ Complete(j, c).Status = Completed
  <2>1. CASE j \in Jobs
    BY <2>1 DEF Complete, Jobs, JobStatus
  <2>2. CASE j = NoJob
    BY <2>2 DEF Complete, Jobs, JobStatus, NoJob
  <2> QED
    BY <2>1, <2>2
<1>3. Fail(j, c) \in Jobs /\ Fail(j, c).ended /\ Fail(j, c).Status = Failed
  <2>1. CASE j \in Jobs
    BY <2>1 DEF Fail, Jobs, JobStatus
  <2>2. CASE j = NoJob
    BY <2>2 DEF Fail, Jobs, JobStatus, NoJob
  <2> QED
    BY <2>1, <2>2
<1>4. Stop(j) \in Jobs /\ Stop(j).ended /\ Stop(j).Status = Stopped
  <2>1. CASE j \in Jobs
    BY <1>1, <2>1 DEF Stop, Jobs, JobStatus
  <2>2. CASE j = NoJob
    BY <1>1, <2>2 DEF Stop, Jobs, JobStatus, NoJob
  <2> QED
    BY <2>1, <2>2
<1> QED
  BY <1>2, <1>3, <1>4 DEF IsCompleted, FinalStatus

\* Whatever the cleanup method, StopJob writes a final record.
LEMMA StoppedJobType ==
    ASSUME NEW j \in Jobs \cup {NoJob}, NEW m
    PROVE  StoppedJob(j, m) \in Jobs /\ StoppedJob(j, m).ended /\ IsCompleted(StoppedJob(j, m))
<1>1. 0 \in ExitCodes /\ -1 \in ExitCodes
  BY DEF ExitCodes
<1> QED
  BY <1>1, FinalRecordType DEF StoppedJob

\* A copy of the record is the record.
LEMMA DeepCopyIsEqual ==
    ASSUME NEW j \in Jobs \cup {NoJob}
    PROVE  DeepCopy(j) = j
BY DEF DeepCopy, Jobs, NoJob

\* The records StartJob and the monitor build.
LEMMA NewJobType ==
    /\ NewJob \in Jobs /\ ~NewJob.ended /\ ~IsCompleted(NewJob) /\ ~IsRunning(NewJob)
    /\ monitorCopy \in Jobs /\ ~monitorCopy.ended /\ ~IsCompleted(monitorCopy)
BY DEF NewJob, monitorCopy, Jobs, JobStatus, ExitCodes, IsCompleted, IsRunning, FinalStatus,
       Completed, Failed, Stopped, Initializing, Running

\* What updateJobAsRunning writes.
LEMMA RunningJobType ==
    LET r == [MarkAsRunning(NewJob, ThePid) EXCEPT !.Status = Running, !.Pid = ThePid]
    IN  r \in Jobs /\ ~r.ended /\ ~IsCompleted(r) /\ r.Pid = ThePid
BY DEF MarkAsRunning, NewJob, Jobs, JobStatus, ExitCodes, IsCompleted, FinalStatus,
       Completed, Failed, Stopped, Initializing, Running

\* What the monitor writes: final unless Wait failed.
LEMMA FinalJobType ==
    ASSUME exitCode \in ExitCodes, NEW f \in BOOLEAN
    PROVE  /\ FinalJob(f) \in Jobs /\ (FinalJob(f).ended <=> IsCompleted(FinalJob(f)))
           /\ ~f => IsCompleted(FinalJob(f))
<1>1. 0 \in ExitCodes
  BY DEF ExitCodes
<1> QED
  BY <1>1, FinalRecordType, NewJobType DEF FinalJob

\* Every step keeps the types.
LEMMA TypeStep == TypeOK /\ [Next]_vars => TypeOK'
<1> SUFFICES ASSUME TypeOK, [Next]_vars
             PROVE  TypeOK'
  OBVIOUS
<1> USE DEF TypeOK
<1>1. CASE StartRequest
  BY <1>1 DEF StartRequest, StartPc, kernelVars, stopVars
<1>2. CASE CreateCgroup
  <2>1. startPc' \in StartPc
    BY <1>2 DEF CreateCgroup, StartPc
  <2>2. cgroup' \in BOOLEAN
    BY <1>2 DEF CreateCgroup
  <2> QED
    BY <1>2, <2>1, <2>2 DEF CreateCgroup, kernelVars, stopVars
<1>3. CASE CreateNewJob
  BY <1>3, NewJobType DEF CreateNewJob, StartPc, kernelVars, stopVars
<1>4. CASE LaunchProcess
  BY <1>4 DEF LaunchProcess, StartPc, kernelVars, stopVars
<1>5. CASE LaunchInGoroutine
  BY <1>5 DEF LaunchInGoroutine, stopVars
<1>6. CASE LaunchResult
  BY <1>6 DEF LaunchResult, StartPc, kernelVars, stopVars
<1>7. CASE LaunchAbandoned
  BY <1>7 DEF LaunchAbandoned, StartPc, kernelVars, stopVars
<1>8. CASE AddProcessToCgroup
  <2>1. startPc' \in StartPc
    BY <1>8 DEF AddProcessToCgroup, StartPc
  <2>2. inCgroup' \in BOOLEAN
    BY <1>8, Zenon DEF AddProcessToCgroup
  <2> QED
    BY <1>8, <2>1, <2>2 DEF AddProcessToCgroup, stopVars
<1>9. CASE UpdateJobAsRunning
  BY <1>9, RunningJobType DEF UpdateJobAsRunning, StartPc, kernelVars, stopVars
<1>10. CASE StartMonitor
  BY <1>10 DEF StartMonitor, StartPc, kernelVars, stopVars
<1>11. CASE FailStart
  <2>1. NewJob \in Jobs /\ -1 \in ExitCodes
    BY NewJobType DEF ExitCodes
  <2> QED
    BY <1>11, <2>1, FinalRecordType DEF FailStart, StartPc, kernelVars, stopVars
<1>12. CASE FailStartCleanup
  BY <1>12 DEF FailStartCleanup, CleanupCgroup, StartPc, CleanerPc, Owners, kernelVars, stopVars
<1>13. CASE MonitorReap
  BY <1>13 DEF MonitorReap, startVars, stopVars
<1>14. CASE MonitorUpdate
  <2>1. PICK f \in BOOLEAN : job' = FinalJob(f)
    BY <1>14, LifecycleAssumption DEF MonitorUpdate
  <2> QED
    BY <1>14, <2>1, FinalJobType DEF MonitorUpdate, startVars, kernelVars, stopVars
<1>15. CASE MonitorCleanup
  BY <1>15 DEF MonitorCleanup, CleanupCgroup, CleanerPc, Owners, startVars, kernelVars, stopVars
<1>16. ASSUME NEW k \in Stoppers, StopGetJob(k)
       PROVE  TypeOK'
  BY <1>16, DeepCopyIsEqual DEF StopGetJob, GetJob, StopGoto, StopPc, startVars, kernelVars
<1>17. ASSUME NEW k \in Stoppers, CheckAlive(k)
       PROVE  TypeOK'
  <2>1. stopPc' \in [Stoppers -> StopPc]
    BY <1>17 DEF CheckAlive, CleanupResult, CleanupContinues, StopGoto, StopPc
  <2>2. method' \in [Stoppers -> Methods]
    BY <1>17 DEF CheckAlive, CleanupResult, CleanupContinues, Methods
  <2>3. UNCHANGED <<job, startVars, kernelVars, cgroup, monPc, stopJob, cleaner>>
    BY <1>17 DEF CheckAlive
  <2> QED
    BY <2>1, <2>2, <2>3 DEF startVars, kernelVars
<1>18. ASSUME NEW k \in Stoppers, SendSIGTERM(k)
       PROVE  TypeOK'
  BY <1>18 DEF SendSIGTERM, Deliver, StopGoto, StopPc, startVars
<1>19. ASSUME NEW k \in Stoppers, GracefulWait(k)
       PROVE  TypeOK'
  <2>1. stopPc' \in [Stoppers -> StopPc]
    BY <1>19 DEF GracefulWait, CleanupResult, CleanupContinues, StopGoto, StopPc
  <2>2. method' \in [Stoppers -> Methods]
    BY <1>19 DEF GracefulWait, CleanupResult, CleanupContinues, Methods
  <2> QED
    BY <1>19, <2>1, <2>2 DEF GracefulWait, startVars, kernelVars
<1>20. ASSUME NEW k \in Stoppers, SendSIGKILL(k)
       PROVE  TypeOK'
  <2>1. stopPc' \in [Stoppers -> StopPc]
    BY <1>20 DEF SendSIGKILL, CleanupResult, CleanupContinues, StopGoto, StopPc
  <2>2. method' \in [Stoppers -> Methods]
    BY <1>20 DEF SendSIGKILL, CleanupResult, CleanupContinues, Methods
  <2>3. signal' \in {"none", "term", "kill"}
    BY <1>20 DEF SendSIGKILL, Deliver
  <2> QED
    BY <1>20, <2>1, <2>2, <2>3 DEF SendSIGKILL, startVars
<1>21. ASSUME NEW k \in Stoppers, VerifyKilled(k)
       PROVE  TypeOK'
  <2>1. stopPc' \in [Stoppers -> StopPc]
    BY <1>21 DEF VerifyKilled, CleanupResult, CleanupContinues, StopGoto, StopPc
  <2>2. method' \in [Stoppers -> Methods]
    BY <1>21 DEF VerifyKilled, CleanupResult, CleanupContinues, Methods
  <2> QED
    BY <1>21, <2>1, <2>2 DEF VerifyKilled, startVars, kernelVars
<1>22. ASSUME NEW k \in Stoppers, UpdateJobStatus(k)
       PROVE  TypeOK'
  BY <1>22, StoppedJobType DEF UpdateJobStatus, StopGoto, StopPc, startVars, kernelVars
<1>23. ASSUME NEW k \in Stoppers, StopCleanup(k)
       PROVE  TypeOK'
  BY <1>23 DEF StopCleanup, StopGoto, StopPc, CleanupCgroup, CleanerPc, Owners, startVars,
               kernelVars
<1>24. ASSUME NEW o \in Owners, CleanerStep(o)
       PROVE  TypeOK'
  <2>1. CASE CleanerStat(o)
    BY <2>1 DEF CleanerStat, CleanerGoto, CleanerPc, startVars, kernelVars, stopVars
  <2>2. CASE CleanerRead(o)
    BY <2>2 DEF CleanerRead, Deliver, CleanerGoto, CleanerPc, startVars, stopVars
  <2>3. CASE CleanerKill(o)
    BY <2>3 DEF CleanerKill, Deliver, CleanerGoto, CleanerPc, startVars, stopVars
  <2>4. CASE CleanerRemove(o)
    BY <2>4 DEF CleanerRemove, CleanerGoto, CleanerPc, startVars, kernelVars, stopVars
  <2> QED
    BY <1>24, <2>1, <2>2, <2>3, <2>4 DEF CleanerStep
<1>25. CASE ProcExit \/ ProcKilled \/ InitFails
  <2>1. PICK code \in ExitCodes : ProcEnds(code)
    BY <1>25 DEF ProcExit, ProcKilled, InitFails, ExitCodes
  <2> QED
    BY <2>1 DEF ProcEnds, startVars, stopVars
<1>26. CASE InitStep
  <2>1. initPc' \in InitPc /\ UNCHANGED <<job, startVars, proc, signal, exitCode, cgroup, monPc,
                                          stopVars, cleaner>>
    BY <1>26 DEF InitStep, AssignToCgroup, VerifyCgroupAssignment, LoadConfigFromEnv,
                 SetupIsolation, Execute, InitGoto, InitPc
  <2>2. inCgroup' \in BOOLEAN
    BY <1>26 DEF InitStep, AssignToCgroup, VerifyCgroupAssignment, LoadConfigFromEnv,
                 SetupIsolation, Execute
  <2> QED
    BY <2>1, <2>2 DEF startVars, stopVars
<1>27. CASE UNCHANGED vars
  BY <1>27 DEF vars, startVars, kernelVars, stopVars
<1> QED
  BY <1>1, <1>2, <1>3, <1>4, <1>5, <1>6, <1>7, <1>8, <1>9, <1>10, <1>11, <1>12, <1>13, <1>14,
     <1>15, <1>16, <1>17, <1>18, <1>19, <1>20, <1>21, <1>22, <1>23, <1>24, <1>25, <1>26, <1>27
  DEF Next, StartStep, MonitorStep, StopStep

\* The initial state is well typed.
LEMMA InitTypes == Init => TypeOK
<1> SUFFICES ASSUME Init PROVE TypeOK
  OBVIOUS
<1>1. ~NoJob.ended /\ ~IsCompleted(NoJob)
  BY DEF NoJob, IsCompleted, FinalStatus, Completed, Failed, Stopped
<1>2. job.ended <=> IsCompleted(job)
  BY <1>1 DEF Init
<1>3. exitCode \in ExitCodes
  BY DEF Init, ExitCodes
<1>4. startPc \in StartPc /\ stopPc \in [Stoppers -> StopPc] /\ method \in [Stoppers -> Methods]
      /\ cleaner \in [Owners -> CleanerPc]
  BY DEF Init, StartPc, StopPc, Methods, CleanerPc
<1>5. stopJob \in [Stoppers -> Jobs \cup {NoJob}]
  BY DEF Init
<1> QED
  BY <1>2, <1>3, <1>4, <1>5 DEF Init, InitPc, TypeOK

\* Type correctness, and that a final status always comes with an end time.
THEOREM TypeCorrect == Spec => []TypeOK
BY InitTypes, TypeStep, PTL DEF Spec

-----------------------------------------------------------------------------
(* The order of the three writers of the record *)

\* How far StartJob has got determines the record until the process runs, and
\* nobody else has written it before.
StartOrder ==
    /\ startPc \in {"idle", "create", "store", "rejected"} => job = NoJob
    /\ startPc \in {"launch", "launching", "join", "running", "fail"} => job.Status = Initializing
    /\ startPc \in {"failclean", "failed"} => IsCompleted(job)
    /\ startPc \in {"join", "running", "spawn", "ok"} => launcher = "started"
    /\ startPc # "ok" => monPc = "none"
    /\ \A k \in Stoppers : stopPc[k] \notin {"idle", "refused"} => startPc \in {"spawn", "ok"}

\* Whoever starts a cgroup cleanup has written a final record.
WritersAreFinal ==
    /\ monPc \in {"cleanup", "done"} => IsCompleted(job)
    /\ \A k \in Stoppers : stopPc[k] \in {"cleanup", "ok"} => IsCompleted(job)

\* A stop works on the process id of the running job, and past the kill the
\* process is ended or doomed.
StopProgress ==
    /\ IsRunning(job) => job.Pid = ThePid
    /\ \A k \in Stoppers : stopPc[k] \notin {"idle", "refused"} => stopJob[k].Pid = ThePid
    /\ \A k \in Stoppers : stopPc[k] \in {"verify", "update", "cleanup", "ok"} =>
          proc # "alive" \/ signal = "kill"

Order ==
    StartOrder /\ WritersAreFinal /\ StopProgress /\ RunningIsWatched /\ CleanupOnlyWhenOver

Safety == TypeOK /\ Order

\* The statuses exclude each other.
LEMMA StatusesDiffer ==
    /\ \A j : IsCompleted(j) => ~IsRunning(j) /\ j.Status # Initializing
    /\ \A j : IsRunning(j) => j.Status # Initializing
    /\ ~IsCompleted(NoJob) /\ ~IsRunning(NoJob)
BY DEF IsCompleted, IsRunning, FinalStatus, NoJob, Initializing, Running, Completed, Failed,
       Stopped

\* A step that leaves the record and every program counter alone, and lets
\* the process only be signalled or die, keeps the order.
LEMMA OrderUntouched ==
    ASSUME Order,
           UNCHANGED <<job, startVars, monPc, stopPc, stopJob>>,
           proc' = "alive" => proc = "alive",
           signal = "kill" => signal' = "kill",
           \A o \in Owners : cleaner'[o] # "none" => cleaner[o] # "none"
    PROVE  Order'
BY DEF Order, StartOrder, WritersAreFinal, StopProgress, RunningIsWatched, CleanupOnlyWhenOver,
       startVars

\* A step of StartJob before the process runs, or of its failure path.
LEMMA StartKeepsOrder ==
    ASSUME Safety, StartRequest \/ StartStep \/ LaunchAbandoned
    PROVE  Order'
<1> USE StatusesDiffer DEF Safety, Order, StartOrder, WritersAreFinal, StopProgress, RunningIsWatched, CleanupOnlyWhenOver
<1>1. CASE StartRequest
  BY <1>1 DEF StartRequest, TypeOK, kernelVars, stopVars
<1>2. CASE CreateCgroup
  BY <1>2 DEF CreateCgroup, TypeOK, kernelVars, stopVars
<1>3. CASE LaunchProcess
  BY <1>3 DEF LaunchProcess, TypeOK, kernelVars, stopVars
<1>4. CASE LaunchResult
  BY <1>4 DEF LaunchResult, TypeOK, kernelVars, stopVars
<1>5. CASE LaunchAbandoned
  BY <1>5 DEF LaunchAbandoned, TypeOK, kernelVars, stopVars
<1>6. CASE AddProcessToCgroup
  BY <1>6 DEF AddProcessToCgroup, TypeOK, kernelVars, stopVars
<1>7. CASE StartMonitor
  BY <1>7 DEF StartMonitor, TypeOK, kernelVars, stopVars
<1>8. CASE CreateNewJob
  <2>1. job'.Status = Initializing /\ ~IsRunning(job') /\ ~IsCompleted(job)
    BY <1>8, NewJobType DEF CreateNewJob, NewJob
  <2> QED
    BY <1>8, <2>1 DEF CreateNewJob, TypeOK, kernelVars, stopVars
<1>9. CASE UpdateJobAsRunning
  <2>1. job'.Pid = ThePid /\ ~IsCompleted(job)
    BY <1>9, RunningJobType DEF UpdateJobAsRunning
  <2> QED
    BY <1>9, <2>1 DEF UpdateJobAsRunning, TypeOK, kernelVars, stopVars
<1>10. CASE FailStart
  <2>1. IsCompleted(job')
    <3>1. NewJob \in Jobs /\ -1 \in ExitCodes
      BY NewJobType DEF ExitCodes
    <3> QED
      BY <1>10, <3>1, FinalRecordType DEF FailStart
  <2> QED
    BY <1>10, <2>1 DEF FailStart, TypeOK, kernelVars, stopVars
<1>11. CASE FailStartCleanup
  BY <1>11 DEF FailStartCleanup, CleanupCgroup, TypeOK, kernelVars, stopVars
<1> QED
  BY <1>1, <1>2, <1>3, <1>4, <1>5, <1>6, <1>7, <1>8, <1>9, <1>10, <1>11 DEF StartStep

\* A step of the monitor; its record is final when Wait does not fail.
LEMMA MonitorKeepsOrder ==
    ASSUME WaitMayFail = FALSE, Safety, MonitorStep
    PROVE  Order'
<1> USE StatusesDiffer DEF Safety, Order, StartOrder, WritersAreFinal, StopProgress, RunningIsWatched, CleanupOnlyWhenOver
<1>1. CASE MonitorReap
  BY <1>1 DEF MonitorReap, TypeOK, startVars, stopVars
<1>2. CASE MonitorUpdate
  <2>1. IsCompleted(job')
    BY <1>2, FinalJobType DEF MonitorUpdate, TypeOK
  <2>2. monPc' = "cleanup" /\ UNCHANGED <<startVars, kernelVars, stopVars, cleaner>>
    BY <1>2 DEF MonitorUpdate
  <2>3. startPc = "ok"
    BY <1>2 DEF MonitorUpdate
  <2> QED
    BY <2>1, <2>2, <2>3 DEF startVars, kernelVars, stopVars
<1>3. CASE MonitorCleanup
  BY <1>3 DEF MonitorCleanup, CleanupCgroup, TypeOK, startVars, kernelVars, stopVars
<1> QED
  BY <1>1, <1>2, <1>3 DEF MonitorStep

\* A step of a StopJob call.
LEMMA StopKeepsOrder ==
    ASSUME Safety, NEW k \in Stoppers, StopGetJob(k) \/ StopStep(k)
    PROVE  Order'
<1> USE StatusesDiffer DEF Safety, Order, StartOrder, WritersAreFinal, StopProgress, RunningIsWatched, CleanupOnlyWhenOver
<1>1. CASE StopGetJob(k)
  <2>1. GetJob = job
    BY DeepCopyIsEqual DEF GetJob, TypeOK
  <2> QED
    BY <1>1, <2>1 DEF StopGetJob, StopGoto, TypeOK, startVars, kernelVars
<1>2. CASE CheckAlive(k)
  <2>1. \/ stopPc' = [stopPc EXCEPT ![k] = "update"] /\ ~IsProcessAlive
        \/ stopPc' = [stopPc EXCEPT ![k] = "term"]
    <3>1. stopJob[k].Pid # 0
      <4>1. stopPc[k] = "check"
        BY <1>2 DEF CheckAlive
      <4>2. stopJob[k].Pid = 1
        BY <4>1
      <4> QED
        BY <4>2
    <3>2. CASE ~IsProcessAlive
      BY <1>2, <3>1, <3>2 DEF CheckAlive, CleanupResult, StopGoto
    <3>3. CASE IsProcessAlive
      BY <1>2, <3>1, <3>3 DEF CheckAlive, CleanupContinues, StopGoto
    <3> QED
      BY <3>2, <3>3
  <2>2. UNCHANGED <<job, startVars, kernelVars, monPc, stopJob, cleaner>> /\ stopPc[k] = "check"
    BY <1>2 DEF CheckAlive
  <2> QED
    BY <2>1, <2>2 DEF IsProcessAlive, TypeOK, startVars, kernelVars
<1>3. CASE SendSIGTERM(k)
  BY <1>3 DEF SendSIGTERM, Deliver, StopGoto, TypeOK, startVars
<1>4. CASE GracefulWait(k)
  BY <1>4 DEF GracefulWait, CleanupResult, CleanupContinues, StopGoto, IsProcessAlive, TypeOK,
              startVars, kernelVars
<1>5. CASE SendSIGKILL(k)
  BY <1>5 DEF SendSIGKILL, Deliver, CleanupResult, CleanupContinues, StopGoto, IsProcessAlive,
              TypeOK, startVars
<1>6. CASE VerifyKilled(k)
  BY <1>6 DEF VerifyKilled, CleanupResult, StopGoto, TypeOK, startVars, kernelVars
<1>7. CASE UpdateJobStatus(k)
  <2>1. IsCompleted(job')
    BY <1>7, StoppedJobType DEF UpdateJobStatus, TypeOK
  <2> QED
    BY <1>7, <2>1 DEF UpdateJobStatus, StopGoto, TypeOK, startVars, kernelVars
<1>8. CASE StopCleanup(k)
  BY <1>8 DEF StopCleanup, CleanupCgroup, StopGoto, TypeOK, startVars, kernelVars
<1> QED
  BY <1>1, <1>2, <1>3, <1>4, <1>5, <1>6, <1>7, <1>8 DEF StopStep

\* Every step keeps the order, if Wait's errors are exit errors.
LEMMA SafetyStep ==
    ASSUME WaitMayFail = FALSE
    PROVE  Safety /\ [Next]_vars => Safety'
<1> SUFFICES ASSUME Safety, [Next]_vars
             PROVE  Order'
  BY TypeStep DEF Safety
<1>1. CASE LaunchInGoroutine
  BY <1>1 DEF LaunchInGoroutine, Safety, Order, StartOrder, WritersAreFinal, StopProgress, RunningIsWatched, CleanupOnlyWhenOver, TypeOK, stopVars
<1>2. ASSUME NEW o \in Owners, CleanerStep(o)
      PROVE  Order'
  <2>1. \A x \in Owners : cleaner'[x] # "none" => cleaner[x] # "none"
    BY <1>2 DEF CleanerStep, CleanerStat, CleanerRead, CleanerKill, CleanerRemove, CleanerGoto,
                Safety, TypeOK
  <2>2. signal = "kill" => signal' = "kill"
    BY <1>2 DEF CleanerStep, CleanerStat, CleanerRead, CleanerKill, CleanerRemove, Deliver,
                kernelVars
  <2>3. UNCHANGED <<job, startVars, monPc, stopPc, stopJob, proc>>
    BY <1>2 DEF CleanerStep, CleanerStat, CleanerRead, CleanerKill, CleanerRemove, stopVars,
                kernelVars
  <2> QED
    BY <2>1, <2>2, <2>3, OrderUntouched DEF Safety
<1>3. CASE ProcExit \/ ProcKilled \/ InitFails \/ InitStep
  BY <1>3, OrderUntouched
  DEF ProcExit, ProcKilled, InitFails, ProcEnds, InitStep, AssignToCgroup,
      VerifyCgroupAssignment, LoadConfigFromEnv, SetupIsolation, Execute, InitGoto, Safety,
      stopVars
<1>4. CASE UNCHANGED vars
  BY <1>4, OrderUntouched DEF vars, Safety, kernelVars, stopVars
<1> QED
  BY <1>1, <1>2, <1>3, <1>4, StartKeepsOrder, MonitorKeepsOrder, StopKeepsOrder DEF Next

\* Nothing has happened initially.
LEMMA InitSafety == Init => Safety
<1> SUFFICES ASSUME Init PROVE Safety
  OBVIOUS
<1> QED
  BY InitTypes, StatusesDiffer DEF Safety, Order, StartOrder, WritersAreFinal, StopProgress, RunningIsWatched, CleanupOnlyWhenOver, Init

\* A RUNNING job always has a monitor that has yet to record its end.
THEOREM RunningJobsAreWatched ==
    ASSUME WaitMayFail = FALSE
    PROVE  Spec => []RunningIsWatched
<1>1. Safety /\ [Next]_vars => Safety'
  BY SafetyStep
<1>2. Safety => RunningIsWatched
  BY DEF Safety, Order
<1> QED
  BY <1>1, <1>2, InitSafety, PTL DEF Spec

\* Only a job that is over has its cgroup torn down.
THEOREM CleanupWaitsForTheEnd ==
    ASSUME WaitMayFail = FALSE
    PROVE  Spec => []CleanupOnlyWhenOver
<1>1. Safety /\ [Next]_vars => Safety'
  BY SafetyStep
<1>2. Safety => CleanupOnlyWhenOver
  BY DEF Safety, Order
<1> QED
  BY <1>1, <1>2, InitSafety, PTL DEF Spec

\* A StopJob that succeeds has ended the process or doomed it.
THEOREM StopJobEndsProcess ==
    ASSUME WaitMayFail = FALSE
    PROVE  Spec => []StopEndsProcess
<1>1. Safety /\ [Next]_vars => Safety'
  BY SafetyStep
<1>2. Safety => StopEndsProcess
  BY DEF Safety, Order, StopProgress, StopEndsProcess
<1> QED
  BY <1>1, <1>2, InitSafety, PTL DEF Spec

\* No step takes a job that is over back.
LEMMA OverStep ==
    ASSUME WaitMayFail = FALSE, Safety, [Next]_vars
    PROVE  IsCompleted(job) => IsCompleted(job')
<1> SUFFICES ASSUME IsCompleted(job) PROVE IsCompleted(job')
  OBVIOUS
<1>1. CASE job' = job
  BY <1>1
<1>2. CASE CreateNewJob \/ UpdateJobAsRunning
  BY <1>2, StatusesDiffer DEF CreateNewJob, UpdateJobAsRunning, Safety, Order, StartOrder
<1>3. CASE FailStart
  <2>1. NewJob \in Jobs /\ -1 \in ExitCodes
    BY NewJobType DEF ExitCodes
  <2> QED
    BY <1>3, <2>1, FinalRecordType DEF FailStart
<1>4. CASE MonitorUpdate
  BY <1>4, FinalJobType DEF MonitorUpdate, Safety, TypeOK
<1>5. ASSUME NEW k \in Stoppers, UpdateJobStatus(k)
      PROVE  IsCompleted(job')
  BY <1>5, StoppedJobType DEF UpdateJobStatus, Safety, TypeOK
<1> QED
  BY <1>1, <1>2, <1>3, <1>4, <1>5
  DEF Next, StartStep, MonitorStep, StopStep, CleanerStep, StartRequest, CreateCgroup,
      LaunchProcess, LaunchInGoroutine, LaunchResult, LaunchAbandoned, AddProcessToCgroup,
      StartMonitor, FailStartCleanup, MonitorReap, MonitorCleanup, StopGetJob, CheckAlive,
      SendSIGTERM, GracefulWait, SendSIGKILL, VerifyKilled, StopCleanup, CleanerStat,
      CleanerRead, CleanerKill, CleanerRemove, ProcExit, ProcKilled, InitFails, ProcEnds,
      InitStep, AssignToCgroup, VerifyCgroupAssignment, LoadConfigFromEnv, SetupIsolation,
      Execute, InitGoto, vars

\* A job that is over stays over, whatever the order in which StartJob, the
\* monitor and any number of StopJob calls write their copies.
THEOREM JobsStayOver ==
    ASSUME WaitMayFail = FALSE
    PROVE  Spec => OverStaysOver
<1>1. Safety /\ [Next]_vars => Safety'
  BY SafetyStep
<1>2. Safety /\ [Next]_vars => [IsCompleted(job) => IsCompleted(job')]_vars
  BY OverStep
<1> QED
  BY <1>1, <1>2, InitSafety, PTL DEF Spec, OverStaysOver

-----------------------------------------------------------------------------
(* COMPLETED jobs have run their command *)

\* Exit code 0 is the command's, the monitor writes after it has reaped, and a
\* method, once found, stays.
RanInv ==
    /\ TypeOK
    /\ CompletedJobsRan
    /\ proc \in {"zombie", "reaped"} /\ exitCode = 0 => initPc = "command"
    /\ monPc = "copy" => proc = "reaped"
    /\ startPc \in {"join", "running", "spawn", "ok"} => launcher = "started"
    /\ startPc # "ok" => monPc = "none"
    /\ \A k \in Stoppers : method[k] = "already_dead" => stopPc[k] \in {"update", "cleanup", "ok"}

\* The records that are not COMPLETED, and when the others are.
LEMMA CompletedRecords ==
    /\ NewJob.Status # Completed
    /\ [MarkAsRunning(NewJob, ThePid) EXCEPT !.Status = Running, !.Pid = ThePid].Status # Completed
    /\ Fail(NewJob, -1).Status # Completed
    /\ \A f \in BOOLEAN : FinalJob(f).Status = Completed => exitCode = 0
    /\ \A j \in Jobs \cup {NoJob} : \A m :
          StoppedJob(j, m).Status = Completed => m = "already_dead"
<1> USE DEF Completed, Failed, Stopped, Running, Initializing
<1>1. NewJob.Status # Completed /\ Fail(NewJob, -1).Status # Completed
  BY DEF NewJob, Fail
<1>2. [MarkAsRunning(NewJob, ThePid) EXCEPT !.Status = Running, !.Pid = ThePid].Status # Completed
  BY DEF NewJob, MarkAsRunning
<1>3. ASSUME NEW f \in BOOLEAN, FinalJob(f).Status = Completed
      PROVE  exitCode = 0
  BY <1>3 DEF FinalJob, Fail, monitorCopy, NewJob
<1>4. ASSUME NEW j \in Jobs \cup {NoJob}, NEW m, StoppedJob(j, m).Status = Completed
      PROVE  m = "already_dead"
  <2>1. CASE j \in Jobs
    BY <1>4, <2>1 DEF StoppedJob, Stop, Fail, Jobs
  <2>2. CASE j = NoJob
    BY <1>4, <2>2 DEF StoppedJob, Stop, Fail, NoJob
  <2> QED
    BY <1>4, <2>1, <2>2
<1> QED
  BY <1>1, <1>2, <1>3, <1>4

\* Every step keeps it.
LEMMA RanStep == RanInv /\ [Next]_vars => RanInv'
<1> SUFFICES ASSUME RanInv, [Next]_vars
             PROVE  RanInv'
  OBVIOUS
<1>0. TypeOK /\ TypeOK'
  BY TypeStep DEF RanInv
<1> USE <1>0 DEF RanInv, CompletedJobsRan
<1>1. CASE StartRequest \/ CreateCgroup \/ LaunchProcess \/ LaunchResult \/ LaunchAbandoned
           \/ AddProcessToCgroup \/ StartMonitor \/ FailStartCleanup
  <2>1. CASE StartRequest \/ CreateCgroup \/ LaunchAbandoned \/ FailStartCleanup
    BY <1>0, <2>1 DEF StartRequest, CreateCgroup, LaunchAbandoned, FailStartCleanup, kernelVars,
                      stopVars, Safety, Order, StartOrder
  <2>2. CASE LaunchProcess \/ LaunchResult
    BY <1>0, <2>2 DEF LaunchProcess, LaunchResult, kernelVars, stopVars, Safety, Order,
                      StartOrder
  <2>3. CASE AddProcessToCgroup
    BY <1>0, <2>3 DEF AddProcessToCgroup, stopVars
  <2>4. CASE StartMonitor
    BY <1>0, <2>4 DEF StartMonitor, kernelVars, stopVars
  <2> QED
    BY <1>1, <2>1, <2>2, <2>3, <2>4
<1>2. CASE CreateNewJob \/ UpdateJobAsRunning \/ FailStart
  BY <1>2, CompletedRecords DEF CreateNewJob, UpdateJobAsRunning, FailStart, kernelVars, stopVars
<1>3. CASE LaunchInGoroutine
  BY <1>3 DEF LaunchInGoroutine, TypeOK, stopVars
<1>4. CASE MonitorReap
  BY <1>4 DEF MonitorReap, TypeOK, startVars, stopVars
<1>5. CASE MonitorUpdate
  <2>1. PICK f \in BOOLEAN : job' = FinalJob(f)
    BY <1>5, LifecycleAssumption DEF MonitorUpdate
  <2>2. job'.Status = Completed => initPc = "command"
    BY <1>5, <2>1, CompletedRecords DEF MonitorUpdate
  <2> QED
    BY <1>5, <2>2 DEF MonitorUpdate, startVars, kernelVars, stopVars
<1>6. CASE MonitorCleanup
  BY <1>6 DEF MonitorCleanup, startVars, kernelVars, stopVars
<1>7. ASSUME NEW k \in Stoppers, UpdateJobStatus(k)
      PROVE  RanInv'
  <2>1. job'.Status = Completed => method[k] = "already_dead"
    BY <1>7, CompletedRecords DEF UpdateJobStatus, TypeOK
  <2> QED
    BY <1>7, <2>1 DEF UpdateJobStatus, StopGoto, TypeOK, startVars, kernelVars
<1>8. ASSUME NEW k \in Stoppers, StopGetJob(k) \/ StopCleanup(k) \/ SendSIGTERM(k)
      PROVE  RanInv'
  BY <1>8 DEF StopGetJob, StopCleanup, SendSIGTERM, StopGoto, TypeOK, startVars, kernelVars
<1>9. ASSUME NEW k \in Stoppers,
             CheckAlive(k) \/ GracefulWait(k) \/ SendSIGKILL(k) \/ VerifyKilled(k)
      PROVE  RanInv'
  <2>1. stopPc[k] \in {"check", "wait", "kill", "verify"}
        /\ UNCHANGED <<job, startVars, proc, exitCode, initPc, monPc>>
    BY <1>9 DEF CheckAlive, GracefulWait, SendSIGKILL, VerifyKilled, kernelVars
  <2>2. \A x \in Stoppers \ {k} : method'[x] = method[x] /\ stopPc'[x] = stopPc[x]
    BY <1>9 DEF CheckAlive, GracefulWait, SendSIGKILL, VerifyKilled, CleanupResult,
                CleanupContinues, StopGoto, TypeOK
  <2>3. method'[k] = method[k] \/ stopPc'[k] = "update"
    BY <1>9 DEF CheckAlive, GracefulWait, SendSIGKILL, VerifyKilled, CleanupResult,
                CleanupContinues, StopGoto, TypeOK
  <2>4. method[k] # "already_dead"
    BY <2>1
  <2> QED
    BY <2>1, <2>2, <2>3, <2>4 DEF startVars
<1>10. ASSUME NEW o \in Owners, CleanerStep(o)
       PROVE  RanInv'
  BY <1>10 DEF CleanerStep, CleanerStat, CleanerRead, CleanerKill, CleanerRemove, startVars,
               kernelVars, stopVars
<1>11. CASE ProcExit \/ ProcKilled \/ InitFails
  <2>1. PICK code \in ExitCodes : ProcEnds(code) /\ (code = 0 => initPc = "command")
    BY <1>11, LifecycleAssumption DEF ProcExit, ProcKilled, InitFails, ExitCodes
  <2>2. proc = "alive"
    BY <1>11 DEF ProcExit, ProcKilled, InitFails
  <2> QED
    BY <2>1, <2>2 DEF ProcEnds, startVars, stopVars
<1>12. CASE InitStep
  BY <1>12 DEF InitStep, AssignToCgroup, VerifyCgroupAssignment, LoadConfigFromEnv,
               SetupIsolation, Execute, InitGoto, startVars, stopVars
<1>13. CASE UNCHANGED vars
  BY <1>13 DEF vars, startVars, kernelVars, stopVars
<1> QED
  BY <1>1, <1>2, <1>3, <1>4, <1>5, <1>6, <1>7, <1>8, <1>9, <1>10, <1>11, <1>12, <1>13
  DEF Next, StartStep, MonitorStep, StopStep

\* A COMPLETED job has run its command, unless a late StopJob wrote it: no
\* failure of the launch or of the job's init mode is taken for success.
THEOREM CompletedMeansRan == Spec => []CompletedJobsRan
<1>1. Init => RanInv
  <2>1. NoJob.Status # Completed
    BY DEF NoJob, Completed
  <2>2. Init => CompletedJobsRan
    BY <2>1 DEF Init, CompletedJobsRan
  <2> QED
    BY <2>2, InitTypes DEF Init, RanInv
<1>2. RanInv => CompletedJobsRan
  BY DEF RanInv
<1> QED
  BY <1>1, <1>2, RanStep, PTL DEF Spec

-----------------------------------------------------------------------------
(* The safe half of JobPromise *)

\* Why every write of the record is one the promise allows: the process exists
\* exactly when the launcher has started it, a failed start is FAILED, a started
\* one RUNNING or over, and what claims the process's end has seen it reaped.
PromiseInv ==
    /\ Safety
    /\ launcher = "started" <=> proc # "none"
    /\ startPc \in {"idle", "create", "store", "launch", "rejected"} => launcher = "none"
    /\ launcher = "starting" => startPc \in {"launching", "fail", "failclean", "failed"}
    /\ startPc \in {"failclean", "failed"} => job.Status = Failed
    /\ startPc \in {"spawn", "ok"} => job.Status \in {Running} \cup FinalStatus
    /\ monPc = "copy" => proc = "reaped"
    /\ \A k \in Stoppers : method[k] \in {"graceful", "already_dead"} => proc = "reaped"

\* The statuses of the records the three writers build.
LEMMA WrittenStatuses ==
    /\ NewJob.Status = Initializing
    /\ [MarkAsRunning(NewJob, ThePid) EXCEPT !.Status = Running, !.Pid = ThePid].Status = Running
    /\ Fail(NewJob, -1).Status = Failed
    /\ FinalJob(FALSE).Status \in FinalStatus
    /\ \A j \in Jobs \cup {NoJob} : \A m :
          /\ StoppedJob(j, m).Status \in FinalStatus
          /\ StoppedJob(j, m).Status # Failed => m \in {"graceful", "already_dead"}
<1> USE DEF FinalStatus, Completed, Failed, Stopped, Running, Initializing
<1>1. NewJob.Status = Initializing /\ Fail(NewJob, -1).Status = Failed
  BY DEF NewJob, Fail
<1>2. [MarkAsRunning(NewJob, ThePid) EXCEPT !.Status = Running, !.Pid = ThePid].Status = Running
  BY DEF NewJob, MarkAsRunning
<1>3. FinalJob(FALSE).Status \in FinalStatus
  BY DEF FinalJob, Complete, Fail, monitorCopy, NewJob
<1>4. ASSUME NEW j \in Jobs \cup {NoJob}, NEW m
      PROVE  /\ StoppedJob(j, m).Status \in FinalStatus
             /\ StoppedJob(j, m).Status # Failed => m \in {"graceful", "already_dead"}
  <2>1. CASE j \in Jobs
    BY <2>1 DEF StoppedJob, Stop, Fail, Complete, Jobs
  <2>2. CASE j = NoJob
    BY <2>2 DEF StoppedJob, Stop, Fail, Complete, NoJob
  <2> QED
    BY <2>1, <2>2
<1> QED
  BY <1>1, <1>2, <1>3, <1>4

\* Every step keeps the invariant.
LEMMA PromiseInvStep ==
    ASSUME WaitMayFail = FALSE, PromiseInv, [Next]_vars
    PROVE  PromiseInv'
<1>0. Safety /\ Safety' /\ TypeOK /\ TypeOK'
  BY SafetyStep DEF PromiseInv, Safety
<1> USE <1>0 DEF PromiseInv
<1>1. CASE StartRequest \/ CreateCgroup \/ LaunchProcess \/ LaunchResult \/ LaunchAbandoned
           \/ AddProcessToCgroup \/ StartMonitor \/ FailStartCleanup
  <2>1. CASE StartRequest \/ CreateCgroup \/ LaunchAbandoned \/ FailStartCleanup
    BY <1>0, <2>1 DEF StartRequest, CreateCgroup, LaunchAbandoned, FailStartCleanup, kernelVars,
                      stopVars, Safety, Order, StartOrder
  <2>2. CASE LaunchProcess \/ LaunchResult
    BY <1>0, <2>2 DEF LaunchProcess, LaunchResult, kernelVars, stopVars, Safety, Order,
                      StartOrder
  <2>3. CASE AddProcessToCgroup
    BY <1>0, <2>3 DEF AddProcessToCgroup, stopVars
  <2>4. CASE StartMonitor
    BY <1>0, <2>4 DEF StartMonitor, kernelVars, stopVars
  <2> QED
    BY <1>1, <2>1, <2>2, <2>3, <2>4
<1>2. CASE CreateNewJob \/ UpdateJobAsRunning \/ FailStart
  BY <1>2, WrittenStatuses DEF CreateNewJob, UpdateJobAsRunning, FailStart, kernelVars, stopVars
<1>3. CASE LaunchInGoroutine
  BY <1>3 DEF LaunchInGoroutine, stopVars
<1>4. CASE MonitorReap
  BY <1>4 DEF MonitorReap, startVars, stopVars
<1>5. CASE MonitorUpdate
  <2>1. job'.Status \in FinalStatus /\ startPc = "ok"
    BY <1>5, WrittenStatuses DEF MonitorUpdate, Safety, Order, StartOrder
  <2> QED
    BY <1>5, <2>1 DEF MonitorUpdate, startVars, kernelVars, stopVars
<1>6. CASE MonitorCleanup
  BY <1>6 DEF MonitorCleanup, startVars, kernelVars, stopVars
<1>7. ASSUME NEW k \in Stoppers, UpdateJobStatus(k)
      PROVE  PromiseInv'
  <2>1. job'.Status \in FinalStatus /\ startPc \in {"spawn", "ok"}
    BY <1>7, WrittenStatuses DEF UpdateJobStatus, TypeOK, Safety, Order, StartOrder
  <2> QED
    BY <1>7, <2>1 DEF UpdateJobStatus, startVars, kernelVars
<1>8. ASSUME NEW k \in Stoppers, StopGetJob(k) \/ StopCleanup(k) \/ SendSIGTERM(k)
      PROVE  PromiseInv'
  BY <1>8 DEF StopGetJob, StopCleanup, SendSIGTERM, startVars, kernelVars
<1>9. ASSUME NEW k \in Stoppers,
             CheckAlive(k) \/ GracefulWait(k) \/ SendSIGKILL(k) \/ VerifyKilled(k)
      PROVE  PromiseInv'
  <2>1. stopPc[k] \in {"check", "wait", "kill", "verify"}
        /\ UNCHANGED <<job, startVars, proc, monPc>>
    BY <1>9 DEF CheckAlive, GracefulWait, SendSIGKILL, VerifyKilled, kernelVars
  <2>2. proc # "none"
    BY <2>1 DEF Safety, Order, StartOrder
  <2>3. \A x \in Stoppers \ {k} : method'[x] = method[x]
    BY <1>9 DEF CheckAlive, GracefulWait, SendSIGKILL, VerifyKilled, CleanupResult,
                CleanupContinues, TypeOK
  <2>4. \/ method'[k] = method[k]
        \/ method'[k] \in {"", "forced", "force_failed"}
        \/ ~IsProcessAlive
    BY <1>9 DEF CheckAlive, GracefulWait, SendSIGKILL, VerifyKilled, CleanupResult,
                CleanupContinues, TypeOK
  <2>5. ~IsProcessAlive => proc = "reaped"
    BY <2>2 DEF IsProcessAlive, TypeOK
  <2> QED
    BY <2>1, <2>3, <2>4, <2>5 DEF startVars
<1>10. ASSUME NEW o \in Owners, CleanerStep(o)
       PROVE  PromiseInv'
  BY <1>10 DEF CleanerStep, CleanerStat, CleanerRead, CleanerKill, CleanerRemove, startVars,
               kernelVars, stopVars
<1>11. CASE ProcExit \/ ProcKilled \/ InitFails
  BY <1>11 DEF ProcExit, ProcKilled, InitFails, ProcEnds, startVars, stopVars
<1>12. CASE InitStep
  BY <1>12 DEF InitStep, AssignToCgroup, VerifyCgroupAssignment, LoadConfigFromEnv,
               SetupIsolation, Execute, InitGoto, startVars, stopVars
<1>13. CASE UNCHANGED vars
  BY <1>13 DEF vars, startVars, kernelVars, stopVars
<1> QED
  BY <1>1, <1>2, <1>3, <1>4, <1>5, <1>6, <1>7, <1>8, <1>9, <1>10, <1>11, <1>12, <1>13
  DEF Next, StartStep, MonitorStep, StopStep

\* The promise's statuses are the job's.
LEMMA PromisedStatuses ==
    /\ Promised!Initializing = Initializing
    /\ Promised!Running = Running
    /\ Promised!Failed = Failed
    /\ Promised!FinalStatus = FinalStatus
BY DEF Promised!Initializing, Promised!Running, Promised!Failed, Promised!FinalStatus,
       Promised!Completed, Promised!Stopped, Initializing, Running, Failed, FinalStatus,
       Completed, Stopped

\* What the promise sees of the process.
LEMMA PromisedProcessIs ==
    /\ proc = "none" => PromisedProcess = "none"
    /\ proc = "alive" => PromisedProcess = "live"
    /\ proc = "zombie" => PromisedProcess = "over"
    /\ proc = "reaped" => PromisedProcess = "over"
BY DEF PromisedProcess

LEMMA PromisedProcessIsNext ==
    /\ proc' = "none" => PromisedProcess' = "none"
    /\ proc' = "alive" => PromisedProcess' = "live"
    /\ proc' = "zombie" => PromisedProcess' = "over"
    /\ proc' = "reaped" => PromisedProcess' = "over"
BY DEF PromisedProcess

\* Every step is one the promise allows, or invisible in it.
LEMMA PromiseStep ==
    ASSUME WaitMayFail = FALSE, PromiseInv, [Next]_vars
    PROVE  [Promised!Next]_(Promised!vars)
<1>0. TypeOK
  BY DEF PromiseInv, Safety
<1>a. proc' = proc => PromisedProcess' = PromisedProcess
  BY DEF PromisedProcess
<1>1. CASE UNCHANGED <<job, proc>>
  BY <1>1, <1>a DEF Promised!vars
<1>2. CASE CreateNewJob
  <2>1. job.Status = "none" /\ job'.Status = Initializing /\ proc' = proc
    BY <1>2, WrittenStatuses DEF CreateNewJob, PromiseInv, Safety, Order, StartOrder, NoJob,
                                 kernelVars
  <2>2. Promised!Accept
    BY <1>a, <2>1, PromisedStatuses DEF Promised!Accept
  <2> QED
    BY <2>2 DEF Promised!Next
<1>3. CASE UpdateJobAsRunning
  <2>1. job.Status = Initializing /\ job'.Status = Running /\ proc' = proc /\ proc # "none"
    BY <1>3, WrittenStatuses DEF UpdateJobAsRunning, PromiseInv, Safety, Order, StartOrder,
                                 kernelVars
  <2>2. PromisedProcess # "none"
    BY <1>0, <2>1, PromisedProcessIs DEF TypeOK
  <2>3. Promised!Run
    BY <1>a, <2>1, <2>2, PromisedStatuses DEF Promised!Run
  <2> QED
    BY <2>3 DEF Promised!Next
<1>4. CASE FailStart
  <2>1. job.Status = Initializing /\ job'.Status = Failed /\ proc' = proc
    BY <1>4, WrittenStatuses DEF FailStart, PromiseInv, Safety, Order, StartOrder, kernelVars
  <2>2. Promised!GiveUp
    BY <1>a, <2>1, PromisedStatuses DEF Promised!GiveUp
  <2> QED
    BY <2>2 DEF Promised!Next
<1>5. CASE LaunchInGoroutine
  <2>1. proc = "none" /\ job' = job /\ (proc' = proc \/ proc' = "alive")
    BY <1>5 DEF LaunchInGoroutine, PromiseInv
  <2>2. job.Status \in {Initializing, Failed}
    BY <1>5 DEF LaunchInGoroutine, PromiseInv, Safety, Order, StartOrder
  <2>3. CASE proc' = proc
    BY <1>1, <2>1, <2>3
  <2>4. CASE proc' = "alive"
    <3>1. PromisedProcess = "none" /\ PromisedProcess' = "live"
      BY <2>1, <2>4, PromisedProcessIs, PromisedProcessIsNext
    <3>2. Promised!Launch
      BY <3>1, <2>1, <2>2, PromisedStatuses DEF Promised!Launch
    <3> QED
      BY <3>2 DEF Promised!Next
  <2> QED
    BY <2>1, <2>3, <2>4
<1>6. CASE MonitorReap
  <2>1. PromisedProcess = "over" /\ PromisedProcess' = "over" /\ job' = job
    BY <1>6, PromisedProcessIs, PromisedProcessIsNext DEF MonitorReap
  <2> QED
    BY <2>1 DEF Promised!vars
<1>7. CASE MonitorUpdate
  <2>1. startPc = "ok" /\ proc = "reaped"
    BY <1>7 DEF MonitorUpdate, PromiseInv, Safety, Order, StartOrder
  <2>2. job.Status \in {Running} \cup FinalStatus /\ job'.Status \in FinalStatus /\ proc' = proc
    BY <1>7, <2>1, WrittenStatuses DEF MonitorUpdate, PromiseInv, kernelVars
  <2>3. Promised!Conclude
    BY <1>a, <2>1, <2>2, PromisedStatuses, PromisedProcessIs DEF Promised!Conclude
  <2> QED
    BY <2>3 DEF Promised!Next
<1>8. ASSUME NEW k \in Stoppers, UpdateJobStatus(k)
      PROVE  [Promised!Next]_(Promised!vars)
  <2>1. startPc \in {"spawn", "ok"}
    BY <1>8 DEF UpdateJobStatus, PromiseInv, Safety, Order, StartOrder
  <2>2. job.Status \in {Running} \cup FinalStatus /\ proc' = proc
    BY <1>8, <2>1 DEF UpdateJobStatus, PromiseInv, kernelVars
  <2>3. job'.Status \in FinalStatus /\ (job'.Status # Failed => proc = "reaped")
    BY <1>0, <1>8, WrittenStatuses DEF UpdateJobStatus, PromiseInv, TypeOK
  <2>4. Promised!Conclude
    BY <1>a, <2>2, <2>3, PromisedStatuses, PromisedProcessIs DEF Promised!Conclude
  <2> QED
    BY <2>4 DEF Promised!Next
<1>9. CASE ProcExit \/ ProcKilled \/ InitFails
  <2>1. proc = "alive" /\ proc' = "zombie" /\ job' = job
    BY <1>9 DEF ProcExit, ProcKilled, InitFails, ProcEnds
  <2>2. Promised!Exit
    BY <2>1, PromisedProcessIs, PromisedProcessIsNext DEF Promised!Exit
  <2> QED
    BY <2>2 DEF Promised!Next
<1> QED
  BY <1>1, <1>2, <1>3, <1>4, <1>5, <1>6, <1>7, <1>8, <1>9
  DEF Next, StartStep, MonitorStep, StopStep, CleanerStep, StartRequest, CreateCgroup,
      LaunchProcess, LaunchResult, LaunchAbandoned, AddProcessToCgroup,
      StartMonitor, FailStartCleanup, MonitorCleanup, StopGetJob, CheckAlive,
      SendSIGTERM, GracefulWait, SendSIGKILL, VerifyKilled, StopCleanup, CleanerStat,
      CleanerRead, CleanerKill, CleanerRemove, InitStep, AssignToCgroup,
      VerifyCgroupAssignment, LoadConfigFromEnv, SetupIsolation, Execute, InitGoto,
      kernelVars, vars

\* For any number of StopJob calls, the worker keeps the safe half of JobPromise:
\* one process per job, no RUNNING without it, COMPLETED and STOPPED only after
\* its end.
THEOREM SafePromiseKept ==
    ASSUME WaitMayFail = FALSE
    PROVE  Spec => KeepsPromise
<1>1. Init => PromiseInv
  BY InitSafety DEF Init, PromiseInv
<1>2. PromiseInv /\ [Next]_vars => PromiseInv'
  BY PromiseInvStep
<1>3. Init => Promised!Init
  <2>1. NoJob.Status = "none"
    BY DEF NoJob
  <2>2. Init => job = NoJob /\ proc = "none"
    BY DEF Init
  <2> QED
    BY <2>1, <2>2, PromisedProcessIs DEF Promised!Init
<1>4. PromiseInv /\ [Next]_vars => [Promised!Next]_(Promised!vars)
  BY PromiseStep
<1> QED
  BY <1>1, <1>2, <1>3, <1>4, PTL DEF Spec, KeepsPromise, Promised!Safe
=============================================================================
