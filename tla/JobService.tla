----------------------------- MODULE JobService -----------------------------
(***************************************************************************)
(* The handlers of server/grpc_service.go with the authorization of        *)
(* auth/grpc_authorization.go, over the store of all jobs                  *)
(* (state/store.go): who may do what, which job a call works on, and the   *)
(* store's RWMutex, which calls about one job share with the output of     *)
(* every other job.                                                        *)
(*                                                                         *)
(* store.WriteToBuffer holds the read lock while it publishes to slow      *)
(* clients, and CreateNewJob needs the write lock.  A pending writer keeps *)
(* new readers out, and writers wait for each other (sync.RWMutex).        *)
(* Sections that hold the lock without waiting are one step, with the use  *)
(* of the task they looked up (a task is never removed); WriteToBuffer and *)
(* ListJobs, which keep the lock while they work, are two.                 *)
(*                                                                         *)
(* What StartJob, StopJob and the monitor do to the process is             *)
(* JobLifecycle's subject: here they write the statuses found there, with  *)
(* cmd.Wait failing only by exit errors.  Log streams are TaskPubSub's:    *)
(* here a stream is its lookup of the job.                                 *)
(***************************************************************************)
EXTENDS JobDomain, Sequences

CONSTANTS
    Clients,  \* callers, each with one call at a time
    Certs,    \* organizational units of the certificates they may present
    NoCert,   \* no certificate, or no TLS or peer information
    MaxJobs   \* bound on the job ids handed out

ASSUME ServiceAssumption == MaxJobs \in Nat \ {0} /\ NoCert \notin Certs

Ids == 1..MaxJobs

Operations == {"run_job", "get_job", "stop_job", "list_jobs", "stream_jobs"}

VARIABLES
    jobCounter, \* the last id handed out
    tasks,      \* the status of each job in st.tasks, Absent if it is not there
    watched,    \* jobs whose monitor has yet to write
    readers,    \* who holds the store's read lock over several steps
    pending,    \* the caller of CreateNewJob that waits for, or has, the lock
    pc,         \* where each call is
    cert,       \* its caller's certificate
    id,         \* the job it is about
    resp        \* the answer to the client's last call

storeVars == <<tasks, watched, readers, pending>>
vars      == <<jobCounter, storeVars, pc, cert, id, resp>>

Absent    == "absent"
NoReader  == "none"
CallPc    == {"idle", "start", "lock", "create", "launch", "running", "failing", "get", "list", "listing",
              "stop", "stopping", "stopped"}
Codes     == {"none", "OK", "Unauthenticated", "PermissionDenied", "NotFound", "Internal"}
Answers   == [code : Codes, status : JobStatus \cup {Absent}]
NoAnswer  == [code |-> "none", status |-> Absent]

\* Types, and only known jobs are watched or write output.
TypeOK ==
    /\ jobCounter \in 0..MaxJobs
    /\ tasks \in [Ids -> JobStatus \cup {Absent}]
    /\ watched \subseteq {i \in Ids : tasks[i] # Absent}
    /\ readers \subseteq {i \in Ids : tasks[i] # Absent} \cup Clients
    /\ pending \in Clients \cup {NoReader}
    /\ pc \in [Clients -> CallPc]
    /\ cert \in [Clients -> Certs \cup {NoCert}]
    /\ id \in [Clients -> Ids]
    /\ resp \in [Clients -> Answers]

Init ==
    /\ jobCounter = 0
    /\ tasks = [i \in Ids |-> Absent]
    /\ watched = {}
    /\ readers = {}
    /\ pending = NoReader
    /\ pc = [c \in Clients |-> "idle"]
    /\ cert = [c \in Clients |-> NoCert]
    /\ id = [c \in Clients |-> 1]
    /\ resp = [c \in Clients |-> NoAnswer]

-----------------------------------------------------------------------------
(* Authorization *)

\* strings.ToLower on the units of the model.
ToLower(ou) == CASE ou = "Admin" -> "admin" [] ou = "Viewer" -> "viewer" [] OTHER -> ou

\* extractClientRole: the first organizational unit that names a role.
ExtractClientRole(ous) ==
    LET Names(role, i) == ToLower(ous[i]) = role
        First(role, other) ==
            \E i \in DOMAIN ous : Names(role, i) /\ \A j \in 1..i : ~Names(other, j)
    IN  CASE First("admin", "viewer") -> "admin"
          [] First("viewer", "admin") -> "viewer"
          [] OTHER -> "unknown"

\* Mutant: what is not forbidden is allowed.
IsOperationAllowedByDefault(role, o) == role # "viewer" \/ o \notin {"run_job", "stop_job"}

IsOperationAllowed(role, o) ==
    \/ role = "admin"
    \/ role = "viewer" /\ o \in {"get_job", "list_jobs", "stream_jobs"}

\* Authorized: an error code, or "OK".
Authorized(crt, o) ==
    CASE crt = NoCert -> "Unauthenticated"
      [] crt # NoCert /\ ~IsOperationAllowed(ExtractClientRole(crt), o) -> "PermissionDenied"
      [] OTHER -> "OK"

-----------------------------------------------------------------------------
(* Steps of a call *)

\* A step that only moves the call on.
Goto(c, to) ==
    /\ pc' = [pc EXCEPT ![c] = to]
    /\ UNCHANGED <<cert, id, resp>>

\* The handler returns, and the call's own variables are gone.
Answer(c, code, st) ==
    /\ pc' = [pc EXCEPT ![c] = "idle"]
    /\ cert' = [cert EXCEPT ![c] = NoCert]
    /\ id' = [id EXCEPT ![c] = 1]
    /\ resp' = [resp EXCEPT ![c] = [code |-> code, status |-> st]]

\* Where a handler goes on after the authorization.
Entry(o) ==
    CASE o = "run_job" -> "start"
      [] o = "stop_job" -> "stop"
      [] o = "list_jobs" -> "list"
      [] OTHER -> "get"

\* A call arrives, and every handler begins with the authorization.
Receive(c) ==
    /\ pc[c] = "idle"
    /\ \E o \in Operations, crt \in Certs \cup {NoCert} :
          IF Authorized(crt, o) = "OK"
          THEN /\ pc' = [pc EXCEPT ![c] = Entry(o)]
               /\ cert' = [cert EXCEPT ![c] = crt]
               /\ \E i \in IF o \in {"run_job", "list_jobs"} THEN {1} ELSE Ids :
                     id' = [id EXCEPT ![c] = i]
               /\ resp' = [resp EXCEPT ![c] = NoAnswer]
          ELSE Answer(c, Authorized(crt, o), Absent)
    /\ UNCHANGED <<jobCounter, storeVars>>

\* StartJob goes on with the job i, or the checks or the cgroup refuse it.
StartWith(c, i) ==
    \/ /\ pc' = [pc EXCEPT ![c] = "lock"]
       /\ id' = [id EXCEPT ![c] = i]
       /\ UNCHANGED <<cert, resp>>
    \/ Answer(c, "Internal", Absent)

\* Mutant: the counter is read and written in two steps, and an increment may
\* be lost.
GetNextJobIDRacy(c) ==
    /\ pc[c] = "start"
    /\ jobCounter < MaxJobs
    /\ jobCounter' \in {jobCounter, jobCounter + 1}
    /\ StartWith(c, jobCounter + 1)
    /\ UNCHANGED storeVars

\* StartJob begins with an id from the atomic counter.
GetNextJobID(c) ==
    /\ pc[c] = "start"
    /\ jobCounter < MaxJobs
    /\ jobCounter' = jobCounter + 1
    /\ StartWith(c, jobCounter + 1)
    /\ UNCHANGED storeVars

\* The bound on ids: further RunJob calls are refused.
NoMoreIds(c) ==
    /\ pc[c] = "start"
    /\ jobCounter = MaxJobs
    /\ Answer(c, "Internal", Absent)
    /\ UNCHANGED <<jobCounter, storeVars>>

\* st.mutex.Lock: announce the writer, one at a time.
LockStore(c) ==
    /\ pc[c] = "lock"
    /\ pending = NoReader
    /\ pending' = c
    /\ Goto(c, "create")
    /\ UNCHANGED <<jobCounter, tasks, watched, readers>>

\* CreateNewJob once the readers have left; an existing job is kept.
CreateNewJob(c) ==
    /\ pc[c] = "create"
    /\ readers = {}
    /\ tasks' = [tasks EXCEPT ![id[c]] = IF @ = Absent THEN Initializing ELSE @]
    /\ pending' = NoReader
    /\ Goto(c, "launch")
    /\ UNCHANGED <<jobCounter, watched, readers>>

\* startProcessSingleBinary succeeds or fails.
Launch(c) ==
    /\ pc[c] = "launch"
    /\ Goto(c, "running") \/ Goto(c, "failing")
    /\ UNCHANGED <<jobCounter, storeVars>>

\* Mutant: readers come in past a waiting writer.
CanReadAlways == TRUE

\* st.mutex.RLock does not block.
CanRead == pending = NoReader

\* updateJobAsRunning, the start of the monitor and the answer.
UpdateJobAsRunning(c) ==
    /\ pc[c] = "running"
    /\ CanRead
    /\ tasks' = [tasks EXCEPT ![id[c]] = Running]
    /\ watched' = watched \cup {id[c]}
    /\ Answer(c, "OK", Running)
    /\ UNCHANGED <<jobCounter, readers, pending>>

\* cleanupFailedJob and the error.
CleanupFailedJob(c) ==
    /\ pc[c] = "failing"
    /\ CanRead
    /\ tasks' = [tasks EXCEPT ![id[c]] = Failed]
    /\ Answer(c, "Internal", Absent)
    /\ UNCHANGED <<jobCounter, watched, readers, pending>>

\* GetJobStatus, and the lookup of GetJobLogs.
GetJob(c) ==
    /\ pc[c] = "get"
    /\ CanRead
    /\ IF tasks[id[c]] = Absent
       THEN Answer(c, "NotFound", Absent)
       ELSE Answer(c, "OK", tasks[id[c]])
    /\ UNCHANGED <<jobCounter, storeVars>>

\* ListJobs copies every record under the read lock.
ListJobs(c) ==
    /\ pc[c] = "list"
    /\ CanRead
    /\ readers' = readers \cup {c}
    /\ Goto(c, "listing")
    /\ UNCHANGED <<jobCounter, tasks, watched, pending>>

ListJobsReturns(c) ==
    /\ pc[c] = "listing"
    /\ readers' = readers \ {c}
    /\ Answer(c, "OK", Absent)
    /\ UNCHANGED <<jobCounter, tasks, watched, pending>>

\* Worker.StopJob finds the job running, or refuses; both refusals are Internal.
StopGetJob(c) ==
    /\ pc[c] = "stop"
    /\ CanRead
    /\ IF tasks[id[c]] = Running
       THEN Goto(c, "stopping")
       ELSE Answer(c, "Internal", Absent)
    /\ UNCHANGED <<jobCounter, storeVars>>

\* updateJobStatus, with the outcome of the cleanup.
StopUpdate(c) ==
    /\ pc[c] = "stopping"
    /\ CanRead
    /\ \E st \in FinalStatus : tasks' = [tasks EXCEPT ![id[c]] = st]
    /\ Goto(c, "stopped")
    /\ UNCHANGED <<jobCounter, watched, readers, pending>>

\* The handler reads the job again for its answer.
StopAnswer(c) ==
    /\ pc[c] = "stopped"
    /\ CanRead
    /\ IF tasks[id[c]] = Absent
       THEN Answer(c, "NotFound", Absent)
       ELSE Answer(c, "OK", tasks[id[c]])
    /\ UNCHANGED <<jobCounter, storeVars>>

-----------------------------------------------------------------------------
(* Goroutines of the jobs *)

\* Mutant: an unexpected error of cmd.Wait leaves the record as it was copied.
MonitorJobWaitFails(i) ==
    /\ i \in watched
    /\ CanRead
    /\ \E st \in {Completed, Failed, Running} : tasks' = [tasks EXCEPT ![i] = st]
    /\ watched' = watched \ {i}
    /\ UNCHANGED <<jobCounter, readers, pending, pc, cert, id, resp>>

\* monitorJob: the process has exited.
MonitorJob(i) ==
    /\ i \in watched
    /\ CanRead
    /\ \E st \in {Completed, Failed} : tasks' = [tasks EXCEPT ![i] = st]
    /\ watched' = watched \ {i}
    /\ UNCHANGED <<jobCounter, readers, pending, pc, cert, id, resp>>

\* Mutant: the task is used without a look at whether it is there.
WriteToBufferUnchecked(i) ==
    /\ CanRead
    /\ i \notin readers
    /\ readers' = readers \cup {i}
    /\ UNCHANGED <<jobCounter, tasks, watched, pending, pc, cert, id, resp>>

\* store.WriteToBuffer takes the read lock, finds the task and publishes; a
\* launch that was given up on may still write for a job that has failed.
WriteToBuffer(i) ==
    /\ tasks[i] # Absent
    /\ CanRead
    /\ i \notin readers
    /\ readers' = readers \cup {i}
    /\ UNCHANGED <<jobCounter, tasks, watched, pending, pc, cert, id, resp>>

WriteToBufferReturns(i) ==
    /\ i \in readers
    /\ readers' = readers \ {i}
    /\ UNCHANGED <<jobCounter, tasks, watched, pending, pc, cert, id, resp>>

-----------------------------------------------------------------------------

CallStep(c) ==
    \/ GetNextJobID(c) \/ NoMoreIds(c) \/ LockStore(c) \/ CreateNewJob(c) \/ Launch(c)
    \/ UpdateJobAsRunning(c) \/ CleanupFailedJob(c) \/ GetJob(c) \/ ListJobs(c) \/ ListJobsReturns(c)
    \/ StopGetJob(c) \/ StopUpdate(c) \/ StopAnswer(c)

Next ==
    \/ \E c \in Clients : Receive(c) \/ CallStep(c)
    \/ \E i \in Ids : MonitorJob(i) \/ WriteToBuffer(i) \/ WriteToBufferReturns(i)

Spec == Init /\ [][Next]_vars

(***************************************************************************)
(* Fairness: handlers run, and a publication returns (TaskPubSub's         *)
(* PublishReturns).  Clients need not call, jobs need not write or exit.   *)
(***************************************************************************)
FairSpec ==
    /\ Spec
    /\ \A c \in Clients : WF_vars(CallStep(c))
    /\ \A i \in Ids : WF_vars(WriteToBufferReturns(i))

-----------------------------------------------------------------------------
(* Properties *)

\* A job is started or stopped only for a caller whose certificate names the
\* unit admin, in small or capital letters.
OnlyAdminsAct ==
    \A c \in Clients :
        pc[c] \notin {"idle", "get", "list", "listing"} =>
            cert[c] # NoCert /\ \E i \in DOMAIN cert[c] : ToLower(cert[c][i]) = "admin"

\* A RunJob works on a job of its own: CreateNewJob never finds its id taken,
\* when it would go on and run its process under another job's record.
IdsAreFresh ==
    LET starting == {c \in Clients : pc[c] \in {"lock", "create", "launch", "running", "failing"}} IN
    /\ \A c \in starting : pc[c] \in {"lock", "create"} => tasks[id[c]] = Absent
    /\ \A c, d \in starting : c # d => id[c] # id[d]

\* A StopJob that got as far as its update is answered with a final status,
\* although the monitor and other stops may write before it reads the job again
\* (as long as cmd.Wait reports exit errors only).
StopAnswersFinal ==
    [][\A c \in Clients : pc[c] = "stopped" /\ pc'[c] = "idle" =>
          resp'[c].code = "OK" /\ resp'[c].status \in FinalStatus]_vars

\* Every call is answered, although jobs hold the store's read lock while they
\* publish their output, one after the other without end.
CallsReturn == \A c \in Clients : pc[c] # "idle" ~> pc[c] = "idle"
=============================================================================
