-------------------------- MODULE JobServiceProofs --------------------------
(***************************************************************************)
(* Proofs about JobService, for any clients, certificates and number of    *)
(* jobs.  The inductive invariant says which status a job can have while a *)
(* call works on it: a job being started belongs to its RunJob alone.      *)
(***************************************************************************)
EXTENDS JobService, TLAPS

-----------------------------------------------------------------------------
(* The inductive invariant *)

\* RunJob calls that have an id and have not yet registered the job, or not
\* yet written its first status.
Unregistered(c) == pc[c] \in {"lock", "create"}
Launching(c)    == pc[c] \in {"launch", "running", "failing"}
Starting(c)     == Unregistered(c) \/ Launching(c)

\* Ids above the counter are unused.
CounterBounds ==
    /\ \A i \in Ids : tasks[i] # Absent => i <= jobCounter
    /\ \A c \in Clients : Starting(c) => id[c] <= jobCounter

\* No two calls start the same job.
StartersDiffer == \A c, d \in Clients : Starting(c) /\ Starting(d) /\ c # d => id[c] # id[d]

\* What the store says of a job while it is started.
StartingStatus ==
    \A c \in Clients :
        /\ Unregistered(c) => tasks[id[c]] = Absent
        /\ Launching(c) => tasks[id[c]] = Initializing

\* Jobs that the monitor or StopJob works on are past that.
Begun(i) == tasks[i] \notin {Absent, Initializing}

BegunStatus ==
    /\ \A i \in watched : Begun(i)
    /\ \A c \in Clients : pc[c] = "stopping" => Begun(id[c])
    /\ \A c \in Clients : pc[c] = "stopped" => tasks[id[c]] \in FinalStatus

IndInv == TypeOK /\ CounterBounds /\ StartersDiffer /\ StartingStatus /\ BegunStatus

-----------------------------------------------------------------------------
(* Types *)

CallTypes ==
    /\ pc \in [Clients -> CallPc]
    /\ cert \in [Clients -> Certs \cup {NoCert}]
    /\ id \in [Clients -> Ids]
    /\ resp \in [Clients -> Answers]

StoreTypes ==
    /\ jobCounter \in 0..MaxJobs
    /\ tasks \in [Ids -> JobStatus \cup {Absent}]
    /\ watched \subseteq {i \in Ids : tasks[i] # Absent}
    /\ readers \subseteq {i \in Ids : tasks[i] # Absent} \cup Clients
    /\ pending \in Clients \cup {NoReader}

\* TypeOK in two parts, which different steps change.
LEMMA TypeParts == TypeOK <=> CallTypes /\ StoreTypes
BY DEF TypeOK, CallTypes, StoreTypes

\* An answer keeps the call's types.
LEMMA AnswerType ==
    ASSUME CallTypes, NEW c \in Clients, NEW code \in Codes, NEW st \in JobStatus \cup {Absent},
           Answer(c, code, st)
    PROVE  CallTypes'
<1>1. 1 \in Ids
    BY ServiceAssumption DEF Ids
<1>2. "idle" \in CallPc
    BY DEF CallPc
<1>3. [code |-> code, status |-> st] \in Answers
    BY DEF Answers
<1> QED
    BY <1>1, <1>2, <1>3 DEF CallTypes, Answer

\* So does a step that only moves the call on.
LEMMA GotoType ==
    ASSUME CallTypes, NEW c \in Clients, NEW to \in CallPc, Goto(c, to)
    PROVE  CallTypes'
BY DEF CallTypes, Goto

\* Writing a status to a job keeps the store's types.
LEMMA WriteType ==
    ASSUME StoreTypes, NEW i \in Ids, NEW st \in JobStatus,
           tasks' = [tasks EXCEPT ![i] = st]
    PROVE  /\ tasks' \in [Ids -> JobStatus \cup {Absent}]
           /\ tasks'[i] # Absent
           /\ \A j \in Ids : tasks[j] # Absent => tasks'[j] # Absent
BY DEF StoreTypes, JobStatus, Absent, Initializing, Running, Completed, Failed, Stopped

\* Every step keeps the types of the calls.
LEMMA CallTypeStep == TypeOK /\ [Next]_vars => CallTypes'
<1> SUFFICES ASSUME TypeOK, [Next]_vars PROVE CallTypes'
    OBVIOUS
<1>0. CallTypes /\ StoreTypes
    BY TypeParts
<1>a. 1 \in Ids /\ Ids \subseteq Nat /\ MaxJobs \in Nat
    BY ServiceAssumption DEF Ids
<1>b. {"Internal", "OK", "NotFound", "Unauthenticated", "PermissionDenied"} \subseteq Codes
    BY DEF Codes
<1>c. Running \in JobStatus /\ NoAnswer \in Answers
    BY DEF JobStatus, NoAnswer, Answers, Codes
<1>1. ASSUME NEW c \in Clients, Receive(c) PROVE CallTypes'
  <2>1. PICK o \in Operations, crt \in Certs \cup {NoCert} :
            IF Authorized(crt, o) = "OK"
            THEN /\ pc' = [pc EXCEPT ![c] = Entry(o)]
                 /\ cert' = [cert EXCEPT ![c] = crt]
                 /\ \E i \in IF o \in {"run_job", "list_jobs"} THEN {1} ELSE Ids :
                       id' = [id EXCEPT ![c] = i]
                 /\ resp' = [resp EXCEPT ![c] = NoAnswer]
            ELSE Answer(c, Authorized(crt, o), Absent)
    BY <1>1 DEF Receive
  <2>2. CASE Authorized(crt, o) = "OK"
    <3>1. Entry(o) \in CallPc
      BY DEF Entry, CallPc
    <3>2. PICK i \in Ids : id' = [id EXCEPT ![c] = i]
      BY <1>a, <2>1, <2>2
    <3> QED
      BY <1>0, <1>c, <2>1, <2>2, <3>1, <3>2 DEF CallTypes
  <2>3. CASE Authorized(crt, o) # "OK"
    <3>1. Authorized(crt, o) \in Codes
      BY <1>b DEF Authorized
    <3> QED
      BY <1>0, <2>1, <2>3, <3>1, AnswerType
  <2> QED
    BY <2>2, <2>3
<1>2. ASSUME NEW c \in Clients, GetNextJobID(c) PROVE CallTypes'
  <2>1. CASE Answer(c, "Internal", Absent)
    BY <1>0, <1>b, <2>1, AnswerType
  <2>2. CASE /\ pc' = [pc EXCEPT ![c] = "lock"]
             /\ id' = [id EXCEPT ![c] = jobCounter + 1]
             /\ UNCHANGED <<cert, resp>>
    <3>1. jobCounter + 1 \in Ids
      BY <1>0, <1>2, ServiceAssumption DEF StoreTypes, GetNextJobID, Ids
    <3> QED
      BY <1>0, <2>2, <3>1 DEF CallTypes, CallPc
  <2> QED
    BY <1>2, <2>1, <2>2 DEF GetNextJobID, StartWith
<1>3. ASSUME NEW c \in Clients, NEW to \in CallPc, Goto(c, to) PROVE CallTypes'
    BY <1>0, <1>3, GotoType
<1>4. ASSUME NEW c \in Clients, NEW code \in Codes, NEW st \in JobStatus \cup {Absent},
             Answer(c, code, st)
      PROVE  CallTypes'
    BY <1>0, <1>4, AnswerType
<1>5. ASSUME NEW c \in Clients, CallStep(c), ~GetNextJobID(c) PROVE CallTypes'
  <2> USE DEF CallPc
  <2>1. CASE NoMoreIds(c)
    BY <1>4, <1>b, <2>1 DEF NoMoreIds
  <2>2. CASE LockStore(c)
    BY <1>3, <2>2 DEF LockStore
  <2>3. CASE CreateNewJob(c)
    BY <1>3, <2>3 DEF CreateNewJob
  <2>4. CASE Launch(c)
    BY <1>3, <2>4 DEF Launch
  <2>5. CASE UpdateJobAsRunning(c) \/ CleanupFailedJob(c)
    BY <1>4, <1>b, <1>c, <2>5 DEF UpdateJobAsRunning, CleanupFailedJob
  <2>6. CASE ListJobs(c)
    BY <1>3, <2>6 DEF ListJobs
  <2>7. CASE ListJobsReturns(c)
    BY <1>4, <1>b, <2>7 DEF ListJobsReturns
  <2>8. tasks[id[c]] \in JobStatus \cup {Absent}
    BY <1>0 DEF StoreTypes, CallTypes
  <2>9. CASE GetJob(c) \/ StopAnswer(c)
    BY <1>4, <1>b, <2>8, <2>9 DEF GetJob, StopAnswer
  <2>10. CASE StopGetJob(c)
    BY <1>3, <1>4, <1>b, <2>10 DEF StopGetJob
  <2>11. CASE StopUpdate(c)
    BY <1>3, <2>11 DEF StopUpdate
  <2> QED
    BY <1>5, <2>1, <2>2, <2>3, <2>4, <2>5, <2>6, <2>7, <2>9, <2>10, <2>11 DEF CallStep
<1>6. ASSUME NEW i \in Ids, MonitorJob(i) \/ WriteToBuffer(i) \/ WriteToBufferReturns(i)
      PROVE  CallTypes'
    BY <1>0, <1>6 DEF MonitorJob, WriteToBuffer, WriteToBufferReturns, CallTypes
<1>7. CASE UNCHANGED vars
    BY <1>0, <1>7 DEF vars, CallTypes
<1> QED
    BY <1>1, <1>2, <1>5, <1>6, <1>7 DEF Next

\* Every step keeps the types of the store.
LEMMA StoreTypeStep == TypeOK /\ [Next]_vars => StoreTypes'
<1> SUFFICES ASSUME TypeOK, [Next]_vars PROVE StoreTypes'
    OBVIOUS
<1>0. CallTypes /\ StoreTypes
    BY TypeParts
<1>a. \A c \in Clients : id[c] \in Ids
    BY <1>0 DEF CallTypes
<1>b. {Initializing, Running, Completed, Failed, Stopped} = JobStatus
    BY DEF JobStatus
<1>1. ASSUME NEW i \in Ids, NEW st \in JobStatus, tasks' = [tasks EXCEPT ![i] = st],
             UNCHANGED <<jobCounter, readers>>,
             watched' \subseteq watched \cup {i}, pending' \in {pending, NoReader}
      PROVE  StoreTypes'
  <2>1. /\ tasks' \in [Ids -> JobStatus \cup {Absent}]
        /\ tasks'[i] # Absent
        /\ \A j \in Ids : tasks[j] # Absent => tasks'[j] # Absent
    BY <1>0, <1>1, WriteType
  <2> QED
    BY <1>0, <1>1, <2>1 DEF StoreTypes
<1>2. ASSUME NEW c \in Clients, Receive(c) \/ NoMoreIds(c) \/ Launch(c) \/ GetJob(c)
                                \/ StopGetJob(c) \/ StopAnswer(c)
      PROVE  StoreTypes'
  <2>1. UNCHANGED <<jobCounter, storeVars>>
    BY <1>2 DEF Receive, NoMoreIds, Launch, GetJob, StopGetJob, StopAnswer
  <2> QED
    BY <1>0, <2>1 DEF StoreTypes, storeVars
<1>3. ASSUME NEW c \in Clients, GetNextJobID(c) PROVE StoreTypes'
    BY <1>0, <1>3, ServiceAssumption DEF GetNextJobID, StoreTypes, storeVars
<1>4. ASSUME NEW c \in Clients, LockStore(c) PROVE StoreTypes'
    BY <1>0, <1>4 DEF LockStore, StoreTypes
<1>5. ASSUME NEW c \in Clients, CreateNewJob(c) PROVE StoreTypes'
  <2>1. CASE tasks[id[c]] = Absent
    <3>1. tasks' = [tasks EXCEPT ![id[c]] = Initializing]
      BY <1>5, <2>1 DEF CreateNewJob
    <3> QED
      BY <1>1, <1>5, <1>a, <1>b, <3>1 DEF CreateNewJob
  <2>2. CASE tasks[id[c]] # Absent
    <3>1. tasks' = tasks
      BY <1>0, <1>5, <1>a, <2>2 DEF CreateNewJob, StoreTypes
    <3> QED
      BY <1>0, <1>5, <3>1 DEF CreateNewJob, StoreTypes
  <2> QED
    BY <2>1, <2>2
<1>6. ASSUME NEW c \in Clients, UpdateJobAsRunning(c) PROVE StoreTypes'
    BY <1>1, <1>6, <1>a, <1>b DEF UpdateJobAsRunning
<1>7. ASSUME NEW c \in Clients, CleanupFailedJob(c) PROVE StoreTypes'
    BY <1>1, <1>7, <1>a, <1>b DEF CleanupFailedJob
<1>8. ASSUME NEW c \in Clients, StopUpdate(c) PROVE StoreTypes'
    BY <1>1, <1>8, <1>a, <1>b DEF StopUpdate, FinalStatus
<1>9. ASSUME NEW c \in Clients, ListJobs(c) \/ ListJobsReturns(c) PROVE StoreTypes'
    BY <1>0, <1>9 DEF ListJobs, ListJobsReturns, StoreTypes
<1>10. ASSUME NEW i \in Ids, MonitorJob(i) PROVE StoreTypes'
    BY <1>1, <1>10, <1>b DEF MonitorJob
<1>11. ASSUME NEW i \in Ids, WriteToBuffer(i) \/ WriteToBufferReturns(i) PROVE StoreTypes'
    BY <1>0, <1>11 DEF WriteToBuffer, WriteToBufferReturns, StoreTypes
<1>12. CASE UNCHANGED vars
    BY <1>0, <1>12 DEF vars, storeVars, StoreTypes
<1> QED
    BY <1>2, <1>3, <1>4, <1>5, <1>6, <1>7, <1>8, <1>9, <1>10, <1>11, <1>12 DEF Next, CallStep

\* Every step keeps TypeOK.
LEMMA TypeStep == TypeOK /\ [Next]_vars => TypeOK'
BY CallTypeStep, StoreTypeStep DEF TypeOK, CallTypes, StoreTypes

\* The initial state has the types.
LEMMA TypeInit == Init => TypeOK
<1> SUFFICES ASSUME Init PROVE TypeOK
    OBVIOUS
<1>1. 1 \in Ids /\ 0 \in 0..MaxJobs
    BY ServiceAssumption DEF Ids
<1>2. "idle" \in CallPc /\ NoAnswer \in Answers
    BY DEF CallPc, NoAnswer, Answers, Codes
<1> QED
    BY <1>1, <1>2 DEF Init, TypeOK

\* Types hold in every reachable state, and only jobs of the store are watched
\* or write output, for any number of callers and jobs.
THEOREM TypeCorrect == Spec => []TypeOK
BY TypeInit, TypeStep, PTL DEF Spec

-----------------------------------------------------------------------------
(* Authorization *)

\* A caller who may start or stop jobs has an admin unit.
LEMMA AdminUnit ==
    ASSUME NEW crt, NEW o \in {"run_job", "stop_job"}, Authorized(crt, o) = "OK"
    PROVE  crt # NoCert /\ \E i \in DOMAIN crt : ToLower(crt[i]) = "admin"
<1>1. crt # NoCert /\ IsOperationAllowed(ExtractClientRole(crt), o)
    BY DEF Authorized
<1>2. ExtractClientRole(crt) = "admin"
    BY <1>1 DEF IsOperationAllowed
<1> QED
    BY <1>1, <1>2 DEF ExtractClientRole

\* No caller without an admin unit starts or stops a job, whatever units
\* certificates name and in whatever order.
THEOREM OnlyAdminsActAlways == Spec => []OnlyAdminsAct
<1> DEFINE Reading == {"idle", "get", "list", "listing"}
           IsAdmin(c) == cert[c] # NoCert /\ \E i \in DOMAIN cert[c] : ToLower(cert[c][i]) = "admin"
<1>1. Init => OnlyAdminsAct
    BY DEF Init, OnlyAdminsAct
<1>2. TypeOK /\ OnlyAdminsAct /\ [Next]_vars => OnlyAdminsAct'
  <2> SUFFICES ASSUME TypeOK, OnlyAdminsAct, [Next]_vars, NEW c \in Clients,
                      pc'[c] \notin Reading
               PROVE  IsAdmin(c)'
    BY DEF OnlyAdminsAct
  <2>0. CallTypes
    BY TypeParts
  <2>1. CASE cert'[c] = cert[c] /\ pc[c] \notin Reading
    BY <2>1 DEF OnlyAdminsAct
  <2>2. CASE Receive(c)
    <3>1. PICK o \in Operations, crt \in Certs \cup {NoCert} :
              IF Authorized(crt, o) = "OK"
              THEN /\ pc' = [pc EXCEPT ![c] = Entry(o)]
                   /\ cert' = [cert EXCEPT ![c] = crt]
              ELSE Answer(c, Authorized(crt, o), Absent)
      BY <2>2 DEF Receive
    <3>2. Authorized(crt, o) = "OK" /\ pc'[c] = Entry(o) /\ cert'[c] = crt
      BY <2>0, <3>1 DEF Answer, CallTypes
    <3>3. o \in {"run_job", "stop_job"}
      BY <3>2 DEF Entry, Operations
    <3> QED
      BY <3>2, <3>3, AdminUnit
  <2>3. ASSUME NEW d \in Clients \ {c}, Receive(d) \/ CallStep(d)
        PROVE  cert'[c] = cert[c] /\ pc'[c] = pc[c]
    BY <2>0, <2>3 DEF Receive, CallStep, GetNextJobID, StartWith, NoMoreIds, LockStore, CreateNewJob,
       Launch, UpdateJobAsRunning, CleanupFailedJob, GetJob, ListJobs, ListJobsReturns, StopGetJob,
       StopUpdate, StopAnswer, Goto, Answer, CallTypes
  <2>4. CASE CallStep(c)
    <3>1. pc[c] \notin Reading /\ cert'[c] = cert[c]
      BY <2>0, <2>4 DEF CallStep, GetNextJobID, StartWith, NoMoreIds, LockStore, CreateNewJob,
         Launch, UpdateJobAsRunning, CleanupFailedJob, GetJob, ListJobs, ListJobsReturns, StopGetJob,
         StopUpdate, StopAnswer, Goto, Answer, CallTypes
    <3> QED
      BY <2>1, <3>1
  <2>5. ASSUME NEW i \in Ids, MonitorJob(i) \/ WriteToBuffer(i) \/ WriteToBufferReturns(i)
        PROVE  cert'[c] = cert[c] /\ pc'[c] = pc[c]
    BY <2>5 DEF MonitorJob, WriteToBuffer, WriteToBufferReturns
  <2>6. CASE UNCHANGED vars
    BY <2>1, <2>6 DEF vars
  <2> QED
    BY <2>1, <2>2, <2>3, <2>4, <2>5, <2>6 DEF Next
<1> QED
    BY <1>1, <1>2, TypeInit, TypeStep, PTL DEF Spec

-----------------------------------------------------------------------------
(* Jobs and the calls that work on them *)

\* A step of one call leaves the other calls where they are.
LEMMA OtherCalls ==
    ASSUME CallTypes, NEW c \in Clients, NEW d \in Clients, c # d, Receive(c) \/ CallStep(c)
    PROVE  pc'[d] = pc[d] /\ id'[d] = id[d]
BY DEF Receive, CallStep, GetNextJobID, StartWith, NoMoreIds, LockStore, CreateNewJob, Launch,
       UpdateJobAsRunning, CleanupFailedJob, GetJob, ListJobs, ListJobsReturns, StopGetJob,
       StopUpdate, StopAnswer, Goto, Answer, CallTypes

\* A call that leaves the store alone and ends up neither starting nor stopping
\* a job, or that was there already, keeps the invariant.
LEMMA QuietCall ==
    ASSUME IndInv, CallTypes', NEW c \in Clients, Receive(c) \/ CallStep(c),
           UNCHANGED <<jobCounter, tasks, watched>>,
           \/ ~Starting(c)' /\ pc'[c] \notin {"stopping", "stopped"}
           \/ /\ id'[c] = id[c]
              /\ \/ Unregistered(c) /\ Unregistered(c)'
                 \/ Launching(c) /\ Launching(c)'
    PROVE  (CounterBounds /\ StartersDiffer /\ StartingStatus /\ BegunStatus)'
<1>1. CallTypes
    BY TypeParts DEF IndInv
<1>2. \A d \in Clients : d # c => pc'[d] = pc[d] /\ id'[d] = id[d]
    BY <1>1, OtherCalls
<1>3. pc'[c] \in {"stopping", "stopped"} => pc[c] = pc'[c]
    BY DEF Unregistered, Launching
<1>4. Starting(c)' => Starting(c) /\ id'[c] = id[c]
    BY DEF Starting
<1>5. CounterBounds'
    BY <1>2, <1>4 DEF IndInv, CounterBounds, Starting, Unregistered, Launching
<1>6. StartersDiffer'
    BY <1>2, <1>4 DEF IndInv, StartersDiffer, Starting, Unregistered, Launching
<1>7. StartingStatus'
    BY <1>2 DEF IndInv, StartingStatus, Starting, Unregistered, Launching
<1>8. BegunStatus'
    BY <1>2, <1>3 DEF IndInv, BegunStatus, Begun, Unregistered, Launching
<1> QED
    BY <1>5, <1>6, <1>7, <1>8

\* A status that somebody writes who is not starting the job.
LEMMA WriteBegun ==
    ASSUME IndInv, NEW i \in Ids, Begun(i), NEW st \in FinalStatus,
           tasks' = [tasks EXCEPT ![i] = st], watched' \subseteq watched, jobCounter' = jobCounter,
           id' = id,
           \A c \in Clients : \/ pc'[c] = pc[c]
                              \/ pc[c] = "stopping" /\ pc'[c] = "stopped" /\ id[c] = i
    PROVE  (CounterBounds /\ StartersDiffer /\ StartingStatus /\ BegunStatus)'
<1>1. tasks \in [Ids -> JobStatus \cup {Absent}] /\ id \in [Clients -> Ids] /\ watched \subseteq Ids
    BY DEF IndInv, TypeOK
<1>2. st \notin {Absent, Initializing}
    BY DEF FinalStatus, Absent, Initializing, Completed, Failed, Stopped
<1>3. \A c \in Clients : /\ (Unregistered(c)' <=> Unregistered(c))
                         /\ (Launching(c)' <=> Launching(c))
    BY DEF Unregistered, Launching
<1>4. \A j \in Ids : tasks'[j] = IF j = i THEN st ELSE tasks[j]
    BY <1>1
<1>5. \A c \in Clients : Starting(c) => id[c] # i
    BY DEF IndInv, StartingStatus, Starting, Begun
<1>6. CounterBounds'
    BY <1>1, <1>3, <1>4 DEF IndInv, CounterBounds, Starting, Begun
<1>7. StartersDiffer'
    BY <1>3 DEF IndInv, StartersDiffer, Starting
<1>8. StartingStatus'
    BY <1>1, <1>3, <1>4, <1>5 DEF IndInv, StartingStatus, Starting
<1>9. BegunStatus'
    BY <1>1, <1>2, <1>4 DEF IndInv, BegunStatus, Begun
<1> QED
    BY <1>6, <1>7, <1>8, <1>9

\* The first status of a job, written by the RunJob that has it.
LEMMA WriteStarted ==
    ASSUME IndInv, NEW c \in Clients, Starting(c), CallStep(c),
           NEW st \in {Initializing, Running, Failed},
           tasks' = [tasks EXCEPT ![id[c]] = st], jobCounter' = jobCounter,
           \/ st = Initializing /\ pc'[c] = "launch" /\ id'[c] = id[c] /\ watched' = watched
           \/ st = Running /\ pc'[c] = "idle" /\ watched' = watched \cup {id[c]}
           \/ st = Failed /\ pc'[c] = "idle" /\ watched' = watched
    PROVE  (CounterBounds /\ StartersDiffer /\ StartingStatus /\ BegunStatus)'
<1>1. /\ tasks \in [Ids -> JobStatus \cup {Absent}] /\ id \in [Clients -> Ids]
      /\ watched \subseteq Ids /\ CallTypes
    BY TypeParts DEF IndInv, TypeOK
<1>2. \A d \in Clients : d # c => pc'[d] = pc[d] /\ id'[d] = id[d]
    BY <1>1, OtherCalls
<1>3. \A j \in Ids : tasks'[j] = IF j = id[c] THEN st ELSE tasks[j]
    BY <1>1
<1>4. id[c] \in Ids /\ id[c] <= jobCounter /\ ~Begun(id[c])
    BY <1>1 DEF IndInv, CounterBounds, StartingStatus, Starting, Begun
<1>5. \A d \in Clients : d # c /\ Starting(d) => id[d] # id[c]
    BY DEF IndInv, StartersDiffer
<1>6. \A d \in Clients : pc[d] \in {"stopping", "stopped"} => id[d] # id[c]
  <2>1. \A x \in FinalStatus : x \notin {Absent, Initializing}
    BY DEF FinalStatus, Absent, Initializing, Completed, Failed, Stopped
  <2> QED
    BY <1>4, <2>1 DEF IndInv, BegunStatus, Begun
<1>7. Running \notin {Absent, Initializing} /\ Failed \notin {Absent, Initializing}
    BY DEF Running, Failed, Absent, Initializing
<1>8. CounterBounds'
    BY <1>1, <1>2, <1>3, <1>4 DEF IndInv, CounterBounds, Starting, Unregistered, Launching
<1>9. StartersDiffer'
    BY <1>2, <1>5 DEF IndInv, StartersDiffer, Starting, Unregistered, Launching
<1>10. StartingStatus'
  <2>1. ASSUME NEW d \in Clients, d # c PROVE StartingStatus!(d)'
    BY <1>1, <1>2, <1>3, <1>5, <2>1 DEF IndInv, StartingStatus, Starting, Unregistered, Launching
  <2>2. StartingStatus!(c)'
    BY <1>3, <1>4 DEF Unregistered, Launching
  <2> QED
    BY <2>1, <2>2 DEF StartingStatus
<1>11. BegunStatus'
  <2>1. \A i \in watched' : Begun(i)'
    BY <1>1, <1>3, <1>4, <1>7 DEF IndInv, BegunStatus, Begun
  <2>2. \A d \in Clients : pc'[d] \in {"stopping", "stopped"} =>
            d # c /\ pc[d] = pc'[d] /\ id'[d] = id[d] /\ tasks'[id[d]] = tasks[id[d]]
    BY <1>1, <1>2, <1>3, <1>6
  <2> QED
    BY <2>1, <2>2 DEF IndInv, BegunStatus, Begun
<1> QED
    BY <1>8, <1>9, <1>10, <1>11

\* Every step keeps the invariant: one case per action.
LEMMA IndInvStep == IndInv /\ [Next]_vars => IndInv'
<1> SUFFICES ASSUME IndInv, [Next]_vars PROVE IndInv'
    OBVIOUS
<1> DEFINE Jobs == CounterBounds /\ StartersDiffer /\ StartingStatus /\ BegunStatus
<1>0. TypeOK /\ TypeOK' /\ CallTypes /\ CallTypes'
    BY TypeStep, CallTypeStep, TypeParts DEF IndInv
<1> SUFFICES Jobs'
    BY <1>0 DEF IndInv
<1>a. /\ tasks \in [Ids -> JobStatus \cup {Absent}] /\ id \in [Clients -> Ids]
      /\ pc \in [Clients -> CallPc]
    BY <1>0 DEF TypeOK
<1>1. ASSUME NEW c \in Clients, Receive(c) PROVE Jobs'
  <2>1. pc'[c] \in {"idle", "start", "stop", "list", "get"}
    BY <1>1, <1>a DEF Receive, Answer, Entry
  <2>2. ~Starting(c)' /\ pc'[c] \notin {"stopping", "stopped"}
    BY <2>1 DEF Starting, Unregistered, Launching
  <2> QED
    BY <1>0, <1>1, <2>2, QuietCall DEF Receive, storeVars
<1>2. ASSUME NEW c \in Clients, NoMoreIds(c) \/ LockStore(c) \/ Launch(c) \/ GetJob(c) \/ ListJobs(c)
                                \/ ListJobsReturns(c) \/ StopAnswer(c)
      PROVE  Jobs'
  <2>1. UNCHANGED <<jobCounter, tasks, watched>> /\ CallStep(c)
    BY <1>2 DEF NoMoreIds, LockStore, Launch, GetJob, ListJobs, ListJobsReturns, StopAnswer,
       storeVars, CallStep
  <2>2. \/ pc'[c] \in {"idle", "listing"}
        \/ id'[c] = id[c] /\ pc[c] = "lock" /\ pc'[c] = "create"
        \/ id'[c] = id[c] /\ pc[c] = "launch" /\ pc'[c] \in {"running", "failing"}
    BY <1>2, <1>a DEF NoMoreIds, LockStore, Launch, GetJob, ListJobs, ListJobsReturns, StopAnswer,
       Goto, Answer
  <2> QED
    BY <1>0, <2>1, <2>2, QuietCall DEF Starting, Unregistered, Launching
<1>3. ASSUME NEW c \in Clients, GetNextJobID(c) PROVE Jobs'
  <2>0. CallStep(c) /\ UNCHANGED <<tasks, watched>> /\ jobCounter' = jobCounter + 1
    BY <1>3 DEF GetNextJobID, storeVars, CallStep
  <2>1. \A d \in Clients : d # c => pc'[d] = pc[d] /\ id'[d] = id[d]
    BY <1>0, <2>0, OtherCalls
  <2>2. \/ pc'[c] = "idle"
        \/ pc'[c] = "lock" /\ id'[c] = jobCounter + 1
    BY <1>3, <1>a DEF GetNextJobID, StartWith, Answer
  <2>3. jobCounter \in Nat /\ jobCounter + 1 \in Ids /\ Ids \subseteq Nat
    BY <1>3, <1>0, ServiceAssumption DEF GetNextJobID, TypeOK, Ids
  <2>4. tasks[jobCounter + 1] = Absent /\ \A d \in Clients : Starting(d) => id[d] # jobCounter + 1
    BY <1>a, <2>3 DEF IndInv, CounterBounds
  <2>5. CounterBounds'
    <3>1. \A i \in Ids : tasks'[i] # Absent => i <= jobCounter'
      BY <2>0, <2>3 DEF IndInv, CounterBounds
    <3>2. ASSUME NEW d \in Clients, d # c, Starting(d)' PROVE id'[d] <= jobCounter'
      <4>0. Starting(d) /\ id'[d] = id[d]
        BY <2>1, <3>2 DEF Starting, Unregistered, Launching
      <4>1. id[d] <= jobCounter /\ id[d] \in Nat
        BY <1>a, <2>3, <4>0 DEF IndInv, CounterBounds
      <4>2. id[d] <= jobCounter + 1
        BY <2>3, <4>1
      <4> QED
        BY <2>0, <4>0, <4>2
    <3>3. Starting(c)' => id'[c] <= jobCounter'
      <4>1. Starting(c)' => id'[c] = jobCounter + 1
        BY <2>2 DEF Starting, Unregistered, Launching
      <4> QED
        BY <2>0, <2>3, <4>1
    <3> QED
      BY <3>1, <3>2, <3>3 DEF CounterBounds
  <2>6. StartersDiffer'
    BY <2>1, <2>2, <2>4 DEF IndInv, StartersDiffer, Starting, Unregistered, Launching
  <2>7. StartingStatus'
    <3>1. ASSUME NEW d \in Clients, d # c PROVE StartingStatus!(d)'
      BY <2>0, <2>1, <3>1 DEF IndInv, StartingStatus, Unregistered, Launching
    <3>2. StartingStatus!(c)'
      BY <2>0, <2>2, <2>4 DEF Unregistered, Launching
    <3> QED
      BY <3>1, <3>2 DEF StartingStatus
  <2>8. BegunStatus'
    BY <2>0, <2>1, <2>2 DEF IndInv, BegunStatus, Begun
  <2> QED
    BY <2>5, <2>6, <2>7, <2>8
<1>4. ASSUME NEW c \in Clients, CreateNewJob(c) PROVE Jobs'
  <2>1. CallStep(c) /\ Starting(c) /\ tasks[id[c]] = Absent
    BY <1>4 DEF IndInv, CallStep, CreateNewJob, StartingStatus, Starting, Unregistered
  <2>2. /\ tasks' = [tasks EXCEPT ![id[c]] = Initializing]
        /\ pc'[c] = "launch" /\ id'[c] = id[c]
        /\ UNCHANGED <<jobCounter, watched>>
    BY <1>4, <1>a, <2>1 DEF CreateNewJob, Goto
  <2> QED
    BY <2>1, <2>2, WriteStarted
<1>5. ASSUME NEW c \in Clients, UpdateJobAsRunning(c) PROVE Jobs'
  <2>1. CallStep(c) /\ Starting(c) /\ pc'[c] = "idle"
    BY <1>5, <1>a DEF CallStep, UpdateJobAsRunning, Starting, Launching, Answer
  <2> QED
    BY <1>5, <2>1, WriteStarted DEF UpdateJobAsRunning
<1>6. ASSUME NEW c \in Clients, CleanupFailedJob(c) PROVE Jobs'
  <2>1. CallStep(c) /\ Starting(c) /\ pc'[c] = "idle"
    BY <1>6, <1>a DEF CallStep, CleanupFailedJob, Starting, Launching, Answer
  <2> QED
    BY <1>6, <2>1, WriteStarted DEF CleanupFailedJob
<1>7. ASSUME NEW c \in Clients, StopGetJob(c) PROVE Jobs'
  <2>0. UNCHANGED <<jobCounter, tasks, watched>> /\ CallStep(c)
    BY <1>7 DEF StopGetJob, storeVars, CallStep
  <2>1. CASE tasks[id[c]] # Running
    <3>1. pc'[c] = "idle"
      BY <1>7, <1>a, <2>1 DEF StopGetJob, Answer
    <3> QED
      BY <1>0, <2>0, <3>1, QuietCall DEF Starting, Unregistered, Launching
  <2>2. CASE tasks[id[c]] = Running
    <3>1. pc' = [pc EXCEPT ![c] = "stopping"] /\ id' = id
      BY <1>7, <2>2 DEF StopGetJob, Goto
    <3>2. Begun(id[c])
      BY <2>2 DEF Begun, Running, Absent, Initializing
    <3>3. CounterBounds' /\ StartersDiffer'
      BY <1>a, <2>0, <3>1 DEF IndInv, CounterBounds, StartersDiffer, Starting, Unregistered, Launching
    <3>4. StartingStatus'
      BY <1>a, <2>0, <3>1 DEF IndInv, StartingStatus, Unregistered, Launching
    <3>5. BegunStatus'
      BY <1>a, <2>0, <3>1, <3>2 DEF IndInv, BegunStatus, Begun
    <3> QED
      BY <3>3, <3>4, <3>5
  <2> QED
    BY <2>1, <2>2
<1>8. ASSUME NEW c \in Clients, StopUpdate(c) PROVE Jobs'
  <2>1. PICK st \in FinalStatus : tasks' = [tasks EXCEPT ![id[c]] = st]
    BY <1>8 DEF StopUpdate
  <2>2. Begun(id[c]) /\ id[c] \in Ids
    BY <1>8, <1>a DEF IndInv, BegunStatus, StopUpdate
  <2>3. \A d \in Clients : \/ pc'[d] = pc[d]
                           \/ pc[d] = "stopping" /\ pc'[d] = "stopped" /\ id[d] = id[c]
    BY <1>8, <1>a DEF StopUpdate, Goto
  <2>4. id' = id /\ watched' \subseteq watched /\ jobCounter' = jobCounter
    BY <1>8 DEF StopUpdate, Goto
  <2> QED
    BY <2>1, <2>2, <2>3, <2>4, WriteBegun
<1>9. ASSUME NEW i \in Ids, MonitorJob(i) PROVE Jobs'
  <2>1. PICK st \in FinalStatus : tasks' = [tasks EXCEPT ![i] = st]
    BY <1>9 DEF MonitorJob, FinalStatus
  <2>2. Begun(i)
    BY <1>9 DEF IndInv, BegunStatus, MonitorJob
  <2>3. id' = id /\ pc' = pc /\ watched' \subseteq watched /\ jobCounter' = jobCounter
    BY <1>9 DEF MonitorJob
  <2> QED
    BY <2>1, <2>2, <2>3, WriteBegun
<1>10. ASSUME UNCHANGED <<jobCounter, tasks, watched, pc, id>> PROVE Jobs'
    BY <1>10 DEF IndInv, CounterBounds, StartersDiffer, StartingStatus, BegunStatus, Begun, Starting,
       Unregistered, Launching
<1>11. ASSUME NEW i \in Ids, WriteToBuffer(i) \/ WriteToBufferReturns(i) PROVE Jobs'
    BY <1>10, <1>11 DEF WriteToBuffer, WriteToBufferReturns
<1>12. CASE UNCHANGED vars
    BY <1>10, <1>12 DEF vars, storeVars
<1> QED
    BY <1>1, <1>2, <1>3, <1>4, <1>5, <1>6, <1>7, <1>8, <1>9, <1>11, <1>12 DEF Next, CallStep

\* The invariant holds before the first call.
LEMMA IndInvInit == Init => IndInv
<1> SUFFICES ASSUME Init PROVE IndInv
    OBVIOUS
<1>1. \A c \in Clients : ~Starting(c) /\ pc[c] = "idle"
    BY DEF Init, Starting, Unregistered, Launching
<1>2. watched = {} /\ \A i \in Ids : tasks[i] = Absent
    BY DEF Init
<1>3. StartersDiffer /\ StartingStatus
    BY <1>1 DEF StartersDiffer, StartingStatus, Starting
<1>4. CounterBounds /\ BegunStatus
    BY <1>1, <1>2 DEF CounterBounds, BegunStatus
<1> QED
    BY <1>3, <1>4, TypeInit DEF IndInv

\* The invariant holds in every reachable state.
LEMMA Inductive == Spec => []IndInv
BY IndInvInit, IndInvStep, PTL DEF Spec

\* No two RunJob calls work on the same job and CreateNewJob never finds its id
\* taken, for any number of concurrent calls.
THEOREM IdsStayFresh == Spec => []IdsAreFresh
<1>1. IndInv => IdsAreFresh
    BY DEF IndInv, StartersDiffer, StartingStatus, IdsAreFresh, Starting, Unregistered, Launching
<1> QED
    BY <1>1, Inductive, PTL

\* StopJob answers with a final status, whatever the monitor and any number of
\* other StopJob calls write meanwhile.
THEOREM StopsAnswerFinal == Spec => StopAnswersFinal
<1>1. ASSUME IndInv, [Next]_vars, NEW c \in Clients, pc[c] = "stopped", pc'[c] = "idle"
      PROVE  resp'[c].code = "OK" /\ resp'[c].status \in FinalStatus
  <2>0. CallTypes
    BY <1>1, TypeParts DEF IndInv
  <2>1. ~UNCHANGED vars
    BY <1>1 DEF vars
  <2>2. ASSUME NEW d \in Clients, Receive(d) \/ CallStep(d) PROVE d = c
    BY <1>1, <2>0, <2>2, OtherCalls
  <2>3. ASSUME NEW i \in Ids PROVE ~(MonitorJob(i) \/ WriteToBuffer(i) \/ WriteToBufferReturns(i))
    BY <1>1 DEF MonitorJob, WriteToBuffer, WriteToBufferReturns
  <2>4. Receive(c) \/ CallStep(c)
    BY <1>1, <2>1, <2>2, <2>3 DEF Next
  <2>5. StopAnswer(c)
    BY <1>1, <2>4 DEF Receive, CallStep, GetNextJobID, NoMoreIds, LockStore, CreateNewJob, Launch,
       UpdateJobAsRunning, CleanupFailedJob, GetJob, ListJobs, ListJobsReturns, StopGetJob, StopUpdate
  <2>6. tasks[id[c]] \in FinalStatus /\ tasks[id[c]] # Absent
    BY <1>1 DEF IndInv, BegunStatus, FinalStatus, Absent, Completed, Failed, Stopped
  <2>7. Answer(c, "OK", tasks[id[c]])
    BY <2>5, <2>6 DEF StopAnswer
  <2> QED
    BY <2>0, <2>6, <2>7 DEF Answer, CallTypes
<1>2. IndInv /\ [Next]_vars =>
          [\A c \in Clients : pc[c] = "stopped" /\ pc'[c] = "idle" =>
              resp'[c].code = "OK" /\ resp'[c].status \in FinalStatus]_vars
    BY <1>1
<1> QED
    BY <1>2, Inductive, PTL DEF Spec, StopAnswersFinal
=============================================================================
