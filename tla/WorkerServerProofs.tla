------------------------- MODULE WorkerServerProofs -------------------------
(***************************************************************************)
(* Theorems about WorkerServer, for any number of clients, of runs of the  *)
(* worker and of ids it gives in one of them.                              *)
(***************************************************************************)
EXTENDS WorkerServer, FiniteSetTheorems, TLAPS

-----------------------------------------------------------------------------
(* Types *)

JobRecords ==
    [owner    : Runners \cup {Nobody},
     pc       : {"none", "create", "launch", "join", "watch"},
     status   : {"none", "init", "running", "over"},
     proc     : {"none", "alive", "over"},
     place    : {"service", "job", "root"},
     assigned : BOOLEAN,
     killed   : BOOLEAN]

Cleanups == [outer : {"none", "wait"}, inner : {"none", "stat", "kill", "remove", "send"}]

Rpcs == {f \in [Clients -> {"queued", "handled", "ok", "error"}] :
            \A c \in Clients \ Runners : f[c] \in {"queued", "handled"}}

\* The type invariant with these names.
Typed ==
    /\ worker \in {"off", "boot", "loaded", "created", "listening", "serving", "deaf",
                   "draining", "gone"}
    /\ run \in 0 .. MaxRuns
    /\ counter \in 0 .. MaxIds
    /\ job \in [Jobs -> JobRecords]
    /\ dirs \subseteq Ids
    /\ cleanup \in [Jobs \X Owners -> Cleanups]
    /\ rpc \in Rpcs
    /\ target \in [Clients -> Jobs \cup {NoJob}]

\* It says the same.
LEMMA Types == TypeOK <=> Typed
BY DEF TypeOK, Typed, JobRecords, Cleanups, Rpcs

\* The run of a worker that is not off has a number.
Started == worker # "off" => run >= 1

TypeInv == Typed /\ Started

\* An answer is a proper answer.
LEMMA ReturnsType ==
    ASSUME rpc \in Rpcs, NEW c, NEW answer \in {"ok", "error"}
    PROVE  Returns(c, answer) \in Rpcs /\ Answered(c, answer) \in Rpcs
BY DEF Rpcs, Returns, Answered, Clients

\* So is a call that is being handled.
LEMMA HandledType ==
    ASSUME rpc \in Rpcs, NEW c \in Clients
    PROVE  [rpc EXCEPT ![c] = "handled"] \in Rpcs
BY DEF Rpcs

\* The records a job goes through.
LEMMA RecordTypes ==
    ASSUME NEW r \in JobRecords
    PROVE  /\ Ended(r) \in JobRecords
           /\ [r EXCEPT !.killed = TRUE] \in JobRecords
           /\ [r EXCEPT !.status = "over"] \in JobRecords
           /\ [r EXCEPT !.pc = "none"] \in JobRecords
           /\ [r EXCEPT !.pc = "none", !.status = "none"] \in JobRecords
           /\ [r EXCEPT !.pc = "launch", !.status = "init"] \in JobRecords
           /\ [r EXCEPT !.pc = "none", !.status = "over"] \in JobRecords
           /\ [r EXCEPT !.place = "root", !.assigned = TRUE] \in JobRecords
           /\ [r EXCEPT !.pc = "join", !.proc = "alive"] \in JobRecords
           /\ \A p \in {"none", "alive"} :
                 [r EXCEPT !.pc = "none", !.status = "over", !.proc = p] \in JobRecords
           /\ \A p \in {"service", "job", "root"} :
                 [r EXCEPT !.pc = "watch", !.status = "running", !.place = p] \in JobRecords
           /\ \A b \in BOOLEAN : [r EXCEPT !.killed = b] \in JobRecords
BY DEF JobRecords, Ended

\* A new job's record.
LEMMA NewRecordTypes ==
    /\ NewRecord \in JobRecords
    /\ \A c \in Runners : [NewRecord EXCEPT !.owner = c, !.pc = "create"] \in JobRecords
BY DEF JobRecords, NewRecord

\* CleanupCgroup starts a proper pair of goroutines.
LEMMA CleanupCgroupType ==
    ASSUME cleanup \in [Jobs \X Owners -> Cleanups], NEW j \in Jobs, NEW o \in Owners,
           CleanupCgroup(j, o)
    PROVE  cleanup' \in [Jobs \X Owners -> Cleanups]
<1>1. [outer |-> "wait", inner |-> "stat"] \in Cleanups
  BY DEF Cleanups
<1>2. cleanup' = [cleanup EXCEPT ![<<j, o>>] = [outer |-> "wait", inner |-> "stat"]]
  BY DEF CleanupCgroup
<1> QED
  BY <1>1, <1>2

\* The inner goroutine goes on,
LEMMA InnerGotoType ==
    ASSUME cleanup \in [Jobs \X Owners -> Cleanups], NEW k \in Jobs \X Owners,
           NEW pc \in {"none", "stat", "kill", "remove", "send"}, InnerGoto(k, pc)
    PROVE  cleanup' \in [Jobs \X Owners -> Cleanups]
BY DEF Cleanups, InnerGoto

\* or one or both of the two end.
LEMMA CleanupEndsType ==
    ASSUME cleanup \in [Jobs \X Owners -> Cleanups], NEW k \in Jobs \X Owners,
           \/ cleanup' = [cleanup EXCEPT ![k] = NoCleanup]
           \/ cleanup' = [cleanup EXCEPT ![k].outer = "none"]
    PROVE  cleanup' \in [Jobs \X Owners -> Cleanups]
BY DEF Cleanups, NoCleanup

\* Every step keeps the types.
LEMMA TypeStep == TypeInv /\ [Next]_vars => TypeInv'
<1> SUFFICES ASSUME TypeInv, [Next]_vars
             PROVE  TypeInv'
  OBVIOUS
<1> USE DEF TypeInv, Started
<1>1. CASE UNCHANGED vars
  BY <1>1 DEF vars, Typed
<1>2. CASE Start
  BY <1>2, ServerAssumption DEF Start, Typed
<1>3. ASSUME NEW w \in {"loaded", "gone", "created", "listening", "serving", "deaf", "draining"},
             worker # "off", Goto(w)
      PROVE  TypeInv'
  BY <1>3 DEF Goto, Typed
<1>4. CASE worker # "off" /\ Dies
  <2>1. job' \in [Jobs -> JobRecords]
    BY <1>4, RecordTypes DEF Dies, Typed
  <2>2. rpc' \in Rpcs
    <3>1. \A c \in Clients : Answered(c, "error") \in Rpcs
      BY ReturnsType DEF Typed
    <3> QED
      BY <1>4, <3>1 DEF Dies, Rpcs
  <2>3. cleanup' \in [Jobs \X Owners -> Cleanups]
    BY <1>4 DEF Dies, NoCleanup, Cleanups
  <2> QED
    BY <1>4, <2>1, <2>2, <2>3 DEF Dies, Typed
<1>5. CASE SystemdStops
  <2>1. job' \in [Jobs -> JobRecords]
    BY <1>5, RecordTypes DEF SystemdStops, Typed
  <2> QED
    BY <1>5, <2>1 DEF SystemdStops, Typed
<1>6. ASSUME NEW c \in Clients,
             Deadline(c) \/ Ask(c) \/ AnswerAsk(c) \/ OpenLog(c) \/ EndLog(c) \/ Interrupt(c)
      PROVE  TypeInv'
  <2>1. rpc' \in Rpcs
    <3>1. rpc' \in {Returns(c, "error"), Returns(c, "ok"), Answered(c, "ok"),
                    [rpc EXCEPT ![c] = "handled"]}
      BY <1>6 DEF Deadline, Ask, AnswerAsk, OpenLog, EndLog, Interrupt
    <3> QED
      BY <3>1, ReturnsType, HandledType DEF Typed
  <2>2. target' \in [Clients -> Jobs \cup {NoJob}]
    BY <1>6 DEF Deadline, Ask, AnswerAsk, OpenLog, EndLog, Interrupt, Typed
  <2> QED
    BY <1>6, <2>1, <2>2 DEF Deadline, Ask, AnswerAsk, OpenLog, EndLog, Interrupt, Typed
<1>7. ASSUME NEW c \in Runners, AcceptRun(c)
      PROVE  TypeInv'
  <2>1. counter' \in 0 .. MaxIds
    <3>1. counter \in 0 .. MaxIds /\ counter < MaxIds /\ counter' = counter + 1
      BY <1>7 DEF AcceptRun, Typed
    <3> QED
      BY <3>1, ServerAssumption
  <2>2. job' \in [Jobs -> JobRecords]
    BY <1>7, NewRecordTypes DEF AcceptRun, Typed
  <2>3. rpc' \in Rpcs
    BY <1>7, ReturnsType, HandledType DEF AcceptRun, Typed, Clients
  <2> QED
    BY <1>7, <2>1, <2>2, <2>3 DEF AcceptRun, Typed
<1>8. ASSUME NEW c \in Callers, AcceptStop(c)
      PROVE  TypeInv'
  <2>1. PICK i \in Ids :
           \/ /\ job[<<run, i>>].status = "running"
              /\ target' = [target EXCEPT ![c] = <<run, i>>]
              /\ rpc' = [rpc EXCEPT ![c] = "handled"]
              /\ job' = [job EXCEPT ![<<run, i>>].killed =
                            job[<<run, i>>].killed \/ Alive(<<run, i>>)]
           \/ rpc' = Returns(c, "error") /\ UNCHANGED <<job, target>>
    BY <1>8 DEF AcceptStop
  <2>2. c \in Clients
    BY DEF Clients
  <2>3. <<run, i>> \in Jobs
    BY <1>8 DEF AcceptStop, Connects, Accepting, Jobs, Typed
  <2>4. job' \in [Jobs -> JobRecords]
    <3>1. job[<<run, i>>] \in JobRecords /\ job[<<run, i>>].killed \in BOOLEAN
      BY <2>3 DEF Typed, JobRecords
    <3>2. (job[<<run, i>>].killed \/ Alive(<<run, i>>)) \in BOOLEAN
      OBVIOUS
    <3> QED
      BY <2>1, <3>1, <3>2, RecordTypes DEF Typed
  <2>5. rpc' \in Rpcs
    BY <2>1, <2>2, ReturnsType, HandledType DEF Typed
  <2>6. target' \in [Clients -> Jobs \cup {NoJob}]
    BY <2>1, <2>2, <2>3 DEF Typed
  <2> QED
    BY <1>8, <2>4, <2>5, <2>6 DEF AcceptStop, Typed
<1>9. ASSUME NEW c \in Callers, FinishStop(c)
      PROVE  TypeInv'
  <2>1. c \in Clients /\ c \in Owners
    BY DEF Clients, Owners
  <2>2. target[c] \in Jobs
    BY <1>9, <2>1 DEF FinishStop, Typed
  <2>3. job' \in [Jobs -> JobRecords]
    <3>1. job' = [job EXCEPT ![target[c]] = [job[target[c]] EXCEPT !.status = "over"]]
      BY <1>9 DEF FinishStop
    <3> QED
      BY <2>2, <3>1, RecordTypes DEF Typed
  <2>4. cleanup' \in [Jobs \X Owners -> Cleanups]
    BY <1>9, <2>1, <2>2, CleanupCgroupType DEF FinishStop, Typed
  <2>5. rpc' \in Rpcs
    BY <1>9, ReturnsType DEF FinishStop, Typed
  <2>6. target' \in [Clients -> Jobs \cup {NoJob}]
    BY <1>9, <2>1 DEF FinishStop, Typed
  <2> QED
    BY <1>9, <2>3, <2>4, <2>5, <2>6 DEF FinishStop, Typed
<1>10. ASSUME NEW j \in Jobs, CreateCgroup(j)
       PROVE  TypeInv'
  <2>1. job' \in [Jobs -> JobRecords]
    <3>1. PICK r \in {[job[j] EXCEPT !.pc = "launch", !.status = "init"], [job[j] EXCEPT !.pc = "none"]} :
             job' = [job EXCEPT ![j] = r]
      BY <1>10 DEF CreateCgroup, Typed
    <3>2. job[j] \in JobRecords
      BY DEF Typed
    <3>3. r \in JobRecords
      BY <3>1, <3>2, RecordTypes
    <3> QED
      BY <3>1, <3>3 DEF Typed
  <2>2. rpc' \in Rpcs
    BY <1>10, ReturnsType DEF CreateCgroup, Typed
  <2>3. dirs' \subseteq Ids
    BY <1>10 DEF CreateCgroup, Typed, Jobs
  <2> QED
    BY <1>10, <2>1, <2>2, <2>3 DEF CreateCgroup, Typed
<1>11. ASSUME NEW j \in Jobs, Launch(j)
       PROVE  TypeInv'
  <2>1. job' \in [Jobs -> JobRecords]
    <3>1. PICK r \in {[job[j] EXCEPT !.pc = "join", !.proc = "alive"],
                      [job[j] EXCEPT !.pc = "none", !.status = "over", !.proc = "none"],
                      [job[j] EXCEPT !.pc = "none", !.status = "over", !.proc = "alive"]} :
             job' = [job EXCEPT ![j] = r]
      BY <1>11 DEF Launch, Typed
    <3>2. job[j] \in JobRecords
      BY DEF Typed
    <3>3. r \in JobRecords
      BY <3>1, <3>2, RecordTypes
    <3> QED
      BY <3>1, <3>3 DEF Typed
  <2>2. rpc' \in Rpcs
    BY <1>11, ReturnsType DEF Launch, Typed
  <2>3. cleanup' \in [Jobs \X Owners -> Cleanups]
    <3>1. cleanup' = cleanup \/ CleanupCgroup(j, "worker")
      BY <1>11 DEF Launch
    <3> QED
      BY <3>1, CleanupCgroupType DEF Owners, Typed
  <2> QED
    BY <1>11, <2>1, <2>2, <2>3 DEF Launch, Typed
<1>12. ASSUME NEW j \in Jobs, Join(j)
       PROVE  TypeInv'
  <2>1. job' \in [Jobs -> JobRecords]
    <3>1. job[j].place \in {"service", "job", "root"}
      BY DEF Typed, JobRecords
    <3>2. PICK p \in {"service", "job", "root"} :
             job' = [job EXCEPT ![j] =
                        [job[j] EXCEPT !.pc = "watch", !.status = "running", !.place = p]]
      BY <1>12, <3>1 DEF Join, Typed
    <3>3. job[j] \in JobRecords
      BY DEF Typed
    <3>4. [job[j] EXCEPT !.pc = "watch", !.status = "running", !.place = p] \in JobRecords
      BY <3>2, <3>3, RecordTypes
    <3> QED
      BY <3>2, <3>4 DEF Typed
  <2>2. rpc' \in Rpcs
    BY <1>12, ReturnsType DEF Join, Typed
  <2> QED
    BY <1>12, <2>1, <2>2 DEF Join, Typed
<1>13. ASSUME NEW j \in Jobs, ChildAssigns(j) \/ ProcEnds(j)
       PROVE  TypeInv'
  <2>1. PICK r \in {[job[j] EXCEPT !.place = "root", !.assigned = TRUE], Ended(job[j])} :
           job' = [job EXCEPT ![j] = r]
    BY <1>13 DEF ChildAssigns, ProcEnds, Typed
  <2>2. job' \in [Jobs -> JobRecords]
    <3>1. job[j] \in JobRecords
      BY DEF Typed
    <3>2. r \in JobRecords
      BY <2>1, <3>1, RecordTypes
    <3> QED
      BY <2>1, <3>2 DEF Typed
  <2> QED
    BY <1>13, <2>2 DEF ChildAssigns, ProcEnds, Typed
<1>14. ASSUME NEW j \in Jobs, MonitorJob(j)
       PROVE  TypeInv'
  <2>1. job' = [job EXCEPT ![j] = [job[j] EXCEPT !.pc = "none", !.status = "over"]]
    BY <1>14 DEF MonitorJob, Typed
  <2>2. job' \in [Jobs -> JobRecords]
    BY <2>1, RecordTypes DEF Typed
  <2>3. cleanup' \in [Jobs \X Owners -> Cleanups]
    BY <1>14, CleanupCgroupType DEF MonitorJob, Owners, Typed
  <2> QED
    BY <1>14, <2>2, <2>3 DEF MonitorJob, Typed
<1>15. ASSUME NEW k \in Jobs \X Owners, CleanerKill(k)
       PROVE  TypeInv'
  <2>1. job' \in [Jobs -> JobRecords]
    <3>1. \A j \in Jobs : /\ job[j] \in JobRecords
                          /\ [job[j] EXCEPT !.killed = TRUE] \in JobRecords
                          /\ Ended(job[j]) \in JobRecords
      BY RecordTypes DEF Typed
    <3>2. CASE job' = [j \in Jobs |-> IF j \in InDir(k[1][2], job)
                                     THEN [job[j] EXCEPT !.killed = TRUE] ELSE job[j]]
      BY <3>1, <3>2
    <3>3. CASE \E j \in InDir(k[1][2], job) : job' = [job EXCEPT ![j] = Ended(job[j])]
      BY <3>1, <3>3 DEF InDir, Typed
    <3> QED
      BY <1>15, <3>2, <3>3 DEF CleanerKill
  <2>2. cleanup' \in [Jobs \X Owners -> Cleanups]
    BY <1>15, InnerGotoType DEF CleanerKill, Typed
  <2> QED
    BY <1>15, <2>1, <2>2 DEF CleanerKill, Typed
<1>16. ASSUME NEW k \in Jobs \X Owners,
              CleanerStat(k) \/ CleanerRemove(k) \/ CleanerDone(k) \/ CleanerTimeout(k)
       PROVE  TypeInv'
  <2>1. cleanup' \in [Jobs \X Owners -> Cleanups]
    <3>1. \/ \E pc \in {"kill", "send"} : InnerGoto(k, pc)
          \/ cleanup' = [cleanup EXCEPT ![k] = NoCleanup]
          \/ cleanup' = [cleanup EXCEPT ![k].outer = "none"]
      BY <1>16 DEF CleanerStat, CleanerRemove, CleanerDone, CleanerTimeout
    <3>2. cleanup \in [Jobs \X Owners -> Cleanups]
      BY DEF Typed
    <3>3. CASE \E pc \in {"kill", "send"} : InnerGoto(k, pc)
      BY <3>2, <3>3, InnerGotoType
    <3>4. CASE \/ cleanup' = [cleanup EXCEPT ![k] = NoCleanup]
               \/ cleanup' = [cleanup EXCEPT ![k].outer = "none"]
      BY <3>2, <3>4, CleanupEndsType
    <3> QED
      BY <3>1, <3>3, <3>4
  <2> QED
    BY <1>16, <2>1 DEF CleanerStat, CleanerRemove, CleanerDone, CleanerTimeout, Typed
<1>17. CASE Main \/ NewPlatformWorker \/ StartGRPCServer \/ RunServer \/ ServeFails \/ Crash \/ Signal
            \/ GracefulStop
  BY <1>3, <1>4, <1>17
  DEF Main, NewPlatformWorker, StartGRPCServer, RunServer, ServeFails, Crash, Signal, GracefulStop, Up
<1> QED
  BY <1>1, <1>2, <1>5, <1>6, <1>7, <1>8, <1>9, <1>10, <1>11, <1>12, <1>13, <1>14, <1>15, <1>16, <1>17
  DEF Next, HandlerStep, CleanerStep, Clients

\* Nothing has happened initially.
LEMMA InitTypes == Init => TypeInv
<1> SUFFICES ASSUME Init PROVE TypeInv
  OBVIOUS
<1>1. 0 \in 0 .. MaxRuns /\ 0 \in 0 .. MaxIds
  BY ServerAssumption
<1>2. NoCleanup \in Cleanups
  BY DEF NoCleanup, Cleanups
<1>3. [c \in Clients |-> "queued"] \in Rpcs
  BY DEF Rpcs
<1> QED
  BY <1>1, <1>2, <1>3, NewRecordTypes DEF Init, TypeInv, Typed, Started

\* Type correctness of every reachable state.
THEOREM TypeCorrect == Spec => []TypeOK
<1>1. TypeInv => TypeOK
  BY Types DEF TypeInv
<1> QED
  BY <1>1, InitTypes, TypeStep, PTL DEF Spec

-----------------------------------------------------------------------------
(* The inductive invariant *)

\* Ids not given yet: those of later runs and the rest of this one's.
Fresh(j) == j[1] > run \/ (j[1] = run /\ j[2] > counter)

\* Nothing is known of such an id, and no handler works on one.
FreshInv ==
    /\ \A j \in Jobs : Fresh(j) => job[j] = NewRecord
    /\ \A c \in Clients : target[c] # NoJob => ~Fresh(target[c])

\* A handler or monitor works for the client that owns the job; until the
\* launch there is no process, from the join on there was one.
HandlerInv ==
    \A j \in Jobs :
        /\ job[j].pc # "none" => job[j].owner # Nobody
        /\ job[j].pc \in {"create", "launch"} => job[j].proc = "none"
        /\ job[j].pc \in {"join", "watch"} => job[j].proc # "none"

\* One job per client, none before its call was taken, and an answer only when
\* the process was started.
OwnerInv ==
    /\ \A j, k \in Jobs : job[j].owner = job[k].owner /\ job[j].owner # Nobody => j = k
    /\ \A c \in Runners : rpc[c] = "queued" => \A j \in Jobs : job[j].owner # c
    /\ \A c \in Runners : rpc[c] = "ok" => \E j \in Jobs : job[j].owner = c /\ job[j].proc # "none"

\* systemd leaves nothing of a run behind but what is in the root cgroup.
ProcessInv ==
    /\ NoForeignProcess
    /\ worker = "off" => \A j \in Jobs : Alive(j) => job[j].place = "root"

\* A directory belongs to an id this run has given, and not to one whose
\* directory is still to be made.
DirectoryInv ==
    /\ worker = "off" => dirs = {}
    /\ \A i \in dirs : i <= counter
    /\ \A j \in Jobs : j[1] = run /\ job[j].pc = "create" => j[2] \notin dirs

ServerInv ==
    TypeInv /\ FreshInv /\ HandlerInv /\ OwnerInv /\ ProcessInv /\ DirectoryInv

\* What a step may do to job j, short of giving it an id: its owner stays, a
\* process stays known, and only a handler of this run brings a process into
\* the worker's cgroups.
Follows(j) ==
    /\ job'[j].owner = job[j].owner
    /\ job[j].proc # "none" => job'[j].proc # "none"
    /\ job'[j].pc # "none" => job[j].pc # "none"
    /\ job'[j].pc = "create" => job[j].pc = "create"
    /\ job'[j].pc \in {"create", "launch"} => job'[j].proc = "none"
    /\ job'[j].pc \in {"join", "watch"} => job'[j].proc # "none"
    /\ job'[j].proc = "alive" /\ job'[j].place # "root" =>
          \/ job[j].proc = "alive" /\ job[j].place # "root"
          \/ j[1] = run /\ worker # "off"
    /\ Fresh(j) => job'[j] = job[j]

\* A job that is left alone does all of this.
LEMMA StayFollows ==
    ASSUME ServerInv, NEW j \in Jobs, job'[j] = job[j]
    PROVE  Follows(j)
BY DEF ServerInv, HandlerInv, Follows

\* A job that has a handler, a status or a process has an id.
LEMMA NotFresh ==
    ASSUME ServerInv, NEW j \in Jobs,
           job[j].pc # "none" \/ job[j].status # "none" \/ job[j].proc # "none"
    PROVE  ~Fresh(j)
BY DEF ServerInv, FreshInv, NewRecord

\* A step of jobs and clients in which no id is given keeps the invariant.
LEMMA Moves ==
    ASSUME ServerInv, TypeInv', run' = run, counter' = counter,
           \A j \in Jobs : Follows(j),
           worker' = "off" =>
               \/ worker = "off"
               \/ dirs' = {} /\ \A j \in Jobs : job'[j].proc = "alive" => job'[j].place = "root",
           \A i \in dirs' :
               \/ i \in dirs
               \/ /\ i <= counter /\ worker # "off"
                  /\ \A j \in Jobs : j[1] = run /\ j[2] = i => job'[j].pc # "create",
           \A c \in Runners : rpc'[c] = "queued" => rpc[c] = "queued",
           \A c \in Runners : rpc'[c] = "ok" =>
               rpc[c] = "ok" \/ \E j \in Jobs : job[j].owner = c /\ job'[j].proc # "none",
           \A c \in Clients : target'[c] # NoJob => target'[c] = target[c] \/ ~Fresh(target'[c])
    PROVE  ServerInv'
<1>1. \A j : Fresh(j)' <=> Fresh(j)
  BY DEF Fresh
<1>2. FreshInv'
  <2>1. \A j \in Jobs : Fresh(j) => job'[j] = NewRecord
    BY DEF ServerInv, FreshInv, Follows
  <2>2. \A c \in Clients : target'[c] # NoJob => ~Fresh(target'[c])
    BY DEF ServerInv, FreshInv
  <2> QED
    BY <2>1, <2>2 DEF FreshInv, Fresh
<1>3. HandlerInv'
  BY DEF ServerInv, HandlerInv, Follows
<1>4. OwnerInv'
  <2>1. \A j, k \in Jobs : job'[j].owner = job'[k].owner /\ job'[j].owner # Nobody => j = k
    BY DEF ServerInv, OwnerInv, Follows
  <2>2. \A c \in Runners : rpc'[c] = "queued" => \A j \in Jobs : job'[j].owner # c
    BY DEF ServerInv, OwnerInv, Follows
  <2>3. \A c \in Runners : rpc'[c] = "ok" => \E j \in Jobs : job'[j].owner = c /\ job'[j].proc # "none"
    BY DEF ServerInv, OwnerInv, Follows
  <2> QED
    BY <2>1, <2>2, <2>3 DEF OwnerInv
<1>5. ProcessInv'
  BY DEF ServerInv, ProcessInv, NoForeignProcess, Alive, Follows
<1>6. DirectoryInv'
  <2>1. worker' = "off" => dirs' = {}
    BY DEF ServerInv, DirectoryInv
  <2>2. \A i \in dirs' : i <= counter'
    BY DEF ServerInv, DirectoryInv
  <2>3. \A j \in Jobs : j[1] = run' /\ job'[j].pc = "create" => j[2] \notin dirs'
    BY DEF ServerInv, DirectoryInv, Follows
  <2> QED
    BY <2>1, <2>2, <2>3 DEF DirectoryInv
<1> QED
  BY <1>2, <1>3, <1>4, <1>5, <1>6 DEF ServerInv

\* The same for a step that moves no job.
LEMMA JobsStay ==
    ASSUME ServerInv, TypeInv', run' = run, counter' = counter, job' = job, dirs' \subseteq dirs,
           worker' = "off" => worker = "off",
           \A c \in Runners : rpc'[c] \in {"queued", "ok"} => rpc'[c] = rpc[c],
           \A c \in Clients : target'[c] # NoJob => target'[c] = target[c] \/ ~Fresh(target'[c])
    PROVE  ServerInv'
<1>1. \A j \in Jobs : Follows(j)
  BY StayFollows
<1> QED
  BY <1>1, Moves

\* What an answer does to the runners: nobody is queued again, and a call that
\* was handled ends with the answer.
LEMMA AnswerEffect ==
    ASSUME rpc \in Rpcs, NEW c, NEW answer \in {"ok", "error"}, NEW d \in Runners
    PROVE  /\ Returns(c, answer)[d] = IF d = c THEN answer ELSE rpc[d]
           /\ Answered(c, answer)[d] = IF d = c /\ rpc[d] = "handled" THEN answer ELSE rpc[d]
BY DEF Rpcs, Returns, Answered, Clients

\* systemd starts the worker: nothing is left that a new run could take for its
\* own.
LEMMA StartStep ==
    ASSUME ServerInv, TypeInv', Start
    PROVE  ServerInv'
<1>1. /\ worker = "off" /\ worker' = "boot" /\ run' = run + 1 /\ counter' = 0
      /\ job' = job /\ dirs' = dirs /\ rpc' = rpc /\ target' = target
  BY DEF Start
<1>2. run \in Nat /\ counter \in Nat /\ \A j \in Jobs : j[1] \in Nat /\ j[2] \in Nat
  BY ServerAssumption DEF ServerInv, TypeInv, Typed, Jobs, Ids
<1>3. \A j \in Jobs : Fresh(j)' => Fresh(j)
  BY <1>1, <1>2 DEF Fresh
<1>4. NoJob \notin Jobs
  BY DEF NoJob, Jobs
<1>5. \A c \in Clients : target[c] # NoJob => target[c] \in Jobs
  BY DEF ServerInv, TypeInv, Typed
<1>6. FreshInv'
  BY <1>1, <1>3, <1>5 DEF ServerInv, FreshInv, Fresh
<1>7. HandlerInv' /\ OwnerInv'
  BY <1>1 DEF ServerInv, HandlerInv, OwnerInv
<1>8. ProcessInv'
  BY <1>1 DEF ServerInv, ProcessInv, NoForeignProcess, Alive
<1>9. DirectoryInv'
  BY <1>1 DEF ServerInv, DirectoryInv
<1> QED
  BY <1>6, <1>7, <1>8, <1>9 DEF ServerInv

\* A call reaches the worker: the id it gets, or loses, is one nothing is known
\* of, and its client has no other job.
LEMMA AcceptRunStep ==
    ASSUME ServerInv, TypeInv', NEW c \in Runners, AcceptRun(c)
    PROVE  ServerInv'
<1> DEFINE new == <<run, counter + 1>>
<1>1. /\ worker' = worker /\ run' = run /\ counter' = counter + 1 /\ dirs' = dirs /\ target' = target
      /\ worker # "off" /\ rpc[c] = "queued" /\ counter < MaxIds
  BY DEF AcceptRun, Connects, Accepting
<1>2. run \in Nat /\ counter \in Nat /\ \A j \in Jobs : j[1] \in Nat /\ j[2] \in Nat
  BY ServerAssumption DEF ServerInv, TypeInv, Typed, Jobs, Ids
<1>3. new \in Jobs
  <2>1. run \in 1 .. MaxRuns
    BY <1>1 DEF ServerInv, TypeInv, Typed, Started
  <2>2. counter + 1 \in Ids
    BY <1>1, <1>2, ServerAssumption DEF Ids
  <2> QED
    BY <2>1, <2>2 DEF Jobs
<1>4. \A j \in Jobs : Fresh(j)' => Fresh(j) /\ j # new
  BY <1>1, <1>2 DEF Fresh
<1>5. job[new] = NewRecord
  <2>1. Fresh(new)
    BY <1>2 DEF Fresh
  <2> QED
    BY <1>3, <2>1 DEF ServerInv, FreshInv
<1>6. \A d \in Clients : target[d] # NoJob => target[d] \in Jobs
  BY DEF ServerInv, TypeInv, Typed
<1>7. rpc \in Rpcs /\ job \in [Jobs -> JobRecords]
  BY DEF ServerInv, TypeInv, Typed
<1>8. CASE job' = job /\ rpc' = Returns(c, "error")
  <2>1. \A d \in Runners : rpc'[d] = IF d = c THEN "error" ELSE rpc[d]
    BY <1>7, <1>8, AnswerEffect
  <2>2. FreshInv'
    BY <1>1, <1>4, <1>6, <1>8 DEF ServerInv, FreshInv, Fresh
  <2>3. HandlerInv' /\ OwnerInv'
    BY <1>8, <2>1 DEF ServerInv, HandlerInv, OwnerInv
  <2>4. ProcessInv'
    BY <1>1, <1>8 DEF ServerInv, ProcessInv, NoForeignProcess, Alive
  <2>5. DirectoryInv'
    <3>1. \A i \in dirs : i \in Nat
      BY DEF ServerInv, TypeInv, Typed, Ids
    <3> QED
      BY <1>1, <1>2, <1>8, <3>1 DEF ServerInv, DirectoryInv
  <2> QED
    BY <2>2, <2>3, <2>4, <2>5 DEF ServerInv
<1>9. CASE /\ job' = [job EXCEPT ![new] = [NewRecord EXCEPT !.owner = c, !.pc = "create"]]
           /\ rpc' = [rpc EXCEPT ![c] = "handled"]
  <2>1. /\ job'[new] = [NewRecord EXCEPT !.owner = c, !.pc = "create"]
        /\ \A j \in Jobs \ {new} : job'[j] = job[j]
    BY <1>3, <1>7, <1>9
  <2>2. job'[new].owner = c /\ job'[new].pc = "create" /\ job'[new].proc = "none"
    BY <2>1 DEF NewRecord
  <2>3. job[new].owner = Nobody /\ job[new].proc = "none"
    BY <1>5 DEF NewRecord
  <2>4. \A d \in Runners : rpc'[d] = IF d = c THEN "handled" ELSE rpc[d]
    BY <1>7, <1>9 DEF Rpcs, Clients
  <2>5. FreshInv'
    <3>1. \A j \in Jobs : Fresh(j)' => job'[j] = NewRecord
      BY <1>4, <2>1 DEF ServerInv, FreshInv
    <3>2. \A d \in Clients : target'[d] # NoJob => ~Fresh(target[d])'
      BY <1>1, <1>4, <1>6 DEF ServerInv, FreshInv, Fresh
    <3> QED
      BY <3>1, <3>2 DEF FreshInv
  <2>6. HandlerInv'
    BY <2>1, <2>2, ClientsAssumption DEF ServerInv, HandlerInv
  <2>7. \A j \in Jobs : job[j].owner # c
    BY <1>1 DEF ServerInv, OwnerInv
  <2>8. OwnerInv'
    <3>0. \A j \in Jobs : job'[j].owner = IF j = new THEN c ELSE job[j].owner
      BY <2>1, <2>2
    <3> HIDE DEF new
    <3>1. \A j, k \in Jobs : job'[j].owner = job'[k].owner /\ job'[j].owner # Nobody => j = k
      BY <2>7, <3>0 DEF ServerInv, OwnerInv
    <3>2. \A d \in Runners : rpc'[d] = "queued" => \A j \in Jobs : job'[j].owner # d
      BY <2>4, <3>0 DEF ServerInv, OwnerInv
    <3>3. \A d \in Runners : rpc'[d] = "ok" =>
             \E j \in Jobs : job'[j].owner = d /\ job'[j].proc # "none"
      BY <2>1, <2>3, <2>4 DEF ServerInv, OwnerInv
    <3> QED
      BY <3>1, <3>2, <3>3 DEF OwnerInv
  <2>9. ProcessInv'
    BY <1>1, <2>1, <2>2 DEF ServerInv, ProcessInv, NoForeignProcess, Alive
  <2>10. DirectoryInv'
    <3>1. \A i \in dirs : i \in Nat /\ i <= counter
      BY DEF ServerInv, TypeInv, Typed, Ids, DirectoryInv
    <3>2. new[1] = run /\ new[2] = counter + 1 /\ counter + 1 \notin dirs
      BY <1>2, <3>1
    <3> QED
      BY <1>1, <1>2, <2>1, <3>1, <3>2 DEF ServerInv, DirectoryInv
  <2> QED
    BY <2>5, <2>6, <2>8, <2>9, <2>10 DEF ServerInv
<1> QED
  BY <1>1, <1>8, <1>9 DEF AcceptRun

\* A step of one job that has an id.
LEMMA OneJobMoves ==
    ASSUME ServerInv, NEW j \in Jobs, NEW r, job' = [job EXCEPT ![j] = r], Follows(j)
    PROVE  /\ job'[j] = r
           /\ \A k \in Jobs : Follows(k)
<1>1. job'[j] = r /\ \A k \in Jobs \ {j} : job'[k] = job[k]
  BY DEF ServerInv, TypeInv, Typed
<1> QED
  BY <1>1, StayFollows

\* The record of the one job that moves.
LEMMA MovedRecord ==
    ASSUME ServerInv, NEW j \in Jobs, NEW r, job' = [job EXCEPT ![j] = r]
    PROVE  job'[j] = r /\ job[j] \in JobRecords
BY DEF ServerInv, TypeInv, Typed

\* The process ends or is ended.
LEMMA EndedFollows ==
    ASSUME ServerInv, NEW j \in Jobs, job'[j] = Ended(job[j]), job[j].proc = "alive"
    PROVE  Follows(j)
<1>1. job[j] \in JobRecords
  BY DEF ServerInv, TypeInv, Typed
<1>2. /\ job'[j].owner = job[j].owner /\ job'[j].proc = "over" /\ job'[j].pc = job[j].pc
  BY <1>1 DEF Ended, JobRecords
<1>3. ~Fresh(j) /\ job[j].pc \notin {"create", "launch"}
  BY NotFresh DEF ServerInv, HandlerInv
<1> QED
  BY <1>2, <1>3 DEF Follows

\* The handler of RunJob.
LEMMA HandlerStepKeeps ==
    ASSUME ServerInv, TypeInv', NEW j \in Jobs, HandlerStep(j)
    PROVE  ServerInv'
<1>1. /\ job[j].pc \in {"create", "launch", "join"} /\ j[1] = run /\ worker # "off"
      /\ worker' = worker /\ run' = run /\ counter' = counter /\ target' = target
  BY DEF HandlerStep, CreateCgroup, Launch, Join, Mine, Up
<1>2. ~Fresh(j)
  BY <1>1, NotFresh
<1>3. j[2] <= counter
  BY <1>1, <1>2, ServerAssumption DEF Fresh, ServerInv, TypeInv, Typed, Jobs, Ids
<1>4. rpc \in Rpcs /\ job[j] \in JobRecords /\ job \in [Jobs -> JobRecords]
  BY DEF ServerInv, TypeInv, Typed
<1>5. CASE CreateCgroup(j)
  <2>1. PICK r \in {[job[j] EXCEPT !.pc = "launch", !.status = "init"], [job[j] EXCEPT !.pc = "none"]} :
           job' = [job EXCEPT ![j] = r]
    BY <1>4, <1>5 DEF CreateCgroup
  <2>2. job'[j] = r
    BY <2>1, MovedRecord
  <2>3. /\ r.owner = job[j].owner /\ r.proc = job[j].proc /\ r.place = job[j].place
        /\ r.pc \in {"launch", "none"}
    BY <1>4, <2>1 DEF JobRecords
  <2>4. job[j].pc = "create" /\ job[j].proc = "none"
    BY <1>5 DEF CreateCgroup, ServerInv, HandlerInv
  <2>5. Follows(j)
    BY <1>2, <2>2, <2>3, <2>4 DEF Follows
  <2>6. \A k \in Jobs : Follows(k)
    BY <2>1, <2>5, OneJobMoves
  <2>7. \A i \in dirs' : i \in dirs \/ i = j[2]
    BY <1>5 DEF CreateCgroup
  <2>8. \A k \in Jobs : k[1] = run /\ k[2] = j[2] => k = j
    BY <1>1 DEF Jobs
  <2>9. \A c \in Runners : rpc'[c] = rpc[c] \/ rpc'[c] = "error"
    BY <1>4, <1>5, AnswerEffect DEF CreateCgroup
  <2> QED
    BY <1>1, <1>3, <2>2, <2>3, <2>6, <2>7, <2>8, <2>9, Moves
<1>6. CASE Launch(j)
  <2>1. PICK r \in {[job[j] EXCEPT !.pc = "join", !.proc = "alive"],
                    [job[j] EXCEPT !.pc = "none", !.status = "over", !.proc = "none"],
                    [job[j] EXCEPT !.pc = "none", !.status = "over", !.proc = "alive"]} :
           job' = [job EXCEPT ![j] = r]
    BY <1>4, <1>6 DEF Launch
  <2>2. job'[j] = r
    BY <2>1, MovedRecord
  <2>3. /\ r.owner = job[j].owner
        /\ r.pc = "none" \/ (r.pc = "join" /\ r.proc = "alive")
    BY <1>4, <2>1 DEF JobRecords
  <2>4. job[j].pc = "launch" /\ job[j].proc = "none"
    BY <1>6 DEF Launch, ServerInv, HandlerInv
  <2>5. Follows(j)
    BY <1>1, <1>2, <2>2, <2>3, <2>4 DEF Follows
  <2>6. \A k \in Jobs : Follows(k)
    BY <2>1, <2>5, OneJobMoves
  <2>7. dirs' = dirs
    BY <1>6 DEF Launch
  <2>8. \A c \in Runners : rpc'[c] = rpc[c] \/ rpc'[c] = "error"
    BY <1>4, <1>6, AnswerEffect DEF Launch
  <2> QED
    BY <1>1, <2>6, <2>7, <2>8, Moves
<1>7. CASE Join(j)
  <2>1. PICK p \in {"service", "job", "root"} :
           job' = [job EXCEPT ![j] = [job[j] EXCEPT !.pc = "watch", !.status = "running", !.place = p]]
    <3>1. job[j].place \in {"service", "job", "root"}
      BY <1>4 DEF JobRecords
    <3> QED
      BY <1>4, <1>7, <3>1 DEF Join
  <2> DEFINE r == [job[j] EXCEPT !.pc = "watch", !.status = "running", !.place = p]
  <2>2. job'[j] = r
    BY <2>1, MovedRecord
  <2>3. r.owner = job[j].owner /\ r.proc = job[j].proc /\ r.pc = "watch"
    BY <1>4 DEF JobRecords
  <2>4. job[j].pc = "join" /\ job[j].proc # "none"
    BY <1>7 DEF Join, ServerInv, HandlerInv
  <2>5. Follows(j)
    BY <1>1, <1>2, <2>2, <2>3, <2>4 DEF Follows
  <2>6. \A k \in Jobs : Follows(k)
    BY <2>1, <2>5, OneJobMoves
  <2>7. dirs' = dirs
    BY <1>7 DEF Join
  <2>8. \A c \in Runners : rpc'[c] = rpc[c] \/ (rpc'[c] = "ok" /\ job[j].owner = c)
    BY <1>4, <1>7, AnswerEffect DEF Join
  <2>9. job'[j].proc # "none"
    BY <2>2, <2>3, <2>4
  <2> HIDE DEF r
  <2> QED
    BY <1>1, <2>6, <2>7, <2>8, <2>9, Moves
<1> QED
  BY <1>5, <1>6, <1>7 DEF HandlerStep

\* The child and the monitor.
LEMMA ProcessStepKeeps ==
    ASSUME ServerInv, TypeInv', NEW j \in Jobs, ChildAssigns(j) \/ ProcEnds(j) \/ MonitorJob(j)
    PROVE  ServerInv'
<1>1. /\ worker' = worker /\ run' = run /\ counter' = counter /\ target' = target
      /\ dirs' = dirs /\ rpc' = rpc
  BY DEF ChildAssigns, ProcEnds, MonitorJob
<1>2. job[j].proc # "none"
  BY DEF ChildAssigns, ProcEnds, MonitorJob, Alive
<1>3. ~Fresh(j) /\ job[j].pc \notin {"create", "launch"}
  BY <1>2, NotFresh DEF ServerInv, HandlerInv
<1>4. job[j] \in JobRecords
  BY DEF ServerInv, TypeInv, Typed
<1>5. SUFFICES \A k \in Jobs : Follows(k)
  BY <1>1, Moves
<1>6. CASE ChildAssigns(j)
  <2>1. job' = [job EXCEPT ![j] = [job[j] EXCEPT !.place = "root", !.assigned = TRUE]]
    BY <1>6 DEF ChildAssigns
  <2>2. /\ job'[j].owner = job[j].owner /\ job'[j].proc = job[j].proc /\ job'[j].pc = job[j].pc
        /\ job'[j].place = "root"
    <3>1. job'[j] = [job[j] EXCEPT !.place = "root", !.assigned = TRUE]
      BY <2>1, MovedRecord
    <3> QED
      BY <1>4, <3>1 DEF JobRecords
  <2>3. Follows(j)
    BY <1>2, <1>3, <2>2 DEF Follows
  <2> QED
    BY <2>1, <2>3, OneJobMoves
<1>7. CASE ProcEnds(j)
  <2>1. job' = [job EXCEPT ![j] = Ended(job[j])] /\ job[j].proc = "alive"
    BY <1>7 DEF ProcEnds, Alive
  <2>2. Follows(j)
    BY <2>1, MovedRecord, EndedFollows
  <2> QED
    BY <2>1, <2>2, OneJobMoves
<1>8. CASE MonitorJob(j)
  <2>1. job' = [job EXCEPT ![j] = [job[j] EXCEPT !.pc = "none", !.status = "over"]]
    BY <1>8 DEF MonitorJob
  <2>2. /\ job'[j].owner = job[j].owner /\ job'[j].proc = job[j].proc /\ job'[j].pc = "none"
        /\ job'[j].place = job[j].place
    <3>1. job'[j] = [job[j] EXCEPT !.pc = "none", !.status = "over"]
      BY <2>1, MovedRecord
    <3> QED
      BY <1>4, <3>1 DEF JobRecords
  <2>3. Follows(j)
    BY <1>2, <1>3, <2>2 DEF Follows
  <2> QED
    BY <2>1, <2>3, OneJobMoves
<1> QED
  BY <1>6, <1>7, <1>8

\* The worker process ends: its records are gone, the processes of its jobs are
\* not.
LEMMA DiesStep ==
    ASSUME ServerInv, TypeInv', Dies
    PROVE  ServerInv'
<1>1. /\ worker' = "gone" /\ run' = run /\ counter' = counter /\ dirs' = dirs
      /\ \A c \in Clients : target'[c] = NoJob
  BY DEF Dies
<1>2. \A c \in Runners : rpc'[c] = rpc[c] \/ rpc'[c] = "error"
  <2>1. \A c \in Runners : rpc'[c] = Answered(c, "error")[c]
    BY DEF Dies, Clients
  <2>2. rpc \in Rpcs
    BY DEF ServerInv, TypeInv, Typed
  <2> QED
    BY <2>1, <2>2, AnswerEffect
<1>3. \A j \in Jobs : Follows(j)
  <2> TAKE j \in Jobs
  <2>1. job[j] \in JobRecords
    BY DEF ServerInv, TypeInv, Typed
  <2>2. CASE j[1] # run
    BY <2>2, StayFollows DEF Dies
  <2>3. CASE j[1] = run
    <3>1. job'[j] = [job[j] EXCEPT !.pc = "none", !.status = "none"]
      BY <2>3 DEF Dies
    <3>2. /\ job'[j].owner = job[j].owner /\ job'[j].proc = job[j].proc
          /\ job'[j].place = job[j].place /\ job'[j].pc = "none"
      BY <2>1, <3>1 DEF JobRecords
    <3>3. Fresh(j) => job'[j] = job[j]
      <4>1. Fresh(j) => job[j] = NewRecord
        BY DEF ServerInv, FreshInv
      <4>2. NewRecord.pc = "none" /\ NewRecord.status = "none"
        BY DEF NewRecord
      <4> QED
        BY <2>1, <3>1, <4>1, <4>2 DEF JobRecords
    <3> QED
      BY <3>2, <3>3 DEF Follows
  <2> QED
    BY <2>2, <2>3
<1> QED
  BY <1>1, <1>2, <1>3, Moves

\* systemd clears the service's control group away.
LEMMA SystemdStep ==
    ASSUME ServerInv, TypeInv', SystemdStops
    PROVE  ServerInv'
<1>1. /\ worker' = "off" /\ run' = run /\ counter' = counter /\ rpc' = rpc /\ target' = target
      /\ \A j \in Jobs : job'[j] = IF job[j].proc = "alive" /\ job[j].place # "root"
                                   THEN Ended(job[j]) ELSE job[j]
      /\ dirs' = {i \in dirs : InDir(i, job') # {}}
  BY DEF SystemdStops, Alive
<1>2. \A j \in Jobs : Follows(j)
  BY <1>1, StayFollows, EndedFollows
<1>3. \A j \in Jobs : job'[j].proc = "alive" => job'[j].place = "root"
  <2>1. \A j \in Jobs : Ended(job[j]).proc = "over"
    BY DEF ServerInv, TypeInv, Typed, JobRecords, Ended
  <2> QED
    BY <1>1, <2>1
<1>4. dirs' = {}
  BY <1>1, <1>3 DEF InDir
<1> QED
  BY <1>1, <1>2, <1>3, <1>4, Moves

\* Steps of the worker process that touch no job.
LEMMA GotoStep ==
    ASSUME ServerInv, TypeInv', NEW w, w # "off", Goto(w)
    PROVE  ServerInv'
BY JobsStay DEF Goto

\* The calls that touch no job.
LEMMA ClientStepKeeps ==
    ASSUME ServerInv, TypeInv', NEW c \in Clients,
           \/ c \in Runners \cup Callers /\ Deadline(c)
           \/ c \in Callers /\ (Ask(c) \/ AnswerAsk(c))
           \/ c \in Loggers /\ (OpenLog(c) \/ EndLog(c) \/ Interrupt(c))
    PROVE  ServerInv'
<1>1. /\ worker' = worker /\ run' = run /\ counter' = counter /\ job' = job /\ dirs' = dirs
  BY DEF Deadline, Ask, AnswerAsk, OpenLog, EndLog, Interrupt
<1>2. rpc \in Rpcs /\ target \in [Clients -> Jobs \cup {NoJob}]
  BY DEF ServerInv, TypeInv, Typed
<1>3. \A d \in Runners : rpc'[d] = rpc[d] \/ rpc'[d] = "error"
  <2>1. CASE Deadline(c)
    BY <1>2, <2>1, AnswerEffect DEF Deadline
  <2>2. CASE c \notin Runners
    <3>1. rpc' \in {Returns(c, "error"), Returns(c, "ok"), Answered(c, "ok"),
                    [rpc EXCEPT ![c] = "handled"]}
      BY DEF Deadline, Ask, AnswerAsk, OpenLog, EndLog, Interrupt
    <3>2. \A d \in Runners : [rpc EXCEPT ![c] = "handled"][d] = rpc[d]
      BY <1>2, <2>2 DEF Rpcs, Clients
    <3>3. \A d \in Runners : /\ Returns(c, "error")[d] = rpc[d]
                             /\ Returns(c, "ok")[d] = rpc[d]
                             /\ Answered(c, "ok")[d] = rpc[d]
      BY <1>2, <2>2, AnswerEffect DEF Clients
    <3> QED
      BY <3>1, <3>2, <3>3
  <2> QED
    BY <2>1, <2>2, ClientsAssumption
<1>4. \A d \in Clients : target'[d] # NoJob => target'[d] = target[d] \/ ~Fresh(target'[d])
  <2>1. CASE OpenLog(c)
    <3>1. CASE target' = target
      BY <3>1
    <3>2. CASE \E j \in Jobs : job[j].status # "none" /\ target' = [target EXCEPT ![c] = j]
      <4>1. PICK j \in Jobs : job[j].status # "none" /\ target' = [target EXCEPT ![c] = j]
        BY <3>2
      <4>2. ~Fresh(j)
        BY <4>1, NotFresh
      <4> QED
        BY <1>2, <4>1, <4>2
    <3> QED
      BY <2>1, <3>1, <3>2 DEF OpenLog
  <2>2. CASE target' \in {target, [target EXCEPT ![c] = NoJob]}
    BY <1>2, <2>2
  <2> QED
    BY <2>1, <2>2 DEF Deadline, Ask, AnswerAsk, EndLog, Interrupt
<1> QED
  BY <1>1, <1>3, <1>4, JobsStay

\* StopJob: it finds a running job of this run, or none.
LEMMA StopKeeps ==
    ASSUME ServerInv, TypeInv', NEW c \in Callers, AcceptStop(c) \/ FinishStop(c)
    PROVE  ServerInv'
<1>1. worker' = worker /\ run' = run /\ counter' = counter /\ dirs' = dirs
  BY DEF AcceptStop, FinishStop
<1>2. /\ rpc \in Rpcs /\ target \in [Clients -> Jobs \cup {NoJob}]
      /\ job \in [Jobs -> JobRecords] /\ c \in Clients /\ c \notin Runners
  BY ClientsAssumption DEF ServerInv, TypeInv, Typed, Clients
<1>3. \A d \in Runners : rpc'[d] = rpc[d]
  <2>1. rpc' \in {Returns(c, "error"), Answered(c, "ok"), [rpc EXCEPT ![c] = "handled"]}
    BY DEF AcceptStop, FinishStop
  <2>2. \A d \in Runners : [rpc EXCEPT ![c] = "handled"][d] = rpc[d]
    BY <1>2 DEF Rpcs, Clients
  <2>3. \A d \in Runners : /\ Returns(c, "error")[d] = rpc[d]
                           /\ Answered(c, "ok")[d] = rpc[d]
    BY <1>2, AnswerEffect DEF Clients
  <2> QED
    BY <2>1, <2>2, <2>3
<1>4. CASE AcceptStop(c)
  <2>1. PICK i \in Ids :
           \/ /\ job[<<run, i>>].status = "running"
              /\ target' = [target EXCEPT ![c] = <<run, i>>]
              /\ job' = [job EXCEPT ![<<run, i>>].killed =
                            job[<<run, i>>].killed \/ Alive(<<run, i>>)]
           \/ UNCHANGED <<job, target>>
    BY <1>4 DEF AcceptStop
  <2>2. CASE UNCHANGED <<job, target>>
    BY <1>1, <1>3, <2>2, JobsStay
  <2>3. CASE /\ job[<<run, i>>].status = "running"
             /\ target' = [target EXCEPT ![c] = <<run, i>>]
             /\ job' = [job EXCEPT ![<<run, i>>].killed =
                           job[<<run, i>>].killed \/ Alive(<<run, i>>)]
    <3> DEFINE j == <<run, i>>
               b == job[j].killed \/ Alive(j)
               r == [job[j] EXCEPT !.killed = b]
    <3>1. j \in Jobs
      BY <1>4 DEF AcceptStop, Connects, Accepting, Jobs, ServerInv, TypeInv, Typed, Started
    <3>2. ~Fresh(j)
      BY <2>3, <3>1, NotFresh
    <3>3. job' = [job EXCEPT ![j] = r]
      BY <2>3
    <3> HIDE DEF j, b
    <3>4. job'[j] = r /\ job[j] \in JobRecords
      BY <3>1, <3>3, MovedRecord
    <3>5. /\ job'[j].owner = job[j].owner /\ job'[j].proc = job[j].proc
          /\ job'[j].place = job[j].place /\ job'[j].pc = job[j].pc
      BY <3>4 DEF JobRecords
    <3>6. Follows(j)
      BY <3>1, <3>2, <3>5 DEF Follows, ServerInv, HandlerInv
    <3>7. \A k \in Jobs : Follows(k)
      BY <3>1, <3>3, <3>6, OneJobMoves
    <3>8. target' = [target EXCEPT ![c] = j]
      BY <2>3 DEF j
    <3>9. \A d \in Clients : target'[d] # NoJob => target'[d] = target[d] \/ ~Fresh(target'[d])
      BY <1>2, <3>2, <3>8
    <3> QED
      BY <1>1, <1>3, <3>7, <3>9, Moves
  <2> QED
    BY <2>1, <2>2, <2>3
<1>5. CASE FinishStop(c)
  <2> DEFINE j == target[c]
  <2>1. j \in Jobs /\ ~Fresh(j)
    BY <1>2, <1>5 DEF FinishStop, ServerInv, FreshInv
  <2>2. job' = [job EXCEPT ![j] = [job[j] EXCEPT !.status = "over"]]
    BY <1>5 DEF FinishStop
  <2>3. target' = [target EXCEPT ![c] = NoJob]
    BY <1>5 DEF FinishStop
  <2> HIDE DEF j
  <2>4. job'[j] = [job[j] EXCEPT !.status = "over"] /\ job[j] \in JobRecords
    BY <2>1, <2>2, MovedRecord
  <2>5. /\ job'[j].owner = job[j].owner /\ job'[j].proc = job[j].proc
        /\ job'[j].place = job[j].place /\ job'[j].pc = job[j].pc
    BY <2>4 DEF JobRecords
  <2>6. Follows(j)
    BY <2>1, <2>5 DEF Follows, ServerInv, HandlerInv
  <2>7. \A k \in Jobs : Follows(k)
    BY <2>1, <2>2, <2>6, OneJobMoves
  <2>8. \A d \in Clients : target'[d] # NoJob => target'[d] = target[d]
    BY <1>2, <2>3
  <2> QED
    BY <1>1, <1>3, <2>7, <2>8, Moves
<1> QED
  BY <1>4, <1>5

\* CleanupCgroup's goroutines: they kill and end processes and remove
\* directories.
LEMMA CleanerKeeps ==
    ASSUME ServerInv, TypeInv', NEW k \in Jobs \X Owners, CleanerStep(k) \/ CleanerTimeout(k)
    PROVE  ServerInv'
<1>1. /\ worker' = worker /\ run' = run /\ counter' = counter /\ rpc' = rpc /\ target' = target
      /\ dirs' \subseteq dirs
  BY DEF CleanerStep, CleanerTimeout, CleanerStat, CleanerKill, CleanerRemove, CleanerDone
<1>2. CASE job' = job
  BY <1>1, <1>2, JobsStay
<1>3. CASE CleanerKill(k)
  <2> DEFINE procs == InDir(k[1][2], job)
  <2>1. \A j \in procs : j \in Jobs /\ job[j].proc = "alive"
    BY DEF InDir
  <2>2. CASE job' = [j \in Jobs |-> IF j \in procs THEN [job[j] EXCEPT !.killed = TRUE] ELSE job[j]]
    <3>1. \A j \in Jobs : Follows(j)
      <4> TAKE j \in Jobs
      <4>1. CASE j \notin procs
        BY <2>2, <4>1, StayFollows
      <4>2. CASE j \in procs
        <5>1. job'[j] = [job[j] EXCEPT !.killed = TRUE]
          BY <2>2, <4>2
        <5>2. job[j] \in JobRecords
          BY DEF ServerInv, TypeInv, Typed
        <5>3. /\ job'[j].owner = job[j].owner /\ job'[j].proc = job[j].proc
              /\ job'[j].place = job[j].place /\ job'[j].pc = job[j].pc
          BY <5>1, <5>2 DEF JobRecords
        <5>4. ~Fresh(j)
          BY <2>1, <4>2, NotFresh
        <5> QED
          BY <5>3, <5>4 DEF Follows, ServerInv, HandlerInv
      <4> QED
        BY <4>1, <4>2
    <3> QED
      BY <1>1, <3>1, Moves
  <2>3. CASE \E j \in procs : job' = [job EXCEPT ![j] = Ended(job[j])]
    <3>1. PICK j \in procs : job' = [job EXCEPT ![j] = Ended(job[j])]
      BY <2>3
    <3>2. Follows(j)
      BY <2>1, <3>1, MovedRecord, EndedFollows
    <3>3. \A l \in Jobs : Follows(l)
      BY <2>1, <3>1, <3>2, OneJobMoves
    <3> QED
      BY <1>1, <3>3, Moves
  <2> QED
    BY <1>3, <2>2, <2>3 DEF CleanerKill
<1> QED
  BY <1>2, <1>3 DEF CleanerStep, CleanerTimeout, CleanerStat, CleanerRemove, CleanerDone

\* Every step keeps the invariant.
LEMMA ServerStep == ServerInv /\ [Next]_vars => ServerInv'
<1> SUFFICES ASSUME ServerInv, [Next]_vars
             PROVE  ServerInv'
  OBVIOUS
<1>1. TypeInv'
  BY TypeStep DEF ServerInv
<1>2. CASE UNCHANGED vars
  BY <1>1, <1>2, JobsStay DEF vars
<1>3. CASE Main \/ NewPlatformWorker \/ StartGRPCServer \/ RunServer \/ ServeFails \/ Crash \/ Signal
           \/ GracefulStop
  BY <1>1, <1>3, GotoStep, DiesStep
  DEF Main, NewPlatformWorker, StartGRPCServer, RunServer, ServeFails, Crash, Signal, GracefulStop
<1>4. CASE \/ \E c \in Runners \cup Callers : Deadline(c)
           \/ \E c \in Callers : Ask(c) \/ AnswerAsk(c)
           \/ \E c \in Loggers : OpenLog(c) \/ EndLog(c) \/ Interrupt(c)
  BY <1>1, <1>4, ClientStepKeeps DEF Clients
<1>5. CASE Start \/ SystemdStops
  BY <1>1, <1>5, StartStep, SystemdStep
<1>6. ASSUME NEW c \in Runners, AcceptRun(c)
      PROVE  ServerInv'
  BY <1>1, <1>6, AcceptRunStep
<1>7. ASSUME NEW c \in Callers, AcceptStop(c) \/ FinishStop(c)
      PROVE  ServerInv'
  BY <1>1, <1>7, StopKeeps
<1>8. ASSUME NEW j \in Jobs, HandlerStep(j) \/ ChildAssigns(j) \/ ProcEnds(j) \/ MonitorJob(j)
      PROVE  ServerInv'
  BY <1>1, <1>8, HandlerStepKeeps, ProcessStepKeeps
<1>9. ASSUME NEW k \in Jobs \X Owners, CleanerStep(k) \/ CleanerTimeout(k)
      PROVE  ServerInv'
  BY <1>1, <1>9, CleanerKeeps
<1> QED
  BY <1>2, <1>3, <1>4, <1>5, <1>6, <1>7, <1>8, <1>9 DEF Next

\* No id has been given initially.
LEMMA InitServer == Init => ServerInv
<1> SUFFICES ASSUME Init PROVE ServerInv
  OBVIOUS
<1>1. /\ \A j \in Jobs : job[j] = NewRecord
      /\ dirs = {} /\ \A c \in Clients : target[c] = NoJob /\ rpc[c] = "queued"
  BY DEF Init
<1>2. \A j \in Jobs : job[j].owner = Nobody /\ job[j].pc = "none" /\ job[j].proc = "none"
  BY <1>1 DEF NewRecord
<1>3. FreshInv
  BY <1>1 DEF FreshInv
<1>4. HandlerInv /\ ProcessInv /\ DirectoryInv
  BY <1>1, <1>2 DEF HandlerInv, ProcessInv, NoForeignProcess, Alive, DirectoryInv
<1>5. OwnerInv
  <2>1. \A c \in Runners : rpc[c] = "queued" /\ c # Nobody
    BY <1>1, ClientsAssumption DEF Clients
  <2> QED
    BY <1>2, <2>1 DEF OwnerInv
<1> QED
  BY <1>3, <1>4, <1>5, InitTypes DEF ServerInv

\* Whatever is alive in the worker's cgroups was started by this run of it,
\* through any number of crashes and restarts, where etc/worker.service is used
\* with the default base directory.
THEOREM NothingForeignIsKilled == Spec => []NoForeignProcess
<1>1. ServerInv => NoForeignProcess
  BY DEF ServerInv, ProcessInv
<1> QED
  BY <1>1, InitServer, ServerStep, PTL DEF Spec

\* No directory is there already when a job's is made, under the same premise.
THEOREM DirectoriesAreFresh == Spec => []FreshDirectory
<1>1. ServerInv => FreshDirectory
  BY DEF ServerInv, DirectoryInv, FreshDirectory, Mine
<1> QED
  BY <1>1, InitServer, ServerStep, PTL DEF Spec

\* A "cli run" starts at most one job, and one that was answered well has a job
\* whose process was started.
THEOREM OneJobEach == Spec => []OneJobPerRequest
<1>1. ServerInv => OneJobPerRequest
  <2> SUFFICES ASSUME ServerInv, NEW c \in Runners
               PROVE  /\ Cardinality({j \in Jobs : job[j].owner = c}) <= 1
                      /\ rpc[c] = "ok" => \E j \in {k \in Jobs : job[k].owner = c} : job[j].proc # "none"
    BY DEF OneJobPerRequest
  <2> DEFINE own == {j \in Jobs : job[j].owner = c}
  <2>1. c # Nobody
    BY ClientsAssumption
  <2>2. own = {} \/ \E j \in own : own = {j}
    BY <2>1 DEF ServerInv, OwnerInv
  <2>3. Cardinality(own) \in {0, 1}
    <3>1. CASE own = {}
      BY <3>1, FS_EmptySet
    <3>2. CASE \E j \in own : own = {j}
      BY <3>2, FS_Singleton
    <3> QED
      BY <2>2, <3>1, <3>2
  <2>4. Cardinality(own) <= 1
    BY <2>3
  <2>5. rpc[c] = "ok" => \E j \in own : job[j].proc # "none"
    BY DEF ServerInv, OwnerInv
  <2> QED
    BY <2>4, <2>5
<1> QED
  BY <1>1, InitServer, ServerStep, PTL DEF Spec
=============================================================================
