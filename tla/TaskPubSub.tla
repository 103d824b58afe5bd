----------------------------- MODULE TaskPubSub -----------------------------
(***************************************************************************)
(* One job's Task (internal/worker/state/task.go), the store operations    *)
(* that use it (state/store.go) and the GetJobLogs handler that streams    *)
(* its output to clients (server/grpc_service.go).                         *)
(*                                                                         *)
(* Actors, each a goroutine of the worker process:                         *)
(*   Writers   the goroutines os/exec runs to copy the job's stdout and    *)
(*             stderr into store.WriteToBuffer;                            *)
(*   Updaters  the callers of store.UpdateJob: StartJob ("start"), the     *)
(*             monitor goroutine ("monitor") and StopJob calls (Stoppers); *)
(*   Streams   GetJobLogs handlers, one per connected client.  A handler   *)
(*             subscribes at most once, so a stream names its channel;     *)
(*   removers  whoever calls removeSubscriber on a stream's channel: the   *)
(*             handler's deferred unsubscribe ("defer"), the goroutine     *)
(*             Subscribe starts ("ctx") and the goroutines a publisher     *)
(*             starts on a timeout ("slow").  Several slow removers of one *)
(*             channel are one: all but the first find it gone.            *)
(*                                                                         *)
(* A critical section of subMu, jobMu or bufferMu is one step; code        *)
(* between two of them is where other actors interleave.  A send on, or a  *)
(* close of, a closed channel panics, and a panic in any goroutine ends    *)
(* the whole process: "crash" records which it was and nothing follows.    *)
(*                                                                         *)
(* The task and the store tell statuses apart only by IsRunning,           *)
(* IsCompleted and the status test of the streaming loop, so one final     *)
(* status per updater stands for all that it may write (JobLifecycle has   *)
(* them all).                                                              *)
(***************************************************************************)
EXTENDS JobDomain, Sequences, FiniteSets

CONSTANTS
    Streams,    \* GetJobLogs calls
    Writers,    \* output-copying goroutines of the job's process
    Stoppers,   \* StopJob calls
    MaxChunks,  \* bound on the chunks one writer writes
    ChanCap     \* capacity of a subscriber's channel (2 in the code)

Updaters == {"start", "monitor"} \cup Stoppers

Publishers == Writers \cup Updaters

ASSUME ConstantsAssumption ==
    /\ MaxChunks \in Nat
    /\ ChanCap \in Nat \ {0}
    /\ Writers \cap Updaters = {}
    /\ "start" \notin Stoppers
    /\ "monitor" \notin Stoppers

VARIABLES
    status,      \* t.job.Status
    buffer,      \* t.buffer, the chunks written so far
    subscribers, \* t.subscribers
    ctxDone,     \* t.ctx is cancelled
    chan,        \* the contents of each stream's channel
    closed,      \* the streams whose channel is closed
    removing,    \* progress of each remover of each stream
    written,     \* how many chunks each writer has written
    outcome,     \* the status each updater writes, "" before it does
    pubPc,       \* where each publisher is
    todo,        \* Publish's local copy of the channels still to serve
    strPc,       \* where each handler is
    existing,    \* existingLogs, the buffer a handler read
    live,        \* the chunks a handler sent from its channel
    sending,     \* the chunk a handler is in SendData with
    result,      \* what a handler returned
    cancelled,   \* the client's context is done
    crash        \* "none", or the panic that ended the process

taskVars   == <<status, buffer, subscribers, ctxDone, chan, closed, removing>>
pubVars    == <<written, outcome, pubPc, todo>>
streamVars == <<strPc, existing, live, sending, result>>
vars       == <<taskVars, pubVars, streamVars, cancelled, crash>>

Chunks  == Writers \X (1..MaxChunks)
NoChunk == <<>>

\* Update: a log chunk or a status, never both.
Updates == [LogChunk : Chunks \cup {NoChunk}, Status : JobStatus \cup {""}]

Removers  == {"defer", "ctx", "slow"}
RemoverPc == {"none", "waiting", "closing", "done"}
PubPc     == {"idle", "stopping", "publish", "send", "cancel", "close", "done"}
StrPc     == {"idle", "read", "final", "history", "subscribe", "loop",
              "senddata", "returning", "done"}

\* Types, and a channel never holds more than its capacity: Publish blocks on
\* a full channel instead of queueing without bound.
TypeOK ==
    /\ status \in JobStatus
    /\ buffer \in Seq(Chunks)
    /\ subscribers \in SUBSET Streams
    /\ ctxDone \in BOOLEAN
    /\ chan \in [Streams -> Seq(Updates)]
    /\ \A s \in Streams : Len(chan[s]) <= ChanCap
    /\ closed \in SUBSET Streams
    /\ removing \in [Streams -> [Removers -> RemoverPc]]
    /\ written \in [Writers -> 0..MaxChunks]
    /\ outcome \in [Updaters -> JobStatus \cup {""}]
    /\ pubPc \in [Publishers -> PubPc]
    /\ todo \in [Publishers -> SUBSET Streams]
    /\ strPc \in [Streams -> StrPc]
    /\ existing \in [Streams -> Seq(Chunks)]
    /\ live \in [Streams -> Seq(Chunks)]
    /\ sending \in [Streams -> Chunks \cup {NoChunk}]
    /\ result \in [Streams -> {"none", "nil", "cancelled", "send_error"}]
    /\ cancelled \in SUBSET Streams
    /\ crash \in {"none", "send_on_closed", "close_of_closed"}

\* CreateNewJob has stored the job and the process is being launched.
Init ==
    /\ status = Initializing
    /\ buffer = <<>>
    /\ subscribers = {}
    /\ ctxDone = FALSE
    /\ chan = [s \in Streams |-> <<>>]
    /\ closed = {}
    /\ removing = [s \in Streams |-> [r \in Removers |-> "none"]]
    /\ written = [w \in Writers |-> 0]
    /\ outcome = [u \in Updaters |-> ""]
    /\ pubPc = [p \in Publishers |-> "idle"]
    /\ todo = [p \in Publishers |-> {}]
    /\ strPc = [s \in Streams |-> "idle"]
    /\ existing = [s \in Streams |-> <<>>]
    /\ live = [s \in Streams |-> <<>>]
    /\ sending = [s \in Streams |-> NoChunk]
    /\ result = [s \in Streams |-> "none"]
    /\ cancelled = {}
    /\ crash = "none"

-----------------------------------------------------------------------------
(* Closing channels *)

\* close(ch) for every channel of S: closing a closed one panics.
CloseAll(S) ==
    /\ closed' = closed \cup S
    /\ crash' = IF S \cap closed = {} THEN crash ELSE "close_of_closed"

\* Mutant: the lock is taken for the delete only, after an unlocked check.
RemoveSubscriberUnlocked(s, r) ==
    /\ removing[s][r] = "waiting"
    /\ r = "ctx" => ctxDone
    /\ subscribers' = subscribers \ {s}
    /\ removing' = [removing EXCEPT ![s][r] = "closing"]
    /\ UNCHANGED <<status, buffer, ctxDone, chan, closed, pubVars, streamVars,
                   cancelled, crash>>

\* removeSubscriber, up to the unlock.  The "ctx" goroutine first waits for
\* the task's context.
RemoveSubscriber(s, r) ==
    /\ removing[s][r] = "waiting"
    /\ r = "ctx" => ctxDone
    /\ subscribers' = subscribers \ {s}
    /\ removing' = [removing EXCEPT ![s][r] =
                       IF s \in subscribers THEN "closing" ELSE "done"]
    /\ UNCHANGED <<status, buffer, ctxDone, chan, closed, pubVars, streamVars,
                   cancelled, crash>>

\* removeSubscriber, after the unlock: close(ch).
RemoverClose(s, r) ==
    /\ removing[s][r] = "closing"
    /\ removing' = [removing EXCEPT ![s][r] = "done"]
    /\ CloseAll({s})
    /\ UNCHANGED <<status, buffer, subscribers, ctxDone, chan, pubVars,
                   streamVars, cancelled>>

-----------------------------------------------------------------------------
(* Publish, called by writers and updaters *)

\* What publisher p is publishing.
Message(p) ==
    IF p \in Writers
    THEN [LogChunk |-> <<p, written[p]>>, Status |-> ""]
    ELSE [LogChunk |-> NoChunk, Status |-> outcome[p]]

\* Where p is once Publish has returned: a writer copies on, UpdateJob goes
\* on to Shutdown when the status it wrote is final.
AfterPublish(p) ==
    CASE p \in Writers -> "idle"
      [] p \notin Writers /\ outcome[p] \in FinalStatus -> "cancel"
      [] OTHER -> "done"

\* Serve the channels of S next, or return from Publish.
Serve(p, S) ==
    /\ todo' = [todo EXCEPT ![p] = S]
    /\ pubPc' = [pubPc EXCEPT ![p] = IF S = {} THEN AfterPublish(p) ELSE "send"]

\* Publish copies the subscriber channels under the read lock and unlocks.
PublishSnapshot(p) ==
    /\ pubPc[p] = "publish"
    /\ Serve(p, subscribers)
    /\ UNCHANGED <<taskVars, written, outcome, streamVars, cancelled, crash>>

\* Mutant: the send does not wait for room.
HasRoomAlways(s) == TRUE

\* A buffered channel accepts a send.
HasRoom(s) == Len(chan[s]) < ChanCap

\* Mutant: the channel just served is not taken off the list.
PublishSendAgain(p, s) ==
    /\ pubPc[p] = "send"
    /\ s \in todo[p]
    /\ s \notin closed
    /\ HasRoom(s)
    /\ chan' = [chan EXCEPT ![s] = Append(@, Message(p))]
    /\ \E S \in {todo[p], todo[p] \ {s}} : Serve(p, S)
    /\ UNCHANGED <<status, buffer, subscribers, ctxDone, closed, removing,
                   written, outcome, streamVars, cancelled, crash>>

\* case ch <- update: the channel has room.
PublishSend(p, s) ==
    /\ pubPc[p] = "send"
    /\ s \in todo[p]
    /\ s \notin closed
    /\ HasRoom(s)
    /\ chan' = [chan EXCEPT ![s] = Append(@, Message(p))]
    /\ Serve(p, todo[p] \ {s})
    /\ UNCHANGED <<status, buffer, subscribers, ctxDone, closed, removing,
                   written, outcome, streamVars, cancelled, crash>>

\* case ch <- update: the channel was closed after the snapshot, or while the
\* send was blocked on it.
PublishPanic(p, s) ==
    /\ pubPc[p] = "send"
    /\ s \in todo[p]
    /\ s \in closed
    /\ crash' = "send_on_closed"
    /\ UNCHANGED <<taskVars, pubVars, streamVars, cancelled>>

\* Mutant: no timeout, the publisher waits for its subscriber.
PublishTimeoutNever(p, s) == FALSE /\ UNCHANGED vars

\* case <-time.After(timeout): the channel stayed full for 50 ms.  The update
\* is dropped for s, and a goroutine is started to remove s.
PublishTimeout(p, s) ==
    /\ pubPc[p] = "send"
    /\ s \in todo[p]
    /\ s \notin closed
    /\ ~HasRoom(s)
    /\ removing' = [removing EXCEPT ![s]["slow"] = IF @ = "none" THEN "waiting" ELSE @]
    /\ Serve(p, todo[p] \ {s})
    /\ UNCHANGED <<status, buffer, subscribers, ctxDone, chan, closed, written,
                   outcome, streamVars, cancelled, crash>>

\* case <-t.ctx.Done(): Publish gives up on the channels left.
PublishCancelled(p) ==
    /\ pubPc[p] = "send"
    /\ ctxDone
    /\ Serve(p, {})
    /\ UNCHANGED <<taskVars, written, outcome, streamVars, cancelled, crash>>

Publishing(p) ==
    \/ PublishSnapshot(p)
    \/ \E s \in Streams : PublishSend(p, s) \/ PublishPanic(p, s) \/ PublishTimeout(p, s)
    \/ PublishCancelled(p)

-----------------------------------------------------------------------------
(* Writers *)

\* OutputWriter.Write of a non-empty chunk: buffer it, then publish it.
WriteToBuffer(w) ==
    /\ pubPc[w] = "idle"
    /\ written[w] < MaxChunks
    /\ written' = [written EXCEPT ![w] = @ + 1]
    /\ buffer' = Append(buffer, <<w, written[w] + 1>>)
    /\ pubPc' = [pubPc EXCEPT ![w] = "publish"]
    /\ UNCHANGED <<status, subscribers, ctxDone, chan, closed, removing, outcome,
                   todo, streamVars, cancelled, crash>>

\* The process closed this output (os/exec's copy ends).
WriterEOF(w) ==
    /\ pubPc[w] = "idle"
    /\ pubPc' = [pubPc EXCEPT ![w] = "done"]
    /\ UNCHANGED <<taskVars, written, outcome, todo, streamVars, cancelled, crash>>

-----------------------------------------------------------------------------
(* Updaters *)

\* store.UpdateJob up to and including Task.UpdateJob.
UpdateJob(u, newStatus) ==
    /\ status' = newStatus
    /\ outcome' = [outcome EXCEPT ![u] = newStatus]
    /\ pubPc' = [pubPc EXCEPT ![u] = "publish"]
    /\ UNCHANGED <<buffer, subscribers, ctxDone, chan, closed, removing, written,
                   todo, streamVars, cancelled, crash>>

\* StartJob: updateJobAsRunning, or cleanupFailedJob when the launch failed
\* (which a process started after the launch timeout may outlive).
StartUpdate ==
    /\ pubPc["start"] = "idle"
    /\ \E st \in {Running, Failed} : UpdateJob("start", st)

\* monitorJob: it exists once updateJobAsRunning has returned, and cmd.Wait
\* returns after the output is copied.  An error other than an ExitError
\* leaves the status RUNNING; COMPLETED stands for FAILED too.
MonitorUpdate ==
    /\ pubPc["monitor"] = "idle"
    /\ pubPc["start"] = "done" /\ outcome["start"] = Running
    /\ \A w \in Writers : pubPc[w] = "done"
    /\ \E st \in {Completed, Running} : UpdateJob("monitor", st)

\* StopJob found the job RUNNING and goes on to CleanupProcess.
StopRead(u) ==
    /\ pubPc[u] = "idle"
    /\ status = Running
    /\ pubPc' = [pubPc EXCEPT ![u] = "stopping"]
    /\ UNCHANGED <<taskVars, written, outcome, todo, streamVars, cancelled, crash>>

\* updateJobStatus writes a final status whatever the cleanup method was.
StopUpdate(u) ==
    /\ pubPc[u] = "stopping"
    /\ UpdateJob(u, Stopped)

\* Shutdown: t.cancel(), then a 10 ms sleep without the lock.
ShutdownCancel(u) ==
    /\ pubPc[u] = "cancel"
    /\ ctxDone' = TRUE
    /\ pubPc' = [pubPc EXCEPT ![u] = "close"]
    /\ UNCHANGED <<status, buffer, subscribers, chan, closed, removing, written,
                   outcome, todo, streamVars, cancelled, crash>>

\* Mutant: the map keeps the channels that were closed.
ShutdownCloseKeepsMap(u) ==
    /\ pubPc[u] = "close"
    /\ CloseAll(subscribers)
    /\ pubPc' = [pubPc EXCEPT ![u] = "done"]
    /\ UNCHANGED <<status, buffer, subscribers, ctxDone, chan, removing, written,
                   outcome, todo, streamVars, cancelled>>

\* Shutdown: close what is still subscribed and reset the map.
ShutdownClose(u) ==
    /\ pubPc[u] = "close"
    /\ CloseAll(subscribers)
    /\ subscribers' = {}
    /\ pubPc' = [pubPc EXCEPT ![u] = "done"]
    /\ UNCHANGED <<status, buffer, ctxDone, chan, removing, written, outcome,
                   todo, streamVars, cancelled>>

-----------------------------------------------------------------------------
(* GetJobLogs handlers *)

\* GetOutput, first lock: the buffer.
GetBuffer(s) ==
    /\ strPc[s] = "idle"
    /\ existing' = [existing EXCEPT ![s] = buffer]
    /\ strPc' = [strPc EXCEPT ![s] = "read"]
    /\ UNCHANGED <<taskVars, pubVars, live, sending, result, cancelled, crash>>

\* GetOutput, second lock: IsRunning.
GetIsRunning(s) ==
    /\ strPc[s] = "read"
    /\ strPc' = [strPc EXCEPT ![s] = IF status = Running THEN "history" ELSE "final"]
    /\ UNCHANGED <<taskVars, pubVars, existing, live, sending, result, cancelled,
                   crash>>

\* The handler returns before it has subscribed.
Return(s, res) ==
    /\ strPc' = [strPc EXCEPT ![s] = "done"]
    /\ result' = [result EXCEPT ![s] = res]
    /\ UNCHANGED <<taskVars, pubVars, existing, live, sending, cancelled, crash>>

\* stream.Send(existingLogs): the job was not running, so this is all.
SendFinal(s) ==
    /\ strPc[s] = "final"
    /\ Return(s, "nil")

\* stream.Send(existingLogs) fails: the client is gone.
SendExistingFails(s) ==
    /\ strPc[s] \in {"final", "history"}
    /\ s \in cancelled
    /\ Return(s, "send_error")

\* stream.Send(existingLogs) returns and SendUpdatesToClient makes its context
\* and IsRunning checks.
AttachCancelled(s) ==
    /\ strPc[s] = "history"
    /\ s \in cancelled
    /\ Return(s, "cancelled")

AttachNotRunning(s) ==
    /\ strPc[s] = "history"
    /\ status # Running
    /\ Return(s, "nil")

AttachRunning(s) ==
    /\ strPc[s] = "history"
    /\ s \notin cancelled
    /\ status = Running
    /\ strPc' = [strPc EXCEPT ![s] = "subscribe"]
    /\ UNCHANGED <<taskVars, pubVars, existing, live, sending, result, cancelled,
                   crash>>

\* Mutant: no goroutine waits for the task's context.
SubscribeNoWatcher(s) ==
    /\ strPc[s] = "subscribe"
    /\ subscribers' = subscribers \cup {s}
    /\ strPc' = [strPc EXCEPT ![s] = "loop"]
    /\ UNCHANGED <<status, buffer, ctxDone, chan, closed, removing, pubVars,
                   existing, live, sending, result, cancelled, crash>>

\* Subscribe, whatever has become of the job since the IsRunning check.
Subscribe(s) ==
    /\ strPc[s] = "subscribe"
    /\ subscribers' = subscribers \cup {s}
    /\ removing' = [removing EXCEPT ![s]["ctx"] = "waiting"]
    /\ strPc' = [strPc EXCEPT ![s] = "loop"]
    /\ UNCHANGED <<status, buffer, ctxDone, chan, closed, pubVars, existing, live,
                   sending, result, cancelled, crash>>

\* A return from the loop runs the deferred unsubscribe.
LeaveLoop(s, res) ==
    /\ strPc' = [strPc EXCEPT ![s] = "returning"]
    /\ result' = [result EXCEPT ![s] = res]
    /\ removing' = [removing EXCEPT ![s]["defer"] = "waiting"]
    /\ UNCHANGED <<status, buffer, subscribers, ctxDone, closed, pubVars, existing,
                   live, cancelled, crash>>

\* case <-ctx.Done() and case <-stream.Context().Done(), which are the same
\* context here.
LoopCancelled(s) ==
    /\ strPc[s] = "loop"
    /\ s \in cancelled
    /\ LeaveLoop(s, "cancelled")
    /\ UNCHANGED <<chan, sending>>

\* case update, ok := <-updates with !ok: closed and drained.
LoopClosed(s) ==
    /\ strPc[s] = "loop"
    /\ s \in closed
    /\ chan[s] = <<>>
    /\ LeaveLoop(s, "nil")
    /\ UNCHANGED <<chan, sending>>

\* A log chunk: SendData starts.
LoopLogChunk(s) ==
    /\ strPc[s] = "loop"
    /\ chan[s] # <<>>
    /\ Head(chan[s]).LogChunk # NoChunk
    /\ chan' = [chan EXCEPT ![s] = Tail(@)]
    /\ sending' = [sending EXCEPT ![s] = Head(chan[s]).LogChunk]
    /\ strPc' = [strPc EXCEPT ![s] = "senddata"]
    /\ UNCHANGED <<status, buffer, subscribers, ctxDone, closed, removing, pubVars,
                   existing, live, result, cancelled, crash>>

\* Mutant: any status ends the stream.
EndsStreamAlways(st) == st # ""

\* The status test that ends the stream.
EndsStream(st) == st # "" /\ st # Running

\* A status: the loop goes on, or the stream ends.
LoopStatusIgnored(s) ==
    /\ strPc[s] = "loop"
    /\ chan[s] # <<>>
    /\ Head(chan[s]).LogChunk = NoChunk
    /\ ~EndsStream(Head(chan[s]).Status)
    /\ chan' = [chan EXCEPT ![s] = Tail(@)]
    /\ UNCHANGED <<status, buffer, subscribers, ctxDone, closed, removing, pubVars,
                   streamVars, cancelled, crash>>

LoopStatusEnds(s) ==
    /\ strPc[s] = "loop"
    /\ chan[s] # <<>>
    /\ Head(chan[s]).LogChunk = NoChunk
    /\ EndsStream(Head(chan[s]).Status)
    /\ LeaveLoop(s, "nil")
    /\ chan' = [chan EXCEPT ![s] = Tail(@)]
    /\ UNCHANGED sending

\* SendData returns once the client has taken the chunk.
SendData(s) ==
    /\ strPc[s] = "senddata"
    /\ live' = [live EXCEPT ![s] = Append(@, sending[s])]
    /\ sending' = [sending EXCEPT ![s] = NoChunk]
    /\ strPc' = [strPc EXCEPT ![s] = "loop"]
    /\ UNCHANGED <<taskVars, pubVars, existing, result, cancelled, crash>>

\* SendData fails: the client is gone.
SendDataFails(s) ==
    /\ strPc[s] = "senddata"
    /\ s \in cancelled
    /\ LeaveLoop(s, "send_error")
    /\ sending' = [sending EXCEPT ![s] = NoChunk]
    /\ UNCHANGED chan

\* The client disconnects or gives up.
ClientCancel(s) ==
    /\ strPc[s] \notin {"idle", "returning", "done"}
    /\ s \notin cancelled
    /\ cancelled' = cancelled \cup {s}
    /\ UNCHANGED <<taskVars, pubVars, streamVars, crash>>

-----------------------------------------------------------------------------

\* The handler has returned, the deferred unsubscribe included.
Over(s) == strPc[s] = "done" \/ removing[s]["defer"] = "done"

\* The process panicked, or the job and every client are done and no goroutine
\* has work left.
Terminated ==
    \/ crash # "none"
    \/ /\ \A s \in Streams : Over(s)
       /\ \A p \in Publishers : pubPc[p] \in {"idle", "done"}
       /\ \A s \in Streams, r \in Removers :
             removing[s][r] \in {"none", "done"} \/ (r = "ctx" /\ ~ctxDone)

RemoverStep(s, r) == RemoveSubscriber(s, r) \/ RemoverClose(s, r)

\* UpdateJob after the record is replaced.
UpdaterStep(u) == Publishing(u) \/ ShutdownCancel(u) \/ ShutdownClose(u)

\* Steps of a handler that do not wait for its client, and the ones that do.
HandlerStep(s) ==
    \/ GetIsRunning(s) \/ Subscribe(s)
    \/ LoopCancelled(s) \/ LoopClosed(s) \/ LoopLogChunk(s)
    \/ LoopStatusIgnored(s) \/ LoopStatusEnds(s)

ClientStep(s) ==
    \/ SendFinal(s) \/ SendExistingFails(s)
    \/ AttachCancelled(s) \/ AttachNotRunning(s) \/ AttachRunning(s)
    \/ SendData(s) \/ SendDataFails(s)

Next ==
    \/ /\ crash = "none"
       /\ \/ \E w \in Writers : WriteToBuffer(w) \/ WriterEOF(w) \/ Publishing(w)
          \/ StartUpdate \/ MonitorUpdate
          \/ \E u \in Stoppers : StopRead(u) \/ StopUpdate(u)
          \/ \E u \in Updaters : UpdaterStep(u)
          \/ \E s \in Streams, r \in Removers : RemoverStep(s, r)
          \/ \E s \in Streams : GetBuffer(s) \/ HandlerStep(s) \/ ClientStep(s)
                                \/ ClientCancel(s)
    \/ Terminated /\ UNCHANGED vars

Spec == Init /\ [][Next]_vars

(***************************************************************************)
(* Fairness.  The Go scheduler runs every runnable goroutine, and the      *)
(* timers of Publish and Shutdown fire, so the steps of publishers,        *)
(* updaters, removers and handlers are weakly fair.  Writing output,       *)
(* calling UpdateJob, connecting and disconnecting are the environment's   *)
(* choice and are not.  A Send returns when the client reads or goes away: *)
(* ClientFairness assumes that every client eventually does one of them.   *)
(***************************************************************************)
ServerFairness ==
    /\ \A p \in Publishers : WF_vars(crash = "none" /\ Publishing(p))
    /\ \A u \in Updaters : WF_vars(crash = "none" /\ UpdaterStep(u))
    /\ \A s \in Streams : WF_vars(crash = "none" /\ HandlerStep(s))
    /\ \A s \in Streams, r \in Removers : WF_vars(crash = "none" /\ RemoverStep(s, r))

ClientFairness == \A s \in Streams : WF_vars(crash = "none" /\ ClientStep(s))

\* The worker is fair, its clients may stall forever.
FairSpec == Spec /\ ServerFairness

-----------------------------------------------------------------------------
(* Properties *)

\* A channel is closed at most once, although the deferred unsubscribe, the
\* context goroutine, slow-subscriber removal and Shutdown all close it, and
\* removeSubscriber closes after it has unlocked: whoever takes the channel
\* out of the map is the only one to close it.
CloseOnce == crash # "close_of_closed"

\* The handler has no channel yet.
NotSubscribedYet(s) == strPc[s] \in {"idle", "read", "final", "history", "subscribe"}

\* Why that is so: a channel is in one hand at a time.  It is in the map, or
\* one remover is about to close it, or it is closed, and none of these before
\* it is made.
OneCloser ==
    \A s \in Streams :
        LET closing == {r \in Removers : removing[s][r] = "closing"} IN
        /\ s \in subscribers => s \notin closed /\ closing = {}
        /\ closing # {} => s \notin closed
        /\ \A q, r \in closing : q = r
        /\ NotSubscribedYet(s) => s \notin subscribers \cup closed /\ closing = {}

\* The chunks a client is sent from its channel are, writer by writer, in the
\* order they were written and without repetition, however publishers
\* interleave, time out and are cancelled.
LiveInOrder ==
    \A s \in Streams : \A i, j \in DOMAIN live[s] :
        i < j /\ live[s][i][1] = live[s][j][1] => live[s][i][2] < live[s][j][2]

Subscribed(s) == removing[s]["ctx"] # "none"

FinalWritten == \E u \in Updaters : outcome[u] \in FinalStatus

\* A subscribed stream that ends without an error ended because the job did,
\* or because the client was too slow: neither a status update that is not
\* final nor another client's departure ends it.
StreamEndExplained ==
    \A s \in Streams :
        Subscribed(s) /\ result[s] = "nil" =>
            FinalWritten \/ removing[s]["slow"] # "none"

\* Publish always returns, even when no client ever reads: a stalled client
\* cannot hold up the job's output or a status change.
PublishReturns ==
    \A p \in Publishers :
        pubPc[p] \in {"publish", "send"} ~> (pubPc[p] \notin {"publish", "send"} \/ crash # "none")

\* If clients keep reading or go away, every open stream ends once the task is
\* shut down, also one that checked IsRunning before the job ended and
\* subscribed after Shutdown had closed all the subscribers it knew.
StreamsEnd ==
    ClientFairness =>
        \A s \in Streams :
            (ctxDone /\ strPc[s] # "idle") ~> (Over(s) \/ crash # "none")

-----------------------------------------------------------------------------
(* What the documentation says and the code does not do *)

\* API.md, streaming behaviour: client disconnections are handled gracefully.
\* No publisher ever sends on a channel that was closed meanwhile.
NoSendOnClosed == crash # "send_on_closed"

Sent(s) == {existing[s][i] : i \in DOMAIN existing[s]} \cup {live[s][i] : i \in DOMAIN live[s]}

\* API.md, streaming behaviour: all historical output, then live output.  A
\* client that was fast enough and followed the job to its end has got every
\* chunk.
CompleteOutput ==
    \A s \in Streams :
        /\ Subscribed(s) /\ Over(s) /\ result[s] = "nil"
        /\ removing[s]["slow"] = "none"
        /\ \A w \in Writers : pubPc[w] = "done"
        => \A i \in DOMAIN buffer : buffer[i] \in Sent(s)
=============================================================================
