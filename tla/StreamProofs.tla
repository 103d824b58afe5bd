---------------------------- MODULE StreamProofs ----------------------------
(***************************************************************************)
(* What a client is sent and why its stream ends: StreamEndExplained and   *)
(* LiveInOrder of TaskPubSub, for any number of clients, writers and       *)
(* StopJob calls, any amount of output and any channel capacity.           *)
(***************************************************************************)
EXTENDS TaskPubSubProofs

-----------------------------------------------------------------------------
(* Why a stream ends *)

\* An updater writes one status, once, and goes on to Shutdown only after a
\* final one.
WritesOnce ==
    \A u \in Updaters :
        /\ pubPc[u] \in {"idle", "stopping"} => outcome[u] = ""
        /\ pubPc[u] \in {"cancel", "close"} => outcome[u] \in FinalStatus
        /\ EndsStream(outcome[u]) => outcome[u] \in FinalStatus

\* Only Shutdown cancels the task's context, and whatever travels in a channel
\* that ends a stream was written by an updater.
EndsAnnounced ==
    /\ ctxDone => FinalWritten
    /\ \A s \in Streams : \A i \in DOMAIN chan[s] :
          EndsStream(chan[s][i].Status) => FinalWritten

\* Somebody has taken the channel out of the map.
Taken(s) == s \in closed \/ \E r \in Removers : removing[s][r] = "closing"

\* A channel is taken because the job ended, because its client was slow or
\* because its handler is leaving.
TakenExplained ==
    \A s \in Streams :
        Taken(s) => \/ FinalWritten
                    \/ removing[s]["slow"] # "none"
                    \/ removing[s]["defer"] # "none"

\* A handler has a result, and its deferred unsubscribe is due, only once it
\* leaves; one that has not subscribed, or never did, has no context watcher.
HandlerPhases ==
    \A s \in Streams :
        /\ strPc[s] # "returning" => removing[s]["defer"] = "none"
        /\ strPc[s] \notin {"returning", "done"} => result[s] = "none"
        /\ NotSubscribedYet(s) \/ strPc[s] = "done" => ~Subscribed(s)

EndInv ==
    /\ TypeInv
    /\ WritesOnce
    /\ EndsAnnounced
    /\ TakenExplained
    /\ HandlerPhases
    /\ StreamEndExplained

\* A step in which no updater writes a status, or is sent to Shutdown without
\* having written a final one.
LEMMA UpdatersUntouched ==
    ASSUME EndInv, outcome' = outcome,
           \A u \in Updaters :
               /\ pubPc'[u] \in {"idle", "stopping"} => pubPc[u] \in {"idle", "stopping"}
               /\ pubPc'[u] \in {"cancel", "close"} =>
                     pubPc[u] \in {"cancel", "close"} \/ outcome[u] \in FinalStatus
    PROVE  WritesOnce' /\ (FinalWritten => FinalWritten')
BY DEF EndInv, WritesOnce, FinalWritten

\* A step that puts nothing into a channel that was not there.
LEMMA ChannelsUntouched ==
    ASSUME EndInv, FinalWritten => FinalWritten', ctxDone' = ctxDone,
           \A s \in Streams : \A i \in DOMAIN chan'[s] :
               \E j \in DOMAIN chan[s] : chan'[s][i] = chan[s][j]
    PROVE  EndsAnnounced'
BY DEF EndInv, EndsAnnounced

\* A step that moves no handler and no remover.
LEMMA HandlersUntouched ==
    ASSUME EndInv, FinalWritten => FinalWritten',
           removing' = removing, closed' = closed, strPc' = strPc, result' = result
    PROVE  TakenExplained' /\ HandlerPhases' /\ StreamEndExplained'
BY DEF EndInv, TakenExplained, HandlerPhases, StreamEndExplained, Taken, NotSubscribedYet, Subscribed

\* A step of none of the above.
LEMMA EndUntouched ==
    ASSUME EndInv, TypeInv',
           outcome' = outcome, pubPc' = pubPc, ctxDone' = ctxDone, chan' = chan,
           removing' = removing, closed' = closed, strPc' = strPc, result' = result
    PROVE  EndInv'
<1>1. WritesOnce' /\ (FinalWritten => FinalWritten')
  BY UpdatersUntouched
<1>2. EndsAnnounced'
  BY <1>1, ChannelsUntouched
<1> QED
  BY <1>1, <1>2, HandlersUntouched DEF EndInv

\* What a publisher puts into a channel is explained by the status it wrote.
LEMMA MessageExplained ==
    ASSUME EndInv, NEW p \in Publishers, EndsStream(Message(p).Status)
    PROVE  FinalWritten
<1>1. p \notin Writers
  BY DEF Message, EndsStream
<1>2. p \in Updaters /\ EndsStream(outcome[p])
  BY <1>1 DEF Message, Publishers
<1> QED
  BY <1>2 DEF EndInv, WritesOnce, FinalWritten

\* Publish sends its caller to Shutdown only after a final status.
LEMMA ServeEnd ==
    ASSUME EndInv, NEW p \in Publishers, NEW S, Serve(p, S), pubPc[p] \in {"publish", "send"},
           outcome' = outcome
    PROVE  WritesOnce' /\ (FinalWritten => FinalWritten')
<1>1. p \notin Writers => /\ AfterPublish(p) \notin {"idle", "stopping"}
                          /\ AfterPublish(p) \in {"cancel", "close"} => outcome[p] \in FinalStatus
  BY DEF AfterPublish
<1>2. \A u \in Updaters : u \notin Writers
  BY ConstantsAssumption
<1>3. \A u \in Updaters :
         /\ pubPc'[u] \in {"idle", "stopping"} => pubPc[u] \in {"idle", "stopping"}
         /\ pubPc'[u] \in {"cancel", "close"} =>
               pubPc[u] \in {"cancel", "close"} \/ outcome[u] \in FinalStatus
  <2> TAKE u \in Updaters
  <2>1. u \in Publishers
    BY DEF Publishers
  <2>2. CASE u # p
    BY <2>1, <2>2 DEF Serve, EndInv, TypeInv, TypeOK
  <2>3. CASE u = p
    <3>1. pubPc'[u] = IF S = {} THEN AfterPublish(p) ELSE "send"
      BY <2>1, <2>3 DEF Serve, EndInv, TypeInv, TypeOK
    <3> QED
      BY <1>1, <1>2, <2>3, <3>1
  <2> QED
    BY <2>2, <2>3
<1> QED
  BY <1>3, UpdatersUntouched

\* Publish keeps the explanation.
LEMMA PublishingEnd ==
    ASSUME EndInv, TypeInv', NEW p \in Publishers, Publishing(p)
    PROVE  EndInv'
<1>1. CASE PublishSnapshot(p) \/ PublishCancelled(p)
  <2>1. WritesOnce' /\ (FinalWritten => FinalWritten')
    BY <1>1, ServeEnd DEF PublishSnapshot, PublishCancelled
  <2>2. EndsAnnounced'
    BY <1>1, <2>1, ChannelsUntouched DEF PublishSnapshot, PublishCancelled, taskVars
  <2> QED
    BY <1>1, <2>1, <2>2, HandlersUntouched
    DEF PublishSnapshot, PublishCancelled, taskVars, streamVars, EndInv
<1>2. ASSUME NEW s \in Streams, PublishSend(p, s)
      PROVE  EndInv'
  <2>1. WritesOnce' /\ (FinalWritten => FinalWritten')
    BY <1>2, ServeEnd DEF PublishSend
  <2>2. chan[s] \in Seq(Updates) /\ Message(p) \in Updates
    BY <1>2, MessageType DEF PublishSend, EndInv, TypeInv, TypeOK
  <2>3. /\ chan'[s] = Append(chan[s], Message(p))
        /\ \A t \in Streams \ {s} : chan'[t] = chan[t]
    BY <1>2 DEF PublishSend, EndInv, TypeInv, TypeOK
  <2>4. \A i \in DOMAIN chan'[s] : chan'[s][i] = Message(p) \/ (i \in DOMAIN chan[s] /\ chan'[s][i] = chan[s][i])
    BY <2>2, <2>3
  <2>5. EndsAnnounced'
    <3>1. ctxDone' = ctxDone
      BY <1>2 DEF PublishSend
    <3> QED
      BY <2>1, <2>3, <2>4, <3>1, MessageExplained DEF EndsAnnounced, EndInv
  <2> QED
    BY <1>2, <2>1, <2>5, HandlersUntouched DEF PublishSend, streamVars, EndInv
<1>3. ASSUME NEW s \in Streams, PublishPanic(p, s)
      PROVE  EndInv'
  BY <1>3, EndUntouched DEF PublishPanic, taskVars, pubVars, streamVars
<1>4. ASSUME NEW s \in Streams, PublishTimeout(p, s)
      PROVE  EndInv'
  <2>1. WritesOnce' /\ (FinalWritten => FinalWritten')
    BY <1>4, ServeEnd DEF PublishTimeout
  <2>2. EndsAnnounced'
    BY <1>4, <2>1, ChannelsUntouched DEF PublishTimeout
  <2>3. closed' = closed /\ strPc' = strPc /\ result' = result
    BY <1>4 DEF PublishTimeout, streamVars
  <2>4. /\ \A t \in Streams : removing'[t]["ctx"] = removing[t]["ctx"] /\ removing'[t]["defer"] = removing[t]["defer"]
        /\ \A t \in Streams : removing[t]["slow"] # "none" => removing'[t]["slow"] # "none"
        /\ \A t \in Streams, r \in Removers : removing'[t][r] = "closing" => removing[t][r] = "closing"
    <3>1. PICK v \in {"waiting", removing[s]["slow"]} :
             /\ removing' = [removing EXCEPT ![s]["slow"] = v]
             /\ v # "none"
      BY <1>4 DEF PublishTimeout
    <3>2. /\ removing'[s]["slow"] = v
          /\ \A t \in Streams, q \in Removers :
                <<t, q>> # <<s, "slow">> => removing'[t][q] = removing[t][q]
      <4>1. removing \in [Streams -> [Removers -> RemoverPc]] /\ "slow" \in Removers
        BY DEF EndInv, TypeInv, TypeOK, Removers
      <4> QED
        BY <3>1, <4>1
    <3> QED
      BY <3>1, <3>2 DEF Removers
  <2>5. TakenExplained'
    BY <2>1, <2>3, <2>4 DEF EndInv, TakenExplained, Taken
  <2>6. HandlerPhases' /\ StreamEndExplained'
    BY <2>1, <2>3, <2>4 DEF EndInv, HandlerPhases, StreamEndExplained, NotSubscribedYet, Subscribed
  <2> QED
    BY <2>1, <2>2, <2>5, <2>6 DEF EndInv
<1> QED
  BY <1>1, <1>2, <1>3, <1>4 DEF Publishing

\* UpdateJob writes the first and only status of its caller.
LEMMA UpdateJobEnd ==
    ASSUME EndInv, TypeInv', NEW u \in Updaters, pubPc[u] \in {"idle", "stopping"},
           NEW st \in {Running, Completed, Failed, Stopped}, UpdateJob(u, st)
    PROVE  EndInv'
<1>1. outcome[u] = ""
  BY DEF EndInv, WritesOnce
<1>2. /\ outcome'[u] = st /\ pubPc'[u] = "publish"
      /\ \A v \in Updaters \ {u} : outcome'[v] = outcome[v] /\ pubPc'[v] = pubPc[v]
  BY DEF UpdateJob, EndInv, TypeInv, TypeOK, Publishers
<1>3. FinalWritten => FinalWritten'
  BY <1>1, <1>2 DEF FinalWritten, FinalStatus, Completed, Failed, Stopped
<1>4. WritesOnce'
  <2>1. EndsStream(st) => st \in FinalStatus
    BY DEF EndsStream, FinalStatus
  <2> QED
    BY <1>2, <2>1 DEF EndInv, WritesOnce
<1>5. EndsAnnounced'
  BY <1>3, ChannelsUntouched DEF UpdateJob
<1> QED
  BY <1>3, <1>4, <1>5, HandlersUntouched DEF UpdateJob, streamVars, EndInv

\* Shutdown runs after a final status was written.
LEMMA ShutdownEnd ==
    ASSUME EndInv, TypeInv', NEW u \in Updaters, ShutdownCancel(u) \/ ShutdownClose(u)
    PROVE  EndInv'
<1>1. pubPc[u] \in {"cancel", "close"}
  BY DEF ShutdownCancel, ShutdownClose
<1>2. FinalWritten
  BY <1>1 DEF EndInv, WritesOnce, FinalWritten
<1>3. outcome' = outcome
  BY DEF ShutdownCancel, ShutdownClose
<1>4. \A v \in Updaters : pubPc'[v] = IF v = u THEN pubPc'[u] ELSE pubPc[v]
  BY DEF ShutdownCancel, ShutdownClose, EndInv, TypeInv, TypeOK, Publishers
<1>5. pubPc'[u] \in {"close", "done"}
  BY DEF ShutdownCancel, ShutdownClose, EndInv, TypeInv, TypeOK, Publishers
<1>6. WritesOnce' /\ FinalWritten'
  BY <1>1, <1>2, <1>3, <1>4, <1>5, UpdatersUntouched
<1>7. EndsAnnounced'
  BY <1>6 DEF EndsAnnounced
<1>8. removing' = removing /\ strPc' = strPc /\ result' = result
  BY DEF ShutdownCancel, ShutdownClose, streamVars
<1>9. TakenExplained' /\ HandlerPhases' /\ StreamEndExplained'
  BY <1>6, <1>8 DEF EndInv, TakenExplained, HandlerPhases, StreamEndExplained, NotSubscribedYet, Subscribed
<1> QED
  BY <1>6, <1>7, <1>9 DEF EndInv

\* The context goroutine goes on only after Shutdown, and the other two are
\* their own explanation.
LEMMA RemoverEnd ==
    ASSUME EndInv, TypeInv', NEW s \in Streams, NEW r \in Removers, RemoverStep(s, r)
    PROVE  EndInv'
<1>1. /\ outcome' = outcome /\ pubPc' = pubPc /\ ctxDone' = ctxDone /\ chan' = chan
      /\ strPc' = strPc /\ result' = result
  BY DEF RemoverStep, RemoveSubscriber, RemoverClose, pubVars, streamVars
<1>2. WritesOnce' /\ (FinalWritten => FinalWritten')
  BY <1>1, UpdatersUntouched
<1>3. EndsAnnounced'
  BY <1>1, <1>2, ChannelsUntouched
<1>4. removing[s][r] \in {"waiting", "closing"}
  BY DEF RemoverStep, RemoveSubscriber, RemoverClose
<1>5. PICK v \in {"closing", "done"} : removing' = [removing EXCEPT ![s][r] = v]
  BY DEF RemoverStep, RemoveSubscriber, RemoverClose
<1>6. /\ removing'[s][r] = v
      /\ \A t \in Streams, q \in Removers : <<t, q>> # <<s, r>> => removing'[t][q] = removing[t][q]
  <2>1. removing \in [Streams -> [Removers -> RemoverPc]]
    BY DEF EndInv, TypeInv, TypeOK
  <2> QED
    BY <1>5, <2>1
<1>7. \A t \in Streams, q \in Removers : removing'[t][q] = "none" <=> removing[t][q] = "none"
  BY <1>4, <1>5, <1>6
<1>8. "ctx" \in Removers /\ "defer" \in Removers /\ "slow" \in Removers
  BY DEF Removers
<1>9. HandlerPhases' /\ StreamEndExplained'
  BY <1>1, <1>2, <1>7, <1>8 DEF EndInv, HandlerPhases, StreamEndExplained, NotSubscribedYet, Subscribed
<1>10. TakenExplained'
  <2>1. CASE RemoverClose(s, r)
    <3>1. \A t \in Streams : Taken(t)' => Taken(t)
      <4>1. removing[s][r] = "closing" /\ closed' = closed \cup {s}
        BY <2>1 DEF RemoverClose, CloseAll
      <4> QED
        BY <1>6, <4>1 DEF Taken
    <3> QED
      BY <1>2, <1>7, <1>8, <3>1 DEF EndInv, TakenExplained
  <2>2. CASE RemoveSubscriber(s, r)
    <3>1. \A t \in Streams \ {s} : Taken(t)' => Taken(t)
      BY <1>6, <2>2 DEF RemoveSubscriber, Taken
    <3>2. r = "ctx" => FinalWritten
      BY <2>2 DEF RemoveSubscriber, EndInv, EndsAnnounced
    <3>3. FinalWritten \/ removing[s]["slow"] # "none" \/ removing[s]["defer"] # "none"
      BY <1>4, <3>2 DEF Removers
    <3> QED
      BY <1>2, <1>7, <1>8, <3>1, <3>3 DEF EndInv, TakenExplained
  <2> QED
    BY <2>1, <2>2 DEF RemoverStep
<1> QED
  BY <1>2, <1>3, <1>9, <1>10 DEF EndInv

\* The steps of a handler that write no status and start no Shutdown.
LEMMA HandlerEnd ==
    ASSUME EndInv, TypeInv', NEW s \in Streams, GetBuffer(s) \/ HandlerStep(s) \/ ClientStep(s)
    PROVE  EndInv'
<1>1. /\ outcome' = outcome /\ pubPc' = pubPc /\ ctxDone' = ctxDone /\ closed' = closed
  BY DEF GetBuffer, HandlerStep, ClientStep, GetIsRunning, Subscribe, LoopCancelled, LoopClosed,
         LoopLogChunk, LoopStatusIgnored, LoopStatusEnds, SendFinal, SendExistingFails,
         AttachCancelled, AttachNotRunning, AttachRunning, SendData, SendDataFails,
         Return, LeaveLoop, taskVars, pubVars
<1>2. WritesOnce' /\ (FinalWritten => FinalWritten')
  BY <1>1, UpdatersUntouched
<1>3. chan[s] \in Seq(Updates) /\ chan \in [Streams -> Seq(Updates)]
  BY DEF EndInv, TypeInv, TypeOK
<1>4. chan' = chan \/ (chan[s] # <<>> /\ chan' = [chan EXCEPT ![s] = Tail(chan[s])])
  BY DEF GetBuffer, HandlerStep, ClientStep, GetIsRunning, Subscribe, LoopCancelled, LoopClosed,
         LoopLogChunk, LoopStatusIgnored, LoopStatusEnds, SendFinal, SendExistingFails,
         AttachCancelled, AttachNotRunning, AttachRunning, SendData, SendDataFails,
         Return, LeaveLoop, taskVars
<1>5. \A t \in Streams : \A i \in DOMAIN chan'[t] :
         \E j \in DOMAIN chan[t] : chan'[t][i] = chan[t][j]
  <2>1. CASE chan' = chan
    BY <2>1
  <2>2. CASE chan[s] # <<>> /\ chan' = [chan EXCEPT ![s] = Tail(chan[s])]
    <3>1. \A i \in DOMAIN Tail(chan[s]) : i + 1 \in DOMAIN chan[s] /\ Tail(chan[s])[i] = chan[s][i + 1]
      BY <1>3, <2>2
    <3>2. chan'[s] = Tail(chan[s]) /\ \A t \in Streams \ {s} : chan'[t] = chan[t]
      BY <1>3, <2>2
    <3> QED
      BY <3>1, <3>2
  <2> QED
    BY <1>4, <2>1, <2>2
<1>6. EndsAnnounced'
  BY <1>1, <1>2, <1>5, ChannelsUntouched
<1>7. SUFFICES TakenExplained' /\ HandlerPhases' /\ StreamEndExplained'
  BY <1>2, <1>6 DEF EndInv
<1>8. "ctx" \in Removers /\ "defer" \in Removers /\ "slow" \in Removers
  BY DEF Removers
<1>9. strPc \in [Streams -> StrPc] /\ result \in [Streams -> {"none", "nil", "cancelled", "send_error"}]
  BY DEF EndInv, TypeInv, TypeOK
<1>10. CASE GetBuffer(s) \/ GetIsRunning(s) \/ AttachRunning(s)
  <2>1. /\ removing' = removing /\ result' = result /\ NotSubscribedYet(s) /\ strPc[s] # "done"
        /\ strPc'[s] \in {"read", "history", "final", "subscribe"}
        /\ \A t \in Streams \ {s} : strPc'[t] = strPc[t]
    BY <1>9, <1>10 DEF GetBuffer, GetIsRunning, AttachRunning, NotSubscribedYet, taskVars
  <2> QED
    BY <1>1, <1>2, <2>1
    DEF EndInv, TakenExplained, HandlerPhases, StreamEndExplained, Taken, NotSubscribedYet, Subscribed
<1>11. ASSUME NEW res, Return(s, res), strPc[s] \in {"final", "history"}
       PROVE  TakenExplained' /\ HandlerPhases' /\ StreamEndExplained'
  <2>1. /\ removing' = removing /\ NotSubscribedYet(s) /\ strPc'[s] = "done"
        /\ \A t \in Streams \ {s} : strPc'[t] = strPc[t] /\ result'[t] = result[t]
    BY <1>9, <1>11 DEF Return, NotSubscribedYet, taskVars
  <2>2. ~Subscribed(s)'
    BY <2>1 DEF EndInv, HandlerPhases, Subscribed
  <2> QED
    BY <1>1, <1>2, <2>1, <2>2
    DEF EndInv, TakenExplained, HandlerPhases, StreamEndExplained, Taken, NotSubscribedYet, Subscribed
<1>12. CASE Subscribe(s)
  <2>1. /\ result' = result /\ strPc[s] = "subscribe" /\ strPc'[s] = "loop"
        /\ \A t \in Streams \ {s} : strPc'[t] = strPc[t]
    BY <1>9, <1>12 DEF Subscribe
  <2>2. removing' = [removing EXCEPT ![s]["ctx"] = "waiting"]
    BY <1>12 DEF Subscribe
  <2>3. /\ removing'[s]["ctx"] = "waiting"
        /\ \A t \in Streams, q \in Removers :
              <<t, q>> # <<s, "ctx">> => removing'[t][q] = removing[t][q]
    <3>1. removing \in [Streams -> [Removers -> RemoverPc]]
      BY DEF EndInv, TypeInv, TypeOK
    <3> QED
      BY <1>8, <2>2, <3>1
  <2>4. TakenExplained'
    BY <1>1, <1>2, <1>8, <2>3 DEF EndInv, TakenExplained, Taken
  <2>5. HandlerPhases'
    BY <1>8, <2>1, <2>3 DEF EndInv, HandlerPhases, NotSubscribedYet, Subscribed
  <2>6. result'[s] # "nil"
    BY <2>1 DEF EndInv, HandlerPhases
  <2>7. StreamEndExplained'
    BY <1>2, <1>8, <2>1, <2>3, <2>6 DEF EndInv, StreamEndExplained, Subscribed
  <2> QED
    BY <2>4, <2>5, <2>7
<1>13. ASSUME NEW res, LeaveLoop(s, res), strPc[s] \in {"loop", "senddata"},
              res = "nil" => FinalWritten \/ removing[s]["slow"] # "none"
       PROVE  TakenExplained' /\ HandlerPhases' /\ StreamEndExplained'
  <2>1. /\ strPc'[s] = "returning" /\ result'[s] = res
        /\ \A t \in Streams \ {s} : strPc'[t] = strPc[t] /\ result'[t] = result[t]
    BY <1>9, <1>13 DEF LeaveLoop
  <2>2. removing' = [removing EXCEPT ![s]["defer"] = "waiting"]
    BY <1>13 DEF LeaveLoop
  <2>3. /\ removing'[s]["defer"] = "waiting"
        /\ \A t \in Streams, q \in Removers :
              <<t, q>> # <<s, "defer">> => removing'[t][q] = removing[t][q]
    <3>1. removing \in [Streams -> [Removers -> RemoverPc]]
      BY DEF EndInv, TypeInv, TypeOK
    <3> QED
      BY <1>8, <2>2, <3>1
  <2>4. TakenExplained'
    BY <1>1, <1>2, <1>8, <2>3 DEF EndInv, TakenExplained, Taken
  <2>5. HandlerPhases'
    BY <1>8, <2>1, <2>3 DEF EndInv, HandlerPhases, NotSubscribedYet, Subscribed
  <2>6. StreamEndExplained'
    BY <1>2, <1>8, <1>13, <2>1, <2>3 DEF EndInv, StreamEndExplained, Subscribed
  <2> QED
    BY <2>4, <2>5, <2>6
<1>14. CASE LoopCancelled(s) \/ SendDataFails(s)
  BY <1>13, <1>14 DEF LoopCancelled, SendDataFails
<1>15. CASE LoopClosed(s)
  <2>1. FinalWritten \/ removing[s]["slow"] # "none"
    BY <1>15 DEF LoopClosed, EndInv, TakenExplained, Taken, HandlerPhases
  <2> QED
    BY <1>13, <1>15, <2>1 DEF LoopClosed
<1>16. CASE LoopStatusEnds(s)
  <2>1. 1 \in DOMAIN chan[s] /\ Head(chan[s]) = chan[s][1]
    BY <1>3, <1>16 DEF LoopStatusEnds
  <2>2. FinalWritten
    BY <1>16, <2>1 DEF LoopStatusEnds, EndInv, EndsAnnounced
  <2> QED
    BY <1>13, <1>16, <2>2 DEF LoopStatusEnds
<1>17. CASE LoopLogChunk(s) \/ SendData(s)
  <2>1. /\ removing' = removing /\ result' = result
        /\ strPc[s] \in {"loop", "senddata"} /\ strPc'[s] \in {"loop", "senddata"}
        /\ \A t \in Streams \ {s} : strPc'[t] = strPc[t]
    BY <1>9, <1>17 DEF LoopLogChunk, SendData, taskVars
  <2> QED
    BY <1>1, <1>2, <2>1
    DEF EndInv, TakenExplained, HandlerPhases, StreamEndExplained, Taken, NotSubscribedYet, Subscribed
<1>18. CASE LoopStatusIgnored(s)
  BY <1>1, <1>2, <1>18, HandlersUntouched DEF LoopStatusIgnored, streamVars
<1> QED
  BY <1>10, <1>11, <1>12, <1>14, <1>15, <1>16, <1>17, <1>18
  DEF HandlerStep, ClientStep, SendFinal, SendExistingFails, AttachCancelled, AttachNotRunning

\* Every step keeps the explanation.
LEMMA EndStep == EndInv /\ [Next]_vars => EndInv'
<1> SUFFICES ASSUME EndInv, [Next]_vars
             PROVE  EndInv'
  OBVIOUS
<1>1. TypeInv'
  BY TypeStep DEF EndInv
<1>2. ASSUME NEW w \in Writers, WriteToBuffer(w) \/ WriterEOF(w)
      PROVE  EndInv'
  <2>1. \A u \in Updaters : pubPc'[u] = pubPc[u]
    BY <1>2, ConstantsAssumption DEF WriteToBuffer, WriterEOF, EndInv, TypeInv, TypeOK, Publishers
  <2>2. outcome' = outcome
    BY <1>2 DEF WriteToBuffer, WriterEOF
  <2>3. WritesOnce' /\ (FinalWritten => FinalWritten')
    BY <2>1, <2>2, UpdatersUntouched
  <2>4. EndsAnnounced'
    BY <1>2, <2>3, ChannelsUntouched DEF WriteToBuffer, WriterEOF, taskVars
  <2> QED
    BY <1>1, <1>2, <2>3, <2>4, HandlersUntouched
    DEF WriteToBuffer, WriterEOF, taskVars, streamVars, EndInv
<1>3. CASE StartUpdate \/ MonitorUpdate \/ \E u \in Stoppers : StopUpdate(u)
  BY <1>1, <1>3, UpdateJobEnd DEF StartUpdate, MonitorUpdate, StopUpdate, Updaters
<1>4. ASSUME NEW u \in Stoppers, StopRead(u)
      PROVE  EndInv'
  <2>1. outcome' = outcome /\ pubPc[u] = "idle" /\ pubPc'[u] = "stopping"
        /\ \A v \in Updaters \ {u} : pubPc'[v] = pubPc[v]
    BY <1>4 DEF StopRead, EndInv, TypeInv, TypeOK, Publishers, Updaters
  <2>2. WritesOnce' /\ (FinalWritten => FinalWritten')
    BY <2>1, UpdatersUntouched
  <2>3. EndsAnnounced'
    BY <1>4, <2>2, ChannelsUntouched DEF StopRead, taskVars
  <2> QED
    BY <1>1, <1>4, <2>2, <2>3, HandlersUntouched DEF StopRead, taskVars, streamVars, EndInv
<1>5. ASSUME NEW s \in Streams, ClientCancel(s)
      PROVE  EndInv'
  BY <1>1, <1>5, EndUntouched DEF ClientCancel, taskVars, pubVars, streamVars
<1>6. CASE UNCHANGED vars
  BY <1>1, <1>6, EndUntouched DEF vars, taskVars, pubVars, streamVars
<1>7. ASSUME NEW u \in Updaters, UpdaterStep(u)
      PROVE  EndInv'
  BY <1>1, <1>7, PublishingEnd, ShutdownEnd DEF UpdaterStep, Publishers
<1>8. ASSUME NEW w \in Writers, Publishing(w)
      PROVE  EndInv'
  BY <1>1, <1>8, PublishingEnd DEF Publishers
<1>9. ASSUME NEW s \in Streams, NEW r \in Removers, RemoverStep(s, r)
      PROVE  EndInv'
  BY <1>1, <1>9, RemoverEnd
<1>10. ASSUME NEW s \in Streams, GetBuffer(s) \/ HandlerStep(s) \/ ClientStep(s)
       PROVE  EndInv'
  BY <1>1, <1>10, HandlerEnd
<1> QED
  BY <1>2, <1>3, <1>4, <1>5, <1>6, <1>7, <1>8, <1>9, <1>10 DEF Next

\* Nobody has written a status and no channel exists initially.
LEMMA InitEnd == Init => EndInv
<1> SUFFICES ASSUME Init PROVE EndInv
  OBVIOUS
<1>1. TypeInv
  BY InitTypes
<1>2. /\ ctxDone = FALSE /\ closed = {}
      /\ \A u \in Updaters : outcome[u] = "" /\ pubPc[u] = "idle"
      /\ \A s \in Streams : /\ chan[s] = <<>> /\ result[s] = "none" /\ strPc[s] = "idle"
                            /\ \A r \in Removers : removing[s][r] = "none"
  BY DEF Init, Publishers
<1>3. WritesOnce
  BY <1>2 DEF WritesOnce, EndsStream
<1>4. \A s \in Streams : DOMAIN chan[s] = {}
  <2>1. DOMAIN <<>> = {}
    OBVIOUS
  <2> QED
    BY <1>2, <2>1
<1>5. EndsAnnounced
  BY <1>2, <1>4 DEF EndsAnnounced
<1>6. TakenExplained /\ HandlerPhases /\ StreamEndExplained
  BY <1>2 DEF TakenExplained, HandlerPhases, StreamEndExplained, Taken, Subscribed, Removers
<1> QED
  BY <1>1, <1>3, <1>5, <1>6 DEF EndInv

\* A stream that ends without an error ended with the job or because its client
\* was too slow, however many clients come and go.
THEOREM StreamEndsForAReason == Spec => []StreamEndExplained
<1>1. EndInv => StreamEndExplained
  BY DEF EndInv
<1> QED
  BY <1>1, InitEnd, EndStep, PTL DEF Spec

-----------------------------------------------------------------------------
(* In which order chunks arrive *)

\* Of two chunks of one writer, c was written first.
Before(c, d) == c[1] = d[1] => c[2] < d[2]

\* Position k of the channel of s holds a chunk.
Queued(s, k) == k \in DOMAIN chan[s] /\ chan[s][k].LogChunk # NoChunk

\* A writer's chunks in what s was sent, in what it is being sent and in its
\* channel are in the order they were written.
Ordered(s) ==
    /\ \A i, j \in DOMAIN live[s] : i < j => Before(live[s][i], live[s][j])
    /\ \A k, l \in DOMAIN chan[s] :
          Queued(s, k) /\ Queued(s, l) /\ k < l =>
              Before(chan[s][k].LogChunk, chan[s][l].LogChunk)
    /\ \A i \in DOMAIN live[s], k \in DOMAIN chan[s] :
          Queued(s, k) => Before(live[s][i], chan[s][k].LogChunk)
    /\ strPc[s] = "senddata" =>
          /\ \A i \in DOMAIN live[s] : Before(live[s][i], sending[s])
          /\ \A k \in DOMAIN chan[s] : Queued(s, k) => Before(sending[s], chan[s][k].LogChunk)

\* Writer w is still to offer its last chunk to s.
Due(w, s) == pubPc[w] = "publish" \/ (pubPc[w] = "send" /\ s \in todo[w])

\* c is not newer than its writer's last chunk, and older than the one its
\* writer is still to offer to s.
Behind(c, s) ==
    /\ c[2] <= written[c[1]]
    /\ Due(c[1], s) => c[2] < written[c[1]]

\* Everything on its way to s is behind what its writer offers next.
AllBehind(s) ==
    /\ \A i \in DOMAIN live[s] : Behind(live[s][i], s)
    /\ \A k \in DOMAIN chan[s] : Queued(s, k) => Behind(chan[s][k].LogChunk, s)
    /\ strPc[s] = "senddata" => Behind(sending[s], s)

OrderInv == TypeInv /\ \A s \in Streams : Ordered(s) /\ AllBehind(s)

\* Whatever is on its way to a client is a chunk.
LEMMA OnItsWay ==
    ASSUME TypeInv, NEW s \in Streams
    PROVE  /\ live[s] \in Seq(Chunks) /\ chan[s] \in Seq(Updates)
           /\ \A i \in DOMAIN live[s] : live[s][i] \in Chunks
           /\ \A k \in DOMAIN chan[s] : Queued(s, k) => chan[s][k].LogChunk \in Chunks
           /\ strPc[s] = "senddata" => sending[s] \in Chunks
<1>1. live[s] \in Seq(Chunks) /\ chan[s] \in Seq(Updates)
  BY DEF TypeInv, TypeOK
<1>2. \A i \in DOMAIN live[s] : live[s][i] \in Chunks
  BY <1>1
<1>3. \A k \in DOMAIN chan[s] : chan[s][k] \in Updates
  BY <1>1
<1>4. \A k \in DOMAIN chan[s] : Queued(s, k) => chan[s][k].LogChunk \in Chunks
  BY <1>3 DEF Updates, Queued
<1> QED
  BY <1>1, <1>2, <1>4 DEF TypeInv, InHand

\* A chunk names its writer and how many that one had written.
LEMMA ChunkParts ==
    ASSUME TypeInv, NEW c \in Chunks
    PROVE  c[1] \in Writers /\ c[2] \in Nat /\ written[c[1]] \in Nat
<1>1. c[1] \in Writers /\ c[2] \in 1 .. MaxChunks
  BY DEF Chunks
<1>2. written[c[1]] \in 0 .. MaxChunks
  BY <1>1 DEF TypeInv, TypeOK
<1> QED
  BY <1>1, <1>2, ConstantsAssumption

\* A step in which no chunk moves and no writer begins to offer one.
LEMMA OrderUntouched ==
    ASSUME OrderInv, NEW s \in Streams,
           live'[s] = live[s], chan'[s] = chan[s], sending'[s] = sending[s],
           strPc'[s] = "senddata" => strPc[s] = "senddata",
           written' = written,
           \A w \in Writers : Due(w, s)' => Due(w, s)
    PROVE  Ordered(s)' /\ AllBehind(s)'
<1>1. Ordered(s)'
  BY DEF OrderInv, Ordered, Queued, Before
<1>2. \A c \in Chunks : Behind(c, s) => Behind(c, s)'
  <2> TAKE c \in Chunks
  <2>1. c[1] \in Writers
    BY ChunkParts DEF OrderInv
  <2> QED
    BY <2>1 DEF Behind
<1>3. \A k : Queued(s, k)' <=> Queued(s, k)
  BY DEF Queued
<1>4. TypeInv /\ AllBehind(s)
  BY DEF OrderInv
<1>5. AllBehind(s)'
  BY <1>2, <1>3, <1>4, OnItsWay DEF AllBehind
<1> QED
  BY <1>1, <1>5

\* A step that moves no chunk and no writer.
LEMMA OrderStutters ==
    ASSUME OrderInv, TypeInv',
           live' = live, chan' = chan, sending' = sending, written' = written, todo' = todo,
           \A s \in Streams : strPc'[s] = "senddata" => strPc[s] = "senddata",
           \A w \in Writers : pubPc'[w] \in {"publish", "send"} => pubPc'[w] = pubPc[w]
    PROVE  OrderInv'
<1>1. \A s \in Streams, w \in Writers : Due(w, s)' => Due(w, s)
  BY DEF Due
<1> QED
  BY <1>1, OrderUntouched DEF OrderInv

\* WriteToBuffer: everything on its way is older than the new chunk.
LEMMA WriteOrder ==
    ASSUME OrderInv, TypeInv', NEW w \in Writers, WriteToBuffer(w)
    PROVE  OrderInv'
<1>1. live' = live /\ chan' = chan /\ sending' = sending /\ strPc' = strPc /\ todo' = todo
  BY DEF WriteToBuffer, streamVars
<1>2. /\ written'[w] = written[w] + 1
      /\ \A v \in Writers \ {w} : written'[v] = written[v] /\ pubPc'[v] = pubPc[v]
  BY DEF WriteToBuffer, OrderInv, TypeInv, TypeOK, Publishers
<1>3. \A s \in Streams, c \in Chunks : Behind(c, s) => Behind(c, s)'
  <2> TAKE s \in Streams, c \in Chunks
  <2>1. c[1] \in Writers /\ c[2] \in Nat /\ written[c[1]] \in Nat
    BY ChunkParts DEF OrderInv
  <2>2. CASE c[1] = w
    BY <1>2, <2>1, <2>2 DEF Behind
  <2>3. CASE c[1] # w
    BY <1>1, <1>2, <2>1, <2>3 DEF Behind, Due
  <2> QED
    BY <2>2, <2>3
<1>4. \A s \in Streams : Ordered(s)'
  BY <1>1 DEF OrderInv, Ordered, Queued, Before
<1>5. \A s \in Streams : AllBehind(s)'
  <2> TAKE s \in Streams
  <2>1. AllBehind(s) /\ TypeInv
    BY DEF OrderInv
  <2>2. \A k : Queued(s, k)' <=> Queued(s, k)
    BY <1>1 DEF Queued
  <2> QED
    BY <1>1, <1>3, <2>1, <2>2, OnItsWay DEF AllBehind
<1> QED
  BY <1>4, <1>5 DEF OrderInv

\* What Publish does to who is due: a writer served the channels of S next.
LEMMA ServeDue ==
    ASSUME TypeInv, NEW p \in Publishers, NEW S \in SUBSET Streams, Serve(p, S), NEW w \in Writers,
           NEW s \in Streams, Due(w, s)'
    PROVE  (w # p /\ Due(w, s)) \/ (w = p /\ s \in S)
<1>1. w \in Publishers
  BY DEF Publishers
<1>2. CASE w # p
  BY <1>1, <1>2 DEF Serve, Due, TypeInv, TypeOK
<1>3. CASE w = p
  <2>1. AfterPublish(p) = "idle"
    BY <1>3 DEF AfterPublish
  <2>2. todo'[p] = S /\ pubPc'[p] = IF S = {} THEN AfterPublish(p) ELSE "send"
    BY DEF Serve, TypeInv, TypeOK
  <2> QED
    BY <1>3, <2>1, <2>2 DEF Due
<1> QED
  BY <1>2, <1>3

\* case ch <- update: the chunk p sends is newer than all that is on its way.
LEMMA SendOrder ==
    ASSUME OrderInv, TypeInv', NEW p \in Publishers, NEW s \in Streams, PublishSend(p, s)
    PROVE  OrderInv'
<1>1. /\ live' = live /\ sending' = sending /\ strPc' = strPc /\ written' = written
      /\ pubPc[p] = "send" /\ s \in todo[p]
  BY DEF PublishSend, streamVars
<1>2. TypeInv /\ Ordered(s) /\ AllBehind(s)
  BY DEF OrderInv
<1>3. Serve(p, todo[p] \ {s}) /\ todo[p] \ {s} \in SUBSET Streams
  BY <1>2 DEF PublishSend, TypeInv, TypeOK
<1>4. \A w \in Writers, t \in Streams : Due(w, t)' => Due(w, t) /\ <<w, t>> # <<p, s>>
  <2> SUFFICES ASSUME NEW w \in Writers, NEW t \in Streams, Due(w, t)'
               PROVE  Due(w, t) /\ <<w, t>> # <<p, s>>
    OBVIOUS
  <2>1. (w # p /\ Due(w, t)) \/ (w = p /\ t \in todo[p] \ {s})
    BY <1>2, <1>3, ServeDue
  <2> QED
    BY <1>1, <2>1 DEF Due
<1>5. chan[s] \in Seq(Updates) /\ Message(p) \in Updates
  BY <1>1, <1>2, MessageType DEF TypeInv, TypeOK
<1>6. /\ chan'[s] = Append(chan[s], Message(p))
      /\ \A t \in Streams \ {s} : chan'[t] = chan[t]
  BY <1>2 DEF PublishSend, TypeInv, TypeOK
<1>7. \A t \in Streams \ {s} : Ordered(t)' /\ AllBehind(t)'
  BY <1>1, <1>4, <1>6, OrderUntouched
<1>8. \A k \in DOMAIN chan'[s] :
         \/ k \in DOMAIN chan[s] /\ chan'[s][k] = chan[s][k]
         \/ k = Len(chan[s]) + 1 /\ chan'[s][k] = Message(p)
  BY <1>5, <1>6
<1>9. \A k \in DOMAIN chan[s] : k \in Nat /\ k < Len(chan[s]) + 1
  BY <1>5
<1>10. Message(p).LogChunk # NoChunk => p \in Writers /\ Message(p).LogChunk = <<p, written[p]>>
  BY DEF Message
<1>11. p \in Writers => Due(p, s)
  BY <1>1 DEF Due
<1>12. ASSUME NEW c \in Chunks, Behind(c, s)
       PROVE  /\ Behind(c, s)'
              /\ Message(p).LogChunk # NoChunk => Before(c, Message(p).LogChunk)
  <2>1. c[1] \in Writers
    BY <1>2, ChunkParts
  <2>2. Behind(c, s)'
    BY <1>1, <1>4, <1>12, <2>1 DEF Behind
  <2>3. p \in Writers => Before(c, <<p, written[p]>>)
    BY <1>11, <1>12 DEF Behind, Before
  <2> QED
    BY <1>10, <2>2, <2>3
<1>13. /\ \A i \in DOMAIN live[s] : live[s][i] \in Chunks /\ Behind(live[s][i], s)
       /\ \A k \in DOMAIN chan[s] :
             Queued(s, k) => chan[s][k].LogChunk \in Chunks /\ Behind(chan[s][k].LogChunk, s)
       /\ strPc[s] = "senddata" => sending[s] \in Chunks /\ Behind(sending[s], s)
  BY <1>2, OnItsWay DEF AllBehind
<1>14. \A k \in DOMAIN chan'[s] : Queued(s, k)' =>
          \/ Queued(s, k) /\ chan'[s][k].LogChunk = chan[s][k].LogChunk
          \/ /\ k = Len(chan[s]) + 1
             /\ chan'[s][k].LogChunk = Message(p).LogChunk
             /\ Message(p).LogChunk # NoChunk
  BY <1>8 DEF Queued
<1>15. Ordered(s)'
  <2>1. \A i, j \in DOMAIN live'[s] : i < j => Before(live'[s][i], live'[s][j])
    BY <1>1, <1>2 DEF Ordered
  <2>2. ASSUME NEW k \in DOMAIN chan'[s], NEW l \in DOMAIN chan'[s],
               Queued(s, k)', Queued(s, l)', k < l
        PROVE  Before(chan'[s][k].LogChunk, chan'[s][l].LogChunk)
    <3>1. Queued(s, k) /\ chan'[s][k].LogChunk = chan[s][k].LogChunk
      <4>1. k # Len(chan[s]) + 1
        BY <1>5, <1>8, <1>9, <2>2
      <4> QED
        BY <1>14, <2>2, <4>1
    <3>2. k \in DOMAIN chan[s]
      BY <3>1 DEF Queued
    <3>3. CASE Queued(s, l) /\ chan'[s][l].LogChunk = chan[s][l].LogChunk
      BY <1>2, <2>2, <3>1, <3>2, <3>3 DEF Ordered, Queued
    <3>4. CASE chan'[s][l].LogChunk = Message(p).LogChunk /\ Message(p).LogChunk # NoChunk
      BY <1>12, <1>13, <3>1, <3>2, <3>4
    <3> QED
      BY <1>14, <2>2, <3>3, <3>4
  <2>3. ASSUME NEW i \in DOMAIN live'[s], NEW k \in DOMAIN chan'[s], Queued(s, k)'
        PROVE  Before(live'[s][i], chan'[s][k].LogChunk)
    <3>1. CASE Queued(s, k) /\ chan'[s][k].LogChunk = chan[s][k].LogChunk
      BY <1>1, <1>2, <2>3, <3>1 DEF Ordered, Queued
    <3>2. CASE chan'[s][k].LogChunk = Message(p).LogChunk /\ Message(p).LogChunk # NoChunk
      BY <1>1, <1>12, <1>13, <2>3, <3>2
    <3> QED
      BY <1>14, <2>3, <3>1, <3>2
  <2>4. ASSUME strPc'[s] = "senddata", NEW k \in DOMAIN chan'[s], Queued(s, k)'
        PROVE  Before(sending'[s], chan'[s][k].LogChunk)
    <3>1. CASE Queued(s, k) /\ chan'[s][k].LogChunk = chan[s][k].LogChunk
      BY <1>1, <1>2, <2>4, <3>1 DEF Ordered, Queued
    <3>2. CASE chan'[s][k].LogChunk = Message(p).LogChunk /\ Message(p).LogChunk # NoChunk
      BY <1>1, <1>12, <1>13, <2>4, <3>2
    <3> QED
      BY <1>14, <2>4, <3>1, <3>2
  <2>5. strPc'[s] = "senddata" => \A i \in DOMAIN live'[s] : Before(live'[s][i], sending'[s])
    BY <1>1, <1>2 DEF Ordered
  <2> QED
    BY <2>1, <2>2, <2>3, <2>4, <2>5 DEF Ordered
<1>16. AllBehind(s)'
  <2>1. \A i \in DOMAIN live'[s] : Behind(live[s][i], s)'
    BY <1>1, <1>12, <1>13
  <2>2. ASSUME NEW k \in DOMAIN chan'[s], Queued(s, k)'
        PROVE  Behind(chan[s][k].LogChunk, s)'
    <3>1. CASE Queued(s, k) /\ chan'[s][k].LogChunk = chan[s][k].LogChunk
      BY <1>12, <1>13, <3>1 DEF Queued
    <3>2. CASE chan'[s][k].LogChunk = Message(p).LogChunk /\ Message(p).LogChunk # NoChunk
      <4>1. p \in Writers /\ chan'[s][k].LogChunk = <<p, written[p]>>
        BY <1>10, <3>2
      <4>2. ~Due(p, s)'
        BY <1>4, <4>1
      <4>3. written[p] \in Nat
        <5>1. written[p] \in 0 .. MaxChunks
          BY <1>2, <4>1 DEF TypeInv, TypeOK
        <5> QED
          BY <5>1, ConstantsAssumption
      <4> QED
        BY <1>1, <4>1, <4>2, <4>3 DEF Behind
    <3> QED
      BY <1>14, <2>2, <3>1, <3>2
  <2>3. strPc'[s] = "senddata" => Behind(sending[s], s)'
    BY <1>1, <1>12, <1>13
  <2> QED
    BY <2>1, <2>2, <2>3 DEF AllBehind
<1> QED
  BY <1>7, <1>15, <1>16 DEF OrderInv

\* Publish keeps the order.
LEMMA PublishingOrder ==
    ASSUME OrderInv, TypeInv', NEW p \in Publishers, Publishing(p)
    PROVE  OrderInv'
<1>1. TypeInv
  BY DEF OrderInv
<1>2. ASSUME NEW S \in SUBSET Streams, Serve(p, S), S \subseteq todo[p] \/ pubPc[p] = "publish",
             pubPc[p] \in {"publish", "send"},
             chan' = chan, live' = live, sending' = sending, strPc' = strPc, written' = written
      PROVE  OrderInv'
  <2>1. \A w \in Writers, s \in Streams : Due(w, s)' => Due(w, s)
    BY <1>1, <1>2, ServeDue DEF Due
  <2> QED
    BY <1>2, <2>1, OrderUntouched DEF OrderInv
<1>3. CASE PublishSnapshot(p)
  <2>1. subscribers \in SUBSET Streams
    BY <1>1 DEF TypeInv, TypeOK
  <2> QED
    BY <1>2, <1>3, <2>1 DEF PublishSnapshot, taskVars, streamVars
<1>4. CASE PublishCancelled(p)
  BY <1>2, <1>4 DEF PublishCancelled, taskVars, streamVars
<1>5. ASSUME NEW s \in Streams, PublishTimeout(p, s)
      PROVE  OrderInv'
  <2>1. todo[p] \ {s} \in SUBSET Streams
    BY <1>1 DEF TypeInv, TypeOK
  <2> QED
    BY <1>2, <1>5, <2>1 DEF PublishTimeout, streamVars
<1>6. ASSUME NEW s \in Streams, PublishPanic(p, s)
      PROVE  OrderInv'
  BY <1>6, OrderStutters DEF PublishPanic, taskVars, pubVars, streamVars
<1> QED
  BY <1>3, <1>4, <1>5, <1>6, SendOrder DEF Publishing

\* The rest of a channel whose first update was taken.
LEMMA TailOfChannel ==
    ASSUME TypeInv, NEW s \in Streams, chan[s] # <<>>, chan'[s] = Tail(chan[s])
    PROVE  /\ 1 \in DOMAIN chan[s] /\ Head(chan[s]) = chan[s][1]
           /\ \A k \in DOMAIN chan'[s] : /\ k + 1 \in DOMAIN chan[s] /\ 1 < k + 1 /\ k \in Nat
                                         /\ chan'[s][k] = chan[s][k + 1]
<1>1. chan[s] \in Seq(Updates)
  BY DEF TypeInv, TypeOK
<1> QED
  BY <1>1

\* The handler takes an update from its channel: a chunk goes to SendData, a
\* status nowhere.
LEMMA TakeOrder ==
    ASSUME OrderInv, NEW s \in Streams, chan[s] # <<>>, chan'[s] = Tail(chan[s]),
           live' = live, written' = written, pubPc' = pubPc, todo' = todo,
           strPc'[s] = "senddata" =>
               Head(chan[s]).LogChunk # NoChunk /\ sending'[s] = Head(chan[s]).LogChunk
    PROVE  Ordered(s)' /\ AllBehind(s)'
<1>1. TypeInv /\ Ordered(s) /\ AllBehind(s)
  BY DEF OrderInv
<1>2. /\ 1 \in DOMAIN chan[s] /\ Head(chan[s]) = chan[s][1]
      /\ \A k \in DOMAIN chan'[s] : /\ k + 1 \in DOMAIN chan[s] /\ 1 < k + 1 /\ k \in Nat
                                    /\ chan'[s][k] = chan[s][k + 1]
  BY <1>1, TailOfChannel
<1>3. \A k \in DOMAIN chan'[s] : Queued(s, k)' =>
         Queued(s, k + 1) /\ chan'[s][k].LogChunk = chan[s][k + 1].LogChunk
  BY <1>2 DEF Queued
<1>4. strPc'[s] = "senddata" => Queued(s, 1) /\ sending'[s] = chan[s][1].LogChunk
  BY <1>2 DEF Queued
<1>5. Ordered(s)'
  <2>1. \A i, j \in DOMAIN live'[s] : i < j => Before(live'[s][i], live'[s][j])
    BY <1>1 DEF Ordered
  <2>2. ASSUME NEW k \in DOMAIN chan'[s], NEW l \in DOMAIN chan'[s],
               Queued(s, k)', Queued(s, l)', k < l
        PROVE  Before(chan'[s][k].LogChunk, chan'[s][l].LogChunk)
    <3>1. k + 1 < l + 1 /\ k + 1 \in DOMAIN chan[s] /\ l + 1 \in DOMAIN chan[s]
      BY <1>2, <2>2
    <3> QED
      BY <1>1, <1>3, <2>2, <3>1 DEF Ordered
  <2>3. \A i \in DOMAIN live'[s], k \in DOMAIN chan'[s] :
           Queued(s, k)' => Before(live'[s][i], chan'[s][k].LogChunk)
    BY <1>1, <1>2, <1>3 DEF Ordered
  <2>4. strPc'[s] = "senddata" => \A i \in DOMAIN live'[s] : Before(live'[s][i], sending'[s])
    BY <1>1, <1>2, <1>4 DEF Ordered
  <2>5. strPc'[s] = "senddata" =>
           \A k \in DOMAIN chan'[s] : Queued(s, k)' => Before(sending'[s], chan'[s][k].LogChunk)
    BY <1>1, <1>2, <1>3, <1>4 DEF Ordered
  <2> QED
    BY <2>1, <2>2, <2>3, <2>4, <2>5 DEF Ordered
<1>6. \A c : Behind(c, s)' <=> Behind(c, s)
  BY DEF Behind, Due
<1>7. AllBehind(s)'
  <2>1. \A i \in DOMAIN live'[s] : Behind(live[s][i], s)'
    BY <1>1, <1>6 DEF AllBehind
  <2>2. \A k \in DOMAIN chan'[s] : Queued(s, k)' => Behind(chan[s][k].LogChunk, s)'
    BY <1>1, <1>2, <1>3, <1>6 DEF AllBehind
  <2>3. strPc'[s] = "senddata" => Behind(sending[s], s)'
    BY <1>1, <1>2, <1>4, <1>6 DEF AllBehind
  <2> QED
    BY <2>1, <2>2, <2>3 DEF AllBehind
<1> QED
  BY <1>5, <1>7

\* SendData returns: the chunk in hand becomes the last one sent.
LEMMA SendDataOrder ==
    ASSUME OrderInv, TypeInv', NEW s \in Streams, SendData(s)
    PROVE  OrderInv'
<1>1. TypeInv /\ Ordered(s) /\ AllBehind(s) /\ strPc[s] = "senddata"
  BY DEF OrderInv, SendData
<1>2. chan' = chan /\ written' = written /\ pubPc' = pubPc /\ todo' = todo
  BY DEF SendData, taskVars, pubVars
<1>3. /\ live'[s] = Append(live[s], sending[s]) /\ strPc'[s] = "loop"
      /\ \A t \in Streams \ {s} :
            live'[t] = live[t] /\ strPc'[t] = strPc[t] /\ sending'[t] = sending[t]
  BY <1>1 DEF SendData, TypeInv, TypeOK
<1>4. \A t \in Streams \ {s} : Ordered(t)' /\ AllBehind(t)'
  BY <1>2, <1>3, OrderUntouched DEF Due
<1>5. live[s] \in Seq(Chunks) /\ sending[s] \in Chunks
  BY <1>1, OnItsWay
<1>6. \A i \in DOMAIN live'[s] :
         \/ i \in DOMAIN live[s] /\ live'[s][i] = live[s][i]
         \/ i = Len(live[s]) + 1 /\ live'[s][i] = sending[s]
  BY <1>3, <1>5
<1>7. \A i \in DOMAIN live[s] : i \in Nat /\ i < Len(live[s]) + 1
  BY <1>5
<1>8. \A i, j \in DOMAIN live'[s] : i < j => Before(live'[s][i], live'[s][j])
  <2> SUFFICES ASSUME NEW i \in DOMAIN live'[s], NEW j \in DOMAIN live'[s], i < j
               PROVE  Before(live'[s][i], live'[s][j])
    OBVIOUS
  <2>1. i \in DOMAIN live[s] /\ live'[s][i] = live[s][i]
    BY <1>5, <1>6, <1>7
  <2> QED
    BY <1>1, <1>6, <2>1 DEF Ordered
<1>9. \A k : Queued(s, k)' <=> Queued(s, k)
  BY <1>2 DEF Queued
<1>10. Ordered(s)'
  BY <1>1, <1>2, <1>3, <1>6, <1>8, <1>9 DEF Ordered
<1>11. \A c : Behind(c, s)' <=> Behind(c, s)
  BY <1>2 DEF Behind, Due
<1>12. AllBehind(s)'
  <2>1. \A i \in DOMAIN live'[s] : Behind(live[s][i], s)'
    BY <1>1, <1>6, <1>11 DEF AllBehind
  <2> QED
    BY <1>1, <1>2, <1>3, <1>9, <1>11, <2>1 DEF AllBehind
<1> QED
  BY <1>4, <1>10, <1>12 DEF OrderInv

\* Every step of a handler keeps the order.
LEMMA HandlerOrder ==
    ASSUME OrderInv, TypeInv', NEW s \in Streams, GetBuffer(s) \/ HandlerStep(s) \/ ClientStep(s)
    PROVE  OrderInv'
<1>1. TypeInv
  BY DEF OrderInv
<1>2. strPc \in [Streams -> StrPc] /\ chan \in [Streams -> Seq(Updates)]
      /\ sending \in [Streams -> Chunks \cup {NoChunk}]
  BY <1>1 DEF TypeInv, TypeOK
<1>3. CASE GetBuffer(s) \/ GetIsRunning(s) \/ AttachRunning(s) \/ Subscribe(s)
  BY <1>2, <1>3, OrderStutters
  DEF GetBuffer, GetIsRunning, AttachRunning, Subscribe, taskVars, pubVars
<1>4. ASSUME NEW res, Return(s, res)
      PROVE  OrderInv'
  BY <1>2, <1>4, OrderStutters DEF Return, taskVars, pubVars
<1>5. CASE LoopCancelled(s) \/ LoopClosed(s)
  BY <1>2, <1>5, OrderStutters DEF LoopCancelled, LoopClosed, LeaveLoop, pubVars
<1>6. CASE SendDataFails(s)
  <2>1. /\ live' = live /\ chan' = chan /\ written' = written /\ pubPc' = pubPc /\ todo' = todo
        /\ strPc'[s] # "senddata"
        /\ \A t \in Streams \ {s} : sending'[t] = sending[t] /\ strPc'[t] = strPc[t]
    BY <1>2, <1>6 DEF SendDataFails, LeaveLoop, pubVars
  <2>2. \A t \in Streams \ {s} : Ordered(t)' /\ AllBehind(t)'
    BY <2>1, OrderUntouched DEF Due
  <2>3. Ordered(s)' /\ AllBehind(s)'
    BY <2>1 DEF OrderInv, Ordered, AllBehind, Queued, Before, Behind, Due
  <2> QED
    BY <2>2, <2>3 DEF OrderInv
<1>7. CASE LoopLogChunk(s) \/ LoopStatusIgnored(s) \/ LoopStatusEnds(s)
  <2>1. /\ live' = live /\ written' = written /\ pubPc' = pubPc /\ todo' = todo
        /\ chan[s] # <<>> /\ chan'[s] = Tail(chan[s])
        /\ \A t \in Streams \ {s} :
              chan'[t] = chan[t] /\ sending'[t] = sending[t] /\ strPc'[t] = strPc[t]
    BY <1>2, <1>7 DEF LoopLogChunk, LoopStatusIgnored, LoopStatusEnds, LeaveLoop, pubVars, streamVars
  <2>2. strPc'[s] = "senddata" =>
           Head(chan[s]).LogChunk # NoChunk /\ sending'[s] = Head(chan[s]).LogChunk
    BY <1>2, <1>7 DEF LoopLogChunk, LoopStatusIgnored, LoopStatusEnds, LeaveLoop, streamVars
  <2>3. \A t \in Streams \ {s} : Ordered(t)' /\ AllBehind(t)'
    BY <2>1, OrderUntouched DEF Due
  <2>4. Ordered(s)' /\ AllBehind(s)'
    BY <2>1, <2>2, TakeOrder
  <2> QED
    BY <2>3, <2>4 DEF OrderInv
<1> QED
  BY <1>3, <1>4, <1>5, <1>6, <1>7, SendDataOrder
  DEF HandlerStep, ClientStep, SendFinal, SendExistingFails, AttachCancelled, AttachNotRunning

\* Every step keeps the order.
LEMMA OrderStep == OrderInv /\ [Next]_vars => OrderInv'
<1> SUFFICES ASSUME OrderInv, [Next]_vars
             PROVE  OrderInv'
  OBVIOUS
<1>1. TypeInv /\ TypeInv'
  BY TypeStep DEF OrderInv
<1>2. pubPc \in [Publishers -> PubPc] /\ \A u \in Updaters : u \notin Writers
  BY <1>1, ConstantsAssumption DEF TypeInv, TypeOK
<1>3. ASSUME NEW w \in Writers, WriterEOF(w)
      PROVE  OrderInv'
  BY <1>1, <1>2, <1>3, OrderStutters DEF WriterEOF, Publishers, taskVars, streamVars
<1>4. ASSUME NEW u \in Updaters, NEW st \in JobStatus, UpdateJob(u, st)
      PROVE  OrderInv'
  BY <1>1, <1>2, <1>4, OrderStutters DEF UpdateJob, Publishers, streamVars
<1>5. ASSUME NEW u \in Stoppers, StopRead(u)
      PROVE  OrderInv'
  BY <1>1, <1>2, <1>5, OrderStutters DEF StopRead, Publishers, Updaters, taskVars, streamVars
<1>6. ASSUME NEW u \in Updaters, ShutdownCancel(u) \/ ShutdownClose(u)
      PROVE  OrderInv'
  BY <1>1, <1>2, <1>6, OrderStutters DEF ShutdownCancel, ShutdownClose, Publishers, streamVars
<1>7. ASSUME NEW s \in Streams, NEW r \in Removers, RemoverStep(s, r)
      PROVE  OrderInv'
  BY <1>1, <1>7, OrderStutters DEF RemoverStep, RemoveSubscriber, RemoverClose, pubVars, streamVars
<1>8. ASSUME NEW s \in Streams, ClientCancel(s)
      PROVE  OrderInv'
  BY <1>1, <1>8, OrderStutters DEF ClientCancel, taskVars, pubVars, streamVars
<1>9. CASE UNCHANGED vars
  BY <1>1, <1>9, OrderStutters DEF vars, taskVars, pubVars, streamVars
<1>10. CASE StartUpdate \/ MonitorUpdate \/ \E u \in Stoppers : StopUpdate(u)
  BY <1>4, <1>10 DEF StartUpdate, MonitorUpdate, StopUpdate, Updaters, JobStatus
<1>11. ASSUME NEW p \in Publishers, Publishing(p)
       PROVE  OrderInv'
  BY <1>1, <1>11, PublishingOrder
<1>12. ASSUME NEW w \in Writers, WriteToBuffer(w)
       PROVE  OrderInv'
  BY <1>1, <1>12, WriteOrder
<1>13. ASSUME NEW s \in Streams, GetBuffer(s) \/ HandlerStep(s) \/ ClientStep(s)
       PROVE  OrderInv'
  BY <1>1, <1>13, HandlerOrder
<1> QED
  BY <1>3, <1>5, <1>6, <1>7, <1>8, <1>9, <1>10, <1>11, <1>12, <1>13
  DEF Next, UpdaterStep, Publishers

\* Nothing is on its way initially.
LEMMA InitOrder == Init => OrderInv
<1> SUFFICES ASSUME Init PROVE OrderInv
  OBVIOUS
<1>1. \A s \in Streams : live[s] = <<>> /\ chan[s] = <<>> /\ strPc[s] # "senddata"
  BY DEF Init
<1>2. \A s \in Streams : DOMAIN live[s] = {} /\ DOMAIN chan[s] = {}
  <2>1. DOMAIN <<>> = {}
    OBVIOUS
  <2> QED
    BY <1>1, <2>1
<1> QED
  BY <1>1, <1>2, InitTypes DEF OrderInv, Ordered, AllBehind

\* Each writer's chunks reach every client in the order they were written and
\* without repetition, however many publishers share the channels.
THEOREM ChunksArriveInOrder == Spec => []LiveInOrder
<1>1. OrderInv => LiveInOrder
  BY DEF OrderInv, Ordered, Before, LiveInOrder
<1> QED
  BY <1>1, InitOrder, OrderStep, PTL DEF Spec
=============================================================================
