-------------------------- MODULE TaskPubSubProofs --------------------------
(***************************************************************************)
(* Theorems about TaskPubSub, for any number of clients, writers and       *)
(* StopJob calls, any amount of output and any channel capacity.           *)
(***************************************************************************)
EXTENDS TaskPubSub, TLAPS

\* What the types alone do not say and their preservation needs: a writer that
\* publishes has written a chunk, and a handler in SendData has one in hand.
InHand ==
    /\ \A w \in Writers : pubPc[w] \in {"publish", "send"} => written[w] >= 1
    /\ \A s \in Streams : strPc[s] = "senddata" => sending[s] \in Chunks

TypeInv == TypeOK /\ InHand

\* A published update is well formed.
LEMMA MessageType ==
    ASSUME TypeInv, NEW p \in Publishers, pubPc[p] \in {"publish", "send"}
    PROVE  Message(p) \in Updates
<1>1. CASE p \in Writers
  <2>1. written[p] \in 1..MaxChunks
    <3>1. written[p] \in 0..MaxChunks
      BY <1>1 DEF TypeInv, TypeOK
    <3>2. written[p] >= 1
      BY <1>1 DEF TypeInv, InHand
    <3> QED
      BY <3>1, <3>2, ConstantsAssumption
  <2>2. <<p, written[p]>> \in Chunks
    BY <1>1, <2>1 DEF Chunks
  <2> QED
    BY <1>1, <2>2 DEF Message, Updates
<1>2. CASE p \notin Writers
  <2>1. p \in Updaters
    BY <1>2 DEF Publishers
  <2>2. outcome[p] \in JobStatus \cup {""}
    BY <2>1 DEF TypeInv, TypeOK
  <2> QED
    BY <1>2, <2>2 DEF Message, Updates
<1> QED
  BY <1>1, <1>2

\* Publish leaves its publisher in a proper place, and a writer in "send" only
\* if it was publishing.
LEMMA ServeType ==
    ASSUME TypeInv, NEW p \in Publishers, NEW S \in SUBSET Streams, Serve(p, S),
           pubPc[p] \in {"publish", "send"}
    PROVE  /\ todo' \in [Publishers -> SUBSET Streams]
           /\ pubPc' \in [Publishers -> PubPc]
           /\ \A w \in Writers : pubPc'[w] \in {"publish", "send"} => pubPc[w] \in {"publish", "send"}
<1>1. AfterPublish(p) \in PubPc
  BY DEF AfterPublish, PubPc
<1>2. "send" \in PubPc
  BY DEF PubPc
<1> QED
  BY <1>1, <1>2 DEF TypeInv, TypeOK, Serve, Publishers

\* Every step keeps the types.
LEMMA TypeStep == TypeInv /\ [Next]_vars => TypeInv'
<1> SUFFICES ASSUME TypeInv, [Next]_vars
             PROVE  TypeInv'
  OBVIOUS
<1> USE ConstantsAssumption
<1>1. ASSUME NEW w \in Writers, WriteToBuffer(w)
      PROVE  TypeInv'
  <2>1. w \in Publishers
    BY DEF Publishers
  <2>2. written[w] + 1 \in 1..MaxChunks
    <3>1. written[w] \in 0..MaxChunks
      BY DEF TypeInv, TypeOK
    <3>2. written[w] < MaxChunks
      BY <1>1 DEF WriteToBuffer
    <3> QED
      BY <3>1, <3>2
  <2>3. buffer' \in Seq(Chunks)
    <3>1. <<w, written[w] + 1>> \in Chunks
      BY <2>2 DEF Chunks
    <3>2. buffer \in Seq(Chunks)
      BY DEF TypeInv, TypeOK
    <3> QED
      BY <1>1, <3>1, <3>2 DEF WriteToBuffer
  <2>4. written' \in [Writers -> 0..MaxChunks]
    <3>1. written[w] + 1 \in 0..MaxChunks
      BY <2>2
    <3>2. written' = [written EXCEPT ![w] = written[w] + 1]
      BY <1>1 DEF WriteToBuffer
    <3> QED
      BY <3>1, <3>2 DEF TypeInv, TypeOK
  <2>5. pubPc' \in [Publishers -> PubPc]
    BY <1>1, <2>1 DEF WriteToBuffer, TypeInv, TypeOK, PubPc
  <2>6. written'[w] >= 1
    <3>1. written'[w] = written[w] + 1
      BY <1>1 DEF WriteToBuffer, TypeInv, TypeOK
    <3> QED
      BY <2>2, <3>1
  <2>7. InHand'
    <3>1. \A v \in Writers \ {w} : written'[v] = written[v] /\ pubPc'[v] = pubPc[v]
      BY <1>1 DEF WriteToBuffer, TypeInv, TypeOK, Publishers
    <3>2. strPc' = strPc /\ sending' = sending
      BY <1>1 DEF WriteToBuffer, streamVars
    <3> QED
      BY <2>6, <3>1, <3>2 DEF TypeInv, InHand
  <2> QED
    BY <1>1, <2>3, <2>4, <2>5, <2>7 DEF WriteToBuffer, TypeInv, TypeOK, streamVars
<1>2. ASSUME NEW w \in Writers, WriterEOF(w)
      PROVE  TypeInv'
  BY <1>2 DEF WriterEOF, TypeInv, TypeOK, InHand, Publishers, PubPc, taskVars, streamVars
<1>3. ASSUME NEW p \in Publishers, PublishSnapshot(p)
      PROVE  TypeInv'
  <2>1. Serve(p, subscribers) /\ subscribers \in SUBSET Streams
    BY <1>3 DEF PublishSnapshot, TypeInv, TypeOK
  <2> QED
    BY <1>3, <2>1, ServeType
    DEF PublishSnapshot, TypeInv, TypeOK, InHand, taskVars, streamVars
<1>4. ASSUME NEW p \in Publishers, NEW s \in Streams, PublishSend(p, s)
      PROVE  TypeInv'
  <2>1. Serve(p, todo[p] \ {s}) /\ todo[p] \ {s} \in SUBSET Streams
    BY <1>4 DEF PublishSend, TypeInv, TypeOK
  <2>2. Message(p) \in Updates
    BY <1>4, MessageType DEF PublishSend
  <2>3. chan[s] \in Seq(Updates) /\ Len(chan[s]) < ChanCap
    BY <1>4 DEF PublishSend, HasRoom, TypeInv, TypeOK
  <2>4. chan' = [chan EXCEPT ![s] = Append(chan[s], Message(p))]
    BY <1>4 DEF PublishSend
  <2>5. Append(chan[s], Message(p)) \in Seq(Updates)
        /\ Len(Append(chan[s], Message(p))) <= ChanCap
    BY <2>2, <2>3
  <2>6. chan' \in [Streams -> Seq(Updates)] /\ \A t \in Streams : Len(chan'[t]) <= ChanCap
    BY <2>4, <2>5 DEF TypeInv, TypeOK
  <2> QED
    BY <1>4, <2>1, <2>6, ServeType DEF PublishSend, TypeInv, TypeOK, InHand, streamVars
<1>5. ASSUME NEW p \in Publishers, NEW s \in Streams, PublishPanic(p, s)
      PROVE  TypeInv'
  BY <1>5 DEF PublishPanic, TypeInv, TypeOK, InHand, taskVars, pubVars, streamVars
<1>6. ASSUME NEW p \in Publishers, NEW s \in Streams, PublishTimeout(p, s)
      PROVE  TypeInv'
  <2>1. Serve(p, todo[p] \ {s}) /\ todo[p] \ {s} \in SUBSET Streams
    BY <1>6 DEF PublishTimeout, TypeInv, TypeOK
  <2>2. removing' \in [Streams -> [Removers -> RemoverPc]]
    BY <1>6 DEF PublishTimeout, TypeInv, TypeOK, Removers, RemoverPc
  <2> QED
    BY <1>6, <2>1, <2>2, ServeType DEF PublishTimeout, TypeInv, TypeOK, InHand, streamVars
<1>7. ASSUME NEW p \in Publishers, PublishCancelled(p)
      PROVE  TypeInv'
  <2>1. Serve(p, {}) /\ {} \in SUBSET Streams
    BY <1>7 DEF PublishCancelled
  <2> QED
    BY <1>7, <2>1, ServeType
    DEF PublishCancelled, TypeInv, TypeOK, InHand, taskVars, streamVars
<1>8. ASSUME NEW u \in Updaters, NEW st \in JobStatus, UpdateJob(u, st)
      PROVE  TypeInv'
  BY <1>8 DEF UpdateJob, TypeInv, TypeOK, InHand, Publishers, PubPc, streamVars
<1>9. ASSUME NEW u \in Stoppers, StopRead(u)
      PROVE  TypeInv'
  BY <1>9 DEF StopRead, TypeInv, TypeOK, InHand, Publishers, Updaters, PubPc, taskVars, streamVars
<1>10. ASSUME NEW u \in Updaters, ShutdownCancel(u)
       PROVE  TypeInv'
  BY <1>10 DEF ShutdownCancel, TypeInv, TypeOK, InHand, Publishers, PubPc, streamVars
<1>11. ASSUME NEW u \in Updaters, ShutdownClose(u)
       PROVE  TypeInv'
  BY <1>11 DEF ShutdownClose, CloseAll, TypeInv, TypeOK, InHand, Publishers, PubPc, streamVars
<1>12. ASSUME NEW s \in Streams, NEW r \in Removers, RemoverStep(s, r)
       PROVE  TypeInv'
  <2>1. CASE RemoveSubscriber(s, r)
    BY <2>1 DEF RemoveSubscriber, TypeInv, TypeOK, InHand, RemoverPc, pubVars, streamVars
  <2>2. CASE RemoverClose(s, r)
    BY <2>2 DEF RemoverClose, CloseAll, TypeInv, TypeOK, InHand, RemoverPc, pubVars, streamVars
  <2> QED
    BY <1>12, <2>1, <2>2 DEF RemoverStep
<1>13. ASSUME NEW s \in Streams, GetBuffer(s) \/ GetIsRunning(s) \/ AttachRunning(s)
       PROVE  TypeInv'
  <2>1. CASE GetBuffer(s)
    BY <2>1 DEF GetBuffer, TypeInv, TypeOK, InHand, StrPc, taskVars, pubVars
  <2>2. CASE GetIsRunning(s)
    BY <2>2 DEF GetIsRunning, TypeInv, TypeOK, InHand, StrPc, taskVars, pubVars
  <2>3. CASE AttachRunning(s)
    BY <2>3 DEF AttachRunning, TypeInv, TypeOK, InHand, StrPc, taskVars, pubVars
  <2> QED
    BY <1>13, <2>1, <2>2, <2>3
<1>14. ASSUME NEW s \in Streams, NEW res \in {"nil", "cancelled", "send_error"}, Return(s, res)
       PROVE  TypeInv'
  BY <1>14 DEF Return, TypeInv, TypeOK, InHand, StrPc, taskVars, pubVars
<1>15. ASSUME NEW s \in Streams, Subscribe(s)
       PROVE  TypeInv'
  BY <1>15 DEF Subscribe, TypeInv, TypeOK, InHand, StrPc, Removers, RemoverPc, pubVars
<1>16. ASSUME NEW s \in Streams, LoopCancelled(s) \/ LoopClosed(s) \/ LoopStatusEnds(s) \/ SendDataFails(s)
       PROVE  TypeInv'
  <2>1. PICK res \in {"nil", "cancelled", "send_error"} : LeaveLoop(s, res)
    BY <1>16 DEF LoopCancelled, LoopClosed, LoopStatusEnds, SendDataFails
  <2>2. chan' \in [Streams -> Seq(Updates)] /\ \A t \in Streams : Len(chan'[t]) <= ChanCap
    <3>1. CASE chan' = chan
      BY <3>1 DEF TypeInv, TypeOK
    <3>2. CASE chan[s] # <<>> /\ chan' = [chan EXCEPT ![s] = Tail(chan[s])]
      <4>1. chan[s] \in Seq(Updates) /\ Len(chan[s]) <= ChanCap
        BY DEF TypeInv, TypeOK
      <4>2. Tail(chan[s]) \in Seq(Updates) /\ Len(Tail(chan[s])) <= ChanCap
        BY <3>2, <4>1
      <4> QED
        BY <3>2, <4>2 DEF TypeInv, TypeOK
    <3> QED
      BY <1>16, <3>1, <3>2 DEF LoopCancelled, LoopClosed, LoopStatusEnds, SendDataFails
  <2>3. sending' \in {sending, [sending EXCEPT ![s] = NoChunk]}
    BY <1>16 DEF LoopCancelled, LoopClosed, LoopStatusEnds, SendDataFails
  <2>4. sending' \in [Streams -> Chunks \cup {NoChunk}]
    BY <2>3 DEF TypeInv, TypeOK
  <2>5. removing' \in [Streams -> [Removers -> RemoverPc]]
    BY <2>1 DEF LeaveLoop, TypeInv, TypeOK, Removers, RemoverPc
  <2>6. strPc' \in [Streams -> StrPc]
    BY <2>1 DEF LeaveLoop, TypeInv, TypeOK, StrPc
  <2>7. result' \in [Streams -> {"none", "nil", "cancelled", "send_error"}]
    BY <2>1 DEF LeaveLoop, TypeInv, TypeOK
  <2>8. TypeOK'
    BY <2>1, <2>2, <2>4, <2>5, <2>6, <2>7 DEF LeaveLoop, TypeInv, TypeOK, pubVars
  <2>9. InHand'
    BY <2>1, <2>3 DEF LeaveLoop, TypeInv, TypeOK, InHand, pubVars
  <2> QED
    BY <2>8, <2>9 DEF TypeInv
<1>17. ASSUME NEW s \in Streams, LoopLogChunk(s) \/ LoopStatusIgnored(s)
       PROVE  TypeInv'
  <2>1. chan[s] \in Seq(Updates) /\ Len(chan[s]) <= ChanCap /\ chan[s] # <<>>
    BY <1>17 DEF LoopLogChunk, LoopStatusIgnored, TypeInv, TypeOK
  <2>2. Tail(chan[s]) \in Seq(Updates) /\ Len(Tail(chan[s])) <= ChanCap /\ Head(chan[s]) \in Updates
    BY <2>1
  <2>3. chan' = [chan EXCEPT ![s] = Tail(chan[s])]
    BY <1>17 DEF LoopLogChunk, LoopStatusIgnored
  <2>4. chan' \in [Streams -> Seq(Updates)] /\ \A t \in Streams : Len(chan'[t]) <= ChanCap
    BY <2>2, <2>3 DEF TypeInv, TypeOK
  <2>5. Head(chan[s]).LogChunk \in Chunks \cup {NoChunk}
    BY <2>2 DEF Updates
  <2>6. CASE LoopLogChunk(s)
    <3>1. Head(chan[s]).LogChunk \in Chunks
      BY <2>5, <2>6 DEF LoopLogChunk
    <3> QED
      BY <2>4, <2>6, <3>1 DEF LoopLogChunk, TypeInv, TypeOK, InHand, StrPc, pubVars
  <2>7. CASE LoopStatusIgnored(s)
    BY <2>4, <2>7 DEF LoopStatusIgnored, TypeInv, TypeOK, InHand, pubVars, streamVars
  <2> QED
    BY <1>17, <2>6, <2>7
<1>18. ASSUME NEW s \in Streams, SendData(s)
       PROVE  TypeInv'
  <2>1. sending[s] \in Chunks /\ live[s] \in Seq(Chunks)
    BY <1>18 DEF SendData, TypeInv, TypeOK, InHand
  <2>2. Append(live[s], sending[s]) \in Seq(Chunks)
    BY <2>1
  <2>3. live' = [live EXCEPT ![s] = Append(live[s], sending[s])]
    BY <1>18 DEF SendData
  <2>4. live' \in [Streams -> Seq(Chunks)]
    BY <2>2, <2>3 DEF TypeInv, TypeOK
  <2> QED
    BY <1>18, <2>4 DEF SendData, TypeInv, TypeOK, InHand, StrPc, taskVars, pubVars
<1>19. ASSUME NEW s \in Streams, ClientCancel(s)
       PROVE  TypeInv'
  BY <1>19 DEF ClientCancel, TypeInv, TypeOK, InHand, taskVars, pubVars, streamVars
<1>20. CASE UNCHANGED vars
  BY <1>20 DEF vars, taskVars, pubVars, streamVars, TypeInv, TypeOK, InHand
<1>21. ASSUME NEW p \in Publishers, Publishing(p)
       PROVE  TypeInv'
  BY <1>21, <1>3, <1>4, <1>5, <1>6, <1>7 DEF Publishing
<1>22. CASE StartUpdate \/ MonitorUpdate \/ \E u \in Stoppers : StopUpdate(u)
  BY <1>22, <1>8 DEF StartUpdate, MonitorUpdate, StopUpdate, Updaters, JobStatus
<1>23. ASSUME NEW u \in Updaters, UpdaterStep(u)
       PROVE  TypeInv'
  BY <1>23, <1>10, <1>11, <1>21 DEF UpdaterStep, Publishers
<1>24. ASSUME NEW s \in Streams, HandlerStep(s) \/ ClientStep(s)
       PROVE  TypeInv'
  BY <1>24, <1>13, <1>14, <1>15, <1>16, <1>17, <1>18
  DEF HandlerStep, ClientStep, SendFinal, SendExistingFails, AttachCancelled, AttachNotRunning
<1> QED
  BY <1>1, <1>2, <1>9, <1>12, <1>13, <1>19, <1>20, <1>21, <1>22, <1>23, <1>24
  DEF Next, Publishers

\* The initial state is well typed.
LEMMA InitTypes == Init => TypeInv
<1> SUFFICES ASSUME Init PROVE TypeInv
  OBVIOUS
<1>1. written \in [Writers -> 0..MaxChunks]
  <2>1. written = [w \in Writers |-> 0]
    BY DEF Init
  <2> QED
    BY <2>1, ConstantsAssumption
<1>2. chan \in [Streams -> Seq(Updates)] /\ \A s \in Streams : Len(chan[s]) <= ChanCap
  <2>1. chan = [s \in Streams |-> <<>>]
    BY DEF Init
  <2> QED
    BY <2>1, ConstantsAssumption
<1>3. buffer \in Seq(Chunks) /\ existing \in [Streams -> Seq(Chunks)]
      /\ live \in [Streams -> Seq(Chunks)]
  <2>1. buffer = <<>> /\ existing = [s \in Streams |-> <<>>] /\ live = [s \in Streams |-> <<>>]
    BY DEF Init
  <2> QED
    BY <2>1
<1>4. InHand
  BY DEF Init, InHand, Publishers
<1>5. TypeOK
  BY <1>1, <1>2, <1>3 DEF Init, TypeOK, JobStatus, PubPc, StrPc, RemoverPc, Initializing
<1> QED
  BY <1>4, <1>5 DEF TypeInv

\* Type correctness, channel capacity included, of every reachable state.
THEOREM TypeCorrect == Spec => []TypeOK
<1>1. TypeInv => TypeOK
  BY DEF TypeInv
<1> QED
  BY <1>1, InitTypes, TypeStep, PTL DEF Spec

-----------------------------------------------------------------------------
(* Closing channels *)

CloseInv == TypeInv /\ OneCloser /\ CloseOnce

\* A step that opens, closes and hands over no channel keeps the invariant.
LEMMA CloseUntouched ==
    ASSUME CloseInv,
           closed' = closed, subscribers' = subscribers, crash' # "close_of_closed",
           \A s \in Streams : NotSubscribedYet(s)' => NotSubscribedYet(s),
           \A s \in Streams, r \in Removers :
               removing'[s][r] = "closing" => removing[s][r] = "closing"
    PROVE  OneCloser' /\ CloseOnce'
BY DEF CloseInv, OneCloser, CloseOnce

\* removeSubscriber under the lock: the channel passes from the map to r, or r
\* finds it gone.
LEMMA RemoveSubscriberStep ==
    ASSUME CloseInv, NEW s \in Streams, NEW r \in Removers, RemoveSubscriber(s, r)
    PROVE  OneCloser' /\ CloseOnce'
<1>1. CloseOnce'
  BY DEF RemoveSubscriber, CloseInv, CloseOnce
<1>2. closed' = closed /\ strPc' = strPc /\ subscribers' = subscribers \ {s}
  BY DEF RemoveSubscriber, streamVars
<1>3. \A t \in Streams, q \in Removers : <<t, q>> # <<s, r>> => removing'[t][q] = removing[t][q]
  BY DEF RemoveSubscriber, CloseInv, TypeInv, TypeOK
<1>4. removing'[s][r] = IF s \in subscribers THEN "closing" ELSE "done"
  BY DEF RemoveSubscriber, CloseInv, TypeInv, TypeOK
<1>5. OneCloser'
  BY <1>2, <1>3, <1>4 DEF CloseInv, OneCloser, NotSubscribedYet
<1> QED
  BY <1>1, <1>5

\* close(ch) after the unlock: r was the only one to hold the channel.
LEMMA RemoverCloseStep ==
    ASSUME CloseInv, NEW s \in Streams, NEW r \in Removers, RemoverClose(s, r)
    PROVE  OneCloser' /\ CloseOnce'
<1>1. s \notin closed /\ s \notin subscribers /\ ~NotSubscribedYet(s)
      /\ \A q \in Removers : removing[s][q] = "closing" => q = r
  BY DEF RemoverClose, CloseInv, OneCloser
<1>2. CloseOnce'
  BY <1>1 DEF RemoverClose, CloseAll, CloseInv, CloseOnce
<1>3. closed' = closed \cup {s} /\ strPc' = strPc /\ subscribers' = subscribers
  BY DEF RemoverClose, CloseAll, streamVars
<1>4. \A t \in Streams, q \in Removers : <<t, q>> # <<s, r>> => removing'[t][q] = removing[t][q]
  BY DEF RemoverClose, CloseInv, TypeInv, TypeOK
<1>5. removing'[s][r] = "done"
  BY DEF RemoverClose, CloseInv, TypeInv, TypeOK
<1>6. OneCloser'
  BY <1>1, <1>3, <1>4, <1>5 DEF CloseInv, OneCloser, NotSubscribedYet
<1> QED
  BY <1>2, <1>6

\* Shutdown closes what is in the map, which nobody else is closing.
LEMMA ShutdownCloseStep ==
    ASSUME CloseInv, NEW u \in Updaters, ShutdownClose(u)
    PROVE  OneCloser' /\ CloseOnce'
<1>1. subscribers \cap closed = {}
  BY DEF CloseInv, TypeInv, TypeOK, OneCloser
<1>2. closed' = closed \cup subscribers /\ subscribers' = {} /\ strPc' = strPc
      /\ removing' = removing /\ crash' = crash
  BY <1>1 DEF ShutdownClose, CloseAll, streamVars
<1> QED
  BY <1>2 DEF CloseInv, OneCloser, CloseOnce, NotSubscribedYet

\* Subscribe puts a channel in the map that nobody has seen before.
LEMMA SubscribeStep ==
    ASSUME CloseInv, NEW s \in Streams, Subscribe(s)
    PROVE  OneCloser' /\ CloseOnce'
<1>1. s \notin closed /\ \A r \in Removers : removing[s][r] # "closing"
  BY DEF Subscribe, CloseInv, OneCloser, NotSubscribedYet
<1>2. closed' = closed /\ subscribers' = subscribers \cup {s} /\ crash' = crash
  BY DEF Subscribe
<1>3. ~NotSubscribedYet(s)' /\ \A t \in Streams \ {s} : strPc'[t] = strPc[t]
  BY DEF Subscribe, NotSubscribedYet, CloseInv, TypeInv, TypeOK
<1>4. \A t \in Streams, r \in Removers :
         removing'[t][r] = "closing" => removing[t][r] = "closing"
  BY DEF Subscribe, CloseInv, TypeInv, TypeOK
<1>5. OneCloser'
  BY <1>1, <1>2, <1>3, <1>4 DEF CloseInv, OneCloser, NotSubscribedYet
<1> QED
  BY <1>2, <1>5 DEF CloseInv, CloseOnce

\* The handler steps other than Subscribe make no channel and close none.
LEMMA HandlerUntouched ==
    ASSUME CloseInv, NEW s \in Streams,
           GetBuffer(s) \/ (HandlerStep(s) /\ ~Subscribe(s)) \/ ClientStep(s)
    PROVE  OneCloser' /\ CloseOnce'
<1>1. CASE GetBuffer(s)
  BY <1>1, CloseUntouched DEF GetBuffer, NotSubscribedYet, CloseInv, CloseOnce, TypeInv, TypeOK, taskVars
<1>2. CASE GetIsRunning(s)
  BY <1>2, CloseUntouched DEF GetIsRunning, NotSubscribedYet, CloseInv, CloseOnce, TypeInv, TypeOK, taskVars
<1>3. CASE AttachRunning(s)
  BY <1>3, CloseUntouched DEF AttachRunning, NotSubscribedYet, CloseInv, CloseOnce, TypeInv, TypeOK, taskVars
<1>4. ASSUME NEW res, Return(s, res)
      PROVE  OneCloser' /\ CloseOnce'
  BY <1>4, CloseUntouched DEF Return, NotSubscribedYet, CloseInv, CloseOnce, TypeInv, TypeOK, taskVars
<1>5. ASSUME NEW res, LeaveLoop(s, res)
      PROVE  OneCloser' /\ CloseOnce'
  <2>1. \A t \in Streams, r \in Removers :
           removing'[t][r] = "closing" => removing[t][r] = "closing"
    BY <1>5 DEF LeaveLoop, CloseInv, TypeInv, TypeOK
  <2> QED
    BY <1>5, <2>1, CloseUntouched DEF LeaveLoop, NotSubscribedYet, CloseInv, CloseOnce, TypeInv, TypeOK
<1>6. CASE LoopLogChunk(s)
  BY <1>6, CloseUntouched DEF LoopLogChunk, NotSubscribedYet, CloseInv, CloseOnce, TypeInv, TypeOK
<1>7. CASE LoopStatusIgnored(s)
  BY <1>7, CloseUntouched DEF LoopStatusIgnored, NotSubscribedYet, CloseInv, CloseOnce, streamVars
<1>8. CASE SendData(s)
  BY <1>8, CloseUntouched DEF SendData, NotSubscribedYet, CloseInv, CloseOnce, TypeInv, TypeOK, taskVars
<1> QED
  BY <1>1, <1>2, <1>3, <1>4, <1>5, <1>6, <1>7, <1>8
  DEF HandlerStep, ClientStep, SendFinal, SendExistingFails, AttachCancelled, AttachNotRunning,
      LoopCancelled, LoopClosed, LoopStatusEnds, SendDataFails

\* Publishing never closes a channel, though it may panic on one or start a
\* remover.
LEMMA PublishingUntouched ==
    ASSUME CloseInv, NEW p \in Publishers, Publishing(p)
    PROVE  OneCloser' /\ CloseOnce'
<1>1. CASE PublishSnapshot(p) \/ PublishCancelled(p)
  BY <1>1, CloseUntouched
  DEF PublishSnapshot, PublishCancelled, NotSubscribedYet, CloseInv, CloseOnce, taskVars, streamVars
<1>2. ASSUME NEW s \in Streams, PublishSend(p, s)
      PROVE  OneCloser' /\ CloseOnce'
  BY <1>2, CloseUntouched DEF PublishSend, NotSubscribedYet, CloseInv, CloseOnce, streamVars
<1>3. ASSUME NEW s \in Streams, PublishPanic(p, s)
      PROVE  OneCloser' /\ CloseOnce'
  BY <1>3, CloseUntouched DEF PublishPanic, NotSubscribedYet, taskVars, streamVars
<1>4. ASSUME NEW s \in Streams, PublishTimeout(p, s)
      PROVE  OneCloser' /\ CloseOnce'
  <2>1. \A t \in Streams, r \in Removers :
           removing'[t][r] = "closing" => removing[t][r] = "closing"
    BY <1>4 DEF PublishTimeout, CloseInv, TypeInv, TypeOK, Removers
  <2> QED
    BY <1>4, <2>1, CloseUntouched DEF PublishTimeout, NotSubscribedYet, CloseInv, CloseOnce, streamVars
<1> QED
  BY <1>1, <1>2, <1>3, <1>4 DEF Publishing

\* Every step keeps each channel in one hand.
LEMMA CloseStep == CloseInv /\ [Next]_vars => CloseInv'
<1> SUFFICES ASSUME CloseInv, [Next]_vars
             PROVE  OneCloser' /\ CloseOnce'
  BY TypeStep DEF CloseInv
<1>1. ASSUME NEW w \in Writers, WriteToBuffer(w) \/ WriterEOF(w)
      PROVE  OneCloser' /\ CloseOnce'
  BY <1>1, CloseUntouched
  DEF WriteToBuffer, WriterEOF, NotSubscribedYet, CloseInv, CloseOnce, taskVars, streamVars
<1>2. ASSUME NEW u \in Updaters, NEW st \in JobStatus, UpdateJob(u, st)
      PROVE  OneCloser' /\ CloseOnce'
  BY <1>2, CloseUntouched DEF UpdateJob, NotSubscribedYet, CloseInv, CloseOnce, streamVars
<1>3. ASSUME NEW u \in Stoppers, StopRead(u)
      PROVE  OneCloser' /\ CloseOnce'
  BY <1>3, CloseUntouched DEF StopRead, NotSubscribedYet, CloseInv, CloseOnce, taskVars, streamVars
<1>4. ASSUME NEW u \in Updaters, ShutdownCancel(u)
      PROVE  OneCloser' /\ CloseOnce'
  BY <1>4, CloseUntouched DEF ShutdownCancel, NotSubscribedYet, CloseInv, CloseOnce, streamVars
<1>5. ASSUME NEW s \in Streams, ClientCancel(s)
      PROVE  OneCloser' /\ CloseOnce'
  BY <1>5, CloseUntouched
  DEF ClientCancel, NotSubscribedYet, CloseInv, CloseOnce, taskVars, streamVars
<1>6. CASE UNCHANGED vars
  BY <1>6, CloseUntouched
  DEF vars, NotSubscribedYet, CloseInv, CloseOnce, taskVars, streamVars
<1>7. CASE StartUpdate \/ MonitorUpdate \/ \E u \in Stoppers : StopUpdate(u)
  BY <1>7, <1>2 DEF StartUpdate, MonitorUpdate, StopUpdate, Updaters, JobStatus
<1>8. ASSUME NEW u \in Updaters, UpdaterStep(u)
      PROVE  OneCloser' /\ CloseOnce'
  BY <1>8, <1>4, PublishingUntouched, ShutdownCloseStep DEF UpdaterStep, Publishers
<1>9. ASSUME NEW w \in Writers, Publishing(w)
      PROVE  OneCloser' /\ CloseOnce'
  BY <1>9, PublishingUntouched DEF Publishers
<1>10. ASSUME NEW s \in Streams, NEW r \in Removers, RemoverStep(s, r)
       PROVE  OneCloser' /\ CloseOnce'
  BY <1>10, RemoveSubscriberStep, RemoverCloseStep DEF RemoverStep
<1>11. ASSUME NEW s \in Streams, GetBuffer(s) \/ HandlerStep(s) \/ ClientStep(s)
       PROVE  OneCloser' /\ CloseOnce'
  BY <1>11, SubscribeStep, HandlerUntouched
<1> QED
  BY <1>1, <1>3, <1>5, <1>6, <1>7, <1>8, <1>9, <1>10, <1>11 DEF Next

\* No channel exists initially.
LEMMA InitClose == Init => CloseInv
<1> SUFFICES ASSUME Init PROVE CloseInv
  OBVIOUS
<1>1. subscribers = {} /\ closed = {} /\ crash = "none"
  BY DEF Init
<1>2. \A s \in Streams, r \in Removers : removing[s][r] # "closing"
  BY DEF Init
<1>3. OneCloser /\ CloseOnce
  BY <1>1, <1>2 DEF OneCloser, CloseOnce
<1> QED
  BY <1>3, InitTypes DEF CloseInv

\* No channel is ever closed twice, whatever the number of clients and of
\* goroutines that remove them.
THEOREM ClosedAtMostOnce == Spec => []CloseOnce
<1>1. CloseInv => CloseOnce
  BY DEF CloseInv
<1> QED
  BY <1>1, InitClose, CloseStep, PTL DEF Spec

\* A channel is in one hand at a time.
THEOREM ChannelHasOneCloser == Spec => []OneCloser
<1>1. CloseInv => OneCloser
  BY DEF CloseInv
<1> QED
  BY <1>1, InitClose, CloseStep, PTL DEF Spec
=============================================================================
