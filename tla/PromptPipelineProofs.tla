------------------------ MODULE PromptPipelineProofs ------------------------
(***************************************************************************)
(* Safety of PromptPipeline for every set of turns and conversations and   *)
(* every value of the bounds.                                              *)
(***************************************************************************)
EXTENDS PromptPipeline, TLAPS

\* What the proofs use of the names of the control points.
LEMMA PCFacts ==
  /\ {"none", "queued", "admitted", "started", "spawning", "prompting",
      "returned", "raised", "failing", "finalized", "cleared", "failed",
      "errored", "ended", "dead"} \subseteq PCs
  /\ PreFinal \subseteq Unfinished
  /\ PostFinal \subseteq Unfinished
  /\ Unfinished \subseteq PCs
  /\ "none" \notin Unfinished
BY DEF PCs, Unfinished, PreFinal, PostFinal

\* Counting one more, wherever it is, keeps an array of naturals one.
LEMMA Bump ==
  ASSUME NEW S, NEW f \in [S -> Nat], NEW x
  PROVE  [f EXCEPT ![x] = @ + 1] \in [S -> Nat]
<1>1. ASSUME NEW y \in S PROVE [f EXCEPT ![x] = @ + 1][y] \in Nat
  BY <1>1
<1> QED BY <1>1

(***************************************************************************)
(* Types, and the facts about the stream that they rest on: entries up to  *)
(* last hold a turn, and nothing has happened yet to the entries that the  *)
(* group has not delivered.                                                *)
(***************************************************************************)
StreamInv ==
  /\ \A e \in Entry : ent[e] \in Turn <=> e <= last
  /\ \A e \in Entry : delivered < e =>
       pc[e] = "none" /\ e \notin pel /\ e # fetched /\ e # reclaiming

TInv == TypeOK /\ StreamInv

\* The runner never holds an entry without a turn.
HeldHaveTurns ==
  /\ fetched # NoEntry => fetched \in Entry /\ ent[fetched] \in Turn
  /\ reclaiming # NoEntry => reclaiming \in Entry /\ ent[reclaiming] \in Turn
  /\ \A e \in Entry : pc[e] # "none" => ent[e] \in Turn
  /\ \A e \in pel : e \in Entry /\ ent[e] \in Turn

LEMMA HeldTurn == TInv => HeldHaveTurns
BY BoundsType DEF TInv, TypeOK, TypeQueue, TypeLoop, TypeTask, StreamInv,
                  HeldHaveTurns, Entry, Ref, NoEntry

LEMMA InitTInv == Init => TInv
BY ConvOfType, NoTurnType, BoundsType, PCFacts
   DEF Init, TInv, TypeOK, TypeApi, TypeQueue, TypeLoop, TypeTask, TypeClient,
       TypeEvent, TypeHist, StreamInv, Entry, Ref, NoEntry, Terminal

LEMMA ApiType == ASSUME TInv, NEW t \in Turn, Api(t) PROVE TypeOK'
<1>0. HeldHaveTurns BY HeldTurn
<1> USE <1>0 DEF TInv, TypeOK, Entry, Ref, NoEntry
<1>1. CASE SendCommit(t)
  <2>1. TypeApi'
    BY <1>1, ConvOfType
    DEF SendCommit, TypeApi, TypeQueue, TypeLoop, TypeTask, Terminal
  <2>2. TypeQueue' /\ TypeLoop' /\ TypeTask' /\ TypeClient' /\ TypeEvent' /\
       TypeHist'
    BY <1>1
    DEF SendCommit, TypeQueue, TypeLoop, TypeTask, TypeClient, TypeEvent,
        TypeHist, queueVars, loopVars, taskVars, clientVars, eventVars,
        histVars
  <2> QED BY <2>1, <2>2
<1>2. CASE SendClearCancel(t)
  <2>1. TypeApi'
    BY <1>2, ConvOfType
    DEF SendClearCancel, TypeApi, TypeQueue, TypeLoop, TypeTask, Terminal,
        dbVars
  <2>2. TypeQueue' /\ TypeLoop' /\ TypeTask' /\ TypeClient' /\ TypeEvent' /\
       TypeHist'
    BY <1>2
    DEF SendClearCancel, TypeQueue, TypeLoop, TypeTask, TypeClient, TypeEvent,
        TypeHist, dbVars, queueVars, loopVars, taskVars, clientVars,
        eventVars, histVars
  <2> QED BY <2>1, <2>2
<1>3. CASE SendEnqueue(t)
  <2>1. TypeApi'
    BY <1>3, ConvOfType
    DEF SendEnqueue, Append, TypeApi, TypeQueue, TypeLoop, TypeTask, Terminal,
        dbVars
  <2>2. TypeQueue'
    BY <1>3, BoundsType
    DEF SendEnqueue, Append, TypeQueue, TypeLoop, TypeTask
  <2>3. TypeLoop' /\ TypeTask' /\ TypeClient' /\ TypeEvent' /\ TypeHist'
    BY <1>3
    DEF SendEnqueue, Append, TypeLoop, TypeTask, TypeClient, TypeEvent,
        TypeHist, dbVars, loopVars, taskVars, clientVars, eventVars, histVars
  <2> QED BY <2>1, <2>2, <2>3
<1>4. CASE SendDies(t)
  <2>1. TypeApi'
    BY <1>4, ConvOfType
    DEF SendDies, Fault, TypeApi, TypeQueue, TypeLoop, TypeTask, Terminal,
        dbVars
  <2>2. TypeHist'
    BY <1>4, BoundsType, PCFacts
    DEF HeldHaveTurns, SendDies, Fault, TypeHist, TypeQueue, TypeLoop, TypeTask
  <2>3. TypeQueue' /\ TypeLoop' /\ TypeTask' /\ TypeClient' /\ TypeEvent'
    BY <1>4
    DEF SendDies, Fault, TypeQueue, TypeLoop, TypeTask, TypeClient, TypeEvent,
        dbVars, queueVars, loopVars, taskVars, clientVars, eventVars
  <2> QED BY <2>1, <2>2, <2>3
<1> QED BY <1>1, <1>2, <1>3, <1>4
       DEF Api

LEMMA UserType == ASSUME TInv, NEW c \in Conv, User(c) PROVE TypeOK'
<1>0. HeldHaveTurns BY HeldTurn
<1> USE <1>0 DEF TInv, TypeOK, Entry, Ref, NoEntry
<1>1. CASE PressCancel(c)
  <2>1. TypeApi'
    BY <1>1, ConvOfType
    DEF PressCancel, TypeApi, TypeQueue, TypeLoop, TypeTask, Terminal,
        apiVars, dbVars
  <2>2. TypeHist'
    BY <1>1, BoundsType, PCFacts
    DEF HeldHaveTurns, PressCancel, TypeHist, TypeQueue, TypeLoop, TypeTask
  <2>3. TypeQueue' /\ TypeLoop' /\ TypeTask' /\ TypeClient' /\ TypeEvent'
    BY <1>1
    DEF PressCancel, TypeQueue, TypeLoop, TypeTask, TypeClient, TypeEvent,
        apiVars, dbVars, queueVars, loopVars, taskVars, clientVars, eventVars
  <2> QED BY <2>1, <2>2, <2>3
<1>2. CASE CancelExpires(c)
  <2>1. TypeApi'
    BY <1>2, ConvOfType
    DEF CancelExpires, TypeApi, TypeQueue, TypeLoop, TypeTask, Terminal,
        apiVars, dbVars
  <2>2. TypeQueue' /\ TypeLoop' /\ TypeTask' /\ TypeClient' /\ TypeEvent' /\
       TypeHist'
    BY <1>2
    DEF CancelExpires, TypeQueue, TypeLoop, TypeTask, TypeClient, TypeEvent,
        TypeHist, apiVars, dbVars, queueVars, loopVars, taskVars, clientVars,
        eventVars, histVars
  <2> QED BY <2>1, <2>2
<1> QED BY <1>1, <1>2
       DEF User

LEMMA LoopType == ASSUME TInv, Loop PROVE TypeOK'
<1>0. HeldHaveTurns BY HeldTurn
<1> USE <1>0 DEF TInv, TypeOK, Entry, Ref, NoEntry
<1>1. CASE ReadEntry
  <2>1. TypeQueue'
    BY <1>1, BoundsType
    DEF ReadEntry, TypeQueue, TypeLoop, TypeTask
  <2>2. TypeLoop'
    BY <1>1, BoundsType
    DEF ReadEntry, TypeLoop, TypeQueue, TypeTask
  <2>3. TypeApi' /\ TypeTask' /\ TypeClient' /\ TypeEvent' /\ TypeHist'
    BY <1>1
    DEF ReadEntry, TypeApi, TypeTask, TypeClient, TypeEvent, TypeHist,
        apiVars, dbVars, taskVars, clientVars, eventVars, histVars
  <2> QED BY <2>1, <2>2, <2>3
<1>2. CASE AckEntry
  <2>1. TypeQueue'
    BY <1>2, BoundsType
    DEF AckEntry, TypeQueue, TypeLoop, TypeTask
  <2>2. TypeLoop'
    BY <1>2
    DEF AckEntry, TypeLoop, TypeQueue, TypeTask
  <2>3. TypeTask'
    BY <1>2, PCFacts, BoundsType
    DEF AckEntry, TypeTask
  <2>4. TypeApi' /\ TypeClient' /\ TypeEvent' /\ TypeHist'
    BY <1>2
    DEF AckEntry, TypeApi, TypeClient, TypeEvent, TypeHist, apiVars, dbVars,
        clientVars, eventVars, histVars
  <2> QED BY <2>1, <2>2, <2>3, <2>4
<1>3. CASE AckFails
  <2>1. TypeLoop'
    BY <1>3
    DEF AckFails, Fault, TypeLoop, TypeQueue, TypeTask
  <2>2. TypeTask'
    BY <1>3, PCFacts, BoundsType
    DEF AckFails, Fault, TypeTask
  <2>3. TypeHist'
    BY <1>3, BoundsType, PCFacts
    DEF HeldHaveTurns, AckFails, Fault, TypeHist, TypeQueue, TypeLoop, TypeTask
  <2>4. TypeApi' /\ TypeQueue' /\ TypeClient' /\ TypeEvent'
    BY <1>3
    DEF AckFails, Fault, TypeApi, TypeQueue, TypeClient, TypeEvent, apiVars,
        dbVars, queueVars, clientVars, eventVars
  <2> QED BY <2>1, <2>2, <2>3, <2>4
<1>4. CASE SkipOnShutdown
  <2>1. TypeLoop'
    BY <1>4
    DEF SkipOnShutdown, TypeLoop, TypeQueue, TypeTask
  <2>2. TypeApi' /\ TypeQueue' /\ TypeTask' /\ TypeClient' /\ TypeEvent' /\
       TypeHist'
    BY <1>4
    DEF SkipOnShutdown, TypeApi, TypeQueue, TypeTask, TypeClient, TypeEvent,
        TypeHist, apiVars, dbVars, queueVars, taskVars, clientVars, eventVars,
        histVars
  <2> QED BY <2>1, <2>2
<1>5. ASSUME NEW e \in Entry, ReclaimAck(e) PROVE TypeOK'
  <2>1. TypeQueue'
    BY <1>5, BoundsType
    DEF ReclaimAck, TypeQueue, TypeLoop, TypeTask
  <2>2. TypeLoop'
    BY <1>5
    DEF ReclaimAck, TypeLoop, TypeQueue, TypeTask
  <2>3. TypeApi' /\ TypeTask' /\ TypeClient' /\ TypeEvent' /\ TypeHist'
    BY <1>5
    DEF ReclaimAck, TypeApi, TypeTask, TypeClient, TypeEvent, TypeHist,
        apiVars, dbVars, taskVars, clientVars, eventVars, histVars
  <2> QED BY <2>1, <2>2, <2>3
<1>6. CASE ReclaimAdd
  <2>1. TypeQueue'
    BY <1>6, BoundsType
    DEF ReclaimAdd, Append, TypeQueue, TypeLoop, TypeTask
  <2>2. TypeLoop'
    BY <1>6
    DEF ReclaimAdd, Append, TypeLoop, TypeQueue, TypeTask
  <2>3. TypeApi' /\ TypeTask' /\ TypeClient' /\ TypeEvent' /\ TypeHist'
    BY <1>6
    DEF ReclaimAdd, Append, TypeApi, TypeTask, TypeClient, TypeEvent,
        TypeHist, apiVars, dbVars, taskVars, clientVars, eventVars, histVars
  <2> QED BY <2>1, <2>2, <2>3
<1>7. CASE ReclaimLost
  <2>1. TypeLoop'
    BY <1>7
    DEF ReclaimLost, Fault, TypeLoop, TypeQueue, TypeTask
  <2>2. TypeHist'
    BY <1>7, BoundsType, PCFacts
    DEF HeldHaveTurns, ReclaimLost, Fault, TypeHist, TypeQueue, TypeLoop, TypeTask
  <2>3. TypeApi' /\ TypeQueue' /\ TypeTask' /\ TypeClient' /\ TypeEvent'
    BY <1>7
    DEF ReclaimLost, Fault, TypeApi, TypeQueue, TypeTask, TypeClient,
        TypeEvent, apiVars, dbVars, queueVars, taskVars, clientVars, eventVars
  <2> QED BY <2>1, <2>2, <2>3
<1>8. CASE Signal
  <2>1. TypeLoop'
    BY <1>8
    DEF Signal, Fault, TypeLoop, TypeQueue, TypeTask
  <2>2. TypeHist'
    BY <1>8, BoundsType, PCFacts
    DEF HeldHaveTurns, Signal, Fault, TypeHist, TypeQueue, TypeLoop, TypeTask
  <2>3. TypeApi' /\ TypeQueue' /\ TypeTask' /\ TypeClient' /\ TypeEvent'
    BY <1>8
    DEF Signal, Fault, TypeApi, TypeQueue, TypeTask, TypeClient, TypeEvent,
        apiVars, dbVars, queueVars, taskVars, clientVars, eventVars
  <2> QED BY <2>1, <2>2, <2>3
<1>9. CASE Crash
  <2>1. TypeLoop'
    BY <1>9
    DEF Crash, Fault, ProcessGone, TypeLoop, TypeQueue, TypeTask
  <2>2. TypeTask'
    BY <1>9, PCFacts, BoundsType
    DEF Crash, Fault, ProcessGone, TypeTask
  <2>3. TypeClient'
    BY <1>9, ConvOfType
    DEF Crash, Fault, ProcessGone, TypeClient
  <2>4. TypeHist'
    BY <1>9, BoundsType, PCFacts
    DEF HeldHaveTurns, Crash, Fault, ProcessGone, TypeHist, TypeQueue, TypeLoop, TypeTask
  <2>5. TypeApi' /\ TypeQueue' /\ TypeEvent'
    BY <1>9
    DEF Crash, Fault, ProcessGone, TypeApi, TypeQueue, TypeEvent, apiVars,
        dbVars, queueVars, eventVars
  <2> QED BY <2>1, <2>2, <2>3, <2>4, <2>5
<1>10. CASE StopRunner
  <2>1. TypeLoop'
    BY <1>10
    DEF StopRunner, ProcessGone, TypeLoop, TypeQueue, TypeTask
  <2>2. TypeTask'
    BY <1>10, PCFacts, BoundsType
    DEF StopRunner, ProcessGone, TypeTask
  <2>3. TypeClient'
    BY <1>10, ConvOfType
    DEF StopRunner, ProcessGone, TypeClient
  <2>4. TypeHist'
    BY <1>10, BoundsType, PCFacts
    DEF HeldHaveTurns, StopRunner, ProcessGone, TypeHist, TypeQueue, TypeLoop, TypeTask
  <2>5. TypeApi' /\ TypeQueue' /\ TypeEvent'
    BY <1>10
    DEF StopRunner, ProcessGone, TypeApi, TypeQueue, TypeEvent, apiVars,
        dbVars, queueVars, eventVars
  <2> QED BY <2>1, <2>2, <2>3, <2>4, <2>5
<1>11. CASE Restart
  <2>1. TypeLoop'
    BY <1>11
    DEF Restart, TypeLoop, TypeQueue, TypeTask
  <2>2. TypeApi' /\ TypeQueue' /\ TypeTask' /\ TypeClient' /\ TypeEvent' /\
       TypeHist'
    BY <1>11
    DEF Restart, TypeApi, TypeQueue, TypeTask, TypeClient, TypeEvent,
        TypeHist, apiVars, dbVars, queueVars, taskVars, clientVars, eventVars,
        histVars
  <2> QED BY <2>1, <2>2
<1> QED BY <1>1, <1>2, <1>3, <1>4, <1>5, <1>6, <1>7, <1>8, <1>9, <1>10, <1>11
       DEF Loop

LEMMA TaskType == ASSUME TInv, NEW e \in Entry, Task(e) PROVE TypeOK'
<1>0. HeldHaveTurns BY HeldTurn
<1> USE <1>0 DEF TInv, TypeOK, Entry, Ref, NoEntry
<1>1. CASE Admit(e)
  <2>1. TypeTask'
    BY <1>1, PCFacts, BoundsType
    DEF Admit, Goto, TypeTask
  <2>2. TypeApi' /\ TypeQueue' /\ TypeLoop' /\ TypeClient' /\ TypeEvent' /\
       TypeHist'
    BY <1>1
    DEF Admit, Goto, TypeApi, TypeQueue, TypeLoop, TypeClient, TypeEvent,
        TypeHist, apiVars, dbVars, queueVars, loopVars, clientVars, eventVars,
        histVars
  <2> QED BY <2>1, <2>2
<1>2. CASE NoAgent(e)
  <2>1. TypeTask'
    BY <1>2, PCFacts, BoundsType
    DEF NoAgent, Goto, TypeTask
  <2>2. TypeApi' /\ TypeQueue' /\ TypeLoop' /\ TypeClient' /\ TypeEvent' /\
       TypeHist'
    BY <1>2
    DEF NoAgent, Goto, TypeApi, TypeQueue, TypeLoop, TypeClient, TypeEvent,
        TypeHist, apiVars, dbVars, queueVars, loopVars, clientVars, eventVars,
        histVars
  <2> QED BY <2>1, <2>2
<1>3. CASE PublishStart(e)
  <2>1. TypeTask'
    BY <1>3, PCFacts, BoundsType
    DEF PublishStart, Goto, TypeTask
  <2>2. TypeEvent'
    BY <1>3
    DEF PublishStart, Goto, TypeEvent
  <2>3. TypeApi' /\ TypeQueue' /\ TypeLoop' /\ TypeClient' /\ TypeHist'
    BY <1>3
    DEF PublishStart, Goto, TypeApi, TypeQueue, TypeLoop, TypeClient,
        TypeHist, apiVars, dbVars, queueVars, loopVars, clientVars, histVars
  <2> QED BY <2>1, <2>2, <2>3
<1>4. CASE GetReuse(e)
  <2>1. TypeTask'
    BY <1>4, PCFacts, BoundsType
    DEF GetReuse, Goto, TypeTask
  <2>2. TypeClient'
    BY <1>4, ConvOfType
    DEF GetReuse, Goto, TypeClient, TypeTask, ConvAt, HeldHaveTurns
  <2>3. TypeApi' /\ TypeQueue' /\ TypeLoop' /\ TypeEvent' /\ TypeHist'
    BY <1>4
    DEF GetReuse, Goto, TypeApi, TypeQueue, TypeLoop, TypeEvent, TypeHist,
        apiVars, dbVars, queueVars, loopVars, eventVars, histVars
  <2> QED BY <2>1, <2>2, <2>3
<1>5. CASE GetSpawn(e)
  <2>1. TypeTask'
    BY <1>5, PCFacts, BoundsType
    DEF GetSpawn, Goto, DropClient, TypeTask
  <2>2. TypeClient'
    BY <1>5, ConvOfType
    DEF GetSpawn, Goto, DropClient, TypeClient
  <2>3. TypeApi' /\ TypeQueue' /\ TypeLoop' /\ TypeEvent' /\ TypeHist'
    BY <1>5
    DEF GetSpawn, Goto, DropClient, TypeApi, TypeQueue, TypeLoop, TypeEvent,
        TypeHist, apiVars, dbVars, queueVars, loopVars, eventVars, histVars
  <2> QED BY <2>1, <2>2, <2>3
<1>6. CASE GetInstall(e)
  <2>1. TypeTask'
    BY <1>6, PCFacts, BoundsType
    DEF GetInstall, Goto, TypeTask
  <2>2. TypeClient'
    BY <1>6, ConvOfType
    DEF GetInstall, Goto, TypeClient
  <2>3. TypeApi' /\ TypeQueue' /\ TypeLoop' /\ TypeEvent' /\ TypeHist'
    BY <1>6
    DEF GetInstall, Goto, TypeApi, TypeQueue, TypeLoop, TypeEvent, TypeHist,
        apiVars, dbVars, queueVars, loopVars, eventVars, histVars
  <2> QED BY <2>1, <2>2, <2>3
<1>7. CASE Update(e)
  <2>1. TypeTask'
    <3>1. text' \in [Entry -> Nat]
      BY <1>7, Bump DEF Update, TypeTask
    <3>2. emitted[e] \in 0..MaxUpdates /\ emitted[e] < MaxUpdates
      BY <1>7 DEF Update, TypeTask
    <3>3. emitted' \in [Entry -> 0..MaxUpdates]
      BY <1>7, <3>2, BoundsType DEF Update, TypeTask
    <3> QED BY <1>7, <3>1, <3>3 DEF Update, TypeTask
  <2>2. TypeClient'
    BY <1>7, ConvOfType
    DEF Update, TypeClient
  <2>3. TypeEvent'
    BY <1>7, Bump
    DEF Update, TypeEvent
  <2>4. TypeApi' /\ TypeQueue' /\ TypeLoop' /\ TypeHist'
    BY <1>7
    DEF Update, TypeApi, TypeQueue, TypeLoop, TypeHist, apiVars, dbVars,
        queueVars, loopVars, histVars
  <2> QED BY <2>1, <2>2, <2>3, <2>4
<1>8. CASE UpdateFails(e)
  <2>1. TypeTask'
    <3>1. text' \in [Entry -> Nat]
      BY <1>8, Bump DEF UpdateFails, TypeTask
    <3>2. emitted[e] \in 0..MaxUpdates /\ emitted[e] < MaxUpdates
      BY <1>8 DEF UpdateFails, TypeTask
    <3>3. emitted' \in [Entry -> 0..MaxUpdates]
      BY <1>8, <3>2, BoundsType DEF UpdateFails, TypeTask
    <3> QED BY <1>8, <3>1, <3>3 DEF UpdateFails, Fault, TypeTask
  <2>2. TypeClient'
    BY <1>8, ConvOfType
    DEF UpdateFails, Fault, TypeClient
  <2>3. TypeHist'
    BY <1>8, BoundsType, PCFacts
    DEF HeldHaveTurns, UpdateFails, Fault, TypeHist, TypeQueue, TypeLoop, TypeTask
  <2>4. TypeApi' /\ TypeQueue' /\ TypeLoop' /\ TypeEvent'
    BY <1>8
    DEF UpdateFails, Fault, TypeApi, TypeQueue, TypeLoop, TypeEvent, apiVars,
        dbVars, queueVars, loopVars, eventVars
  <2> QED BY <2>1, <2>2, <2>3, <2>4
<1>9. CASE CheckCancel(e)
  <2>1. TypeTask'
    BY <1>9, PCFacts, BoundsType
    DEF CheckCancel, TypeTask
  <2>2. TypeClient'
    BY <1>9, ConvOfType
    DEF CheckCancel, TypeClient
  <2>3. TypeApi' /\ TypeQueue' /\ TypeLoop' /\ TypeEvent' /\ TypeHist'
    BY <1>9
    DEF CheckCancel, TypeApi, TypeQueue, TypeLoop, TypeEvent, TypeHist,
        apiVars, dbVars, queueVars, loopVars, eventVars, histVars
  <2> QED BY <2>1, <2>2, <2>3
<1>10. CASE PromptReturns(e)
  <2>1. TypeTask'
    BY <1>10, PCFacts, BoundsType
    DEF PromptReturns, Goto, TypeTask
  <2>2. TypeApi' /\ TypeQueue' /\ TypeLoop' /\ TypeClient' /\ TypeEvent' /\
       TypeHist'
    BY <1>10
    DEF PromptReturns, Goto, TypeApi, TypeQueue, TypeLoop, TypeClient,
        TypeEvent, TypeHist, apiVars, dbVars, queueVars, loopVars, clientVars,
        eventVars, histVars
  <2> QED BY <2>1, <2>2
<1>11. CASE Raises(e)
  <2>1. TypeTask'
    BY <1>11, PCFacts, BoundsType
    DEF Raises, TypeTask
  <2>2. TypeApi' /\ TypeQueue' /\ TypeLoop' /\ TypeClient' /\ TypeEvent' /\
       TypeHist'
    BY <1>11
    DEF Raises, TypeApi, TypeQueue, TypeLoop, TypeClient, TypeEvent, TypeHist,
        apiVars, dbVars, queueVars, loopVars, clientVars, eventVars, histVars
  <2> QED BY <2>1, <2>2
<1>12. CASE DropAfterError(e)
  <2>1. TypeTask'
    BY <1>12, PCFacts, BoundsType
    DEF DropAfterError, Goto, DropClient, TypeTask
  <2>2. TypeClient'
    BY <1>12, ConvOfType
    DEF DropAfterError, Goto, DropClient, TypeClient
  <2>3. TypeApi' /\ TypeQueue' /\ TypeLoop' /\ TypeEvent' /\ TypeHist'
    BY <1>12
    DEF DropAfterError, Goto, DropClient, TypeApi, TypeQueue, TypeLoop,
        TypeEvent, TypeHist, apiVars, dbVars, queueVars, loopVars, eventVars,
        histVars
  <2> QED BY <2>1, <2>2, <2>3
<1>13. CASE Finalize(e)
  <2>1. TypeApi'
    BY <1>13, ConvOfType
    DEF Finalize, Goto, TypeApi, TypeQueue, TypeLoop, TypeTask, Terminal,
        apiVars
  <2>2. TypeTask'
    BY <1>13, PCFacts, BoundsType
    DEF Finalize, Goto, TypeTask
  <2>3. TypeQueue' /\ TypeLoop' /\ TypeClient' /\ TypeEvent' /\ TypeHist'
    BY <1>13
    DEF Finalize, Goto, TypeQueue, TypeLoop, TypeClient, TypeEvent, TypeHist,
        apiVars, queueVars, loopVars, clientVars, eventVars, histVars
  <2> QED BY <2>1, <2>2, <2>3
<1>14. CASE ClearCancel(e)
  <2>1. TypeApi'
    BY <1>14, ConvOfType
    DEF ClearCancel, Goto, TypeApi, TypeQueue, TypeLoop, TypeTask, Terminal,
        apiVars, dbVars
  <2>2. TypeTask'
    BY <1>14, PCFacts, BoundsType
    DEF ClearCancel, Goto, TypeTask
  <2>3. TypeQueue' /\ TypeLoop' /\ TypeClient' /\ TypeEvent' /\ TypeHist'
    BY <1>14
    DEF ClearCancel, Goto, TypeQueue, TypeLoop, TypeClient, TypeEvent,
        TypeHist, apiVars, dbVars, queueVars, loopVars, clientVars, eventVars,
        histVars
  <2> QED BY <2>1, <2>2, <2>3
<1>15. CASE FailFinalize(e)
  <2>1. TypeApi'
    BY <1>15, ConvOfType
    DEF FailFinalize, Goto, TypeApi, TypeQueue, TypeLoop, TypeTask, Terminal,
        apiVars
  <2>2. TypeTask'
    BY <1>15, PCFacts, BoundsType
    DEF FailFinalize, Goto, TypeTask
  <2>3. TypeQueue' /\ TypeLoop' /\ TypeClient' /\ TypeEvent' /\ TypeHist'
    BY <1>15
    DEF FailFinalize, Goto, TypeQueue, TypeLoop, TypeClient, TypeEvent,
        TypeHist, apiVars, queueVars, loopVars, clientVars, eventVars,
        histVars
  <2> QED BY <2>1, <2>2, <2>3
<1>16. CASE PublishError(e)
  <2>1. TypeTask'
    BY <1>16, PCFacts, BoundsType
    DEF PublishError, Goto, TypeTask
  <2>2. TypeEvent'
    BY <1>16
    DEF PublishError, Goto, TypeEvent
  <2>3. TypeApi' /\ TypeQueue' /\ TypeLoop' /\ TypeClient' /\ TypeHist'
    BY <1>16
    DEF PublishError, Goto, TypeApi, TypeQueue, TypeLoop, TypeClient,
        TypeHist, apiVars, dbVars, queueVars, loopVars, clientVars, histVars
  <2> QED BY <2>1, <2>2, <2>3
<1>17. CASE PublishDone(e)
  <2>1. TypeTask'
    BY <1>17, PCFacts, BoundsType
    DEF PublishDone, Return, TypeTask
  <2>2. TypeClient'
    BY <1>17, ConvOfType
    DEF PublishDone, Return, TypeClient
  <2>3. TypeEvent'
    BY <1>17
    DEF PublishDone, Return, TypeEvent
  <2>4. TypeApi' /\ TypeQueue' /\ TypeLoop' /\ TypeHist'
    BY <1>17
    DEF PublishDone, Return, TypeApi, TypeQueue, TypeLoop, TypeHist, apiVars,
        dbVars, queueVars, loopVars, histVars
  <2> QED BY <2>1, <2>2, <2>3, <2>4
<1>18. CASE Aborts(e)
  <2>1. TypeTask'
    BY <1>18, PCFacts, BoundsType
    DEF Aborts, Fault, Return, TypeTask
  <2>2. TypeClient'
    BY <1>18, ConvOfType
    DEF Aborts, Fault, Return, TypeClient
  <2>3. TypeHist'
    BY <1>18, BoundsType, PCFacts
    DEF HeldHaveTurns, Aborts, Fault, Return, TypeHist, TypeQueue, TypeLoop, TypeTask
  <2>4. TypeApi' /\ TypeQueue' /\ TypeLoop' /\ TypeEvent'
    BY <1>18
    DEF Aborts, Fault, Return, TypeApi, TypeQueue, TypeLoop, TypeEvent,
        apiVars, dbVars, queueVars, loopVars, eventVars
  <2> QED BY <2>1, <2>2, <2>3, <2>4
<1>19. CASE GetRaises(e)
  <2>1. TypeTask'
    BY <1>19, PCFacts, BoundsType
    DEF GetRaises, Goto, DropClient, TypeTask
  <2>2. TypeClient'
    BY <1>19, ConvOfType
    DEF GetRaises, Goto, DropClient, TypeClient
  <2>3. TypeApi' /\ TypeQueue' /\ TypeLoop' /\ TypeEvent' /\ TypeHist'
    BY <1>19
    DEF GetRaises, Goto, DropClient, TypeApi, TypeQueue, TypeLoop, TypeEvent,
        TypeHist, apiVars, dbVars, queueVars, loopVars, eventVars, histVars
  <2> QED BY <2>1, <2>2, <2>3
<1>20. CASE DropRaises(e)
  <2>1. TypeTask'
    BY <1>20, PCFacts, BoundsType
    DEF DropRaises, Return, DropClient, TypeTask
  <2>2. TypeClient'
    BY <1>20, ConvOfType
    DEF DropRaises, Return, DropClient, TypeClient
  <2>3. TypeHist'
    BY <1>20, BoundsType, PCFacts
    DEF HeldHaveTurns, DropRaises, TypeHist, TypeQueue, TypeLoop, TypeTask
  <2>4. TypeApi' /\ TypeQueue' /\ TypeLoop' /\ TypeEvent'
    BY <1>20
    DEF DropRaises, Return, DropClient, TypeApi, TypeQueue, TypeLoop, TypeEvent,
        apiVars, dbVars, queueVars, loopVars, eventVars
  <2> QED BY <2>1, <2>2, <2>3, <2>4
<1> QED BY <1>1, <1>2, <1>3, <1>4, <1>5, <1>6, <1>7, <1>8, <1>9, <1>10, <1>11,
           <1>12, <1>13, <1>14, <1>15, <1>16, <1>17, <1>18, <1>19, <1>20
       DEF Task

\* What the API and the user leave alone.
LEMMA ApiFrame ==
  ASSUME NEW t \in Turn, Api(t)
  PROVE  UNCHANGED <<saved, delivered, pel, loopVars, taskVars, clientVars,
                     eventVars, wanted, ackLost>>
BY DEF Api, SendCommit, SendClearCancel, SendEnqueue, SendDies, dbVars,
       queueVars, loopVars, taskVars, clientVars, eventVars, histVars

LEMMA UserFrame ==
  ASSUME NEW c \in Conv, User(c)
  PROVE  UNCHANGED <<api, dbVars, queueVars, loopVars, taskVars, clientVars,
                     eventVars, ackLost>>
BY DEF User, PressCancel, CancelExpires, apiVars, dbVars, queueVars, loopVars,
       taskVars, clientVars, eventVars, histVars

\* What the main loop leaves alone.
LEMMA LoopFrame ==
  ASSUME Loop
  PROVE  UNCHANGED <<api, dbVars, cancelFlag, eventVars, wanted>>
BY DEF Loop, ReadEntry, AckEntry, AckFails, SkipOnShutdown, ReclaimAck,
       ReclaimAdd, ReclaimLost, Signal, Crash, StopRunner, ProcessGone, Restart,
       apiVars, dbVars, queueVars, loopVars, taskVars, clientVars, eventVars,
       histVars

\* A task leaves the queue and the loop alone and moves only a task that is
\* under way.
LEMMA TaskFrame ==
  ASSUME TypeOK, NEW e \in Entry, Task(e)
  PROVE  /\ UNCHANGED <<api, queueVars, loopVars, wanted, ackLost>>
         /\ \A f \in Entry : pc'[f] = "none" <=> pc[f] = "none"
<1>1. UNCHANGED <<api, queueVars, loopVars, wanted, ackLost>>
  BY DEF Task, Admit, NoAgent, PublishStart, GetReuse, GetSpawn, GetInstall,
         Update, UpdateFails, CheckCancel, PromptReturns, Raises,

         DropAfterError, DropRaises, GetRaises, Finalize, ClearCancel, FailFinalize, PublishError,
         PublishDone, Aborts, apiVars, queueVars, loopVars, histVars
<1>2. \/ pc' = pc
      \/ /\ pc[e] # "none"
         /\ \E to \in {"admitted", "started", "spawning", "prompting",
                       "returned", "raised", "failing", "finalized", "cleared",
                       "failed", "errored", "ended"} :
              pc' = [pc EXCEPT ![e] = to]
  BY DEF Task, Admit, NoAgent, PublishStart, GetReuse, GetSpawn, GetInstall,
         Update, UpdateFails, CheckCancel, PromptReturns, Raises,

         DropAfterError, DropRaises, GetRaises, Finalize, ClearCancel, FailFinalize, PublishError,
         PublishDone, Aborts, Goto, Return, PostFinal, taskVars
<1>3. pc \in [Entry -> PCs]
  BY DEF TypeOK, TypeTask
<1> QED BY <1>1, <1>2, <1>3

LEMMA NextStream == ASSUME TInv, [Next]_vars PROVE StreamInv'
<1> USE DEF StreamInv
<1>0. TypeOK /\ StreamInv
  BY DEF TInv
<1>1. ASSUME NEW t \in Turn, Api(t) PROVE StreamInv'
  <2>1. CASE SendEnqueue(t)
    BY <1>0, <2>1, BoundsType, NoTurnType
    DEF SendEnqueue, Append, TypeOK, TypeQueue, loopVars, taskVars, Entry
  <2>2. CASE ~SendEnqueue(t)
    BY <1>0, <1>1, <2>2
    DEF Api, SendCommit, SendClearCancel, SendDies, queueVars, loopVars,
        taskVars
  <2> QED BY <2>1, <2>2
<1>2. ASSUME NEW c \in Conv, User(c) PROVE StreamInv'
  BY <1>0, <1>2, UserFrame DEF queueVars, loopVars, taskVars
<1>3. CASE Loop
  <2> USE <1>0, BoundsType
      DEF TypeOK, TypeQueue, TypeLoop, TypeTask, Entry, Ref, NoEntry, queueVars,
          loopVars, taskVars
  <2>1. CASE ReadEntry
    BY <2>1 DEF ReadEntry
  <2>2. CASE AckEntry
    BY <2>2 DEF AckEntry
  <2>8. CASE AckFails
    BY <2>8 DEF AckFails
  <2>3. CASE SkipOnShutdown \/ ReclaimLost
    BY <2>3, SMTT(30) DEF SkipOnShutdown, ReclaimLost
  <2>4. ASSUME NEW e \in Entry, ReclaimAck(e) PROVE StreamInv'
    BY <2>4 DEF ReclaimAck
  <2>5. CASE ReclaimAdd
    <3>1. ent[reclaiming] \in Turn
      BY <2>5, HeldTurn DEF ReclaimAdd, TInv, HeldHaveTurns
    <3> QED BY <2>5, <3>1 DEF ReclaimAdd, Append
  <2>6. CASE Crash \/ StopRunner
    BY <2>6, PCFacts DEF Crash, StopRunner, ProcessGone
  <2>7. CASE Signal \/ Restart
    BY <2>7 DEF Signal, Restart
  <2> QED BY <1>3, <2>1, <2>2, <2>3, <2>4, <2>5, <2>6, <2>7, <2>8 DEF Loop
<1>4. ASSUME NEW e \in Entry, Task(e) PROVE StreamInv'
  BY <1>0, <1>4, TaskFrame DEF queueVars, loopVars
<1>5. CASE UNCHANGED vars
  BY <1>0, <1>5 DEF vars
<1> QED BY <1>1, <1>2, <1>3, <1>4, <1>5 DEF Next

\* Every variable keeps its type, whatever the number of turns, runners'
\* restarts and failing calls.
THEOREM TypeCorrect == Spec => []TypeOK
<1>1. ASSUME TInv, [Next]_vars PROVE TInv'
  <2>1. TypeOK'
    <3>1. CASE UNCHANGED vars
      BY <1>1, <3>1
      DEF TInv, TypeOK, TypeApi, TypeQueue, TypeLoop, TypeTask, TypeClient,
          TypeEvent, TypeHist, vars
    <3>2. CASE Next
      BY <1>1, <3>2, ApiType, UserType, LoopType, TaskType DEF Next
    <3> QED BY <1>1, <3>1, <3>2
  <2> QED BY <1>1, <2>1, NextStream DEF TInv
<1> QED BY <1>1, InitTInv, PTL DEF Spec, TInv

(***************************************************************************)
(* One send, one task.  The acknowledgement is what keeps the reclaim from *)
(* adding an entry again, so the argument follows each entry through the   *)
(* pending list: while its XACK has not failed, an entry in the list or in *)
(* the hands of the reclaim has no task yet, and when a second entry of a  *)
(* turn exists the first one is spent and will never get one.              *)
(***************************************************************************)
HoldInv ==
  /\ fetched # NoEntry =>
       fetched \in pel /\ pc[fetched] = "none" /\ fetched # reclaiming
  /\ reclaiming # NoEntry =>
       /\ reclaiming \notin pel
       /\ pc[reclaiming] = "none" \/ ent[reclaiming] \in ackLost
  /\ \A e \in pel : pc[e] = "none" \/ ent[e] \in ackLost

Spent(e) == /\ e <= delivered /\ e \notin pel /\ e # reclaiming
            /\ pc[e] = "none"

UniqueInv ==
  \A e, f \in Entry :
    e < f /\ ent[e] = ent[f] /\ ent[e] \in Turn \ ackLost => Spent(e)

SentInv == \A e \in Entry : ent[e] \in Turn => api[ent[e]] = "sent"

QInv == TInv /\ HoldInv /\ UniqueInv /\ SentInv

LEMMA InitQInv == Init => QInv
<1>1. Init => TInv
  BY InitTInv
<1>2. Init => HoldInv /\ UniqueInv /\ SentInv
  BY NoTurnType DEF Init, HoldInv, UniqueInv, SentInv, NoEntry
<1> QED BY <1>1, <1>2 DEF QInv

\* Adding turn u at the end keeps UniqueInv when its other entries are spent.
LEMMA AppendUnique ==
  ASSUME TInv, UniqueInv, NEW u \in Turn, Append(u),
         UNCHANGED <<delivered, pel, pc, ackLost>>,
         reclaiming' \in {reclaiming, NoEntry},
         \A e \in Entry : ent[e] = u /\ u \notin ackLost =>
           /\ e <= delivered /\ e \notin pel /\ pc[e] = "none"
           /\ e # reclaiming'
  PROVE  UniqueInv'
<1> USE DEF Entry, NoEntry
<1>1. SUFFICES ASSUME NEW e \in Entry, NEW f \in Entry, e < f,
                      ent'[e] = ent'[f], ent'[e] \in Turn \ ackLost
               PROVE  Spent(e)'
  BY DEF UniqueInv
<1>2. /\ ent \in [Entry -> Turn \cup {NoTurn}]
      /\ last \in 0..MaxEntries /\ last < MaxEntries
      /\ delivered \in 0..last
      /\ ent' = [ent EXCEPT ![last + 1] = u]
      /\ \A g \in Entry : ent[g] \in Turn <=> g <= last
  BY DEF TInv, TypeOK, TypeQueue, StreamInv, Append
<1>3. e <= last
  BY <1>1, <1>2, NoTurnType, BoundsType
<1>4. ent'[e] = ent[e]
  BY <1>2, <1>3, BoundsType
<1>5. CASE f = last + 1
  <2>1. ent[e] = u
    BY <1>1, <1>2, <1>4, <1>5
  <2> QED BY <1>1, <1>4, <2>1 DEF Spent
<1>6. CASE f # last + 1
  <2>1. ent'[f] = ent[f]
    BY <1>2, <1>6
  <2>2. Spent(e)
    BY <1>1, <1>4, <2>1 DEF UniqueInv
  <2> QED BY <2>2, <1>1 DEF Spent
<1> QED BY <1>5, <1>6

LEMMA NextQInv == ASSUME QInv, [Next]_vars PROVE (HoldInv /\ UniqueInv /\ SentInv)'
<1>0. /\ TInv /\ HoldInv /\ UniqueInv /\ SentInv
      /\ TypeOK /\ TypeQueue /\ TypeLoop /\ TypeTask /\ StreamInv
      /\ HeldHaveTurns
  BY HeldTurn DEF QInv, TInv, TypeOK
<1>1. ASSUME NEW t \in Turn, Api(t) PROVE (HoldInv /\ UniqueInv /\ SentInv)'
  <2>1. CASE SendEnqueue(t)
    <3>1. \A e \in Entry : ent[e] # t
      BY <1>0, <2>1 DEF SendEnqueue, SentInv
    <3>2. UniqueInv'
      <4>1. /\ Append(t)
            /\ UNCHANGED <<delivered, pel, pc, ackLost, reclaiming>>
        BY <2>1 DEF SendEnqueue, loopVars, taskVars, histVars
      <4> QED BY <1>0, <3>1, <4>1, AppendUnique
    <3>3. HoldInv'
      <4>1. \A e \in Entry : e # last + 1 => ent'[e] = ent[e]
        BY <1>0, <2>1 DEF SendEnqueue, Append, TypeQueue
      <4>2. /\ fetched # NoEntry => fetched \in Entry /\ fetched # last + 1
            /\ reclaiming # NoEntry => reclaiming \in Entry /\ reclaiming # last + 1
            /\ \A e \in pel : e \in Entry /\ e # last + 1
        BY <1>0, NoTurnType, BoundsType
        DEF TypeQueue, TypeLoop, StreamInv, Entry, Ref, NoEntry, HeldHaveTurns
      <4> QED BY <1>0, <2>1, <4>1, <4>2
          DEF HoldInv, SendEnqueue, loopVars, taskVars, histVars
    <3>4. SentInv'
      BY <1>0, <2>1 DEF SentInv, SendEnqueue, Append, TypeQueue, TypeOK, TypeApi
    <3> QED BY <3>2, <3>3, <3>4
  <2>2. CASE ~SendEnqueue(t)
    <3>1. UNCHANGED <<ent, last>>
      BY <1>1, <2>2 DEF Api, SendCommit, SendClearCancel, SendDies, queueVars
    <3>2. \A u \in Turn : api[u] = "sent" => api'[u] = "sent"
      BY <1>0, <1>1, <2>2
      DEF Api, SendCommit, SendClearCancel, SendDies, TypeOK, TypeApi
    <3>3. SentInv'
      BY <1>0, <3>1, <3>2 DEF SentInv
    <3>4. HoldInv' /\ UniqueInv'
      BY <1>0, <1>1, <3>1, ApiFrame
      DEF HoldInv, UniqueInv, Spent, loopVars, taskVars
    <3> QED BY <3>3, <3>4
  <2> QED BY <2>1, <2>2
<1>2. ASSUME NEW c \in Conv, User(c) PROVE (HoldInv /\ UniqueInv /\ SentInv)'
  BY <1>0, <1>2, UserFrame
  DEF HoldInv, UniqueInv, SentInv, Spent, queueVars, loopVars, taskVars
<1>3. CASE Loop
  <2>1. CASE ReadEntry
    <3>1. /\ fetched = NoEntry /\ delivered' = delivered + 1
          /\ fetched' = delivered + 1 /\ pel' = pel \cup {delivered + 1}
          /\ UNCHANGED <<ent, pc, reclaiming, ackLost, api>>
          /\ delivered \in Nat /\ delivered + 1 \in Entry
      BY <1>0, <2>1, BoundsType
      DEF ReadEntry, TypeQueue, Entry, apiVars, taskVars, histVars
    <3>2. delivered < delivered + 1
      BY <3>1
    <3>3. /\ pc[delivered + 1] = "none" /\ delivered + 1 \notin pel
          /\ delivered + 1 # reclaiming
      BY <1>0, <3>1, <3>2 DEF StreamInv
    <3>4. HoldInv'
      BY <1>0, <3>1, <3>3 DEF HoldInv
    <3>5. \A e \in Entry : Spent(e) => Spent(e)'
      BY <3>1, <3>3 DEF Spent, Entry
    <3>6. UniqueInv'
      BY <1>0, <3>1, <3>5 DEF UniqueInv
    <3>7. SentInv'
      BY <1>0, <3>1 DEF SentInv
    <3> QED BY <3>4, <3>6, <3>7
  <2>2. CASE AckEntry \/ AckFails
    <3>1. /\ fetched \in Entry /\ fetched # NoEntry /\ fetched' = NoEntry
          /\ pc' = [pc EXCEPT ![fetched] = "queued"]
          /\ UNCHANGED <<ent, delivered, reclaiming, api>>
          /\ \/ pel' = pel \ {fetched} /\ ackLost' = ackLost
             \/ pel' = pel /\ ackLost' = ackLost \cup {ent[fetched]}
      BY <1>0, <2>2
      DEF AckEntry, AckFails, HeldHaveTurns, apiVars, queueVars, histVars
    <3>2. fetched \in pel /\ pc[fetched] = "none" /\ fetched # reclaiming
      BY <1>0, <3>1 DEF HoldInv
    <3>3. \A e \in Entry : e # fetched => pc'[e] = pc[e]
      BY <1>0, <3>1 DEF TypeTask
    <3>4. HoldInv'
      <4>1. reclaiming # NoEntry =>
              /\ reclaiming \notin pel'
              /\ pc'[reclaiming] = "none" \/ ent[reclaiming] \in ackLost'
        BY <1>0, <3>1, <3>2, <3>3 DEF HoldInv, HeldHaveTurns
      <4>2. \A e \in pel' : pc'[e] = "none" \/ ent[e] \in ackLost'
        BY <1>0, <3>1, <3>3 DEF HoldInv, HeldHaveTurns
      <4> QED BY <3>1, <4>1, <4>2 DEF HoldInv
    <3>5. \A e \in Entry : Spent(e) => Spent(e)'
      BY <3>1, <3>2, <3>3 DEF Spent
    <3>6. UniqueInv'
      BY <1>0, <3>1, <3>5 DEF UniqueInv
    <3>7. SentInv'
      BY <1>0, <3>1 DEF SentInv
    <3> QED BY <3>4, <3>6, <3>7
  <2>3. CASE SkipOnShutdown \/ ReclaimLost
    BY <1>0, <2>3
    DEF SkipOnShutdown, ReclaimLost, HoldInv, UniqueInv, SentInv, Spent, NoEntry,
        Entry, apiVars, queueVars, taskVars, histVars
  <2>4. ASSUME NEW e \in Entry, ReclaimAck(e)
        PROVE  (HoldInv /\ UniqueInv /\ SentInv)'
    <3>1. /\ e \in pel /\ e # fetched /\ reclaiming = NoEntry
          /\ pel' = pel \ {e} /\ reclaiming' = e
          /\ UNCHANGED <<ent, delivered, fetched, pc, ackLost, api>>
      BY <2>4 DEF ReclaimAck, apiVars, taskVars, histVars
    <3>2. \A f \in Entry : Spent(f) => Spent(f)'
      BY <3>1 DEF Spent
    <3> QED BY <1>0, <3>1, <3>2 DEF HoldInv, UniqueInv, SentInv
  <2>5. CASE ReclaimAdd
    <3>1. /\ reclaiming # NoEntry /\ reclaiming' = NoEntry
          /\ Append(ent[reclaiming])
          /\ UNCHANGED <<api, delivered, pel, fetched, pc, ackLost>>
      BY <2>5 DEF ReclaimAdd, apiVars, taskVars, histVars
    <3>2. reclaiming \in Entry /\ ent[reclaiming] \in Turn
      BY <1>0, <3>1 DEF HeldHaveTurns
    <3>3. SentInv'
      BY <1>0, <3>1, <3>2 DEF SentInv, Append, TypeQueue
    <3>4. HoldInv'
      <4>1. \A e \in pel : e \in Entry /\ ent'[e] = ent[e]
        BY <1>0, <3>1, NoTurnType, BoundsType
        DEF TypeQueue, StreamInv, Entry, HeldHaveTurns, Append
      <4> QED BY <1>0, <3>1, <4>1 DEF HoldInv, NoEntry
    <3>5. UniqueInv'
      <4>1. ASSUME NEW e \in Entry, ent[e] = ent[reclaiming],
                   ent[reclaiming] \notin ackLost
            PROVE  e <= delivered /\ e \notin pel /\ pc[e] = "none"
        <5>1. CASE e = reclaiming
          BY <1>0, <3>1, <4>1, <5>1 DEF HoldInv, StreamInv, TypeQueue, Entry
        <5>2. CASE e < reclaiming
          <6>1. Spent(e)
            BY <1>0, <3>2, <4>1, <5>2 DEF UniqueInv
          <6> QED BY <6>1 DEF Spent
        <5>3. CASE reclaiming < e
          <6>1. Spent(reclaiming)
            BY <1>0, <3>2, <4>1, <5>3 DEF UniqueInv
          <6> QED BY <6>1 DEF Spent
        <5> QED BY <5>1, <5>2, <5>3, <3>2 DEF Entry
      <4>2. \A e \in Entry : e # reclaiming'
        BY <3>1 DEF Entry, NoEntry
      <4> QED BY <1>0, <3>1, <3>2, <4>1, <4>2, AppendUnique
    <3> QED BY <3>3, <3>4, <3>5
  <2>6. CASE Crash \/ StopRunner
    <3>1. /\ fetched' = NoEntry /\ reclaiming' = NoEntry
          /\ pc' = [e \in Entry |-> IF pc[e] \in Unfinished THEN "dead" ELSE pc[e]]
          /\ UNCHANGED <<ent, delivered, pel, ackLost, api>>
      BY <2>6 DEF Crash, StopRunner, ProcessGone, apiVars, queueVars
    <3>2. \A e \in Entry : pc'[e] = "none" <=> pc[e] = "none"
      BY <3>1, PCFacts
    <3>3. \A e \in Entry : Spent(e) => Spent(e)'
      BY <3>1, <3>2 DEF Spent, Entry, NoEntry
    <3> QED BY <1>0, <3>1, <3>2, <3>3
        DEF HoldInv, UniqueInv, SentInv, HeldHaveTurns
  <2>7. CASE Signal \/ Restart
    BY <1>0, <2>7
    DEF Signal, Restart, HoldInv, UniqueInv, SentInv, Spent, apiVars, queueVars,
        taskVars, histVars
  <2> QED BY <1>3, <2>1, <2>2, <2>3, <2>4, <2>5, <2>6, <2>7 DEF Loop
<1>4. ASSUME NEW e \in Entry, Task(e) PROVE (HoldInv /\ UniqueInv /\ SentInv)'
  <2>1. /\ UNCHANGED <<api, queueVars, loopVars, ackLost>>
        /\ \A f \in Entry : pc'[f] = "none" <=> pc[f] = "none"
    BY <1>0, <1>4, TaskFrame
  <2> QED BY <1>0, <2>1
      DEF HoldInv, UniqueInv, SentInv, Spent, HeldHaveTurns, queueVars, loopVars
<1>5. CASE UNCHANGED vars
  BY <1>0, <1>5 DEF vars, HoldInv, UniqueInv, SentInv, Spent
<1> QED BY <1>1, <1>2, <1>3, <1>4, <1>5 DEF Next

LEMMA QInvStep == ASSUME QInv, [Next]_vars PROVE QInv'
<1>1. TypeOK'
  <2>1. CASE UNCHANGED vars
    BY <2>1
    DEF QInv, TInv, TypeOK, TypeApi, TypeQueue, TypeLoop, TypeTask, TypeClient,
        TypeEvent, TypeHist, vars
  <2>2. CASE Next
    BY <2>2, ApiType, UserType, LoopType, TaskType DEF Next, QInv
  <2> QED BY <2>1, <2>2
<1>2. TInv'
  BY <1>1, NextStream DEF TInv, QInv
<1> QED BY <1>2, NextQInv DEF QInv

LEMMA QInvInvariant == Spec => []QInv
BY InitQInv, QInvStep, PTL DEF Spec

\* However often the runner crashes, restarts and reclaims stale entries, one
\* send is handled by at most one task unless an XACK failed.
THEOREM HandledOnceHolds == Spec => []HandledOnce
<1>1. QInv => HandledOnce
  <2>1. SUFFICES ASSUME QInv, NEW e \in Entry, NEW f \in Entry,
                        Handled(e), Handled(f), ent[e] = ent[f],
                        ent[e] \notin ackLost
                 PROVE  e = f
    BY DEF HandledOnce
  <2>2. ent[e] \in Turn \ ackLost
    BY <2>1, HeldTurn DEF QInv, HeldHaveTurns, Handled
  <2>3. ~(e < f) /\ ~(f < e)
    BY <2>1, <2>2 DEF QInv, UniqueInv, Spent, Handled
  <2> QED BY <2>3 DEF Entry
<1> QED BY <1>1, QInvInvariant, PTL
=============================================================================
