------------------------ MODULE PromptPipelineSafety ------------------------
(***************************************************************************)
(* The pipeline implements TurnLifecycle; the done event comes after the   *)
(* commit of the final row; no turn is cancelled without the user's doing; *)
(* nothing leaks; when a conversation gets its turns one after the other,  *)
(* the stored text is the streamed one and no token follows the done       *)
(* event.  The argument for the life cycle: while the XACK of a            *)
(* turn has not failed, every entry that may still be handled belongs to a *)
(* message that is open, because the entry that closes it is the only one  *)
(* that is not spent (UniqueInv).                                          *)
(***************************************************************************)
EXTENDS PromptPipelineProofs, FiniteSetTheorems

\* Until its task is on the stream, nobody but the handler touches a message.
StatusInv ==
  \A t \in Turn : /\ api[t] = "idle" <=> msg[t] = "none"
                  /\ api[t] \in {"committed", "cleared"} => msg[t] = "streaming"

\* The entry has a task that has not closed the message, or may get one.
Active(e) == pc[e] \in PreFinal \/ (pc[e] = "none" /\ ~Spent(e))

OpenInv ==
  \A e \in Entry : ent[e] \in Turn \ ackLost /\ Active(e) => msg[ent[e]] = "streaming"

ClosedInv ==
  /\ \A e \in Entry : pc[e] \in PostFinal => msg[ent[e]] \in Terminal
  /\ \A e \in Entry : pc[e] = "returned" => outcome[e] \in {"complete", "cancelled"}
  /\ DoneAfterCommit

WInv == QInv /\ StatusInv /\ OpenInv /\ ClosedInv

LEMMA InitWInv == Init => WInv
<1>1. Init => QInv
  BY InitQInv
<1>2. Init => StatusInv /\ OpenInv /\ ClosedInv
  BY NoTurnType
  DEF Init, StatusInv, OpenInv, ClosedInv, DoneAfterCommit, PostFinal
<1> QED BY <1>1, <1>2 DEF WInv

\* The steps of a task that matter here; the others are quiet.
Loud(e) == PromptReturns(e) \/ Finalize(e) \/ FailFinalize(e) \/ PublishDone(e)

\* A quiet step writes no row, announces no end and stays on its side of the
\* commit.
LEMMA QuietTask ==
  ASSUME TypeOK, NEW e \in Entry, Task(e), ~Loud(e)
  PROVE  /\ UNCHANGED msg
         /\ \A t \in Turn : "done" \in told'[t] <=> "done" \in told[t]
         /\ \A f \in Entry :
              /\ pc'[f] \in PreFinal => pc[f] \in PreFinal
              /\ pc'[f] \in PostFinal => pc[f] \in PostFinal
              /\ pc'[f] = "none" => pc[f] = "none"
              /\ pc'[f] = "returned" =>
                   pc[f] = "returned" /\ outcome'[f] = outcome[f]
<1>0. /\ pc \in [Entry -> PCs] /\ told \in [Turn -> SUBSET {"start", "error", "done"}]
      /\ outcome \in [Entry -> {"none", "complete", "cancelled"}]
  BY DEF TypeOK, TypeTask, TypeEvent
<1>1. UNCHANGED msg
  BY DEF Task, Loud, Admit, NoAgent, PublishStart, GetReuse, GetSpawn, GetInstall,
         Update, UpdateFails, CheckCancel, Raises,
         DropAfterError, DropRaises, GetRaises, ClearCancel,
         PublishError, Aborts, dbVars
<1>2. \/ UNCHANGED told
      \/ told' = [told EXCEPT ![ent[e]] = @ \cup {"start"}]
      \/ told' = [told EXCEPT ![ent[e]] = @ \cup {"error"}]
  BY DEF Task, Loud, Admit, NoAgent, PublishStart, GetReuse, GetSpawn, GetInstall,
         Update, UpdateFails, CheckCancel, Raises,
         DropAfterError, DropRaises, GetRaises, ClearCancel,
         PublishError, Aborts, eventVars
<1>3. \/ UNCHANGED <<pc, outcome>>
      \/ /\ UNCHANGED outcome
         /\ \E to \in {"admitted", "started", "spawning", "prompting", "raised",
                       "failing"} :
              pc[e] \in PreFinal /\ pc' = [pc EXCEPT ![e] = to]
      \/ /\ UNCHANGED outcome
         /\ \E to \in {"cleared", "errored"} :
              pc[e] \in PostFinal /\ pc' = [pc EXCEPT ![e] = to]
      \/ /\ outcome' = [outcome EXCEPT ![e] = "none"]
         /\ pc' = [pc EXCEPT ![e] = "ended"]
  BY DEF Task, Loud, Admit, NoAgent, PublishStart, GetReuse, GetSpawn, GetInstall,
         Update, UpdateFails, CheckCancel, Raises,
         DropAfterError, DropRaises, GetRaises, ClearCancel,
         PublishError, Aborts, Goto, Return, PreFinal, PostFinal, taskVars
<1>4. \A t \in Turn : "done" \in told'[t] <=> "done" \in told[t]
  BY <1>0, <1>2
<1>5. \A f \in Entry :
        /\ pc'[f] \in PreFinal => pc[f] \in PreFinal
        /\ pc'[f] \in PostFinal => pc[f] \in PostFinal
        /\ pc'[f] = "none" => pc[f] = "none"
        /\ pc'[f] = "returned" => pc[f] = "returned" /\ outcome'[f] = outcome[f]
  BY <1>0, <1>3 DEF PreFinal, PostFinal
<1> QED BY <1>1, <1>4, <1>5

\* A step that writes a row writes the row of the only entry of its turn that
\* is still active.
LEMMA OnlyActive ==
  ASSUME QInv, NEW e \in Entry, NEW f \in Entry, Active(e), Active(f),
         ent[e] = ent[f], ent[e] \in Turn \ ackLost
  PROVE  e = f
<1>1. ~Spent(e) /\ ~Spent(f)
  BY DEF Active, Spent, PreFinal
<1>2. ~(e < f) /\ ~(f < e)
  BY <1>1 DEF QInv, UniqueInv
<1> QED BY <1>2 DEF Entry

LEMMA NextStatus == ASSUME WInv, [Next]_vars PROVE StatusInv'
<1>0. /\ TypeApi /\ TypeTask /\ StatusInv /\ SentInv /\ HeldHaveTurns /\ ClosedInv
  BY HeldTurn DEF WInv, QInv, TInv, TypeOK
<1>1. ASSUME NEW t \in Turn, Api(t) PROVE StatusInv'
  BY <1>0, <1>1
  DEF Api, SendCommit, SendClearCancel, SendEnqueue, SendDies, StatusInv, TypeApi,
      dbVars
<1>2. ASSUME NEW c \in Conv, User(c) PROVE StatusInv'
  BY <1>0, <1>2, UserFrame DEF StatusInv, dbVars
<1>3. CASE Loop
  BY <1>0, <1>3, LoopFrame DEF StatusInv, dbVars
<1>4. ASSUME NEW e \in Entry, Task(e) PROVE StatusInv'
  <2>1. TypeOK /\ UNCHANGED api
    BY <1>4, TaskFrame DEF WInv, QInv, TInv
  <2>2. CASE Finalize(e) \/ FailFinalize(e)
    <3>1. ent[e] \in Turn /\ api[ent[e]] = "sent"
      BY <1>0, <2>2 DEF Finalize, FailFinalize, Goto, HeldHaveTurns, SentInv
    <3>2. /\ \A t \in Turn : t # ent[e] => msg'[t] = msg[t]
          /\ msg'[ent[e]] # "none"
      BY <1>0, <2>2, <3>1 DEF Finalize, FailFinalize, Goto, TypeApi, ClosedInv
    <3> QED BY <1>0, <2>1, <3>1, <3>2 DEF StatusInv
  <2>3. CASE ~(Finalize(e) \/ FailFinalize(e))
    <3>1. UNCHANGED msg
      BY <1>4, <2>1, <2>3, QuietTask
      DEF Loud, PromptReturns, PublishDone, dbVars
    <3> QED BY <1>0, <2>1, <3>1 DEF StatusInv
  <2> QED BY <2>2, <2>3
<1>5. CASE UNCHANGED vars
  BY <1>0, <1>5 DEF StatusInv, vars
<1> QED BY <1>1, <1>2, <1>3, <1>4, <1>5 DEF Next

\* A step by the queue or the loop makes no entry active but a new one.
LEMMA NextOpen == ASSUME WInv, [Next]_vars PROVE OpenInv'
<1>0. /\ TypeOK /\ TypeApi /\ TypeQueue /\ TypeLoop /\ TypeTask /\ TypeHist
      /\ QInv /\ TInv /\ StreamInv /\ HoldInv /\ SentInv /\ HeldHaveTurns
      /\ StatusInv /\ OpenInv /\ ClosedInv
  BY HeldTurn DEF WInv, QInv, TInv, TypeOK
<1>1. ASSUME NEW t \in Turn, Api(t) PROVE OpenInv'
  <2>1. UNCHANGED <<delivered, pel, reclaiming, pc, ackLost>>
    BY <1>1, ApiFrame DEF loopVars, taskVars
  <2>2. CASE SendCommit(t)
    <3>1. UNCHANGED ent /\ \A u \in Turn : msg'[u] \in {msg[u], "streaming"}
      BY <1>0, <2>2 DEF SendCommit, queueVars, TypeApi
    <3> QED BY <1>0, <2>1, <3>1 DEF OpenInv, Active, Spent
  <2>3. CASE SendEnqueue(t)
    <3>1. msg[t] = "streaming" /\ msg' = msg
      BY <1>0, <2>3 DEF SendEnqueue, StatusInv, dbVars
    <3>2. \A e \in Entry : ent'[e] = t \/ ent'[e] = ent[e]
      BY <1>0, <2>3 DEF SendEnqueue, Append, TypeQueue
    <3> QED BY <1>0, <2>1, <3>1, <3>2 DEF OpenInv, Active, Spent
  <2>4. CASE SendClearCancel(t) \/ SendDies(t)
    BY <1>0, <2>1, <2>4
    DEF SendClearCancel, SendDies, dbVars, queueVars, OpenInv, Active, Spent
  <2> QED BY <1>1, <2>2, <2>3, <2>4 DEF Api
<1>2. ASSUME NEW c \in Conv, User(c) PROVE OpenInv'
  <2>1. UNCHANGED <<msg, ent, delivered, pel, reclaiming, pc, ackLost>>
    BY <1>2, UserFrame DEF dbVars, queueVars, loopVars, taskVars
  <2> QED BY <1>0, <2>1 DEF OpenInv, Active, Spent
<1>3. CASE Loop
  <2>1. CASE ReclaimAdd
    <3>1. /\ reclaiming # NoEntry /\ reclaiming' = NoEntry
          /\ Append(ent[reclaiming])
          /\ UNCHANGED <<msg, delivered, pel, pc, ackLost>>
      BY <2>1 DEF ReclaimAdd, dbVars, taskVars, histVars
    <3>2. reclaiming \in Entry /\ ent[reclaiming] \in Turn
      BY <1>0, <3>1 DEF HeldHaveTurns
    <3>3. ent[reclaiming] \notin ackLost => msg[ent[reclaiming]] = "streaming"
      BY <1>0, <3>1, <3>2 DEF HoldInv, OpenInv, Active, Spent
    <3>4. \A e \in Entry : ent'[e] = ent[reclaiming] \/ ent'[e] = ent[e]
      BY <1>0, <3>1 DEF Append, TypeQueue
    <3>5. \A e \in Entry : Spent(e) => Spent(e)'
      BY <3>1 DEF Spent, Entry, NoEntry
    <3> QED BY <1>0, <3>1, <3>3, <3>4, <3>5 DEF OpenInv, Active
  <2>2. CASE ~ReclaimAdd
    <3>1. /\ UNCHANGED <<msg, ent>> /\ ackLost \subseteq ackLost'
          /\ \A e \in Entry : Active(e)' => Active(e)
      <4>1. CASE ReadEntry
        <5>1. \A e \in Entry : Spent(e) => Spent(e)'
          BY <1>0, <4>1 DEF ReadEntry, Spent, StreamInv, Entry, TypeQueue, taskVars
        <5> QED BY <4>1, <5>1 DEF ReadEntry, Active, dbVars, taskVars, histVars
      <4>2. CASE AckEntry \/ AckFails
        <5>1. /\ fetched \in Entry /\ fetched \in pel /\ pc[fetched] = "none"
              /\ pc' = [pc EXCEPT ![fetched] = "queued"]
              /\ UNCHANGED <<msg, ent, delivered, reclaiming>>
              /\ ackLost \subseteq ackLost'
              /\ pel' = pel \ {fetched} \/ pel' = pel
          BY <1>0, <4>2
          DEF AckEntry, AckFails, HoldInv, HeldHaveTurns, dbVars, queueVars, histVars
        <5>2. Active(fetched)
          BY <5>1 DEF Active, Spent
        <5>3. \A e \in Entry : e # fetched =>
                pc'[e] = pc[e] /\ (Spent(e) => Spent(e)')
          BY <1>0, <5>1 DEF TypeTask, Spent
        <5> QED BY <5>1, <5>2, <5>3 DEF Active
      <4>3. CASE SkipOnShutdown \/ ReclaimLost \/ Signal \/ Restart
        <5>1. /\ UNCHANGED <<msg, ent, delivered, pel, pc, ackLost>>
              /\ reclaiming' \in {reclaiming, NoEntry}
          BY <4>3
          DEF SkipOnShutdown, ReclaimLost, Signal, Restart, dbVars, queueVars,
              taskVars, histVars
        <5> QED BY <5>1 DEF Active, Spent, Entry, NoEntry
      <4>4. ASSUME NEW g \in Entry, ReclaimAck(g)
            PROVE  /\ UNCHANGED <<msg, ent>> /\ ackLost \subseteq ackLost'
                   /\ \A e \in Entry : Active(e)' => Active(e)
        BY <4>4 DEF ReclaimAck, Active, Spent, dbVars, taskVars, histVars
      <4>5. CASE Crash \/ StopRunner
        <5>1. /\ UNCHANGED <<msg, ent, delivered, pel, ackLost>>
              /\ reclaiming' = NoEntry
              /\ pc' = [e \in Entry |-> IF pc[e] \in Unfinished THEN "dead" ELSE pc[e]]
          BY <4>5 DEF Crash, StopRunner, ProcessGone, dbVars, queueVars
        <5>2. \A e \in Entry : pc'[e] \notin PreFinal /\ (pc'[e] = "none" => pc[e] = "none")
          BY <5>1, PCFacts DEF PreFinal
        <5> QED BY <5>1, <5>2 DEF Active, Spent, Entry, NoEntry
      <4> QED BY <1>3, <2>2, <4>1, <4>2, <4>3, <4>4, <4>5 DEF Loop
    <3> QED BY <1>0, <3>1 DEF OpenInv
  <2> QED BY <2>1, <2>2
<1>4. ASSUME NEW e \in Entry, Task(e) PROVE OpenInv'
  <2>1. UNCHANGED <<ent, delivered, pel, reclaiming, ackLost>>
    BY <1>0, <1>4, TaskFrame DEF queueVars, loopVars
  <2>2. \A f \in Entry : Active(f)' => Active(f)
    <3>1. \A f \in Entry : pc'[f] \in PreFinal => pc[f] \in PreFinal
      BY <1>0, <1>4, QuietTask
      DEF Loud, PromptReturns, Finalize, FailFinalize, PublishDone, Goto, Return,
          PreFinal, TypeTask
    <3> QED BY <1>0, <1>4, <2>1, <3>1, TaskFrame DEF Active, Spent
  <2>3. CASE Finalize(e) \/ FailFinalize(e)
    <3>1. /\ Active(e) /\ ~Active(e)' /\ ent[e] \in Turn
          /\ \A t \in Turn : t # ent[e] => msg'[t] = msg[t]
      BY <1>0, <2>3
      DEF Finalize, FailFinalize, Goto, Active, PreFinal, HeldHaveTurns, TypeApi,
          TypeTask
    <3>2. ASSUME NEW f \in Entry, ent[f] \in Turn \ ackLost, Active(f)'
          PROVE  ent[f] # ent[e]
      BY <1>0, <2>2, <3>1, <3>2, OnlyActive
    <3> QED BY <1>0, <2>1, <2>2, <3>1, <3>2 DEF OpenInv
  <2>4. CASE ~(Finalize(e) \/ FailFinalize(e))
    <3>1. UNCHANGED msg
      BY <1>0, <1>4, <2>4, QuietTask DEF Loud, PromptReturns, PublishDone, dbVars
    <3> QED BY <1>0, <2>1, <2>2, <3>1 DEF OpenInv
  <2> QED BY <2>3, <2>4
<1>5. CASE UNCHANGED vars
  BY <1>0, <1>5 DEF OpenInv, Active, Spent, vars
<1> QED BY <1>1, <1>2, <1>3, <1>4, <1>5 DEF Next

LEMMA NextClosed == ASSUME WInv, [Next]_vars PROVE ClosedInv'
<1>0. /\ TypeOK /\ TypeApi /\ TypeTask /\ TypeEvent /\ SentInv /\ HeldHaveTurns
      /\ StatusInv /\ ClosedInv
  BY HeldTurn DEF WInv, QInv, TInv, TypeOK
<1>1. ASSUME NEW t \in Turn, Api(t) PROVE ClosedInv'
  <2>1. /\ UNCHANGED <<pc, outcome, told>>
        /\ \A u \in Turn : msg[u] \in Terminal => msg'[u] = msg[u]
        /\ \A e \in Entry : ent'[e] = ent[e] \/ pc[e] = "none"
    <3>1. UNCHANGED <<pc, outcome, told>>
      BY <1>1, ApiFrame DEF taskVars, eventVars
    <3>2. \A u \in Turn : msg[u] \in Terminal => msg'[u] = msg[u]
      BY <1>0, <1>1
      DEF Api, SendCommit, SendClearCancel, SendEnqueue, SendDies, StatusInv,
          Terminal, TypeApi, dbVars
    <3>3. \A e \in Entry : ent'[e] = ent[e] \/ pc[e] = "none"
      <4>1. \A e \in Entry : last < e => pc[e] = "none"
        BY <1>0, NoTurnType DEF WInv, QInv, TInv, StreamInv, HeldHaveTurns,
           TypeOK, TypeQueue, Entry
      <4> QED BY <1>0, <1>1, <4>1
          DEF Api, SendCommit, SendClearCancel, SendEnqueue, SendDies, Append,
              queueVars, TypeOK, TypeQueue
    <3> QED BY <3>1, <3>2, <3>3
  <2> QED BY <1>0, <2>1, PCFacts DEF ClosedInv, DoneAfterCommit, HeldHaveTurns
<1>2. ASSUME NEW c \in Conv, User(c) PROVE ClosedInv'
  BY <1>0, <1>2, UserFrame
  DEF ClosedInv, DoneAfterCommit, dbVars, queueVars, taskVars, eventVars
<1>3. CASE Loop
  <2>1. UNCHANGED <<msg, told>>
    BY <1>3, LoopFrame DEF dbVars, eventVars
  <2>2. \A e \in Entry : pc'[e] \in PostFinal \cup {"returned"} =>
          pc'[e] = pc[e] /\ outcome'[e] = outcome[e] /\ ent'[e] = ent[e]
    <3>1. CASE AckEntry \/ AckFails
      BY <1>0, <3>1 DEF AckEntry, AckFails, PostFinal, TypeTask, queueVars
    <3>2. CASE Crash \/ StopRunner
      BY <3>2 DEF Crash, StopRunner, ProcessGone, Unfinished, PreFinal, PostFinal
    <3>3. CASE ReclaimAdd
      <4>1. \A e \in Entry : last < e => pc[e] = "none"
        BY <1>0, NoTurnType DEF WInv, QInv, TInv, StreamInv, HeldHaveTurns,
           TypeOK, TypeQueue, Entry
      <4> QED BY <1>0, <3>3, <4>1
          DEF ReclaimAdd, Append, TypeOK, TypeQueue, PostFinal, taskVars
    <3>4. CASE ~(AckEntry \/ AckFails \/ Crash \/ StopRunner \/ ReclaimAdd)
      BY <1>3, <3>4
      DEF Loop, ReadEntry, SkipOnShutdown, ReclaimAck, ReclaimLost, Signal, Restart,
          queueVars, taskVars
    <3> QED BY <3>1, <3>2, <3>3, <3>4
  <2> QED BY <1>0, <2>1, <2>2 DEF ClosedInv, DoneAfterCommit
<1>4. ASSUME NEW e \in Entry, Task(e) PROVE ClosedInv'
  <2>1. UNCHANGED ent
    BY <1>0, <1>4, TaskFrame DEF queueVars
  <2>2. CASE ~Loud(e)
    BY <1>0, <1>4, <2>1, <2>2, QuietTask DEF ClosedInv, DoneAfterCommit
  <2>3. CASE PromptReturns(e)
    BY <1>0, <2>1, <2>3
    DEF PromptReturns, Goto, ClosedInv, DoneAfterCommit, PostFinal, TypeTask, dbVars,
        eventVars
  <2>4. CASE Finalize(e) \/ FailFinalize(e)
    <3>1. /\ UNCHANGED <<outcome, told>>
          /\ \A f \in Entry : f # e => pc'[f] = pc[f]
          /\ pc'[e] \notin {"returned"}
      BY <1>0, <2>4 DEF Finalize, FailFinalize, Goto, TypeTask, eventVars
    <3>2. ent[e] \in Turn
      BY <1>0, <2>4 DEF Finalize, FailFinalize, Goto, HeldHaveTurns
    <3>3. /\ msg'[ent[e]] \in Terminal
          /\ \A t \in Turn : t # ent[e] => msg'[t] = msg[t]
      BY <1>0, <2>4, <3>2 DEF Finalize, FailFinalize, Goto, TypeApi, ClosedInv, Terminal
    <3>4. \A t \in Turn : msg[t] \in Terminal => msg'[t] \in Terminal
      BY <3>3
    <3>5. \A f \in Entry : pc'[f] \in PostFinal => msg'[ent[f]] \in Terminal
      BY <1>0, <3>1, <3>3, PCFacts DEF ClosedInv, HeldHaveTurns
    <3> QED BY <1>0, <2>1, <3>1, <3>4, <3>5 DEF ClosedInv, DoneAfterCommit
  <2>5. CASE PublishDone(e)
    <3>1. msg[ent[e]] \in Terminal /\ UNCHANGED msg
      BY <1>0, <2>5 DEF PublishDone, ClosedInv, PostFinal, dbVars
    <3>2. /\ pc' = [pc EXCEPT ![e] = "ended"]
          /\ outcome' = [outcome EXCEPT ![e] = "none"]
          /\ told' = [told EXCEPT ![ent[e]] = @ \cup {"done"}]
      BY <2>5 DEF PublishDone, Return
    <3> QED BY <1>0, <2>1, <3>1, <3>2
        DEF ClosedInv, DoneAfterCommit, PostFinal, TypeTask, TypeEvent
  <2> QED BY <2>2, <2>3, <2>4, <2>5 DEF Loud
<1>5. CASE UNCHANGED vars
  BY <1>0, <1>5 DEF ClosedInv, DoneAfterCommit, vars
<1> QED BY <1>1, <1>2, <1>3, <1>4, <1>5 DEF Next

LEMMA WInvInvariant == Spec => []WInv
<1>1. ASSUME WInv, [Next]_vars PROVE WInv'
  BY <1>1, QInvStep, NextStatus, NextOpen, NextClosed DEF WInv
<1> QED BY <1>1, InitWInv, PTL DEF Spec

\* Whatever fails, a client that sees the done event of a message and reloads
\* it finds the final row: the event never overtakes the commit.
THEOREM DoneAfterCommitHolds == Spec => []DoneAfterCommit
<1>1. WInv => DoneAfterCommit
  BY DEF WInv, ClosedInv
<1> QED BY <1>1, WInvInvariant, PTL

\* Every step of the pipeline is a step of the life cycle of one message or
\* leaves what the life cycle speaks about alone.
LEMMA StepRefines ==
  ASSUME WInv, [Next]_vars
  PROVE  [Lifecycle!Next]_(Lifecycle!vars)
<1>0. /\ TypeOK /\ TypeApi /\ TypeTask /\ TypeEvent /\ HeldHaveTurns
      /\ StatusInv /\ OpenInv /\ ClosedInv /\ SentInv
  BY HeldTurn DEF WInv, QInv, TInv, TypeOK
<1> DEFINE done == {t \in Turn : "done" \in told[t]}
<1> USE DEF Lifecycle!vars, Lifecycle!Next
<1>1. ASSUME NEW t \in Turn, Api(t)
      PROVE  [Lifecycle!Next]_(Lifecycle!vars)
  <2>1. UNCHANGED <<done, ackLost>>
    BY <1>1, ApiFrame
    DEF Api, SendCommit, SendClearCancel, SendEnqueue, SendDies, eventVars, histVars
  <2>2. CASE SendCommit(t)
    <3>1. Lifecycle!Open(t)
      BY <1>0, <2>1, <2>2 DEF SendCommit, StatusInv, Lifecycle!Open
    <3> QED BY <3>1
  <2>3. CASE ~SendCommit(t)
    <3>1. UNCHANGED msg
      BY <1>1, <2>3 DEF Api, SendClearCancel, SendEnqueue, SendDies, dbVars
    <3> QED BY <2>1, <3>1
  <2> QED BY <2>2, <2>3
<1>2. ASSUME NEW c \in Conv, User(c)
      PROVE  [Lifecycle!Next]_(Lifecycle!vars)
  BY <1>2, UserFrame DEF User, PressCancel, CancelExpires, dbVars, eventVars, histVars
<1>3. CASE Loop
  <2>1. UNCHANGED <<msg, done>>
    BY <1>3, LoopFrame DEF dbVars, eventVars
  <2>2. CASE AckFails
    <3>1. fetched \in Entry /\ ent[fetched] \in Turn
      BY <1>0, <2>2 DEF AckFails, HeldHaveTurns
    <3>2. Lifecycle!LoseAck(ent[fetched])
      BY <1>0, <2>1, <2>2, <3>1
      DEF AckFails, StatusInv, SentInv, Lifecycle!LoseAck
    <3> QED BY <3>1, <3>2
  <2>3. CASE ~AckFails
    <3>1. UNCHANGED ackLost
      BY <1>3, <2>3
      DEF Loop, ReadEntry, AckEntry, SkipOnShutdown, ReclaimAck, ReclaimAdd,
          ReclaimLost, Signal, Crash, StopRunner, ProcessGone, Restart, histVars
    <3> QED BY <2>1, <3>1
  <2> QED BY <2>2, <2>3
<1>4. ASSUME NEW e \in Entry, Task(e)
      PROVE  [Lifecycle!Next]_(Lifecycle!vars)
  <2>1. UNCHANGED ackLost
    BY <1>0, <1>4, TaskFrame
  <2>2. CASE Finalize(e) \/ FailFinalize(e)
    <3>1. ent[e] \in Turn /\ UNCHANGED done
      BY <1>0, <2>2
      DEF Finalize, FailFinalize, Goto, HeldHaveTurns, eventVars
    <3>2. msg[ent[e]] = "streaming" \/ ent[e] \in ackLost
      BY <1>0, <2>2, <3>1 DEF Finalize, FailFinalize, Goto, OpenInv, Active, PreFinal
    <3>3. \E s \in Lifecycle!Closed : msg' = [msg EXCEPT ![ent[e]] = s]
      BY <1>0, <2>2 DEF Finalize, FailFinalize, Goto, ClosedInv, Lifecycle!Closed
    <3>4. \E s \in Lifecycle!Closed : Lifecycle!Close(ent[e], s)
      BY <2>1, <3>1, <3>2, <3>3 DEF Lifecycle!Close
    <3> QED BY <3>1, <3>4
  <2>3. CASE PublishDone(e)
    <3>1. PICK t \in Turn : t = ent[e]
      BY <1>0, <2>3 DEF PublishDone, HeldHaveTurns
    <3>2. msg[t] \in Lifecycle!Closed /\ UNCHANGED msg
      BY <1>0, <2>3, <3>1
      DEF PublishDone, ClosedInv, PostFinal, Terminal, dbVars, Lifecycle!Closed
    <3>3. done' = done \cup {t}
      BY <1>0, <2>3, <3>1 DEF PublishDone, TypeEvent
    <3>4. Lifecycle!Announce(t)
      BY <2>1, <3>2, <3>3 DEF Lifecycle!Announce
    <3> QED BY <3>4
  <2>4. CASE PromptReturns(e)
    BY <2>1, <2>4 DEF PromptReturns, dbVars, eventVars
  <2>5. CASE ~Loud(e)
    <3>1. UNCHANGED <<msg, done>>
      BY <1>0, <1>4, <2>5, QuietTask
    <3> QED BY <2>1, <3>1
  <2> QED BY <2>2, <2>3, <2>4, <2>5 DEF Loud
<1>5. CASE UNCHANGED vars
  BY <1>5 DEF vars
<1> QED BY <1>1, <1>2, <1>3, <1>4, <1>5 DEF Next

\* The pipeline implements the promise made about a message: opened once,
\* closed once, announced when closed -- for every number of turns, entries,
\* restarts and failures.
THEOREM Refinement == Spec => ImplementsLifecycle
<1>1. Init => Lifecycle!Init
  BY DEF Init, Lifecycle!Init
<1>2. WInv /\ [Next]_vars => [Lifecycle!Next]_(Lifecycle!vars)
  BY StepRefines
<1> QED BY <1>1, <1>2, WInvInvariant, PTL DEF Spec, ImplementsLifecycle, Lifecycle!Spec

(***************************************************************************)
(* Cancelling.  The flag belongs to a conversation and a turn clears it    *)
(* before it is enqueued: while it is set, the user has pressed cancel on  *)
(* every turn of the conversation that a task may still be working on.     *)
(***************************************************************************)
FlagInv ==
  \A t \in Turn :
    cancelFlag[ConvOf[t]] /\ api[t] \in {"cleared", "sent"} =>
      t \in wanted \/ msg[t] \in Terminal

\* Only a task that exists has a callback, bound or running.
CallbackInv ==
  \A k \in Entry : /\ bound[k] # NoEntry => pc[bound[k]] # "none"
                   /\ inCallback[k] # NoEntry => pc[inCallback[k]] # "none"

StopInv ==
  \A e \in Entry :
    /\ stopping[e] => pc[e] # "none"
    /\ stopping[e] /\ pc[e] \in PreFinal => ent[e] \in wanted \cup ackLost
    /\ pc[e] = "returned" /\ outcome[e] = "cancelled" =>
         ent[e] \in wanted \cup ackLost

CInv == WInv /\ FlagInv /\ CallbackInv /\ StopInv /\ NoSpuriousCancel

LEMMA InitCInv == Init => CInv
<1>1. Init => WInv
  BY InitWInv
<1>2. Init => FlagInv /\ CallbackInv /\ StopInv /\ NoSpuriousCancel
  BY ConvOfType DEF Init, FlagInv, CallbackInv, StopInv, NoSpuriousCancel, PreFinal
<1> QED BY <1>1, <1>2 DEF CInv

\* Entries beyond the last one have no task.
LEMMA NewEntryIdle ==
  ASSUME TInv, NEW e \in Entry, ~(e <= last)
  PROVE  pc[e] = "none"
BY HeldTurn, NoTurnType DEF TInv, StreamInv, HeldHaveTurns

LEMMA ApiCancel ==
  ASSUME CInv, NEW t \in Turn, Api(t)
  PROVE  (FlagInv /\ CallbackInv /\ StopInv /\ NoSpuriousCancel)'
<1>0. /\ TInv /\ TypeApi /\ TypeQueue /\ StatusInv
      /\ FlagInv /\ CallbackInv /\ StopInv /\ NoSpuriousCancel
  BY DEF CInv, WInv, QInv, TInv, TypeOK
<1>1. /\ UNCHANGED <<pc, stopping, outcome, bound, inCallback, ackLost, wanted>>
      /\ \A e \in Entry : ent'[e] = ent[e] \/ pc[e] = "none"
  <2>1. UNCHANGED <<pc, stopping, outcome, bound, inCallback, ackLost, wanted>>
    BY ApiFrame DEF Api, SendCommit, SendClearCancel, SendEnqueue, SendDies,
       taskVars, clientVars, histVars
  <2>2. \A e \in Entry : ent'[e] = ent[e] \/ pc[e] = "none"
    <3>1. CASE SendEnqueue(t)
      BY <1>0, <3>1, NewEntryIdle
      DEF SendEnqueue, Append, TypeQueue, Entry
    <3>2. CASE ~SendEnqueue(t)
      BY <3>2 DEF Api, SendCommit, SendClearCancel, SendDies, queueVars
    <3> QED BY <3>1, <3>2
  <2> QED BY <2>1, <2>2
<1>2. CallbackInv' /\ StopInv'
  BY <1>0, <1>1 DEF CallbackInv, StopInv, PreFinal
<1>3. FlagInv'
  BY <1>0, <1>1, ConvOfType
  DEF Api, SendCommit, SendClearCancel, SendEnqueue, SendDies, FlagInv, StatusInv,
      TypeApi, Terminal, dbVars
<1>4. NoSpuriousCancel'
  BY <1>0, <1>1
  DEF Api, SendCommit, SendClearCancel, SendEnqueue, SendDies, NoSpuriousCancel,
      TypeApi, dbVars
<1> QED BY <1>2, <1>3, <1>4

LEMMA UserCancel ==
  ASSUME CInv, NEW c \in Conv, User(c)
  PROVE  (FlagInv /\ CallbackInv /\ StopInv /\ NoSpuriousCancel)'
<1>0. /\ TypeApi /\ StatusInv
      /\ FlagInv /\ CallbackInv /\ StopInv /\ NoSpuriousCancel
  BY DEF CInv, WInv, QInv, TInv, TypeOK
<1>1. /\ UNCHANGED <<api, msg, ent, pc, stopping, outcome, bound, inCallback>>
      /\ ackLost' = ackLost /\ wanted \subseteq wanted'
  BY UserFrame DEF User, PressCancel, CancelExpires, dbVars, queueVars, taskVars,
     clientVars, histVars
<1>2. FlagInv'
  <2>1. CASE PressCancel(c)
    <3>1. /\ \A t \in Turn : ConvOf[t] # c => cancelFlag'[ConvOf[t]] = cancelFlag[ConvOf[t]]
          /\ \A t \in Turn : ConvOf[t] = c /\ msg[t] = "streaming" => t \in wanted'
      BY <1>0, <2>1, ConvOfType DEF PressCancel, TypeApi
    <3>2. \A t \in Turn : api[t] \in {"cleared", "sent"} =>
                           msg[t] = "streaming" \/ msg[t] \in Terminal
      BY <1>0 DEF StatusInv, TypeApi
    <3> QED BY <1>0, <1>1, <3>1, <3>2 DEF FlagInv
  <2>2. CASE CancelExpires(c)
    BY <1>0, <1>1, <2>2, ConvOfType DEF CancelExpires, FlagInv, TypeApi
  <2> QED BY <2>1, <2>2 DEF User
<1> QED BY <1>0, <1>1, <1>2 DEF CallbackInv, StopInv, NoSpuriousCancel

LEMMA LoopCancel ==
  ASSUME CInv, Loop
  PROVE  (FlagInv /\ CallbackInv /\ StopInv /\ NoSpuriousCancel)'
<1>0. /\ TInv /\ TypeQueue /\ TypeTask /\ TypeClient /\ HeldHaveTurns /\ HoldInv
      /\ FlagInv /\ CallbackInv /\ StopInv /\ NoSpuriousCancel
  BY HeldTurn DEF CInv, WInv, QInv, TInv, TypeOK
<1>1. UNCHANGED <<api, msg, cancelFlag, wanted>> /\ ackLost \subseteq ackLost'
  <2>1. ackLost \subseteq ackLost'
    BY DEF Loop, ReadEntry, AckEntry, AckFails, SkipOnShutdown, ReclaimAck,
       ReclaimAdd, ReclaimLost, Signal, Crash, StopRunner, ProcessGone, Restart,
       histVars
  <2> QED BY <2>1, LoopFrame DEF dbVars
<1>2. FlagInv' /\ NoSpuriousCancel'
  BY <1>0, <1>1 DEF FlagInv, NoSpuriousCancel
<1>3. CallbackInv' /\ StopInv'
  <2>1. CASE AckEntry \/ AckFails
    <3>1. /\ fetched \in Entry /\ pc[fetched] = "none"
          /\ pc' = [pc EXCEPT ![fetched] = "queued"]
          /\ UNCHANGED <<ent, stopping, outcome, bound, inCallback>>
      BY <1>0, <2>1
      DEF AckEntry, AckFails, HoldInv, HeldHaveTurns, queueVars, clientVars
    <3>2. \A e \in Entry : e # fetched => pc'[e] = pc[e]
      BY <1>0, <3>1 DEF TypeTask
    <3>3. \A e \in Entry : pc[e] # "none" => pc'[e] # "none"
      BY <3>1, <3>2
    <3>4. CallbackInv'
      BY <1>0, <3>1, <3>3 DEF CallbackInv, TypeClient, Ref
    <3>5. StopInv'
      BY <1>0, <1>1, <3>1, <3>2 DEF StopInv, TypeTask
    <3> QED BY <3>4, <3>5
  <2>2. CASE Crash \/ StopRunner
    BY <2>2
    DEF Crash, StopRunner, ProcessGone, CallbackInv, StopInv, Unfinished, PreFinal
  <2>3. CASE ~(AckEntry \/ AckFails \/ Crash \/ StopRunner)
    <3>1. UNCHANGED <<pc, stopping, outcome, bound, inCallback>>
      BY <2>3
      DEF Loop, ReadEntry, SkipOnShutdown, ReclaimAck, ReclaimAdd, ReclaimLost,
          Signal, Restart, taskVars, clientVars
    <3>2. \A e \in Entry : ent'[e] = ent[e] \/ pc[e] = "none"
      <4>1. CASE ReclaimAdd
        BY <1>0, <4>1, NewEntryIdle DEF ReclaimAdd, Append, TypeQueue, Entry
      <4>2. CASE ~ReclaimAdd
        BY <2>3, <4>2
        DEF Loop, ReadEntry, SkipOnShutdown, ReclaimAck, ReclaimLost, Signal,
            Restart, queueVars
      <4> QED BY <4>1, <4>2
    <3> QED BY <1>0, <1>1, <3>1, <3>2 DEF CallbackInv, StopInv, PreFinal
  <2> QED BY <2>1, <2>2, <2>3
<1> QED BY <1>2, <1>3

LEMMA TaskCancel ==
  ASSUME CInv, NEW e \in Entry, Task(e)
  PROVE  (FlagInv /\ CallbackInv /\ StopInv /\ NoSpuriousCancel)'
<1>0. /\ TInv /\ TypeOK /\ TypeApi /\ TypeTask /\ TypeClient /\ HeldHaveTurns
      /\ SentInv /\ StatusInv /\ OpenInv /\ ClosedInv
      /\ FlagInv /\ CallbackInv /\ StopInv /\ NoSpuriousCancel
  BY HeldTurn DEF CInv, WInv, QInv, TInv, TypeOK
<1>1. /\ UNCHANGED <<api, ent, wanted, ackLost>>
      /\ \A f \in Entry : pc'[f] = "none" <=> pc[f] = "none"
  BY <1>0, TaskFrame DEF queueVars
<1>2. \A t \in Turn : msg[t] \in Terminal => msg'[t] \in Terminal
  BY <1>0, QuietTask
  DEF Loud, PromptReturns, Finalize, FailFinalize, PublishDone, Goto, ClosedInv,
      TypeApi, Terminal, dbVars
<1>3. FlagInv'
  <2>1. \A c \in Conv : cancelFlag'[c] => cancelFlag[c]
    BY <1>0
    DEF Task, Admit, NoAgent, PublishStart, GetReuse, GetSpawn, GetInstall, Update,
        UpdateFails, CheckCancel, PromptReturns, Raises,
        DropAfterError, DropRaises, GetRaises, Finalize,
        ClearCancel, FailFinalize, PublishError, PublishDone, Aborts, TypeApi
  <2> QED BY <1>0, <1>1, <1>2, <2>1, ConvOfType DEF FlagInv
<1>4. CallbackInv'
  <2>1. CASE GetReuse(e) \/ GetInstall(e)
    <3>1. /\ pc' = [pc EXCEPT ![e] = "prompting"] /\ inCallback' = inCallback
          /\ \E k \in Ref : bound' = [bound EXCEPT ![k] = e]
      BY <1>0, <2>1, ConvOfType
      DEF GetReuse, GetInstall, Goto, ConvAt, TypeClient, HeldHaveTurns, Ref
    <3>2. pc'[e] # "none"
      BY <1>0, <3>1 DEF TypeTask
    <3> QED BY <1>0, <1>1, <3>1, <3>2 DEF CallbackInv, TypeClient, Ref
  <2>2. CASE Update(e)
    <3>1. /\ UNCHANGED <<pc, bound>>
          /\ inCallback' = [inCallback EXCEPT ![using[e]] = bound[using[e]]]
      BY <2>2 DEF Update
    <3> QED BY <1>0, <3>1 DEF CallbackInv, TypeClient
  <2>3. CASE ~(GetReuse(e) \/ GetInstall(e) \/ Update(e))
    <3>1. /\ UNCHANGED bound
          /\ \A k \in Entry : inCallback'[k] \in {inCallback[k], NoEntry}
      BY <1>0, <2>3
      DEF Task, Admit, NoAgent, PublishStart, GetSpawn, UpdateFails, CheckCancel,
          PromptReturns, Raises,
          DropAfterError, DropRaises, GetRaises, DropClient, Finalize, ClearCancel,
          FailFinalize, PublishError, PublishDone, Aborts, TypeClient, clientVars
    <3> QED BY <1>0, <1>1, <3>1 DEF CallbackInv, TypeClient, Ref
  <2> QED BY <2>1, <2>2, <2>3
<1>5. StopInv'
  <2>1. CASE CheckCancel(e)
    <3> DEFINE r == inCallback[e]
    <3>1. /\ r \in Entry /\ pc[r] # "none" /\ ent[r] \in Turn
          /\ UNCHANGED <<pc, outcome>>
          /\ stopping' = [stopping EXCEPT ![r] = @ \/ cancelFlag[ConvAt(r)]]
      BY <1>0, <2>1 DEF CheckCancel, CallbackInv, TypeClient, Ref, HeldHaveTurns
    <3>2. cancelFlag[ConvAt(r)] /\ pc[r] \in PreFinal => ent[r] \in wanted \cup ackLost
      BY <1>0, <3>1
      DEF ConvAt, FlagInv, SentInv, OpenInv, Active, Terminal
    <3> HIDE DEF r
    <3> QED BY <1>0, <1>1, <3>1, <3>2 DEF StopInv, TypeTask
  <2>2. CASE PromptReturns(e)
    <3>1. /\ pc[e] \in PreFinal /\ UNCHANGED stopping
          /\ pc' = [pc EXCEPT ![e] = "returned"]
          /\ outcome' = [outcome EXCEPT ![e] = IF stopping[e] THEN "cancelled"
                                               ELSE "complete"]
      BY <2>2 DEF PromptReturns, Goto, PreFinal
    <3> QED BY <1>0, <1>1, <3>1 DEF StopInv, TypeTask
  <2>3. CASE ~(CheckCancel(e) \/ PromptReturns(e))
    <3>1. UNCHANGED stopping
      BY <2>3
      DEF Task, Admit, NoAgent, PublishStart, GetReuse, GetSpawn, GetInstall, Update,
          UpdateFails, Raises,
          DropAfterError, DropRaises, GetRaises, Finalize, ClearCancel, FailFinalize,
          PublishError, PublishDone, Aborts, taskVars
    <3>2. \A f \in Entry :
            /\ pc'[f] \in PreFinal => pc[f] \in PreFinal
            /\ pc'[f] = "returned" => pc[f] = "returned" /\ outcome'[f] = outcome[f]
      BY <1>0, <2>3, QuietTask
      DEF Loud, Finalize, FailFinalize, PublishDone, Goto, Return, PreFinal, TypeTask
    <3> QED BY <1>0, <1>1, <3>1, <3>2 DEF StopInv
  <2> QED BY <2>1, <2>2, <2>3
<1>6. NoSpuriousCancel'
  <2>1. CASE Finalize(e)
    <3>1. /\ pc[e] = "returned" /\ ent[e] \in Turn
          /\ msg' = [msg EXCEPT ![ent[e]] = outcome[e]]
      BY <1>0, <2>1 DEF Finalize, Goto, HeldHaveTurns
    <3> QED BY <1>0, <1>1, <3>1 DEF NoSpuriousCancel, StopInv, TypeApi
  <2>2. CASE FailFinalize(e)
    BY <1>0, <1>1, <2>2 DEF FailFinalize, NoSpuriousCancel, TypeApi
  <2>3. CASE ~(Finalize(e) \/ FailFinalize(e))
    <3>1. UNCHANGED msg
      BY <1>0, <2>3, QuietTask DEF Loud, PromptReturns, PublishDone, dbVars
    <3> QED BY <1>0, <1>1, <3>1 DEF NoSpuriousCancel
  <2> QED BY <2>1, <2>2, <2>3
<1> QED BY <1>3, <1>4, <1>5, <1>6

\* A turn ends as cancelled only if the user pressed cancel while that turn
\* was streaming, whatever flags other turns of the conversation left behind.
THEOREM NoSpuriousCancelHolds == Spec => []NoSpuriousCancel
<1>1. ASSUME CInv, [Next]_vars PROVE CInv'
  <2>1. WInv'
    BY <1>1, QInvStep, NextStatus, NextOpen, NextClosed DEF WInv, CInv
  <2>2. (FlagInv /\ CallbackInv /\ StopInv /\ NoSpuriousCancel)'
    <3>1. CASE UNCHANGED vars
      BY <1>1, <3>1 DEF CInv, FlagInv, CallbackInv, StopInv, NoSpuriousCancel, vars
    <3>2. CASE Next
      BY <1>1, <3>2, ApiCancel, UserCancel, LoopCancel, TaskCancel DEF Next
    <3> QED BY <1>1, <3>1, <3>2
  <2> QED BY <2>1, <2>2 DEF CInv
<1>2. CInv => NoSpuriousCancel
  BY DEF CInv
<1> QED BY <1>1, <1>2, InitCInv, PTL DEF Spec

(***************************************************************************)
(* Nothing leaks.  An entry leaves the places where an unfinished turn can *)
(* be only by closing its message, or through a recorded failure.          *)
(***************************************************************************)
Kept(e) == \/ delivered < e
           \/ e \in pel
           \/ e \in {fetched, reclaiming}
           \/ pc[e] \in PreFinal

LEMMA ApiLeak ==
  ASSUME WInv, NothingLeaks, NEW t \in Turn, Api(t) PROVE NothingLeaks'
<1>0. /\ TypeApi /\ TypeQueue /\ TInv /\ StatusInv /\ NothingLeaks
  BY DEF WInv, QInv, TInv, TypeOK
<1>1. UNCHANGED <<delivered, pel, fetched, reclaiming, pc>>
  BY ApiFrame DEF loopVars, taskVars
<1>2. CASE SendEnqueue(t)
  <2>1. /\ last + 1 \in Entry /\ delivered < last + 1
        /\ ent' = [ent EXCEPT ![last + 1] = t]
        /\ api' = [api EXCEPT ![t] = "sent"]
        /\ UNCHANGED <<msg, cut>>
    BY <1>0, <1>2, BoundsType
    DEF SendEnqueue, Append, TypeQueue, Entry, dbVars, histVars
  <2>2. ent[last + 1] \notin Turn
    BY <1>0, <2>1 DEF TInv, StreamInv, TypeQueue
  <2>3. ent'[last + 1] = t
    BY <1>0, <2>1 DEF TypeQueue
  <2>4. \A e \in Entry : ent[e] \in Turn => ent'[e] = ent[e]
    BY <1>0, <2>1, <2>2 DEF TypeQueue
  <2>5. \A u \in Turn : u # t => api'[u] = api[u]
    BY <2>1
  <2> QED BY <1>0, <1>1, <2>1, <2>3, <2>4, <2>5 DEF NothingLeaks
<1>3. CASE ~SendEnqueue(t)
  <2>1. UNCHANGED ent /\ cut \subseteq cut'
    BY <1>3 DEF Api, SendCommit, SendClearCancel, SendDies, queueVars, histVars
  <2>2. \A u \in Turn : api'[u] = "sent" => api[u] = "sent" /\ msg'[u] = msg[u]
    BY <1>0, <1>3
    DEF Api, SendCommit, SendClearCancel, SendDies, TypeApi, dbVars
  <2> QED BY <1>0, <1>1, <2>1, <2>2 DEF NothingLeaks
<1> QED BY <1>2, <1>3

LEMMA LoopLeak == ASSUME WInv, NothingLeaks, Loop PROVE NothingLeaks'
<1>0. /\ TypeQueue /\ TypeLoop /\ TypeTask /\ TInv /\ HoldInv /\ HeldHaveTurns
      /\ NothingLeaks
  BY HeldTurn DEF WInv, QInv, TInv, TypeOK
<1>1. UNCHANGED <<api, msg>>
  BY LoopFrame DEF dbVars
<1>2. CASE ReclaimAdd
  <2>1. /\ reclaiming # NoEntry /\ Append(ent[reclaiming])
        /\ UNCHANGED <<delivered, pel, fetched, pc, cut>>
    BY <1>2 DEF ReclaimAdd, taskVars, histVars
  <2>2. /\ last + 1 \in Entry /\ delivered < last + 1
        /\ ent' = [ent EXCEPT ![last + 1] = ent[reclaiming]]
    BY <1>0, <2>1, BoundsType DEF Append, TypeQueue, Entry
  <2>3. ent'[last + 1] = ent[reclaiming] /\ ent[last + 1] \notin Turn
    BY <1>0, <2>1, <2>2 DEF TInv, StreamInv, TypeQueue
  <2>4. \A e \in Entry : ent[e] \in Turn => ent'[e] = ent[e]
    BY <1>0, <2>2, <2>3 DEF TypeQueue
  <2> QED BY <1>0, <1>1, <2>1, <2>2, <2>3, <2>4 DEF NothingLeaks
<1>3. CASE ~ReclaimAdd
  <2>1. UNCHANGED ent /\ cut \subseteq cut'
    BY <1>3
    DEF Loop, ReadEntry, AckEntry, AckFails, SkipOnShutdown, ReclaimAck,
        ReclaimLost, Signal, Crash, StopRunner, ProcessGone, Restart, queueVars,
        histVars
  <2>2. \A e \in Entry : Kept(e) => Kept(e)' \/ ent[e] \in cut'
    <3>1. CASE ReadEntry
      BY <1>0, <3>1, BoundsType
      DEF ReadEntry, Kept, TypeQueue, Entry, NoEntry, taskVars
    <3>2. CASE AckEntry \/ AckFails
      BY <1>0, <3>2
      DEF AckEntry, AckFails, Kept, PreFinal, TypeTask, HeldHaveTurns, queueVars
    <3>3. CASE SkipOnShutdown
      BY <1>0, <3>3 DEF SkipOnShutdown, Kept, HoldInv, queueVars, taskVars, Entry, NoEntry
    <3>4. CASE ReclaimLost
      BY <3>4 DEF ReclaimLost, Kept, queueVars, taskVars
    <3>5. ASSUME NEW g \in Entry, ReclaimAck(g)
          PROVE  \A e \in Entry : Kept(e) => Kept(e)' \/ ent[e] \in cut'
      BY <3>5 DEF ReclaimAck, Kept, taskVars, Entry, NoEntry
    <3>6. CASE Crash \/ StopRunner
      BY <1>0, <3>6
      DEF Crash, StopRunner, ProcessGone, Kept, HoldInv, Unfinished, queueVars, Entry,
          NoEntry
    <3>7. CASE Signal \/ Restart
      BY <3>7 DEF Signal, Restart, Kept, queueVars, taskVars
    <3> QED BY <1>3, <3>1, <3>2, <3>3, <3>4, <3>5, <3>6, <3>7 DEF Loop
  <2> QED BY <1>0, <1>1, <2>1, <2>2 DEF NothingLeaks, Kept
<1> QED BY <1>2, <1>3

LEMMA TaskLeak ==
  ASSUME WInv, NothingLeaks, NEW e \in Entry, Task(e) PROVE NothingLeaks'
<1>0. /\ TypeOK /\ TypeApi /\ TypeTask /\ HeldHaveTurns /\ ClosedInv /\ NothingLeaks
  BY HeldTurn DEF WInv, QInv, TInv, TypeOK
<1>1. UNCHANGED <<api, ent, delivered, pel, fetched, reclaiming>>
  BY <1>0, TaskFrame DEF queueVars, loopVars
<1>2. cut \subseteq cut'
  BY DEF Task, Admit, NoAgent, PublishStart, GetReuse, GetSpawn, GetInstall, Update,
     UpdateFails, CheckCancel, PromptReturns, Raises,
     DropAfterError, DropRaises, GetRaises, Finalize,
     ClearCancel, FailFinalize, PublishError, PublishDone, Aborts, histVars
<1>3. \A t \in Turn : msg'[t] = "streaming" => msg[t] = "streaming"
  BY <1>0, QuietTask
  DEF Loud, PromptReturns, Finalize, FailFinalize, PublishDone, Goto, ClosedInv,
      TypeApi, dbVars
<1>4. \A f \in Entry : pc[f] \in PreFinal =>
        \/ pc'[f] \in PreFinal
        \/ ent[f] \in cut'
        \/ msg'[ent[f]] # "streaming"
  BY <1>0
  DEF Task, Admit, NoAgent, PublishStart, GetReuse, GetSpawn, GetInstall, Update,
      UpdateFails, CheckCancel, PromptReturns, Raises,
      DropAfterError, DropRaises, GetRaises, Finalize,
      ClearCancel, FailFinalize, PublishError, PublishDone, Aborts, Goto, Return,
      PreFinal, PostFinal, TypeTask, TypeApi, ClosedInv, HeldHaveTurns, taskVars
<1> QED BY <1>0, <1>1, <1>2, <1>3, <1>4 DEF NothingLeaks

\* A turn that was sent and is still streaming can always be found: in the
\* stream, in the pending list, in the loop's hands or with a task -- or a
\* failure that cut it short is on record.
THEOREM NothingLeaksHolds == Spec => []NothingLeaks
<1>1. Init => NothingLeaks
  BY DEF Init, NothingLeaks
<1>2. ASSUME WInv, NothingLeaks, [Next]_vars PROVE NothingLeaks'
  <2>1. ASSUME NEW c \in Conv, User(c) PROVE NothingLeaks'
    <3>1. UNCHANGED <<api, msg, ent, delivered, pel, fetched, reclaiming, pc, cut>>
      BY <2>1, UserFrame
      DEF User, PressCancel, CancelExpires, dbVars, queueVars, loopVars, taskVars,
          histVars
    <3> QED BY <1>2, <3>1 DEF NothingLeaks
  <2>2. CASE UNCHANGED vars
    BY <1>2, <2>2 DEF NothingLeaks, vars
  <2> QED BY <1>2, <2>1, <2>2, ApiLeak, LoopLeak, TaskLeak DEF Next
<1> QED BY <1>1, <1>2, WInvInvariant, PTL DEF Spec

(***************************************************************************)
(* What is stored is what was streamed, when a conversation gets its turns *)
(* one after the other: no second turn is opened while one streams, or the *)
(* runner has one slot.  Then at most one task of a conversation works,    *)
(* its client is bound to it, and its text and the token events of its     *)
(* message are counted up together.                                        *)
(***************************************************************************)
OneAtATime == ~Overlap \/ MaxConcurrent = 1

Working == Unfinished \ {"queued"}

SerialInv ==
  /\ ~Overlap => \A t, u \in Turn : /\ ConvOf[t] = ConvOf[u]
                                    /\ msg[t] = "streaming" /\ msg[u] = "streaming"
                                    => t = u
  /\ MaxConcurrent = 1 => \A e, f \in Entry : pc[e] \in Working /\ pc[f] \in Working => e = f

\* The control points before the prompt is sent.
Before == {"none", "queued", "admitted", "started", "spawning"}

\* A client works for one conversation: that of the entry that spawned it.
ClientInv ==
  /\ \A c \in Conv : pool[c] # NoEntry => pc[pool[c]] # "none" /\ ConvAt(pool[c]) = c
  /\ \A e \in Entry : pc[e] = "prompting" =>
       /\ using[e] \in Entry /\ pc[using[e]] # "none" /\ ConvAt(using[e]) = ConvAt(e)
       /\ bound[using[e]] \in Entry
  /\ \A k \in Entry : bound[k] # NoEntry =>
       pc[k] # "none" /\ pc[bound[k]] \notin Before /\ ConvAt(bound[k]) = ConvAt(k)

\* The turn of an entry, when no turn of its conversation is in doubt.
Sure(e) == ent[e] \in Turn /\ Undoubted(ent[e])

BoundInv ==
  \A e \in Entry : pc[e] = "prompting" /\ Sure(e) => bound[using[e]] = e

CountInv ==
  /\ \A t \in Turn : api[t] # "sent" => tokens[t] = 0
  /\ \A e \in Entry : pc[e] \in Before => text[e] = 0
  /\ \A e \in Entry : pc[e] \in Before /\ Active(e) /\ Sure(e) => tokens[ent[e]] = 0
  /\ \A e \in Entry : /\ pc[e] = "returned" \/ (pc[e] = "prompting" /\ live[using[e]])
                      /\ Sure(e)
                      => text[e] = tokens[ent[e]]

SInv == WInv /\ SerialInv /\ ClientInv /\ BoundInv /\ CountInv /\ SavedIsStreamed

LEMMA InitSInv == Init => SInv
<1>1. Init => WInv
  BY InitWInv
<1>2. Init => SerialInv /\ ClientInv /\ BoundInv /\ CountInv /\ SavedIsStreamed
  BY NoTurnType
  DEF Init, SerialInv, Working, Unfinished, PreFinal, PostFinal, ClientInv, BoundInv,
      CountInv, Before, Sure, SavedIsStreamed
<1> QED BY <1>1, <1>2 DEF SInv

\* Of two tasks at work for one conversation one has a turn in doubt.
LEMMA OneWorks ==
  ASSUME WInv, SerialInv, OneAtATime, NEW e \in Entry, NEW f \in Entry,
         pc[e] \in PreFinal \ {"queued"}, pc[f] \in PreFinal \ {"queued"},
         ConvAt(e) = ConvAt(f), Sure(e)
  PROVE  e = f
<1>1. CASE MaxConcurrent = 1
  BY <1>1 DEF SerialInv, Working, Unfinished
<1>2. CASE ~Overlap
  <2>1. /\ ent[e] \in Turn /\ ent[f] \in Turn
        /\ ent[e] \notin ackLost /\ ent[f] \notin ackLost
    BY HeldTurn, PCFacts DEF WInv, QInv, HeldHaveTurns, Sure, Undoubted, ConvAt
  <2>2. Active(e) /\ Active(f)
    BY DEF Active
  <2>3. msg[ent[e]] = "streaming" /\ msg[ent[f]] = "streaming"
    BY <2>1, <2>2 DEF WInv, OpenInv
  <2>4. ent[e] = ent[f]
    BY <1>2, <2>1, <2>3 DEF SerialInv, ConvAt
  <2> QED BY <2>1, <2>2, <2>4, OnlyActive DEF WInv
<1> QED BY <1>1, <1>2 DEF OneAtATime

\* A turn in doubt stays so.
LEMMA StaysSure ==
  ASSUME ackLost \subseteq ackLost', NEW e \in Entry, ent'[e] = ent[e], Sure(e)'
  PROVE  Sure(e)
BY DEF Sure, Undoubted

\* No step but a send makes a message streaming, and only Admit lets a task in.
LEMMA NextSerial ==
  ASSUME WInv, SerialInv, [Next]_vars
  PROVE  SerialInv'
<1>0. /\ TypeOK /\ TypeApi /\ TypeTask /\ ClosedInv /\ SerialInv /\ HeldHaveTurns
  BY HeldTurn DEF WInv, QInv, TInv, TypeOK
<1>1. ASSUME NEW t \in Turn, Api(t) PROVE SerialInv'
  <2>1. pc' = pc
    BY <1>1, ApiFrame DEF taskVars
  <2>2. CASE SendCommit(t)
    <3>1. msg' = [msg EXCEPT ![t] = "streaming"]
      BY <2>2 DEF SendCommit
    <3>2. ~Overlap => \A u \in Turn : ConvOf[u] = ConvOf[t] => msg[u] # "streaming"
      BY <2>2 DEF SendCommit
    <3>3. \A u \in Turn : msg'[u] = "streaming" => u = t \/ msg[u] = "streaming"
      BY <1>0, <3>1 DEF TypeApi
    <3> QED BY <1>0, <2>1, <3>2, <3>3 DEF SerialInv
  <2>3. CASE ~SendCommit(t)
    <3>1. msg' = msg
      BY <1>1, <2>3 DEF Api, SendClearCancel, SendEnqueue, SendDies, dbVars
    <3> QED BY <1>0, <2>1, <3>1 DEF SerialInv
  <2> QED BY <2>2, <2>3
<1>2. ASSUME NEW c \in Conv, User(c) PROVE SerialInv'
  BY <1>0, <1>2, UserFrame DEF SerialInv, dbVars, taskVars
<1>3. CASE Loop
  <2>1. msg' = msg
    BY <1>3, LoopFrame DEF dbVars
  <2>2. \A e \in Entry : pc'[e] \in Working => pc[e] \in Working
    BY <1>0, <1>3
    DEF Loop, ReadEntry, AckEntry, AckFails, SkipOnShutdown, ReclaimAck, ReclaimAdd,
        ReclaimLost, Signal, Crash, StopRunner, ProcessGone, Restart, taskVars,
        Working, Unfinished, PreFinal, PostFinal, TypeTask
  <2> QED BY <1>0, <2>1, <2>2 DEF SerialInv
<1>4. ASSUME NEW e \in Entry, Task(e) PROVE SerialInv'
  <2>1. \A t \in Turn : msg'[t] = "streaming" => msg[t] = "streaming"
    <3>1. CASE Finalize(e) \/ FailFinalize(e)
      <4>1. \E s \in {"complete", "cancelled", "error"} : msg' = [msg EXCEPT ![ent[e]] = s]
        BY <1>0, <3>1 DEF Finalize, FailFinalize, Goto, ClosedInv
      <4> QED BY <1>0, <4>1 DEF TypeApi
    <3>2. CASE ~(Finalize(e) \/ FailFinalize(e))
      BY <1>0, <1>4, <3>2, QuietTask DEF Loud, PromptReturns, PublishDone, dbVars
    <3> QED BY <3>1, <3>2
  <2>2. CASE Admit(e)
    <3>1. /\ \A f \in Entry : f # e => pc'[f] = pc[f]
          /\ Cardinality({f \in Entry : pc[f] \in Working}) < MaxConcurrent
      BY <1>0, <2>2 DEF Admit, Goto, TypeTask, Working
    <3>2. MaxConcurrent = 1 => \A f \in Entry : pc[f] \notin Working
      <4> SUFFICES ASSUME MaxConcurrent = 1 PROVE \A f \in Entry : pc[f] \notin Working
        OBVIOUS
      <4> DEFINE W == {f \in Entry : pc[f] \in Working}
      <4>1. IsFiniteSet(1..MaxEntries)
        BY FS_Interval, BoundsType
      <4>2. IsFiniteSet(W)
        BY <4>1, FS_Subset DEF Entry
      <4>3. Cardinality(W) \in Nat /\ (Cardinality(W) = 0 <=> W = {})
        BY <4>2, FS_CardinalityType, FS_EmptySet
      <4>4. Cardinality(W) < 1
        BY <3>1
      <4>5. W = {}
        BY <4>3, <4>4
      <4> QED BY <4>5
    <3> QED BY <1>0, <2>1, <3>1, <3>2 DEF SerialInv
  <2>3. CASE ~Admit(e)
    <3>1. \A f \in Entry : pc'[f] \in Working => pc[f] \in Working
      <4>1. \/ pc' = pc
            \/ \E to \in PCs : pc' = [pc EXCEPT ![e] = to] /\ (to \in Working => pc[e] \in Working)
        BY <1>0, <1>4, <2>3
        DEF Task, NoAgent, PublishStart, GetReuse, GetSpawn, GetRaises, GetInstall,
            Update, UpdateFails, CheckCancel, PromptReturns, Raises, DropAfterError,
            DropRaises, Finalize, ClearCancel, FailFinalize, PublishError, PublishDone,
            Aborts, Goto, Return, Working, PCs, Unfinished, PreFinal, PostFinal
      <4> QED BY <1>0, <4>1 DEF TypeTask
    <3> QED BY <1>0, <2>1, <3>1 DEF SerialInv
  <2> QED BY <2>2, <2>3
<1>5. CASE UNCHANGED vars
  BY <1>0, <1>5 DEF SerialInv, vars
<1> QED BY <1>1, <1>2, <1>3, <1>4, <1>5 DEF Next

\* Outside the tasks: an entry gets a task, or nothing happens to tasks and
\* clients.
Quiet ==
  /\ ackLost \subseteq ackLost'
  /\ UNCHANGED <<saved, tokens, text, pool, using, live, bound>>
  /\ \A e \in Entry : pc[e] # "none" => ent'[e] = ent[e]
  /\ \A e \in Entry : pc'[e] = pc[e] \/ (pc[e] = "none" /\ pc'[e] = "queued")

\* The process is gone.
Gone ==
  /\ UNCHANGED <<saved, tokens, ent, ackLost>>
  /\ text' = [e \in Entry |-> 0]
  /\ pool' = [c \in Conv |-> NoEntry]
  /\ bound' = [e \in Entry |-> NoEntry]
  /\ \A e \in Entry : pc'[e] \in {"none", "ended", "dead"} /\ (pc'[e] = "none" => pc[e] = "none")

\* Who may still handle a message was active before, or the message is new.
Begins ==
  \A e \in Entry : pc'[e] \in Before /\ Active(e)' /\ ent'[e] \in Turn \ ackLost' =>
    \/ \E g \in Entry : pc[g] \in Before /\ Active(g) /\ ent[g] = ent'[e]
    \/ api[ent'[e]] # "sent"

LEMMA OutsideKeeps ==
  ASSUME TypeOK, ClientInv, BoundInv, CountInv, Quiet \/ Gone, Begins,
         \A t \in Turn : api'[t] # "sent" => api[t] # "sent"
  PROVE  (ClientInv /\ BoundInv /\ CountInv)'
<1>0. /\ TypeTask /\ TypeClient /\ TypeEvent
  BY DEF TypeOK
<1>1. \A t \in Turn : Undoubted(t)' => Undoubted(t) /\ t \notin ackLost'
  BY DEF Quiet, Gone, Undoubted
<1>2. \A e \in Entry : pc[e] # "none" => ConvAt(e)' = ConvAt(e) /\ (Sure(e)' => Sure(e))
  BY <1>1 DEF Quiet, Gone, ConvAt, Sure
<1>3. \A e \in Entry : pc'[e] \in Before /\ Active(e)' /\ Sure(e)' => tokens'[ent'[e]] = 0
  <2> SUFFICES ASSUME NEW e \in Entry, pc'[e] \in Before, Active(e)', Sure(e)'
               PROVE  tokens'[ent'[e]] = 0
    OBVIOUS
  <2>1. /\ ent'[e] \in Turn \ ackLost' /\ Undoubted(ent'[e]) /\ tokens' = tokens
    BY <1>1 DEF Sure, Quiet, Gone
  <2>2. CASE api[ent'[e]] # "sent"
    BY <2>1, <2>2 DEF CountInv
  <2>3. ASSUME NEW g \in Entry, pc[g] \in Before, Active(g), ent[g] = ent'[e]
        PROVE  tokens'[ent'[e]] = 0
    <3>1. Sure(g)
      BY <2>1, <2>3 DEF Sure
    <3> QED BY <2>1, <2>3, <3>1 DEF CountInv
  <2> QED BY <2>1, <2>2, <2>3 DEF Begins
<1>4. \A t \in Turn : api'[t] # "sent" => tokens'[t] = 0
  BY DEF CountInv, Quiet, Gone
<1>5. CASE Quiet
  <2>1. ClientInv'
    <3>1. \A c \in Conv : pool'[c] # NoEntry => pc'[pool'[c]] # "none" /\ (ConvAt(pool[c]) = c)'
      BY <1>0, <1>2, <1>5 DEF Quiet, ClientInv, TypeClient, Ref, ConvAt
    <3>2. \A e \in Entry : pc'[e] = "prompting" =>
            /\ using'[e] \in Entry /\ pc'[using'[e]] # "none" /\ (ConvAt(using[e]) = ConvAt(e))'
            /\ bound'[using'[e]] \in Entry
      BY <1>0, <1>2, <1>5 DEF Quiet, ClientInv, ConvAt
    <3>3. \A k \in Entry : bound'[k] # NoEntry =>
            pc'[k] # "none" /\ pc'[bound'[k]] \notin Before /\ (ConvAt(bound[k]) = ConvAt(k))'
      BY <1>0, <1>2, <1>5 DEF Quiet, ClientInv, ConvAt, TypeClient, Ref, Before
    <3> QED BY <3>1, <3>2, <3>3 DEF ClientInv
  <2>2. BoundInv'
    BY <1>2, <1>5 DEF Quiet, BoundInv
  <2>3. \A e \in Entry : pc'[e] \in Before => text'[e] = 0
    BY <1>5 DEF Quiet, CountInv, Before
  <2>4. \A e \in Entry : /\ pc'[e] = "returned" \/ (pc'[e] = "prompting" /\ live'[using'[e]])
                         /\ Sure(e)'
                         => text'[e] = tokens'[ent'[e]]
    BY <1>2, <1>5 DEF Quiet, CountInv
  <2> QED BY <1>3, <1>4, <2>1, <2>2, <2>3, <2>4 DEF CountInv
<1>6. CASE Gone
  BY <1>3, <1>4, <1>6 DEF Gone, ClientInv, BoundInv, CountInv
<1> QED BY <1>5, <1>6

LEMMA ApiSaves ==
  ASSUME SInv, NEW t \in Turn, Api(t)
  PROVE  (ClientInv /\ BoundInv /\ CountInv /\ SavedIsStreamed)'
<1>0. /\ TInv /\ TypeOK /\ TypeApi /\ TypeQueue /\ StatusInv
      /\ ClientInv /\ BoundInv /\ CountInv /\ SavedIsStreamed
  BY DEF SInv, WInv, QInv, TInv, TypeOK
<1>1. UNCHANGED <<saved, tokens, text, pool, using, live, bound, pc, ackLost, delivered, pel,
                  reclaiming>>
  BY ApiFrame DEF taskVars, clientVars, eventVars, loopVars
<1>2. \A e \in Entry : ent'[e] = ent[e] \/ (pc[e] = "none" /\ ent'[e] = t /\ api[t] # "sent")
  <2>1. CASE SendEnqueue(t)
    BY <1>0, <2>1, NewEntryIdle DEF SendEnqueue, Append, TypeQueue, Entry
  <2>2. CASE ~SendEnqueue(t)
    BY <2>2 DEF Api, SendCommit, SendClearCancel, SendDies, queueVars
  <2> QED BY <2>1, <2>2
<1>3. Quiet
  BY <1>1, <1>2 DEF Quiet
<1>4. Begins
  BY <1>1, <1>2 DEF Begins, Active, Spent
<1>5. \A u \in Turn : api'[u] # "sent" => api[u] # "sent"
  BY <1>0 DEF Api, SendCommit, SendClearCancel, SendEnqueue, SendDies, TypeApi
<1>6. \A u \in Turn : msg'[u] = msg[u] \/ msg'[u] = "streaming"
  BY <1>0 DEF Api, SendCommit, SendClearCancel, SendEnqueue, SendDies, TypeApi, dbVars
<1>7. SavedIsStreamed'
  BY <1>0, <1>1, <1>6 DEF SavedIsStreamed, Undoubted
<1> QED BY <1>0, <1>3, <1>4, <1>5, <1>7, OutsideKeeps

LEMMA UserSaves ==
  ASSUME SInv, NEW c \in Conv, User(c)
  PROVE  (ClientInv /\ BoundInv /\ CountInv /\ SavedIsStreamed)'
<1>0. TypeOK /\ ClientInv /\ BoundInv /\ CountInv /\ SavedIsStreamed
  BY DEF SInv, WInv, QInv, TInv
<1>1. UNCHANGED <<api, msg, saved, tokens, text, pool, using, live, bound, pc, ent, ackLost,
                  delivered, pel, reclaiming>>
  BY UserFrame DEF dbVars, queueVars, taskVars, clientVars, eventVars, loopVars
<1>2. Quiet /\ Begins
  BY <1>1 DEF Quiet, Begins, Active, Spent
<1>3. SavedIsStreamed'
  BY <1>0, <1>1 DEF SavedIsStreamed, Undoubted
<1> QED BY <1>0, <1>1, <1>2, <1>3, OutsideKeeps

\* An entry that the reclaim adds takes the place of the one it acknowledged.
LEMMA LoopBegins == ASSUME WInv, Loop PROVE Begins
<1>0. /\ TypeOK /\ TypeQueue /\ TypeLoop /\ TypeTask /\ StreamInv /\ HoldInv /\ HeldHaveTurns
  BY HeldTurn DEF WInv, QInv, TInv, TypeOK
<1>1. CASE ReclaimAdd
  <2>1. /\ reclaiming \in Entry /\ ent[reclaiming] \in Turn /\ reclaiming' = NoEntry
        /\ Append(ent[reclaiming])
        /\ UNCHANGED <<delivered, pel, pc, ackLost>>
    BY <1>0, <1>1 DEF ReclaimAdd, taskVars, histVars, HeldHaveTurns
  <2>2. \A e \in Entry : ent'[e] = ent[reclaiming] \/ ent'[e] = ent[e]
    BY <1>0, <2>1 DEF Append, TypeQueue
  <2>3. \A e \in Entry : Active(e)' => Active(e)
    BY <2>1 DEF Active, Spent, Entry, NoEntry
  <2>4. ent[reclaiming] \notin ackLost => pc[reclaiming] = "none" /\ Active(reclaiming)
    BY <1>0, <1>1 DEF ReclaimAdd, HoldInv, Active, Spent
  <2> QED BY <2>1, <2>2, <2>3, <2>4 DEF Begins, Before
<1>2. CASE ~ReclaimAdd
  <2>1. ent' = ent /\ ackLost \subseteq ackLost'
    BY <1>2
    DEF Loop, ReadEntry, AckEntry, AckFails, SkipOnShutdown, ReclaimAck, ReclaimLost,
        Signal, Crash, StopRunner, ProcessGone, Restart, queueVars, histVars
  <2>2. \A e \in Entry : pc'[e] \in Before /\ Active(e)' => pc[e] \in Before /\ Active(e)
    <3>1. CASE ReadEntry
      BY <1>0, <3>1 DEF ReadEntry, Active, Spent, StreamInv, Entry, TypeQueue, taskVars
    <3>2. CASE AckEntry \/ AckFails
      <4>1. /\ fetched \in Entry /\ fetched \in pel /\ pc[fetched] = "none"
            /\ pc' = [pc EXCEPT ![fetched] = "queued"]
            /\ UNCHANGED <<delivered, reclaiming>>
            /\ pel' = pel \ {fetched} \/ pel' = pel
        BY <1>0, <3>2 DEF AckEntry, AckFails, HoldInv, HeldHaveTurns, queueVars
      <4>2. pc[fetched] \in Before /\ Active(fetched)
        BY <4>1 DEF Active, Spent, Before
      <4>3. \A e \in Entry : e # fetched => pc'[e] = pc[e] /\ (Spent(e) => Spent(e)')
        BY <1>0, <4>1 DEF TypeTask, Spent
      <4> QED BY <4>2, <4>3 DEF Active
    <3>3. CASE SkipOnShutdown \/ ReclaimLost \/ Signal \/ Restart
      <4>1. /\ UNCHANGED <<delivered, pel, pc>> /\ reclaiming' \in {reclaiming, NoEntry}
        BY <3>3
        DEF SkipOnShutdown, ReclaimLost, Signal, Restart, queueVars, taskVars
      <4> QED BY <4>1 DEF Active, Spent, Entry, NoEntry
    <3>4. ASSUME NEW g \in Entry, ReclaimAck(g)
          PROVE  \A e \in Entry : pc'[e] \in Before /\ Active(e)' => pc[e] \in Before /\ Active(e)
      BY <3>4 DEF ReclaimAck, Active, Spent, taskVars
    <3>5. CASE Crash \/ StopRunner
      <4>1. /\ UNCHANGED <<delivered, pel>> /\ reclaiming' = NoEntry
            /\ pc' = [e \in Entry |-> IF pc[e] \in Unfinished THEN "dead" ELSE pc[e]]
        BY <3>5 DEF Crash, StopRunner, ProcessGone, queueVars
      <4>2. \A e \in Entry : pc'[e] \notin PreFinal /\ (pc'[e] = "none" => pc[e] = "none")
        BY <4>1, PCFacts DEF PreFinal
      <4> QED BY <4>1, <4>2 DEF Active, Spent, Entry, NoEntry, Before
    <3> QED BY <1>2, <3>1, <3>2, <3>3, <3>4, <3>5 DEF Loop
  <2> QED BY <2>1, <2>2 DEF Begins
<1> QED BY <1>1, <1>2

LEMMA LoopSaves ==
  ASSUME SInv, Loop
  PROVE  (ClientInv /\ BoundInv /\ CountInv /\ SavedIsStreamed)'
<1>0. /\ WInv /\ TInv /\ TypeOK /\ TypeQueue /\ TypeTask /\ HoldInv /\ HeldHaveTurns
      /\ ClientInv /\ BoundInv /\ CountInv /\ SavedIsStreamed
  BY HeldTurn DEF SInv, WInv, QInv, TInv, TypeOK
<1>1. UNCHANGED <<api, msg, saved, tokens>>
  BY LoopFrame DEF dbVars, eventVars
<1>2. ackLost \subseteq ackLost'
  BY DEF Loop, ReadEntry, AckEntry, AckFails, SkipOnShutdown, ReclaimAck, ReclaimAdd,
     ReclaimLost, Signal, Crash, StopRunner, ProcessGone, Restart, histVars
<1>3. CASE Crash \/ StopRunner
  <2>1. Gone
    <3>1. /\ UNCHANGED <<ent, ackLost>>
          /\ pc' = [e \in Entry |-> IF pc[e] \in Unfinished THEN "dead" ELSE pc[e]]
          /\ text' = [e \in Entry |-> 0]
          /\ pool' = [c \in Conv |-> NoEntry] /\ bound' = [e \in Entry |-> NoEntry]
      BY <1>3 DEF Crash, StopRunner, ProcessGone, queueVars
    <3>2. \A e \in Entry : pc[e] \in {"none", "ended", "dead"} \cup Unfinished
      BY <1>0 DEF TypeTask, PCs
    <3>3. \A e \in Entry :
            pc'[e] \in {"none", "ended", "dead"} /\ (pc'[e] = "none" => pc[e] = "none")
      BY <3>1, <3>2
    <3> QED BY <1>1, <3>1, <3>3 DEF Gone
  <2> QED BY <1>0, <1>1, <1>2, <2>1, LoopBegins, OutsideKeeps DEF SavedIsStreamed, Undoubted
<1>4. CASE ~(Crash \/ StopRunner)
  <2>1. UNCHANGED <<text, pool, using, live, bound>>
    BY <1>4
    DEF Loop, ReadEntry, AckEntry, AckFails, SkipOnShutdown, ReclaimAck, ReclaimAdd,
        ReclaimLost, Signal, Restart, taskVars, clientVars
  <2>2. \A e \in Entry : pc'[e] = pc[e] \/ (pc[e] = "none" /\ pc'[e] = "queued")
    BY <1>0, <1>4
    DEF Loop, ReadEntry, AckEntry, AckFails, SkipOnShutdown, ReclaimAck, ReclaimAdd,
        ReclaimLost, Signal, Restart, taskVars, HoldInv, TypeTask
  <2>3. \A e \in Entry : pc[e] # "none" => ent'[e] = ent[e]
    <3>1. CASE ReclaimAdd
      BY <1>0, <3>1, NewEntryIdle DEF ReclaimAdd, Append, TypeQueue, Entry
    <3>2. CASE ~ReclaimAdd
      BY <1>4, <3>2
      DEF Loop, ReadEntry, AckEntry, AckFails, SkipOnShutdown, ReclaimAck, ReclaimLost,
          Signal, Restart, queueVars
    <3> QED BY <3>1, <3>2
  <2>4. Quiet
    BY <1>1, <1>2, <2>1, <2>2, <2>3 DEF Quiet
  <2> QED BY <1>0, <1>1, <1>2, <2>4, LoopBegins, OutsideKeeps DEF SavedIsStreamed, Undoubted
<1> QED BY <1>3, <1>4

\* The steps of a task that neither prompt, count nor return.
Calm(e) ==
  /\ UNCHANGED <<ent, ackLost, tokens, text, bound>>
  /\ \A k \in Entry : live'[k] => live[k]
  /\ \A c \in Conv : pool'[c] \in {pool[c], NoEntry}
  /\ \A f \in Entry : f # e => using'[f] = using[f] /\ pc'[f] = pc[f]
  /\ \/ pc'[e] = pc[e] /\ using'[e] = using[e]
     \/ /\ pc[e] # "none" /\ pc'[e] \notin {"prompting", "returned", "none"}
        /\ pc'[e] \in Before => pc[e] \in Before

LEMMA CalmKeeps ==
  ASSUME TypeOK, NEW e \in Entry, Calm(e), ClientInv, BoundInv, CountInv,
         UNCHANGED <<api, delivered, pel, reclaiming>>
  PROVE  (ClientInv /\ BoundInv /\ CountInv)'
<1>0. /\ TypeTask /\ TypeClient
  BY DEF TypeOK
<1>1. \A f \in Entry : ConvAt(f)' = ConvAt(f) /\ (Sure(f)' <=> Sure(f))
  BY DEF Calm, ConvAt, Sure, Undoubted
<1>2. \A f \in Entry : /\ pc'[f] = "none" <=> pc[f] = "none"
                       /\ pc'[f] \in Before => pc[f] \in Before
                       /\ pc'[f] \in {"prompting", "returned"} =>
                            pc'[f] = pc[f] /\ using'[f] = using[f]
  BY DEF Calm
<1>3. ClientInv'
  <2>1. \A c \in Conv : pool'[c] # NoEntry => pc'[pool'[c]] # "none" /\ (ConvAt(pool[c]) = c)'
    BY <1>0, <1>1, <1>2 DEF Calm, ClientInv, TypeClient, Ref, ConvAt
  <2>2. \A f \in Entry : pc'[f] = "prompting" =>
          /\ using'[f] \in Entry /\ pc'[using'[f]] # "none" /\ (ConvAt(using[f]) = ConvAt(f))'
          /\ bound'[using'[f]] \in Entry
    BY <1>0, <1>1, <1>2 DEF Calm, ClientInv, ConvAt
  <2>3. \A k \in Entry : bound'[k] # NoEntry =>
          pc'[k] # "none" /\ pc'[bound'[k]] \notin Before /\ (ConvAt(bound[k]) = ConvAt(k))'
    BY <1>0, <1>1, <1>2 DEF Calm, ClientInv, ConvAt, TypeClient, Ref
  <2> QED BY <2>1, <2>2, <2>3 DEF ClientInv
<1>4. BoundInv'
  BY <1>1, <1>2 DEF Calm, BoundInv
<1>5. \A f \in Entry : pc'[f] \in Before /\ Active(f)' => pc[f] \in Before /\ Active(f)
  BY <1>2 DEF Calm, Active, Spent, Before, PreFinal
<1>6. \A f \in Entry : pc'[f] = "prompting" /\ live'[using'[f]] => live[using[f]]
  BY <1>2 DEF Calm, ClientInv
<1>7. CountInv'
  BY <1>1, <1>2, <1>5, <1>6 DEF Calm, CountInv
<1> QED BY <1>3, <1>4, <1>7

LEMMA TaskCalm ==
  ASSUME TypeOK, NEW e \in Entry, Task(e),
         ~(GetReuse(e) \/ GetInstall(e) \/ Update(e) \/ UpdateFails(e) \/ PromptReturns(e))
  PROVE  Calm(e)
<1>0. TypeTask /\ TypeClient
  BY DEF TypeOK
<1>1. UNCHANGED <<ent, ackLost, tokens, text, bound>>
  BY DEF Task, Admit, NoAgent, PublishStart, GetSpawn, GetRaises, CheckCancel, Raises,
     DropAfterError, DropRaises, Finalize, ClearCancel, FailFinalize, PublishError,
     PublishDone, Aborts, queueVars, taskVars, clientVars, eventVars, histVars
<1>2. /\ \A k \in Entry : live'[k] => live[k]
      /\ \A c \in Conv : pool'[c] \in {pool[c], NoEntry}
  BY <1>0
  DEF Task, Admit, NoAgent, PublishStart, GetSpawn, GetRaises, CheckCancel, Raises,
      DropAfterError, DropRaises, Finalize, ClearCancel, FailFinalize, PublishError,
      PublishDone, Aborts, clientVars, DropClient, TypeClient
<1>3. using' = using \/ using' = [using EXCEPT ![e] = NoEntry]
  BY DEF Task, Admit, NoAgent, PublishStart, GetSpawn, GetRaises, CheckCancel, Raises,
     DropAfterError, DropRaises, Finalize, ClearCancel, FailFinalize, PublishError,
     PublishDone, Aborts, clientVars, Return
<1>4. \/ pc' = pc /\ using' = using
      \/ \E to \in PCs : /\ pc' = [pc EXCEPT ![e] = to] /\ pc[e] # "none"
                         /\ to \notin {"prompting", "returned", "none"}
                         /\ to \in Before => pc[e] \in Before
  BY PCFacts
  DEF Task, Admit, NoAgent, PublishStart, GetSpawn, GetRaises, CheckCancel, Raises,
      DropAfterError, DropRaises, Finalize, ClearCancel, FailFinalize, PublishError,
      PublishDone, Aborts, clientVars, Return, Goto, Before, PostFinal, taskVars
<1> QED BY <1>0, <1>1, <1>2, <1>3, <1>4 DEF Calm, TypeTask, TypeClient

\* The task e is given the client k.
Binds(e, k) ==
  /\ pc[e] \in {"started", "spawning"} /\ k \in Entry /\ pc[k] # "none" /\ ConvAt(k) = ConvAt(e)
  /\ pc' = [pc EXCEPT ![e] = "prompting"]
  /\ bound' = [bound EXCEPT ![k] = e]
  /\ using' = [using EXCEPT ![e] = k]
  /\ \A c \in Conv : pool'[c] = pool[c] \/ (pool'[c] = e /\ c = ConvAt(e))
  /\ \A m \in Entry : m # k => live'[m] = live[m]
  /\ UNCHANGED <<api, delivered, pel, reclaiming, ent, ackLost, tokens, text>>

LEMMA BindsKeeps ==
  ASSUME SInv, OneAtATime, NEW e \in Entry, NEW k, Binds(e, k)
  PROVE  (ClientInv /\ BoundInv /\ CountInv)'
<1>0. /\ WInv /\ SerialInv /\ TypeTask /\ TypeClient /\ ClientInv /\ BoundInv /\ CountInv
  BY DEF SInv, WInv, QInv, TInv, TypeOK
<1>1. \A f \in Entry : ConvAt(f)' = ConvAt(f) /\ (Sure(f)' <=> Sure(f))
  BY DEF Binds, ConvAt, Sure, Undoubted
<1>2. /\ k \in Entry /\ pc'[e] = "prompting" /\ using'[e] = k /\ bound'[k] = e
      /\ \A f \in Entry : f # e => pc'[f] = pc[f] /\ using'[f] = using[f]
      /\ \A m \in Entry : m # k => bound'[m] = bound[m] /\ live'[m] = live[m]
  BY <1>0 DEF Binds, TypeTask, TypeClient
<1>3. ASSUME NEW f \in Entry, f # e, pc[f] = "prompting", Sure(f) PROVE using[f] # k
  BY <1>0, <1>3, OneWorks DEF Binds, ClientInv, PreFinal
<1>4. ClientInv'
  <2>1. \A c \in Conv : pool'[c] # NoEntry => pc'[pool'[c]] # "none" /\ (ConvAt(pool[c]) = c)'
    BY <1>0, <1>1, <1>2 DEF Binds, ClientInv, TypeClient, Ref, ConvAt
  <2>2. \A f \in Entry : pc'[f] = "prompting" =>
          /\ using'[f] \in Entry /\ pc'[using'[f]] # "none" /\ (ConvAt(using[f]) = ConvAt(f))'
          /\ bound'[using'[f]] \in Entry
    BY <1>0, <1>1, <1>2 DEF Binds, ClientInv, ConvAt
  <2>3. \A m \in Entry : bound'[m] # NoEntry =>
          pc'[m] # "none" /\ pc'[bound'[m]] \notin Before /\ (ConvAt(bound[m]) = ConvAt(m))'
    BY <1>0, <1>1, <1>2 DEF Binds, ClientInv, ConvAt, TypeClient, Ref, Before
  <2> QED BY <2>1, <2>2, <2>3 DEF ClientInv
<1>5. BoundInv'
  BY <1>0, <1>1, <1>2, <1>3 DEF BoundInv, ClientInv
<1>6. CountInv'
  <2>1. Sure(e) => text[e] = 0 /\ tokens[ent[e]] = 0
    BY <1>0 DEF Binds, CountInv, Before, Active, PreFinal
  <2>2. \A f \in Entry : pc'[f] \in Before => f # e /\ pc[f] = pc'[f] /\ (Active(f)' <=> Active(f))
    BY <1>2 DEF Binds, Before, Active, Spent
  <2>3. \A f \in Entry : /\ pc'[f] = "returned" \/ (pc'[f] = "prompting" /\ live'[using'[f]])
                         /\ Sure(f)
                         => text[f] = tokens[ent[f]]
    BY <1>0, <1>2, <1>3, <2>1 DEF CountInv, ClientInv
  <2> QED BY <1>0, <1>1, <2>2, <2>3 DEF Binds, CountInv
<1> QED BY <1>4, <1>5, <1>6

\* In a conversation without doubts a notification is counted for the task
\* whose prompt it answers.
LEMMA OwnUpdate ==
  ASSUME SInv, OneAtATime, NEW e \in Entry, pc[e] = "prompting",
         NEW r, r = bound[using[e]]
  PROVE  /\ r \in Entry /\ ent[r] \in Turn /\ pc[r] \notin Before /\ ent[e] \in Turn
         /\ ConvAt(r) = ConvAt(e)
         /\ Undoubted(ent[r]) => r = e
<1>0. HeldHaveTurns /\ ClientInv /\ BoundInv
  BY HeldTurn DEF SInv, WInv, QInv
<1>1. r \in Entry /\ pc[r] \notin Before /\ ConvAt(r) = ConvAt(e)
  BY <1>0 DEF ClientInv, Entry, NoEntry
<1>2. ent[r] \in Turn /\ ent[e] \in Turn
  BY <1>0, <1>1 DEF HeldHaveTurns, Before
<1>3. Undoubted(ent[r]) => Sure(e)
  BY <1>1, <1>2 DEF Undoubted, Sure, ConvAt
<1> QED BY <1>0, <1>1, <1>2, <1>3 DEF BoundInv

LEMMA UpdateKeeps ==
  ASSUME SInv, OneAtATime, NEW e \in Entry, Update(e) \/ UpdateFails(e)
  PROVE  (ClientInv /\ BoundInv /\ CountInv /\ SavedIsStreamed)'
<1> DEFINE k == using[e]
           r == bound[k]
<1>0. /\ WInv /\ SerialInv /\ TypeTask /\ TypeClient /\ TypeEvent /\ ClientInv /\ BoundInv
      /\ CountInv /\ SavedIsStreamed /\ SentInv /\ OpenInv
  BY DEF SInv, WInv, QInv, TInv, TypeOK
<1>1. /\ pc[e] = "prompting" /\ text' = [text EXCEPT ![r] = @ + 1]
      /\ UNCHANGED <<api, msg, saved, delivered, pel, reclaiming, ent, ackLost, pc, pool, using,
                     bound>>
      /\ \/ tokens' = [tokens EXCEPT ![ent[r]] = @ + 1] /\ live' = live
         \/ tokens' = tokens /\ live' = [live EXCEPT ![k] = FALSE]
  BY DEF Update, UpdateFails, apiVars, dbVars, queueVars, loopVars, eventVars, histVars
<1>2. k \in Entry
  BY <1>0, <1>1 DEF ClientInv
<1>3. /\ r \in Entry /\ ent[r] \in Turn /\ pc[r] \notin Before /\ ent[e] \in Turn
      /\ ConvAt(r) = ConvAt(e)
      /\ Undoubted(ent[r]) => r = e
  BY <1>1, OwnUpdate
<1>4. k = using[e] /\ r = bound[k]
  OBVIOUS
<1> HIDE DEF k, r
<1>5. \A f \in Entry : f # r => text'[f] = text[f]
  BY <1>0, <1>1 DEF TypeTask
<1>6. \A t \in Turn : t # ent[r] => tokens'[t] = tokens[t]
  BY <1>0, <1>1 DEF TypeEvent
<1>7. ClientInv' /\ BoundInv'
  BY <1>0, <1>1 DEF ClientInv, BoundInv, ConvAt, Sure, Undoubted
<1>8. \A t \in Turn : api'[t] # "sent" => tokens'[t] = 0
  BY <1>0, <1>1, <1>3, <1>6 DEF CountInv, SentInv
<1>9. \A f \in Entry : pc'[f] \in Before => text'[f] = 0
  BY <1>0, <1>1, <1>3, <1>5 DEF CountInv
<1>10. Active(e)
  BY <1>1 DEF Active, PreFinal
<1>11. ASSUME NEW f \in Entry, pc'[f] \in Before, Active(f)', Sure(f)'
       PROVE  tokens'[ent'[f]] = 0
  <2>1. pc[f] \in Before /\ Active(f) /\ Sure(f) /\ ent'[f] = ent[f]
    BY <1>1, <1>11 DEF Active, Spent, Sure, Undoubted
  <2>2. ent[f] # ent[r]
    <3>1. SUFFICES ASSUME ent[f] = ent[r] PROVE FALSE
      OBVIOUS
    <3>2. r = e /\ ent[e] \notin ackLost
      BY <1>3, <2>1, <3>1 DEF Sure, Undoubted
    <3>3. f = e
      BY <1>0, <1>3, <1>10, <2>1, <3>1, <3>2, OnlyActive DEF WInv
    <3> QED BY <1>1, <2>1, <3>3 DEF Before
  <2> QED BY <1>0, <1>6, <2>1, <2>2 DEF CountInv, Sure
<1>12. ASSUME NEW f \in Entry,
              pc'[f] = "returned" \/ (pc'[f] = "prompting" /\ live'[using'[f]]), Sure(f)'
       PROVE  text'[f] = tokens'[ent'[f]]
  <2>1. /\ Sure(f) /\ pc'[f] = pc[f] /\ ent'[f] = ent[f] /\ using'[f] = using[f]
        /\ pc[f] \in PreFinal \ {"queued"} /\ ent[f] \in Turn
    BY <1>1, <1>12 DEF Sure, Undoubted, PreFinal
  <2>2. pc[f] = "prompting" => using[f] \in Entry
    BY <1>0 DEF ClientInv
  <2>3. pc[f] = "returned" \/ (pc[f] = "prompting" /\ live[using[f]])
    BY <1>0, <1>1, <1>2, <1>12, <2>1, <2>2 DEF TypeClient
  <2>4. text[f] = tokens[ent[f]]
    BY <1>0, <2>1, <2>3 DEF CountInv
  <2>5. CASE f = r \/ ent[f] = ent[r]
    <3>1. Undoubted(ent[r])
      BY <2>1, <2>5 DEF Sure
    <3>2. r = e
      BY <1>3, <3>1
    <3>3. f = e
      BY <1>0, <1>1, <1>3, <2>1, <2>5, <3>2, OneWorks DEF PreFinal, ConvAt
    <3>4. live'[k]
      BY <1>1, <1>4, <1>12, <2>1, <3>3
    <3>5. tokens' = [tokens EXCEPT ![ent[r]] = @ + 1]
      BY <1>0, <1>1, <1>2, <3>4 DEF TypeClient
    <3> QED BY <1>0, <1>1, <1>3, <2>1, <2>4, <3>2, <3>3, <3>5 DEF TypeTask, TypeEvent
  <2>6. CASE f # r /\ ent[f] # ent[r]
    BY <1>5, <1>6, <2>1, <2>4, <2>6
  <2> QED BY <2>5, <2>6
<1>13. CountInv'
  BY <1>8, <1>9, <1>11, <1>12 DEF CountInv
<1>14. SavedIsStreamed'
  <2> SUFFICES ASSUME NEW t \in Turn, msg'[t] \in {"complete", "cancelled"}, Undoubted(t)'
               PROVE  saved'[t] = tokens'[t]
    BY DEF SavedIsStreamed
  <2>1. Undoubted(t) /\ msg[t] \in {"complete", "cancelled"}
    BY <1>1 DEF Undoubted
  <2>2. t # ent[r]
    BY <1>0, <1>3, <1>10, <2>1 DEF OpenInv, Undoubted
  <2> QED BY <1>0, <1>1, <1>6, <2>1, <2>2 DEF SavedIsStreamed
<1> QED BY <1>7, <1>13, <1>14

LEMMA TaskSaves ==
  ASSUME SInv, OneAtATime, NEW e \in Entry, Task(e)
  PROVE  (ClientInv /\ BoundInv /\ CountInv /\ SavedIsStreamed)'
<1>0. /\ WInv /\ TypeOK /\ TypeApi /\ TypeTask /\ TypeClient /\ HeldHaveTurns
      /\ ClientInv /\ BoundInv /\ CountInv /\ SavedIsStreamed /\ ClosedInv
  BY HeldTurn DEF SInv, WInv, QInv, TInv, TypeOK
<1>1. UNCHANGED <<api, delivered, pel, reclaiming, ent, ackLost>>
  BY <1>0, TaskFrame DEF queueVars, loopVars
<1>2. CASE Update(e) \/ UpdateFails(e)
  BY <1>2, UpdateKeeps
<1>3. CASE ~(Update(e) \/ UpdateFails(e))
  <2>1. (ClientInv /\ BoundInv /\ CountInv)'
    <3>1. CASE GetReuse(e)
      <4> DEFINE k == pool[ConvAt(e)]
      <4>1. ConvAt(e) \in Conv
        BY <1>0, <3>1, ConvOfType DEF GetReuse, Goto, HeldHaveTurns, ConvAt
      <4>2. k \in Entry /\ pc[k] # "none" /\ ConvAt(k) = ConvAt(e)
        BY <1>0, <3>1, <4>1 DEF GetReuse, ClientInv, TypeClient, Ref
      <4>3. Binds(e, k)
        BY <1>1, <3>1, <4>2 DEF GetReuse, Goto, Binds, eventVars
      <4> QED BY <4>3, BindsKeeps
    <3>2. CASE GetInstall(e)
      <4>1. ConvAt(e) \in Conv
        BY <1>0, <3>2, ConvOfType DEF GetInstall, Goto, HeldHaveTurns, ConvAt
      <4>2. Binds(e, e)
        BY <1>0, <1>1, <3>2, <4>1 DEF GetInstall, Goto, Binds, eventVars, TypeClient
      <4> QED BY <4>2, BindsKeeps
    <3>3. CASE PromptReturns(e)
      <4>1. /\ pc[e] = "prompting" /\ live[using[e]] /\ pc' = [pc EXCEPT ![e] = "returned"]
            /\ UNCHANGED <<tokens, text, pool, using, live, bound>>
        BY <3>3 DEF PromptReturns, Goto, clientVars, eventVars
      <4>2. /\ pc'[e] = "returned" /\ \A f \in Entry : f # e => pc'[f] = pc[f]
            /\ \A f \in Entry : ConvAt(f)' = ConvAt(f) /\ (Sure(f)' <=> Sure(f))
        BY <1>0, <1>1, <4>1 DEF TypeTask, ConvAt, Sure, Undoubted
      <4>3. \A f \in Entry : f # e => (Active(f)' <=> Active(f))
        BY <1>1, <4>2 DEF Active, Spent
      <4>4. ClientInv'
        BY <1>0, <1>1, <4>1, <4>2 DEF ClientInv, Before, ConvAt, TypeClient, Ref
      <4>5. BoundInv' /\ CountInv'
        BY <1>0, <1>1, <4>1, <4>2, <4>3 DEF BoundInv, CountInv, Before
      <4> QED BY <4>4, <4>5
    <3>4. CASE ~(GetReuse(e) \/ GetInstall(e) \/ PromptReturns(e))
      <4>1. Calm(e)
        BY <1>0, <1>3, <3>4, TaskCalm
      <4> QED BY <1>0, <1>1, <4>1, CalmKeeps
    <3> QED BY <3>1, <3>2, <3>3, <3>4
  <2>2. tokens' = tokens
    <3>1. CASE GetReuse(e) \/ GetInstall(e) \/ PromptReturns(e)
      BY <3>1 DEF GetReuse, GetInstall, PromptReturns, eventVars
    <3>2. CASE ~(GetReuse(e) \/ GetInstall(e) \/ PromptReturns(e))
      BY <1>0, <1>3, <3>2, TaskCalm DEF Calm
    <3> QED BY <3>1, <3>2
  <2>3. SavedIsStreamed'
    <3>1. CASE Finalize(e)
      <4>1. /\ pc[e] = "returned" /\ ent[e] \in Turn
            /\ msg' = [msg EXCEPT ![ent[e]] = outcome[e]]
            /\ saved' = [saved EXCEPT ![ent[e]] = text[e]]
        BY <1>0, <3>1 DEF Finalize, Goto, HeldHaveTurns
      <4>2. Undoubted(ent[e]) => text[e] = tokens[ent[e]]
        BY <1>0, <4>1 DEF CountInv, Sure
      <4> QED BY <1>0, <1>1, <2>2, <4>1, <4>2 DEF SavedIsStreamed, Undoubted, TypeApi
    <3>2. CASE FailFinalize(e)
      <4>1. /\ msg' = [msg EXCEPT ![ent[e]] = "error"]
            /\ saved' = [saved EXCEPT ![ent[e]] = 0]
        BY <3>2 DEF FailFinalize
      <4> QED BY <1>0, <1>1, <2>2, <4>1 DEF SavedIsStreamed, Undoubted, TypeApi
    <3>3. CASE ~(Finalize(e) \/ FailFinalize(e))
      <4>1. msg' = msg /\ saved' = saved
        BY <1>3, <3>3
        DEF Task, Admit, NoAgent, PublishStart, GetReuse, GetSpawn, GetRaises, GetInstall,
            CheckCancel, PromptReturns, Raises, DropAfterError, DropRaises, ClearCancel,
            PublishError, PublishDone, Aborts, dbVars
      <4> QED BY <1>0, <1>1, <2>2, <4>1 DEF SavedIsStreamed, Undoubted
    <3> QED BY <3>1, <3>2, <3>3
  <2> QED BY <2>1, <2>3
<1> QED BY <1>2, <1>3

LEMMA SInvStep == ASSUME OneAtATime, SInv, [Next]_vars PROVE SInv'
<1>1. WInv' /\ SerialInv'
  BY QInvStep, NextStatus, NextOpen, NextClosed, NextSerial DEF SInv, WInv
<1>2. (ClientInv /\ BoundInv /\ CountInv /\ SavedIsStreamed)'
  <2>1. CASE UNCHANGED vars
    BY <2>1
    DEF SInv, ClientInv, BoundInv, CountInv, SavedIsStreamed, ConvAt, Sure, Undoubted, Active,
        Spent, vars
  <2>2. CASE Next
    BY <2>2, ApiSaves, UserSaves, LoopSaves, TaskSaves DEF Next
  <2> QED BY <2>1, <2>2
<1> QED BY <1>1, <1>2 DEF SInv

\* When a conversation gets its turns one after the other, the text in the row
\* of a finished turn is what its token events carried, whatever happened to
\* the process, the clients and the entries of other turns.
THEOREM SavedIsStreamedHolds == ASSUME OneAtATime PROVE Spec => []SavedIsStreamed
<1>1. SInv /\ [Next]_vars => SInv'
  BY SInvStep
<1>2. SInv => SavedIsStreamed
  BY DEF SInv
<1> QED BY <1>1, <1>2, InitSInv, PTL DEF Spec

\* Nor does a token event of a message come after its done event: the only task
\* that may count one has not closed the message.
THEOREM NoTokenAfterDoneHolds == ASSUME OneAtATime PROVE Spec => NoTokenAfterDone
<1> DEFINE Quiets == \A t \in Turn : tokens'[t] # tokens[t] /\ Undoubted(t)
                                       => "done" \notin told[t]
<1>1. SInv /\ [Next]_vars => SInv'
  BY SInvStep
<1>2. ASSUME SInv, [Next]_vars PROVE [Quiets]_vars
  <2>0. /\ TypeOK /\ TypeEvent /\ OpenInv /\ ClosedInv
    BY <1>2 DEF SInv, WInv, QInv, TInv, TypeOK
  <2>1. ASSUME NEW e \in Entry, Update(e) PROVE Quiets
    <3> DEFINE r == bound[using[e]]
    <3>1. pc[e] = "prompting" /\ tokens' = [tokens EXCEPT ![ent[r]] = @ + 1]
      BY <2>1 DEF Update
    <3>2. ent[r] \in Turn /\ (Undoubted(ent[r]) => r = e)
      BY <1>2, <3>1, OwnUpdate
    <3>3. Active(e)
      BY <3>1 DEF Active, PreFinal
    <3>4. Undoubted(ent[r]) => msg[ent[r]] = "streaming"
      BY <2>0, <3>2, <3>3 DEF OpenInv, Undoubted
    <3> QED BY <2>0, <3>1, <3>2, <3>4 DEF TypeEvent, ClosedInv, DoneAfterCommit, Terminal
  <2>2. CASE \A e \in Entry : ~Update(e)
    <3>1. tokens' = tokens
      <4>1. ASSUME NEW t \in Turn, Api(t) PROVE tokens' = tokens
        BY <4>1, ApiFrame DEF eventVars
      <4>2. ASSUME NEW c \in Conv, User(c) PROVE tokens' = tokens
        BY <4>2, UserFrame DEF eventVars
      <4>3. CASE Loop
        BY <4>3, LoopFrame DEF eventVars
      <4>4. ASSUME NEW e \in Entry, Task(e) PROVE tokens' = tokens
        BY <2>0, <2>2, <4>4, TaskCalm
        DEF Calm, GetReuse, GetInstall, UpdateFails, PromptReturns, eventVars
      <4>5. CASE UNCHANGED vars
        BY <4>5 DEF vars
      <4> QED BY <1>2, <4>1, <4>2, <4>3, <4>4, <4>5 DEF Next
    <3> QED BY <3>1
  <2> QED BY <2>1, <2>2
<1> QED BY <1>1, <1>2, InitSInv, PTL DEF Spec, NoTokenAfterDone

=============================================================================
