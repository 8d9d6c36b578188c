--------------------------- MODULE PromptPipeline ---------------------------
(***************************************************************************)
(* The path of one agent turn through the system: the API commits the      *)
(* user's turn and an empty "streaming" agent message, clears the          *)
(* conversation's cancel flag and pushes a task on the Redis stream        *)
(* acp:prompt; the runner reads the stream through a consumer group,       *)
(* acknowledges, runs up to MAX_CONCURRENT tasks, drives an ACP subprocess *)
(* per conversation, publishes the live events and writes the message row  *)
(* once at the end.                                                        *)
(*                                                                         *)
(* Processes: the API handlers (one per turn), the runner's main loop, its *)
(* heartbeat (stale reclaim), one asyncio task per delivered entry, the    *)
(* read loop of each ACP client, and the user pressing cancel.  The runner *)
(* process may crash, be told to stop, and be started again.               *)
(***************************************************************************)
EXTENDS Naturals, FiniteSets

CONSTANTS
  Turn,           \* agent messages, one per send
  Conv,           \* conversations
  ConvOf,         \* the conversation of each turn
  NoTurn,         \* an unused entry of the stream
  MaxEntries,     \* bound: entries ever added to acp:prompt
  MaxConcurrent,  \* MAX_CONCURRENT
  MaxUpdates,     \* bound: session/update notifications per prompt
  MaxFaults,      \* bound: crashes, stops and failing calls in a behaviour
  Overlap         \* may a conversation get a turn while another is streaming

ASSUME ConvOfType    == ConvOf \in [Turn -> Conv]
ASSUME NoTurnType    == NoTurn \notin Turn
ASSUME BoundsType    == /\ MaxEntries \in Nat
                        /\ MaxConcurrent \in Nat \ {0}
                        /\ MaxUpdates \in Nat
                        /\ MaxFaults \in Nat
ASSUME OverlapType   == Overlap \in BOOLEAN

Entry    == 1..MaxEntries
NoEntry  == 0
Terminal == {"complete", "cancelled", "error"}

\* Where the coroutine of a task stands (runner.py, _run_task and below).
PreFinal  == {"queued", "admitted", "started", "spawning", "prompting",
              "returned", "raised", "failing"}
PostFinal == {"finalized", "cleared", "failed", "errored"}
Unfinished == PreFinal \cup PostFinal
PCs       == {"none", "ended", "dead"} \cup Unfinished

VARIABLES
  api,        \* [Turn -> ...]  progress of the send handler
  msg,        \* [Turn -> ...]  messages.status of the agent row
  saved,      \* [Turn -> Nat]  chunks of text in the agent row
  cancelFlag, \* [Conv -> BOOLEAN]  acp:cancel:{conv}
  ent,        \* [Entry -> Turn or NoTurn]  entries of acp:prompt
  last,       \* id of the newest entry
  delivered,  \* last-delivered-id of the consumer group
  pel,        \* pending entries list of the consumer
  runner,     \* "up", "draining" (SIGTERM received), "down"
  fetched,    \* entry returned by XREADGROUP and not yet acknowledged
  reclaiming, \* entry acknowledged by _reclaim_stale and not yet re-added
  pc,         \* [Entry -> PCs]  the task created for each entry
  text,       \* [Entry -> Nat]  acc["text"] of the task, in chunks
  stopping,   \* [Entry -> BOOLEAN]  acc["cancelled"] of the task
  outcome,    \* [Entry -> ...]  the local variable status
  emitted,    \* [Entry -> Nat]  notifications the agent sent for the prompt
  pool,       \* [Conv -> Entry or NoEntry]  SessionPool._clients
  using,      \* [Entry -> Entry or NoEntry]  the client a task prompts on
  live,       \* [Entry -> BOOLEAN]  a client's read loop is running
  bound,      \* [Entry -> Entry or NoEntry]  task whose on_update is bound
  inCallback, \* [Entry -> Entry or NoEntry]  task whose on_update is running
  tokens,     \* [Turn -> Nat]  token events published for a message
  told,       \* [Turn -> SUBSET ...]  other events published for a message
  wanted,     \* history: turns streaming when the user pressed cancel
  ackLost,    \* history: turns whose XACK failed while they were started
  cut,        \* history: turns whose handling was cut short by a failure
  faults      \* failures so far

apiVars    == <<api>>
dbVars     == <<msg, saved>>
queueVars  == <<ent, last, delivered, pel>>
loopVars   == <<runner, fetched, reclaiming>>
taskVars   == <<pc, text, stopping, outcome, emitted>>
clientVars == <<pool, using, live, bound, inCallback>>
eventVars  == <<tokens, told>>
histVars   == <<wanted, ackLost, cut, faults>>
vars == <<api, msg, saved, cancelFlag, ent, last, delivered, pel, runner,
          fetched, reclaiming, pc, text, stopping, outcome, emitted, pool,
          using, live, bound, inCallback, tokens, told, wanted, ackLost, cut,
          faults>>

\* Clients are named by the entry whose SessionPool.get spawned them.
Ref == Entry \cup {NoEntry}

TypeApi ==
  /\ api \in [Turn -> {"idle", "committed", "cleared", "sent", "dead"}]
  /\ msg \in [Turn -> {"none", "streaming"} \cup Terminal]
  /\ saved \in [Turn -> Nat]
  /\ cancelFlag \in [Conv -> BOOLEAN]

TypeQueue ==
  /\ ent \in [Entry -> Turn \cup {NoTurn}]
  /\ last \in 0..MaxEntries
  /\ delivered \in 0..last
  /\ pel \subseteq Entry

TypeLoop ==
  /\ runner \in {"up", "draining", "down"}
  /\ fetched \in Ref
  /\ reclaiming \in Ref

TypeTask ==
  /\ pc \in [Entry -> PCs]
  /\ text \in [Entry -> Nat]
  /\ stopping \in [Entry -> BOOLEAN]
  /\ outcome \in [Entry -> {"none", "complete", "cancelled"}]
  /\ emitted \in [Entry -> 0..MaxUpdates]

TypeClient ==
  /\ pool \in [Conv -> Ref]
  /\ using \in [Entry -> Ref]
  /\ live \in [Entry -> BOOLEAN]
  /\ bound \in [Entry -> Ref]
  /\ inCallback \in [Entry -> Ref]

TypeEvent ==
  /\ tokens \in [Turn -> Nat]
  /\ told \in [Turn -> SUBSET {"start", "error", "done"}]

TypeHist ==
  /\ wanted \subseteq Turn
  /\ ackLost \subseteq Turn
  /\ cut \subseteq Turn
  /\ faults \in 0..MaxFaults

TypeOK == /\ TypeApi   /\ TypeQueue /\ TypeLoop /\ TypeTask
          /\ TypeClient /\ TypeEvent /\ TypeHist

Init ==
  /\ api = [t \in Turn |-> "idle"]
  /\ msg = [t \in Turn |-> "none"]
  /\ saved = [t \in Turn |-> 0]
  /\ cancelFlag = [c \in Conv |-> FALSE]
  /\ ent = [e \in Entry |-> NoTurn]
  /\ last = 0
  /\ delivered = 0
  /\ pel = {}
  /\ runner = "up"
  /\ fetched = NoEntry
  /\ reclaiming = NoEntry
  /\ pc = [e \in Entry |-> "none"]
  /\ text = [e \in Entry |-> 0]
  /\ stopping = [e \in Entry |-> FALSE]
  /\ outcome = [e \in Entry |-> "none"]
  /\ emitted = [e \in Entry |-> 0]
  /\ pool = [c \in Conv |-> NoEntry]
  /\ using = [e \in Entry |-> NoEntry]
  /\ live = [e \in Entry |-> FALSE]
  /\ bound = [e \in Entry |-> NoEntry]
  /\ inCallback = [e \in Entry |-> NoEntry]
  /\ tokens = [t \in Turn |-> 0]
  /\ told = [t \in Turn |-> {}]
  /\ wanted = {}
  /\ ackLost = {}
  /\ cut = {}
  /\ faults = 0

Fault == faults < MaxFaults /\ faults' = faults + 1

-----------------------------------------------------------------------------
(***************************************************************************)
(* The API: conversation_service.send_message and the cancel endpoint.     *)
(***************************************************************************)

\* The user turn and the empty agent turn are committed together.
SendCommit(t) ==
  /\ api[t] = "idle"
  /\ Overlap \/ \A u \in Turn : ConvOf[u] = ConvOf[t] => msg[u] # "streaming"
  /\ api' = [api EXCEPT ![t] = "committed"]
  /\ msg' = [msg EXCEPT ![t] = "streaming"]
  /\ UNCHANGED <<saved, cancelFlag, queueVars, loopVars, taskVars, clientVars,
                 eventVars, histVars>>

\* Mutant: the new turn does not clear the flag of an earlier one.
SendNoClear(t) ==
  /\ api[t] = "committed"
  /\ api' = [api EXCEPT ![t] = "cleared"]
  /\ UNCHANGED <<cancelFlag, dbVars, queueVars, loopVars, taskVars, clientVars,
                 eventVars, histVars>>

SendClearCancel(t) ==
  /\ api[t] = "committed"
  /\ api' = [api EXCEPT ![t] = "cleared"]
  /\ cancelFlag' = [cancelFlag EXCEPT ![ConvOf[t]] = FALSE]
  /\ UNCHANGED <<dbVars, queueVars, loopVars, taskVars, clientVars, eventVars,
                 histVars>>

\* XADD of turn t.
Append(t) ==
  /\ last < MaxEntries
  /\ last' = last + 1
  /\ ent' = [ent EXCEPT ![last + 1] = t]

SendEnqueue(t) ==
  /\ api[t] = "cleared"
  /\ Append(t)
  /\ api' = [api EXCEPT ![t] = "sent"]
  /\ UNCHANGED <<dbVars, cancelFlag, delivered, pel, loopVars, taskVars,
                 clientVars, eventVars, histVars>>

\* The API process dies, or a Redis call raises, after the commit.
SendDies(t) ==
  /\ api[t] \in {"committed", "cleared"}
  /\ Fault
  /\ api' = [api EXCEPT ![t] = "dead"]
  /\ cut' = cut \cup {t}
  /\ UNCHANGED <<dbVars, cancelFlag, queueVars, loopVars, taskVars, clientVars,
                 eventVars, wanted, ackLost>>

PressCancel(c) ==
  /\ cancelFlag' = [cancelFlag EXCEPT ![c] = TRUE]
  /\ wanted' = wanted \cup {t \in Turn : ConvOf[t] = c /\ msg[t] = "streaming"}
  /\ UNCHANGED <<apiVars, dbVars, queueVars, loopVars, taskVars, clientVars,
                 eventVars, ackLost, cut, faults>>

\* The flag carries a TTL of 120 seconds.
CancelExpires(c) ==
  /\ cancelFlag[c]
  /\ cancelFlag' = [cancelFlag EXCEPT ![c] = FALSE]
  /\ UNCHANGED <<apiVars, dbVars, queueVars, loopVars, taskVars, clientVars,
                 eventVars, histVars>>

-----------------------------------------------------------------------------
(***************************************************************************)
(* The runner's main loop and its heartbeat.                               *)
(***************************************************************************)

\* XREADGROUP ">" count=1.
ReadEntry ==
  /\ runner = "up"
  /\ fetched = NoEntry
  /\ delivered < last
  /\ delivered' = delivered + 1
  /\ fetched' = delivered + 1
  /\ pel' = pel \cup {delivered + 1}
  /\ UNCHANGED <<apiVars, dbVars, cancelFlag, ent, last, runner, reclaiming,
                 taskVars, clientVars, eventVars, histVars>>

\* Mutant: the task is created and the entry never acknowledged.
AckForgotten ==
  /\ runner # "down"
  /\ fetched # NoEntry
  /\ pc' = [pc EXCEPT ![fetched] = "queued"]
  /\ fetched' = NoEntry
  /\ UNCHANGED <<apiVars, dbVars, cancelFlag, queueVars, runner, reclaiming,
                 text, stopping, outcome, emitted, clientVars, eventVars,
                 histVars>>

\* XACK, then create_task: the entry is acknowledged before it is handled.
AckEntry ==
  /\ runner # "down"
  /\ fetched # NoEntry
  /\ pel' = pel \ {fetched}
  /\ pc' = [pc EXCEPT ![fetched] = "queued"]
  /\ fetched' = NoEntry
  /\ UNCHANGED <<apiVars, dbVars, cancelFlag, ent, last, delivered, runner,
                 reclaiming, text, stopping, outcome, emitted, clientVars,
                 eventVars, histVars>>

\* XACK raises: "Failed to ACK" is logged and the task is created all the same.
AckFails ==
  /\ runner # "down"
  /\ fetched # NoEntry
  /\ Fault
  /\ pc' = [pc EXCEPT ![fetched] = "queued"]
  /\ ackLost' = ackLost \cup {ent[fetched]}
  /\ fetched' = NoEntry
  /\ UNCHANGED <<apiVars, dbVars, cancelFlag, queueVars, runner, reclaiming,
                 text, stopping, outcome, emitted, clientVars, eventVars,
                 wanted, cut>>

\* Mutant: the entry is acknowledged before the shutdown flag is looked at.
SkipAcknowledged ==
  /\ runner = "draining"
  /\ fetched # NoEntry
  /\ fetched' = NoEntry
  /\ pel' = pel \ {fetched}
  /\ UNCHANGED <<apiVars, dbVars, cancelFlag, ent, last, delivered, runner,
                 reclaiming, taskVars, clientVars, eventVars, histVars>>

\* if self._shutdown: break -- the entry stays in the pending list.
SkipOnShutdown ==
  /\ runner = "draining"
  /\ fetched # NoEntry
  /\ fetched' = NoEntry
  /\ UNCHANGED <<apiVars, dbVars, cancelFlag, queueVars, runner, reclaiming,
                 taskVars, clientVars, eventVars, histVars>>

\* Mutant: the stale entry is added again but stays in the pending list.
ReclaimKeep(e) ==
  /\ runner = "up"
  /\ reclaiming = NoEntry
  /\ e \in pel
  /\ e # fetched
  /\ reclaiming' = e
  /\ UNCHANGED <<apiVars, dbVars, cancelFlag, queueVars, runner,
                 fetched, taskVars, clientVars, eventVars, histVars>>

\* XAUTOCLAIM of an entry pending for STALE_THRESHOLD_MS, then XACK.  The main
\* loop acknowledges within that time, so the entry it holds is never stale.
ReclaimAck(e) ==
  /\ runner = "up"
  /\ reclaiming = NoEntry
  /\ e \in pel
  /\ e # fetched
  /\ pel' = pel \ {e}
  /\ reclaiming' = e
  /\ UNCHANGED <<apiVars, dbVars, cancelFlag, ent, last, delivered, runner,
                 fetched, taskVars, clientVars, eventVars, histVars>>

ReclaimAdd ==
  /\ runner # "down"
  /\ reclaiming # NoEntry
  /\ Append(ent[reclaiming])
  /\ reclaiming' = NoEntry
  /\ UNCHANGED <<apiVars, dbVars, cancelFlag, delivered, pel, runner, fetched,
                 taskVars, clientVars, eventVars, histVars>>

\* The XADD raises (swallowed at debug level), or the heartbeat task is
\* cancelled by the shutdown between the XACK and the XADD.
ReclaimLost ==
  /\ reclaiming # NoEntry
  /\ \/ runner = "up" /\ Fault
     \/ runner = "draining" /\ UNCHANGED faults
  /\ cut' = cut \cup {ent[reclaiming]}
  /\ reclaiming' = NoEntry
  /\ UNCHANGED <<apiVars, dbVars, cancelFlag, queueVars, runner, fetched,
                 taskVars, clientVars, eventVars, wanted, ackLost>>

\* SIGTERM or SIGINT.
Signal ==
  /\ runner = "up"
  /\ Fault
  /\ runner' = "draining"
  /\ UNCHANGED <<apiVars, dbVars, cancelFlag, queueVars, fetched, reclaiming,
                 taskVars, clientVars, eventVars, wanted, ackLost, cut>>

\* Every coroutine, client and local variable of the process is gone.
ProcessGone ==
  /\ runner' = "down"
  /\ fetched' = NoEntry
  /\ reclaiming' = NoEntry
  /\ pc' = [e \in Entry |-> IF pc[e] \in Unfinished THEN "dead" ELSE pc[e]]
  /\ pool' = [c \in Conv |-> NoEntry]
  /\ live' = [e \in Entry |-> FALSE]
  /\ inCallback' = [e \in Entry |-> NoEntry]
  /\ text' = [e \in Entry |-> 0]
  /\ stopping' = [e \in Entry |-> FALSE]
  /\ outcome' = [e \in Entry |-> "none"]
  /\ emitted' = [e \in Entry |-> 0]
  /\ using' = [e \in Entry |-> NoEntry]
  /\ bound' = [e \in Entry |-> NoEntry]
  /\ cut' = cut \cup {ent[e] : e \in {f \in Entry : \/ pc[f] \in Unfinished
                                                    \/ f = reclaiming}}
  /\ UNCHANGED <<apiVars, dbVars, cancelFlag, queueVars, eventVars, wanted,
                 ackLost>>

Crash == runner # "down" /\ Fault /\ ProcessGone

\* asyncio.wait(timeout=60) returned with tasks still running, or all done.
StopRunner ==
  /\ runner = "draining"
  /\ fetched = NoEntry
  /\ reclaiming = NoEntry
  /\ ProcessGone
  /\ UNCHANGED faults

Restart ==
  /\ runner = "down"
  /\ runner' = "up"
  /\ UNCHANGED <<apiVars, dbVars, cancelFlag, queueVars, fetched, reclaiming,
                 taskVars, clientVars, eventVars, histVars>>

-----------------------------------------------------------------------------
(***************************************************************************)
(* One task: _run_task, handle_single, and the SessionPool calls it makes. *)
(***************************************************************************)

Goto(e, from, to) ==
  /\ pc[e] = from
  /\ pc' = [pc EXCEPT ![e] = to]

\* The coroutine ends.  Its locals go; acc lives on in the bound on_update.
Return(e) ==
  /\ pc' = [pc EXCEPT ![e] = "ended"]
  /\ outcome' = [outcome EXCEPT ![e] = "none"]
  /\ emitted' = [emitted EXCEPT ![e] = 0]
  /\ using' = [using EXCEPT ![e] = NoEntry]

ConvAt(e) == ConvOf[ent[e]]

\* Mutant: the semaphore is one short.
AdmitTooFew(e) ==
  /\ Goto(e, "queued", "admitted")
  /\ \A f \in Entry : f < e => pc[f] # "queued"
  /\ Cardinality({f \in Entry : pc[f] \in Unfinished \ {"queued"}})
       < MaxConcurrent - 1
  /\ UNCHANGED <<apiVars, dbVars, cancelFlag, queueVars, loopVars, text,
                 stopping, outcome, emitted, clientVars, eventVars, histVars>>

\* async with self._sem: asyncio.Semaphore wakes its waiters in order.
Admit(e) ==
  /\ Goto(e, "queued", "admitted")
  /\ \A f \in Entry : f < e => pc[f] # "queued"
  /\ Cardinality({f \in Entry : pc[f] \in Unfinished \ {"queued"}})
       < MaxConcurrent
  /\ UNCHANGED <<apiVars, dbVars, cancelFlag, queueVars, loopVars, text,
                 stopping, outcome, emitted, clientVars, eventVars, histVars>>

\* No usable agent: _fail before anything was published.
NoAgent(e) ==
  /\ Goto(e, "admitted", "failing")
  /\ UNCHANGED <<apiVars, dbVars, cancelFlag, queueVars, loopVars, text,
                 stopping, outcome, emitted, clientVars, eventVars, histVars>>

PublishStart(e) ==
  /\ Goto(e, "admitted", "started")
  /\ told' = [told EXCEPT ![ent[e]] = @ \cup {"start"}]
  /\ UNCHANGED <<apiVars, dbVars, cancelFlag, queueVars, loopVars, text,
                 stopping, outcome, emitted, clientVars, tokens, histVars>>

\* Mutant: the callbacks of the first prompt stay bound to the client.
GetWithoutRebind(e) ==
  LET k == pool[ConvAt(e)] IN
  /\ Goto(e, "started", "prompting")
  /\ k # NoEntry
  /\ using' = [using EXCEPT ![e] = k]
  /\ UNCHANGED <<apiVars, dbVars, cancelFlag, queueVars, loopVars, text,
                 stopping, outcome, emitted, pool, live, bound, inCallback,
                 eventVars, histVars>>

\* SessionPool.get, the live client has the wanted profile: rebind callbacks.
GetReuse(e) ==
  LET k == pool[ConvAt(e)] IN
  /\ Goto(e, "started", "prompting")
  /\ k # NoEntry
  /\ bound' = [bound EXCEPT ![k] = e]
  /\ using' = [using EXCEPT ![e] = k]
  /\ UNCHANGED <<apiVars, dbVars, cancelFlag, queueVars, loopVars, text,
                 stopping, outcome, emitted, pool, live, inCallback, eventVars,
                 histVars>>

\* SessionPool.drop: whatever client the conversation has now is stopped.
DropClient(c) ==
  /\ pool' = [pool EXCEPT ![c] = NoEntry]
  /\ live' = [k \in Entry |-> live[k] /\ k # pool[c]]
  /\ inCallback' = [k \in Entry |-> IF k = pool[c] THEN NoEntry
                                    ELSE inCallback[k]]

\* stop() awaits the read loop: if that ended by an exception, stop raises it and
\* leaves the subprocess running.
StopReturns(c) == pool[c] # NoEntry => live[pool[c]]

\* No client, a dead one, or one of another profile: drop it and start a
\* subprocess.  The pool is not written until the new session is ready.
GetSpawn(e) ==
  /\ Goto(e, "started", "spawning")
  /\ StopReturns(ConvAt(e))
  /\ DropClient(ConvAt(e))
  /\ UNCHANGED <<apiVars, dbVars, cancelFlag, queueVars, loopVars, text,
                 stopping, outcome, emitted, using, bound, eventVars, histVars>>

\* The drop of the client of another profile raises: so does get.
GetRaises(e) ==
  /\ Goto(e, "started", "raised")
  /\ ~StopReturns(ConvAt(e))
  /\ DropClient(ConvAt(e))
  /\ UNCHANGED <<apiVars, dbVars, cancelFlag, queueVars, loopVars, text,
                 stopping, outcome, emitted, using, bound, eventVars, histVars>>

GetInstall(e) ==
  /\ Goto(e, "spawning", "prompting")
  /\ pool' = [pool EXCEPT ![ConvAt(e)] = e]
  /\ live' = [live EXCEPT ![e] = TRUE]
  /\ bound' = [bound EXCEPT ![e] = e]
  /\ using' = [using EXCEPT ![e] = e]
  /\ UNCHANGED <<apiVars, dbVars, cancelFlag, queueVars, loopVars, text,
                 stopping, outcome, emitted, inCallback, eventVars, histVars>>

\* The read loop of client k runs on_update, as bound now, on a notification
\* of the prompt of e: the chunk is accumulated and published.
Update(e) ==
  LET k == using[e]
      r == bound[k]
  IN
  /\ pc[e] = "prompting"
  /\ live[k]
  /\ inCallback[k] = NoEntry
  /\ emitted[e] < MaxUpdates
  /\ emitted' = [emitted EXCEPT ![e] = @ + 1]
  /\ text' = [text EXCEPT ![r] = @ + 1]
  /\ tokens' = [tokens EXCEPT ![ent[r]] = @ + 1]
  /\ inCallback' = [inCallback EXCEPT ![k] = r]
  /\ UNCHANGED <<apiVars, dbVars, cancelFlag, queueVars, loopVars, pc, stopping,
                 outcome, pool, using, live, bound, told, histVars>>

\* publish_event fails twice inside on_update: the read loop of k ends.
UpdateFails(e) ==
  LET k == using[e] IN
  /\ pc[e] = "prompting"
  /\ live[k]
  /\ inCallback[k] = NoEntry
  /\ emitted[e] < MaxUpdates
  /\ Fault
  /\ emitted' = [emitted EXCEPT ![e] = @ + 1]
  /\ text' = [text EXCEPT ![bound[k]] = @ + 1]
  /\ live' = [live EXCEPT ![k] = FALSE]
  /\ UNCHANGED <<apiVars, dbVars, cancelFlag, queueVars, loopVars, pc, stopping,
                 outcome, pool, using, bound, inCallback, eventVars, wanted,
                 ackLost, cut>>

\* The end of on_update: the cancel flag is looked at once per notification.
CheckCancel(k) ==
  LET r == inCallback[k] IN
  /\ r # NoEntry
  /\ inCallback' = [inCallback EXCEPT ![k] = NoEntry]
  /\ stopping' = [stopping EXCEPT ![r] = @ \/ cancelFlag[ConvAt(r)]]
  /\ UNCHANGED <<apiVars, dbVars, cancelFlag, queueVars, loopVars, pc, text,
                 outcome, emitted, pool, using, live, bound, eventVars, histVars>>

PromptReturns(e) ==
  /\ Goto(e, "prompting", "returned")
  /\ live[using[e]]
  /\ inCallback[using[e]] = NoEntry
  /\ outcome' = [outcome EXCEPT ![e] = IF stopping[e] THEN "cancelled"
                                       ELSE "complete"]
  /\ UNCHANGED <<apiVars, dbVars, cancelFlag, queueVars, loopVars, text,
                 stopping, emitted, clientVars, eventVars, histVars>>

\* pool.get or the prompt raised: timeout, agent error, or the client closed.
Raises(e) ==
  /\ pc[e] \in {"started", "spawning", "prompting"}
  /\ pc' = [pc EXCEPT ![e] = "raised"]
  /\ UNCHANGED <<apiVars, dbVars, cancelFlag, queueVars, loopVars, text,
                 stopping, outcome, emitted, clientVars, eventVars, histVars>>

DropAfterError(e) ==
  /\ Goto(e, "raised", "failing")
  /\ StopReturns(ConvAt(e))
  /\ DropClient(ConvAt(e))
  /\ UNCHANGED <<apiVars, dbVars, cancelFlag, queueVars, loopVars, text,
                 stopping, outcome, emitted, using, bound, eventVars, histVars>>

\* The drop in the except branch raises: _fail is not reached, the coroutine
\* ends, and the row stays as it is.
DropRaises(e) ==
  /\ pc[e] = "raised"
  /\ ~StopReturns(ConvAt(e))
  /\ Return(e)
  /\ DropClient(ConvAt(e))
  /\ cut' = cut \cup {ent[e]}
  /\ UNCHANGED <<apiVars, dbVars, cancelFlag, queueVars, loopVars, text,
                 stopping, bound, eventVars, wanted, ackLost, faults>>

\* Mutant: the partial text of a cancelled turn is thrown away.
FinalizeDropsPartial(e) ==
  /\ Goto(e, "returned", "finalized")
  /\ msg' = [msg EXCEPT ![ent[e]] = outcome[e]]
  /\ saved' = [saved EXCEPT ![ent[e]] =
                 IF outcome[e] = "cancelled" THEN 0 ELSE text[e]]
  /\ UNCHANGED <<apiVars, cancelFlag, queueVars, loopVars, text, stopping,
                 outcome, emitted, clientVars, eventVars, histVars>>

\* _finalize on the normal path.
Finalize(e) ==
  /\ Goto(e, "returned", "finalized")
  /\ msg' = [msg EXCEPT ![ent[e]] = outcome[e]]
  /\ saved' = [saved EXCEPT ![ent[e]] = text[e]]
  /\ UNCHANGED <<apiVars, cancelFlag, queueVars, loopVars, text, stopping,
                 outcome, emitted, clientVars, eventVars, histVars>>

ClearCancel(e) ==
  /\ Goto(e, "finalized", "cleared")
  /\ cancelFlag' = [cancelFlag EXCEPT ![ConvAt(e)] = FALSE]
  /\ UNCHANGED <<apiVars, dbVars, queueVars, loopVars, text, stopping, outcome,
                 emitted, clientVars, eventVars, histVars>>

\* Mutant: a status no reader of the row knows.
FailUnknownStatus(e) ==
  /\ Goto(e, "failing", "failed")
  /\ msg' = [msg EXCEPT ![ent[e]] = "failed"]
  /\ saved' = [saved EXCEPT ![ent[e]] = 0]
  /\ UNCHANGED <<apiVars, cancelFlag, queueVars, loopVars, text, stopping,
                 outcome, emitted, clientVars, eventVars, histVars>>

\* Mutant: the failure is announced without writing the row.
FailUnwritten(e) ==
  /\ Goto(e, "failing", "failed")
  /\ UNCHANGED <<apiVars, dbVars, cancelFlag, queueVars, loopVars, text,
                 stopping, outcome, emitted, clientVars, eventVars, histVars>>

\* _finalize(..., "error") of _fail: the text is replaced by the reason.
FailFinalize(e) ==
  /\ Goto(e, "failing", "failed")
  /\ msg' = [msg EXCEPT ![ent[e]] = "error"]
  /\ saved' = [saved EXCEPT ![ent[e]] = 0]
  /\ UNCHANGED <<apiVars, cancelFlag, queueVars, loopVars, text, stopping,
                 outcome, emitted, clientVars, eventVars, histVars>>

PublishError(e) ==
  /\ Goto(e, "failed", "errored")
  /\ told' = [told EXCEPT ![ent[e]] = @ \cup {"error"}]
  /\ UNCHANGED <<apiVars, dbVars, cancelFlag, queueVars, loopVars, text,
                 stopping, outcome, emitted, clientVars, tokens, histVars>>

PublishDone(e) ==
  /\ pc[e] \in {"cleared", "errored"}
  /\ Return(e)
  /\ told' = [told EXCEPT ![ent[e]] = @ \cup {"done"}]
  /\ UNCHANGED <<apiVars, dbVars, cancelFlag, queueVars, loopVars, text,
                 stopping, pool, live, bound, inCallback, tokens, histVars>>

\* A Redis or database call outside the try block raises: _run_task logs it
\* and the coroutine ends where it stands.
Aborts(e) ==
  /\ pc[e] \in {"admitted", "returned", "failing"} \cup PostFinal
  /\ Fault
  /\ Return(e)
  /\ cut' = cut \cup {ent[e]}
  /\ UNCHANGED <<apiVars, dbVars, cancelFlag, queueVars, loopVars, text,
                 stopping, pool, live, bound, inCallback, eventVars, wanted,
                 ackLost>>

-----------------------------------------------------------------------------
Api(t) == SendCommit(t) \/ SendClearCancel(t) \/ SendEnqueue(t) \/ SendDies(t)

User(c) == PressCancel(c) \/ CancelExpires(c)

Loop == \/ ReadEntry \/ AckEntry \/ AckFails \/ SkipOnShutdown
        \/ (\E e \in Entry : ReclaimAck(e)) \/ ReclaimAdd \/ ReclaimLost
        \/ Signal \/ Crash \/ StopRunner \/ Restart

Task(e) ==
  \/ Admit(e) \/ NoAgent(e) \/ PublishStart(e) \/ GetReuse(e) \/ GetSpawn(e)
  \/ GetRaises(e) \/ GetInstall(e) \/ Update(e) \/ UpdateFails(e)
  \/ CheckCancel(e) \/ PromptReturns(e) \/ Raises(e) \/ DropAfterError(e)
  \/ DropRaises(e) \/ Finalize(e) \/ ClearCancel(e) \/ FailFinalize(e)
  \/ PublishError(e) \/ PublishDone(e) \/ Aborts(e)

Next == \/ \E t \in Turn : Api(t)
        \/ \E c \in Conv : User(c)
        \/ Loop
        \/ \E e \in Entry : Task(e)

Spec == Init /\ [][Next]_vars

(***************************************************************************)
(* Fairness.  The event loop runs every ready coroutine; the API handler   *)
(* runs to its end or dies; a prompt ends by itself or by PROMPT_TIMEOUT   *)
(* (so PromptReturns \/ Raises is fair, the notifications are not); the    *)
(* heartbeat fires every 30 seconds; whoever operates the runner starts it *)
(* again.  Nothing is assumed of failures or of the user.                  *)
(***************************************************************************)
TaskStep(e) ==
  \/ Admit(e) \/ NoAgent(e) \/ PublishStart(e) \/ GetReuse(e) \/ GetSpawn(e)
  \/ GetRaises(e) \/ GetInstall(e) \/ PromptReturns(e) \/ Raises(e)
  \/ DropAfterError(e) \/ DropRaises(e) \/ Finalize(e) \/ ClearCancel(e)
  \/ FailFinalize(e) \/ PublishError(e) \/ PublishDone(e)

Fairness ==
  /\ \A t \in Turn : WF_vars(SendClearCancel(t) \/ SendEnqueue(t))
  /\ WF_vars(ReadEntry)
  /\ WF_vars(AckEntry \/ SkipOnShutdown)
  /\ WF_vars(ReclaimAdd)
  /\ \A e \in Entry : WF_vars(ReclaimAck(e))
  /\ \A e \in Entry : WF_vars(CheckCancel(e))
  /\ \A e \in Entry : WF_vars(TaskStep(e))
  /\ WF_vars(StopRunner)
  /\ WF_vars(Restart)

FairSpec == Spec /\ Fairness

-----------------------------------------------------------------------------
(***************************************************************************)
(* Properties.                                                             *)
(***************************************************************************)

\* An entry is handled when the main loop has created a task for it.
Handled(e) == pc[e] # "none"

\* One send is handled by at most one task, however many entries the reclaim
\* and restarts add to the stream -- unless an XACK failed after the delivery.
HandledOnce ==
  \A e, f \in Entry :
    /\ Handled(e) /\ Handled(f)
    /\ ent[e] = ent[f]
    /\ ent[e] \notin ackLost
    => e = f

\* A turn ends up "cancelled" only when the user pressed cancel while that
\* turn was streaming: a flag left over from an earlier turn of the
\* conversation never stops a later one (clear_cancel precedes the enqueue).
NoSpuriousCancel ==
  \A t \in Turn : msg[t] = "cancelled" /\ t \notin ackLost => t \in wanted

\* The done event never overtakes the commit of the final row, so a client
\* that reloads on done finds a closed message.
DoneAfterCommit ==
  \A t \in Turn : "done" \in told[t] => msg[t] \in Terminal

\* A turn that was sent and is still streaming is in the stream, in the
\* pending list, in the hands of the main loop or of the reclaim, or with a
\* task; otherwise a recorded failure cut it short.  Nothing leaks silently.
NothingLeaks ==
  \A t \in Turn :
    api[t] = "sent" /\ msg[t] = "streaming" /\ t \notin cut =>
      \E e \in Entry :
        /\ ent[e] = t
        /\ \/ delivered < e
           \/ e \in pel
           \/ e \in {fetched, reclaiming}
           \/ pc[e] \in PreFinal

\* No turn of the conversation of t is handled twice, nor may it be.
Undoubted(t) == \A u \in Turn : ConvOf[u] = ConvOf[t] => u \notin ackLost

\* When a conversation gets its turns one after the other, the stored text of
\* a finished turn is the text that was streamed to the user, chunk for chunk.
SavedIsStreamed ==
  \A t \in Turn : msg[t] \in {"complete", "cancelled"} /\ Undoubted(t)
                    => saved[t] = tokens[t]

\* When a conversation gets its turns one after the other, no token event of a
\* message follows its done event.
NoTokenAfterDone ==
  [][\A t \in Turn : tokens'[t] # tokens[t] /\ Undoubted(t)
                       => "done" \notin told[t]]_vars

\* The pipeline implements the life cycle promised for a message.
Lifecycle == INSTANCE TurnLifecycle
               WITH status    <- msg,
                    announced <- {t \in Turn : "done" \in told[t]},
                    doubt     <- ackLost

ImplementsLifecycle == Lifecycle!Spec

\* A turn that was sent reaches its end and the client is told, unless a
\* failure cut it short: waiting for the semaphore, draining and restarting
\* only delay it.
EveryTurnSettles ==
  \A t \in Turn :
    api[t] = "sent" ~> \/ t \in cut
                       \/ msg[t] \in Terminal /\ "done" \in told[t]

=============================================================================
