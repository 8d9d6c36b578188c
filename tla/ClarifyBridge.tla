---------------------------- MODULE ClarifyBridge ----------------------------
(***************************************************************************)
(* An agent that asks the user a question in the middle of a prompt.  The  *)
(* agent pushes a request on a Redis list and blocks on a response list of *)
(* its own; the task of the turn polls the requests, records each in the   *)
(* message row, shows it and starts a waiter; the waiter waits for the     *)
(* user's answer, the cancel flag or the timeout, pushes the answer to the *)
(* agent and writes the outcome into the row.  Meanwhile the turn may end  *)
(* and write the final row, or fail and write an error in its place.       *)
(***************************************************************************)
EXTENDS Naturals, Sequences

CONSTANTS
  MaxAsks,     \* bound: questions of one turn
  Choice,      \* what the user may answer
  MaxAnswers,  \* bound: answers sent to the confirm endpoint
  MaxClarifyFaults,   \* bound: failing deliveries
  Overlap      \* other turns of the conversation may clear the cancel flag

ASSUME ClarifyBounds == MaxAsks \in Nat /\ MaxAnswers \in Nat /\ MaxClarifyFaults \in Nat
ASSUME ClarifyFlag   == Overlap \in BOOLEAN

Ask      == 1..MaxAsks
Nothing  == "nothing"
TimedOut == "timed_out"   \* the choice 超时
Declined == "declined"    \* the choice 已取消
ASSUME ChoiceType == {Nothing, "pending", TimedOut, Declined} \cap Choice = {}
Outcome  == Choice \cup {TimedOut, Declined}

\* What the row says of a question: nothing, pending, or the outcome.
Record == {Nothing, "pending"} \cup Outcome

VARIABLES
  agent,     \* "running", "blocked" in clarify_callback, "returned"
  asked,     \* questions asked so far
  got,       \* [Ask -> Outcome or Nothing]  what clarify_callback returned
  requests,  \* hermes:clarify:req:{sid}
  response,  \* [Ask -> Seq(Outcome)]  hermes:clarify:resp:{sid}:{id}
  confirm,   \* [Ask -> Choice or Nothing]  confirm:{conv}:{id}
  cancelled, \* the cancel flag of the conversation
  poller,    \* handle_single: "polling", "recording", "final", "failing" or "over"
  handling,  \* the request the task has popped, 0 if none
  clarifies, \* [Ask -> Record]  acc["clarifies"], shared with the waiters
  waiter,    \* [Ask -> ...]  _wait_and_unblock_clarify
  notified,  \* [Ask -> BOOLEAN]  unread message of the waiter's subscription
  choice,    \* [Ask -> Outcome or Nothing]  the waiter's choice
  posting,   \* asks whose answer is stored and not yet published
  row,       \* the message row: final text, and the record of each question
  copy,      \* [Ask -> row]  the row as read by _write_clarifies
  answered,  \* history: [Ask -> SUBSET Choice]  answers the user gave
  pressed,   \* history: the user has pressed cancel
  dropped,   \* history: questions that were over when a failing turn replaced the row
  answers,   \* answers so far
  clarifyFaults     \* failures so far

agentVars  == <<agent, asked, got>>
redisVars  == <<requests, response, confirm, cancelled>>
taskVars   == <<poller, handling, clarifies>>
waiterVars == <<waiter, notified, choice, copy>>
userVars   == <<posting, answered, pressed, answers>>
savedVars  == <<row, dropped>>
clarifyVars == <<agent, asked, got, requests, response, confirm, cancelled, poller,
          handling, clarifies, waiter, notified, choice, posting, row, copy,
          answered, pressed, dropped, answers, clarifyFaults>>

Row == [text : BOOLEAN, records : [Ask -> Record]]
Blank == [text |-> FALSE, records |-> [i \in Ask |-> Nothing]]

WaiterPC == {"none", "subscribing", "checking", "waiting", "chosen", "published",
             "delivered", "writing", "done"}

ClarifyTypeOK ==
  /\ agent \in {"running", "blocked", "returned"} /\ asked \in 0..MaxAsks
  /\ got \in [Ask -> Outcome \cup {Nothing}]
  /\ requests \in Seq(Ask)
  /\ response \in [Ask -> Seq(Outcome)]
  /\ confirm \in [Ask -> Choice \cup {Nothing}]
  /\ cancelled \in BOOLEAN
  /\ poller \in {"polling", "recording", "final", "failing", "over"}
  /\ handling \in 0..MaxAsks
  /\ clarifies \in [Ask -> Record]
  /\ waiter \in [Ask -> WaiterPC]
  /\ notified \in [Ask -> BOOLEAN]
  /\ choice \in [Ask -> Outcome \cup {Nothing}]
  /\ posting \subseteq Ask
  /\ row \in Row /\ copy \in [Ask -> Row]
  /\ answered \in [Ask -> SUBSET Choice] /\ pressed \in BOOLEAN /\ dropped \subseteq Ask
  /\ answers \in 0..MaxAnswers /\ clarifyFaults \in 0..MaxClarifyFaults

ClarifyInit ==
  /\ agent = "running" /\ asked = 0
  /\ got = [i \in Ask |-> Nothing]
  /\ requests = <<>>
  /\ response = [i \in Ask |-> <<>>]
  /\ confirm = [i \in Ask |-> Nothing]
  /\ cancelled = FALSE
  /\ poller = "polling" /\ handling = 0
  /\ clarifies = [i \in Ask |-> Nothing]
  /\ waiter = [i \in Ask |-> "none"]
  /\ notified = [i \in Ask |-> FALSE]
  /\ choice = [i \in Ask |-> Nothing]
  /\ posting = {}
  /\ row = Blank /\ copy = [i \in Ask |-> Blank]
  /\ answered = [i \in Ask |-> {}] /\ pressed = FALSE /\ dropped = {}
  /\ answers = 0 /\ clarifyFaults = 0

-----------------------------------------------------------------------------
(* The agent: clarify_callback of the patched hermes-agent. *)

AgentAsks ==
  /\ agent = "running"
  /\ asked < MaxAsks
  /\ asked' = asked + 1
  /\ requests' = Append(requests, asked + 1)
  /\ agent' = "blocked"
  /\ UNCHANGED <<got, response, confirm, cancelled, taskVars, waiterVars, savedVars,
                 userVars, clarifyFaults>>

\* BLPOP: returns at once when the answer was pushed before the wait began.
AgentResumes ==
  /\ agent = "blocked"
  /\ response[asked] # <<>>
  /\ got' = [got EXCEPT ![asked] = Head(response[asked])]
  /\ response' = [response EXCEPT ![asked] = Tail(@)]
  /\ agent' = "running"
  /\ UNCHANGED <<asked, requests, confirm, cancelled, taskVars, waiterVars, savedVars,
                 userVars, clarifyFaults>>

\* BLPOP gives up after 300 seconds, which is longer than the waiter waits.
AgentGivesUp ==
  /\ agent = "blocked"
  /\ response[asked] = <<>>
  /\ \/ waiter[asked] \in {"delivered", "writing", "done"}
     \/ waiter[asked] = "none" /\ clarifies[asked] = "pending" /\ handling # asked
  /\ got' = [got EXCEPT ![asked] = TimedOut]
  /\ agent' = "running"
  /\ UNCHANGED <<asked, redisVars, taskVars, waiterVars, savedVars, userVars, clarifyFaults>>

AgentReturns ==
  /\ agent = "running"
  /\ agent' = "returned"
  /\ UNCHANGED <<asked, got, redisVars, taskVars, waiterVars, savedVars, userVars, clarifyFaults>>

-----------------------------------------------------------------------------
(* The task of the turn: the polling loop of handle_single. *)

\* pop_clarify_request, then _record_clarify appends to acc["clarifies"].
Pop ==
  /\ poller = "polling"
  /\ requests # <<>>
  /\ handling' = Head(requests)
  /\ requests' = Tail(requests)
  /\ clarifies' = [clarifies EXCEPT ![Head(requests)] = "pending"]
  /\ poller' = "recording"
  /\ UNCHANGED <<agentVars, response, confirm, cancelled, waiterVars, savedVars,
                 userVars, clarifyFaults>>

\* The record is written, the question shown and the waiter created.  The task
\* waits for all of it, and the earlier waiters write other questions' records.
Show ==
  /\ poller = "recording"
  /\ row' = [row EXCEPT !.records = clarifies]
  /\ waiter' = [waiter EXCEPT ![handling] = "subscribing"]
  /\ handling' = 0
  /\ poller' = "polling"
  /\ UNCHANGED <<agentVars, redisVars, clarifies, notified, choice, copy,
                 dropped, userVars, clarifyFaults>>

\* The question cannot be published: the request is gone, nobody waits for it.
ShowFails ==
  /\ poller = "recording"
  /\ clarifyFaults < MaxClarifyFaults
  /\ clarifyFaults' = clarifyFaults + 1
  /\ row' = [row EXCEPT !.records = clarifies]
  /\ handling' = 0
  /\ poller' = "polling"
  /\ UNCHANGED <<agentVars, redisVars, clarifies, waiterVars, dropped, userVars>>

LoopEnds ==
  /\ poller = "polling"
  /\ agent = "returned"
  /\ poller' = "final"
  /\ UNCHANGED <<agentVars, redisVars, handling, clarifies, waiterVars, savedVars,
                 userVars, clarifyFaults>>

\* _finalize replaces the whole content.
Finalize ==
  /\ poller = "final"
  /\ poller' = "over"
  /\ row' = [text |-> TRUE, records |-> clarifies]
  /\ UNCHANGED <<agentVars, redisVars, handling, clarifies, waiterVars, dropped,
                 userVars, clarifyFaults>>

\* The prompt raises or times out, even while the agent waits for an answer: the
\* agent is dropped.  The waiters are tasks of their own and go on.
PromptFails ==
  /\ poller = "polling"
  /\ poller' = "failing"
  /\ agent' = "returned"
  /\ UNCHANGED <<asked, got, redisVars, handling, clarifies, waiterVars, savedVars,
                 userVars, clarifyFaults>>

Finished == {i \in Ask : waiter[i] = "done"}

\* _fail finalizes with the error text and without the recorded questions: the row
\* keeps none, until a waiter that is still running writes them again.
Fail ==
  /\ poller = "failing"
  /\ poller' = "over"
  /\ row' = [Blank EXCEPT !.text = TRUE]
  /\ dropped' = Finished
  /\ UNCHANGED <<agentVars, redisVars, handling, clarifies, waiterVars, userVars,
                 clarifyFaults>>

-----------------------------------------------------------------------------
(* The waiter: _wait_and_unblock_clarify and wait_for_confirmation. *)

WaiterVarsBut(i, pc) == waiter' = [waiter EXCEPT ![i] = pc]

\* GET, then DELETE: a second answer that comes between the two goes with the first.
Take(i) ==
  /\ choice' = [choice EXCEPT ![i] = confirm[i]]
  /\ confirm' = [confirm EXCEPT ![i] = Nothing]

Subscribe(i) ==
  /\ waiter[i] = "subscribing"
  /\ WaiterVarsBut(i, "checking")
  /\ UNCHANGED <<agentVars, redisVars, taskVars, notified, choice, copy, savedVars,
                 userVars, clarifyFaults>>

\* Mutant: the answer is not looked up once the waiter has subscribed.
CheckNothing(i) ==
  /\ waiter[i] = "checking"
  /\ WaiterVarsBut(i, "waiting")
  /\ UNCHANGED <<agentVars, redisVars, taskVars, notified, choice, copy, savedVars,
                 userVars, clarifyFaults>>

\* Is the answer there already?
Check(i) ==
  /\ waiter[i] = "checking"
  /\ IF confirm[i] # Nothing
       THEN WaiterVarsBut(i, "chosen") /\ Take(i)
       ELSE WaiterVarsBut(i, "waiting") /\ UNCHANGED <<choice, confirm>>
  /\ UNCHANGED <<agentVars, requests, response, cancelled, taskVars, notified,
                 copy, savedVars, userVars, clarifyFaults>>

\* A message of the conversation's channel, for this question or another one.
Notified(i) ==
  /\ waiter[i] = "waiting"
  /\ notified[i]
  /\ notified' = [notified EXCEPT ![i] = FALSE]
  /\ IF confirm[i] # Nothing
       THEN WaiterVarsBut(i, "chosen") /\ Take(i)
       ELSE UNCHANGED <<waiter, choice, confirm>>
  /\ UNCHANGED <<agentVars, requests, response, cancelled, taskVars, copy, savedVars,
                 userVars, clarifyFaults>>

\* is_cancelled, looked at once per second.
SeesCancel(i) ==
  /\ waiter[i] = "waiting"
  /\ cancelled
  /\ choice' = [choice EXCEPT ![i] = Declined]
  /\ WaiterVarsBut(i, "chosen")
  /\ UNCHANGED <<agentVars, redisVars, taskVars, notified, copy, savedVars, userVars,
                 clarifyFaults>>

WaitExpires(i) ==
  /\ waiter[i] = "waiting"
  /\ choice' = [choice EXCEPT ![i] = TimedOut]
  /\ WaiterVarsBut(i, "chosen")
  /\ UNCHANGED <<agentVars, redisVars, taskVars, notified, copy, savedVars, userVars,
                 clarifyFaults>>

\* confirmation_response is published; a failure is only logged.
PublishResponse(i) ==
  /\ waiter[i] = "chosen"
  /\ WaiterVarsBut(i, "published")
  /\ UNCHANGED <<agentVars, redisVars, taskVars, notified, choice, copy, savedVars,
                 userVars, clarifyFaults>>

\* Mutant: the questions of a conversation share one list of responses.
DeliverShared(i) ==
  /\ waiter[i] = "published"
  /\ response' = [j \in Ask |-> Append(response[j], choice[i])]
  /\ WaiterVarsBut(i, "delivered")
  /\ UNCHANGED <<agentVars, requests, confirm, cancelled, taskVars, notified,
                 choice, copy, savedVars, userVars, clarifyFaults>>

\* deliver_clarify_response, at the first or the second try.
Deliver(i) ==
  /\ waiter[i] = "published"
  /\ response' = [response EXCEPT ![i] = Append(@, choice[i])]
  /\ WaiterVarsBut(i, "delivered")
  /\ UNCHANGED <<agentVars, requests, confirm, cancelled, taskVars, notified,
                 choice, copy, savedVars, userVars, clarifyFaults>>

\* Both tries fail; or the first reached Redis and is repeated all the same.
DeliverFails(i) ==
  /\ waiter[i] = "published"
  /\ clarifyFaults < MaxClarifyFaults
  /\ clarifyFaults' = clarifyFaults + 1
  /\ \E s \in {<<>>, <<choice[i], choice[i]>>} :
       response' = [response EXCEPT ![i] = @ \o s]
  /\ WaiterVarsBut(i, "delivered")
  /\ UNCHANGED <<agentVars, requests, confirm, cancelled, taskVars, notified,
                 choice, copy, savedVars, userVars>>

\* Mutant: the outcome recorded is the newest answer in Redis.
ReadNewest(i) ==
  /\ waiter[i] = "delivered"
  /\ clarifies' = [clarifies EXCEPT ![i] = IF confirm[i] # Nothing THEN confirm[i]
                                                                  ELSE choice[i]]
  /\ copy' = [copy EXCEPT ![i] = [row EXCEPT !.records[i] = clarifies'[i]]]
  /\ WaiterVarsBut(i, "writing")
  /\ UNCHANGED <<agentVars, redisVars, poller, handling, notified, choice, savedVars,
                 userVars, clarifyFaults>>

\* _update_clarify sets the outcome in acc and reads the row ...
ReadRow(i) ==
  /\ waiter[i] = "delivered"
  /\ clarifies' = [clarifies EXCEPT ![i] = choice[i]]
  /\ copy' = [copy EXCEPT ![i] = [row EXCEPT !.records[i] = choice[i]]]
  /\ WaiterVarsBut(i, "writing")
  /\ UNCHANGED <<agentVars, redisVars, poller, handling, notified, choice, savedVars,
                 userVars, clarifyFaults>>

\* ... and commits the text it has read with the records acc has by now: the
\* list is shared by the waiters and serialised when the row is flushed.
WriteRow(i) ==
  /\ waiter[i] = "writing"
  /\ row' = [text |-> copy[i].text, records |-> clarifies]
  /\ WaiterVarsBut(i, "done")
  /\ UNCHANGED <<agentVars, redisVars, taskVars, notified, choice, copy, dropped,
                 userVars, clarifyFaults>>

\* The write fails: a warning is logged.
WriteFails(i) ==
  /\ waiter[i] = "writing"
  /\ clarifyFaults < MaxClarifyFaults
  /\ clarifyFaults' = clarifyFaults + 1
  /\ WaiterVarsBut(i, "done")
  /\ UNCHANGED <<agentVars, redisVars, taskVars, notified, choice, copy, savedVars,
                 userVars>>

-----------------------------------------------------------------------------
(* The user: the confirm endpoint, cancel, and other turns. *)

\* SET confirm:{conv}:{id}.  The modal stays open until the response event.
Answer(i, c) ==
  /\ waiter[i] \notin {"none", "published", "delivered", "writing", "done"}
  /\ i \notin posting
  /\ answers < MaxAnswers
  /\ answers' = answers + 1
  /\ confirm' = [confirm EXCEPT ![i] = c]
  /\ answered' = [answered EXCEPT ![i] = @ \cup {c}]
  /\ posting' = posting \cup {i}
  /\ UNCHANGED <<agentVars, requests, response, cancelled, taskVars, waiterVars,
                 savedVars, pressed, clarifyFaults>>

\* PUBLISH confirm_notify:{conv} reaches the waiters that have subscribed.
Notify(i) ==
  /\ i \in posting
  /\ posting' = posting \ {i}
  /\ notified' = [j \in Ask |-> notified[j] \/ waiter[j] \in {"checking", "waiting"}]
  /\ UNCHANGED <<agentVars, redisVars, taskVars, waiter, choice, copy, savedVars,
                 answered, pressed, answers, clarifyFaults>>

PressCancel ==
  /\ poller # "over"
  /\ ~cancelled
  /\ cancelled' = TRUE
  /\ pressed' = TRUE
  /\ UNCHANGED <<agentVars, requests, response, confirm, taskVars, waiterVars, savedVars,
                 posting, answered, answers, clarifyFaults>>

\* A turn of the conversation is sent or finishes: clear_cancel.
FlagCleared ==
  /\ Overlap
  /\ cancelled
  /\ cancelled' = FALSE
  /\ UNCHANGED <<agentVars, requests, response, confirm, taskVars, waiterVars, savedVars,
                 userVars, clarifyFaults>>

-----------------------------------------------------------------------------
AgentStep == AgentAsks \/ AgentResumes \/ AgentGivesUp \/ AgentReturns
PollerStep  == Pop \/ Show \/ ShowFails \/ LoopEnds \/ Finalize \/ PromptFails \/ Fail
Waiter(i) ==
  \/ Subscribe(i) \/ Check(i) \/ Notified(i) \/ SeesCancel(i) \/ WaitExpires(i)
  \/ PublishResponse(i) \/ Deliver(i) \/ DeliverFails(i) \/ ReadRow(i) \/ WriteRow(i)
  \/ WriteFails(i)

ClarifyNext == \/ AgentStep \/ PollerStep
        \/ \E i \in Ask : Waiter(i) \/ Notify(i) \/ \E c \in Choice : Answer(i, c)
        \/ PressCancel \/ FlagCleared

ClarifySpec == ClarifyInit /\ [][ClarifyNext]_clarifyVars

-----------------------------------------------------------------------------
\* The agent gets for a question what the user answered to that question, and
\* hears that it was cancelled only if the user pressed cancel.
AnswersBelong ==
  \A i \in Ask : /\ got[i] \in Choice => got[i] \in answered[i]
                 /\ got[i] = Declined => pressed

\* What the row ends up saying of a question is what the waiter gave the agent,
\* unless the agent had given up.
RecordedIsDelivered ==
  \A i \in Ask : got[i] # Nothing /\ clarifies[i] \in Outcome
                   => got[i] = clarifies[i] \/ got[i] = TimedOut

\* Race-free by construction: an answer that is stored while its waiter waits has
\* a notification that the waiter has not read or that is about to be published,
\* however the answer, the subscription and the waits interleave.
NoLostWakeup ==
  \A i \in Ask : confirm[i] # Nothing /\ waiter[i] = "waiting"
                   => notified[i] \/ i \in posting

\* When the waiter of a question is done the row has its outcome, and keeps it,
\* although two waiters and the end of the turn write the same row.  A turn that
\* fails takes the outcomes out, which are back as soon as any waiter finishes.
OutcomeSaved ==
  clarifyFaults = 0 => \/ \A i \in Finished : row.records[i] \in Outcome
                       \/ Finished \subseteq dropped

\* The agent message row is written once on completion: what the final write
\* stored stays.
FinalTextStays == poller = "over" => row.text

\* The row ends up with the outcome that the agent was given, for every question
\* whose waiter is done, unless the turn fails after the last of them.
OutcomeTrue == ClarifyTypeOK /\ RecordedIsDelivered /\ OutcomeSaved
=============================================================================
