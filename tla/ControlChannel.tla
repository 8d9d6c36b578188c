--------------------------- MODULE ControlChannel ---------------------------
(***************************************************************************)
(* The API asks the runner to fork an agent's session or to set its model: *)
(* a request on a Redis stream, an answer on a pub/sub channel of the      *)
(* conversation.  The runner passes it on to the agent's subprocess over   *)
(* JSON-RPC, where it shares the pipe and the read loop with the turn's    *)
(* prompt and with the agent's own requests.                               *)
(***************************************************************************)
EXTENDS Naturals, Sequences

CONSTANTS
  Chat, Live,    \* conversations; Live is the one that has a client in the pool
  MaxControls,   \* bound: control requests
  MaxAgentAsks   \* bound: file writes and permissions the agent asks for

Control == 1..MaxControls
Turn0   == 0                    \* the turn's prompt on the live client
Rpc     == Control \cup {Turn0}

ASSUME ControlConstants ==
  Live \in Chat /\ MaxControls \in Nat /\ MaxAgentAsks \in Nat

VARIABLES
  control, \* [Control -> pc ("fresh", "published", "waiting", "over"), chat, inbox, got]
  entries, \* acp:control, the runner's unread part
  handler, \* [Control -> "none", "asking", "answered" or "lost"], the runner's task
  future,  \* [Rpc -> "none", "open", "reply" or "error" (timeouts too)]
  unread,  \* requests the agent has not answered
  pipe,    \* the agent's stdout: answers (a request's id) and "ask" (its own requests)
  loop,    \* read loop of the live client: "reading", "serving" a request of the agent, "ended"
  asks,    \* requests the agent has made
  chist    \* history: overlap (controls of one chat under way together), after (requests
           \* written after the loop had ended)

controlVars == <<control, entries, handler, future, unread, pipe, loop, asks, chist>>
rpcVars     == <<future, unread, pipe, loop, asks>>

ControlInit ==
  /\ control = [c \in Control |-> [pc |-> "fresh", chat |-> Live, inbox |-> <<>>, got |-> 0]]
  /\ entries = <<>>
  /\ handler = [c \in Control |-> "none"]
  /\ future = [r \in Rpc |-> "none"]
  /\ unread = {}
  /\ pipe = <<>>
  /\ loop = "reading"
  /\ asks = 0
  /\ chist = [overlap |-> {}, after |-> {}]

-----------------------------------------------------------------------------
(* The API: publish, subscribe, take the first message or time out.         *)

UnderWay(c) ==
  \/ control[c].pc \in {"published", "waiting"} \/ handler[c] = "asking"
  \/ \E i \in DOMAIN entries : entries[i] = c

PublishControl(c, x) ==
  /\ control[c].pc = "fresh" /\ \A d \in 1..(c - 1) : control[d].pc # "fresh"
  /\ control' = [control EXCEPT ![c].pc = "published", ![c].chat = x]
  /\ entries' = Append(entries, c)
  /\ chist' = [chist EXCEPT !.overlap =
       LET others == {d \in Control \ {c} : control[d].chat = x /\ UnderWay(d)} IN
         IF others = {} THEN @ ELSE @ \cup others \cup {c}]
  /\ UNCHANGED <<handler, rpcVars>>

SubscribeControl(c) ==
  /\ control[c].pc = "published"
  /\ control' = [control EXCEPT ![c].pc = "waiting"]
  /\ UNCHANGED <<entries, handler, rpcVars, chist>>

TakeAnswer(c) ==
  /\ control[c].pc = "waiting" /\ control[c].inbox # <<>>
  /\ control' = [control EXCEPT ![c].pc = "over", ![c].got = Head(control[c].inbox)]
  /\ UNCHANGED <<entries, handler, rpcVars, chist>>

ControlTimesOut(c) ==
  /\ control[c].pc = "waiting"
  /\ control' = [control EXCEPT ![c].pc = "over"]
  /\ UNCHANGED <<entries, handler, rpcVars, chist>>

-----------------------------------------------------------------------------
(* The runner's control loop: acknowledge, then one task per request.       *)

(* Pub/sub reaches who is subscribed to the channel at that moment. *)
Publish(c) ==
  control' = [d \in Control |-> IF control[d].chat = control[c].chat /\ control[d].pc = "waiting"
                                THEN [control[d] EXCEPT !.inbox = Append(@, c)] ELSE control[d]]

HandleNoSession ==
  /\ entries # <<>> /\ control[Head(entries)].chat # Live
  /\ entries' = Tail(entries)
  /\ handler' = [handler EXCEPT ![Head(entries)] = "answered"]
  /\ Publish(Head(entries))
  /\ UNCHANGED <<rpcVars, chist>>

ControlLost ==
  /\ entries # <<>>
  /\ entries' = Tail(entries)
  /\ handler' = [handler EXCEPT ![Head(entries)] = "lost"]
  /\ UNCHANGED <<control, rpcVars, chist>>

(* _request: the future is registered, then the line is written. *)
Requests(r) ==
  /\ future' = [future EXCEPT ![r] = "open"]
  /\ unread' = unread \cup {r}
  /\ chist' = [chist EXCEPT !.after = IF loop = "ended" THEN @ \cup {r} ELSE @]

HandleControl ==
  /\ entries # <<>> /\ control[Head(entries)].chat = Live
  /\ entries' = Tail(entries)
  /\ handler' = [handler EXCEPT ![Head(entries)] = "asking"]
  /\ Requests(Head(entries))
  /\ UNCHANGED <<control, pipe, loop, asks>>

(* The answer, the error or the runner's own timeout is published. *)
ControlAnswered(c) ==
  /\ handler[c] = "asking" /\ future[c] # "open"
  /\ handler' = [handler EXCEPT ![c] = "answered"]
  /\ Publish(c)
  /\ UNCHANGED <<entries, rpcVars, chist>>

PromptAgent ==
  /\ future[Turn0] = "none"
  /\ Requests(Turn0)
  /\ UNCHANGED <<control, entries, handler, pipe, loop, asks>>

RequestTimesOut(r) ==
  /\ future[r] = "open"
  /\ future' = [future EXCEPT ![r] = "error"]
  /\ UNCHANGED <<control, entries, handler, unread, pipe, loop, asks, chist>>

-----------------------------------------------------------------------------
(* The agent answers in any order and asks for files and permissions.       *)

AgentAnswers(r) ==
  /\ r \in unread
  /\ unread' = unread \ {r}
  /\ pipe' = Append(pipe, [answer |-> TRUE, id |-> r])
  /\ UNCHANGED <<control, entries, handler, future, loop, asks, chist>>

AgentRequests ==
  /\ asks < MaxAgentAsks
  /\ asks' = asks + 1
  /\ pipe' = Append(pipe, [answer |-> FALSE, id |-> asks + 1])
  /\ UNCHANGED <<control, entries, handler, future, unread, loop, chist>>

(* _dispatch of an answer; one that comes after the timeout is dropped. *)
Answered ==
  /\ loop = "reading" /\ pipe # <<>> /\ Head(pipe).answer
  /\ pipe' = Tail(pipe)
  /\ future' = [future EXCEPT ![Head(pipe).id] = IF @ = "open" THEN "reply" ELSE @]
  /\ UNCHANGED <<control, entries, handler, unread, loop, asks, chist>>

(* A request of the agent is served inside the read loop; whatever saving   *)
(* the file does, the agent gets a response.                                *)
ServeAgent ==
  /\ loop = "reading" /\ pipe # <<>> /\ ~Head(pipe).answer
  /\ pipe' = Tail(pipe)
  /\ loop' = "serving"
  /\ UNCHANGED <<control, entries, handler, future, unread, asks, chist>>

ServeEnds ==
  /\ loop = "serving"
  /\ loop' = "reading"
  /\ UNCHANGED <<control, entries, handler, future, unread, pipe, asks, chist>>

(* The process closes its pipe, a callback raises, or the client is stopped. *)
LoopEndsWith(f) ==
  /\ loop # "ended" /\ loop' = "ended"
  /\ future' = f
  /\ UNCHANGED <<control, entries, handler, unread, pipe, asks, chist>>

ReadLoopEndsSilently == LoopEndsWith(future)
ReadLoopEnds == LoopEndsWith([r \in Rpc |-> IF future[r] = "open" THEN "error" ELSE future[r]])

-----------------------------------------------------------------------------
ControlNext ==
  \/ \E c \in Control : \/ \E x \in Chat : PublishControl(c, x)
                        \/ SubscribeControl(c) \/ TakeAnswer(c) \/ ControlTimesOut(c)
                        \/ ControlAnswered(c)
  \/ HandleNoSession \/ HandleControl \/ ControlLost \/ PromptAgent
  \/ \E r \in Rpc : RequestTimesOut(r) \/ AgentAnswers(r)
  \/ AgentRequests \/ Answered \/ ServeAgent \/ ServeEnds \/ ReadLoopEnds

ControlSpec == ControlInit /\ [][ControlNext]_controlVars

-----------------------------------------------------------------------------
(* A caller is answered about its own request, unless another control of    *)
(* the same conversation was under way: the answers carry no request id.    *)
AnswerIsOwn ==
  \A c \in Control : control[c].got \notin {0, c} => c \in chist.overlap

(* When the read loop has ended, no request written before waits on.        *)
NoneHangs == loop = "ended" => \A r \in Rpc : future[r] = "open" => r \in chist.after

(* An answer that a caller gets is the answer to its own request, overlap   *)
(* apart, and nobody waits on a pipe that is gone.  It is no promise of an   *)
(* answer: one published before its caller has subscribed is missed, and    *)
(* the caller times out.                                                     *)
AnswersReturn == AnswerIsOwn /\ NoneHangs
=============================================================================
