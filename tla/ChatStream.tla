------------------------------ MODULE ChatStream ------------------------------
(***************************************************************************)
(* The live stream of a conversation, from the runner that publishes the   *)
(* events of a turn to the browser that shows them.  The events of a       *)
(* conversation are a capped Redis stream; the SSE endpoint relays them    *)
(* from a position the browser chooses; the chat store applies them to the *)
(* messages on screen, switches between conversations and reconnects.      *)
(***************************************************************************)
EXTENDS Naturals, Sequences, FiniteSets, SequencesExt

CONSTANTS
  Conv, NoConv,
  Turn,         \* Nat: turns, in the order of their rows
  ConvOf,       \* [Turn -> Conv]
  Tokens,       \* bound: tokens of a turn
  Cap,          \* EVENT_STREAM_MAXLEN
  GiveUp,       \* SSE_MAX_ERRORS
  MaxOpens,     \* bound: conversations the user opens
  MaxErrors,    \* bound: connections that fail
  MaxRetries,   \* bound: publications that are repeated
  Hasty,        \* the user acts while something is loading or being sent
  Slow,         \* a message may be posted before the stream is listening
  Mine,         \* the turns this browser sends; other devices send the rest
  Cancels       \* the user presses stop

ASSUME TurnType   == /\ Turn \subseteq Nat /\ Mine \subseteq Turn
                     /\ ConvOf \in [Turn -> Conv] /\ NoConv \notin Conv
ASSUME BoundsType == /\ {Tokens, Cap, GiveUp} \subseteq Nat \ {0}
                     /\ {MaxOpens, MaxErrors, MaxRetries} \subseteq Nat
ASSUME FlagsType  == {Hasty, Slow, Cancels} \subseteq BOOLEAN

\* The events of a turn, by number: start, the tokens, done with the full text.
Start == 1
Done  == Tokens + 2
Full  == [k \in 1..Tokens |-> k]

Absent == [status |-> "absent", text |-> <<>>]
Closed == [pc |-> "none", conv |-> NoConv, now |-> FALSE, since |-> 0, cursor |-> 0,
           errors |-> 0]

VARIABLES
  row,        \* [Turn -> ...]  the agent message of the turn in the database
  sent,       \* [Turn -> Nat]  events published of the turn
  stream,     \* [Conv -> Seq([turn, ev])]  every event published, trimmed ones too
  born,       \* [Turn -> [Conv -> Nat]]  created_at, as a position in the streams
  retries,    \* repeated publications so far
  link,       \* the EventSource: its url (conv, now or since), the server's cursor
  handlers,   \* the chat store has its handlers registered
  timer,      \* the refresh timer of these handlers is running
  oldTimers,  \* running refresh timers of earlier registrations
  active,     \* activeId
  streaming,  \* streamingConvoId
  shown,      \* [Turn -> [status, text]]  messages on screen
  opening,    \* calls of openConversation: sequence of [pc, conv]
  sending,    \* [Turn -> ...]  sendSingle
  errors      \* failed connections so far

serverVars == <<row, sent, stream, born, retries>>
viewVars   == <<active, streaming, shown>>
timerVars  == <<timer, oldTimers>>
callVars   == <<opening, sending>>
vars == <<serverVars, link, handlers, viewVars, timerVars, callVars, errors>>

TypeOK ==
  /\ row \in [Turn -> {"none", "streaming", "complete"}]
  /\ sent \in [Turn -> 0..Done]
  /\ \A c \in Conv : \A i \in DOMAIN stream[c] : ConvOf[stream[c][i].turn] = c
  /\ link.pc \in {"none", "connecting", "open", "backoff"}
  /\ link.errors < GiveUp
  /\ link.conv \in Conv => link.cursor <= Len(stream[link.conv])
  /\ handlers \in BOOLEAN /\ timer \in BOOLEAN /\ oldTimers \in Nat
  /\ active \in Conv \cup {NoConv} /\ streaming \in Conv \cup {NoConv}
  /\ \A t \in Turn : shown[t].status \in {"absent", "streaming", "complete"}
  /\ sending \in [Turn -> {"no", "opening", "posting", "sent"}]

Init ==
  /\ row = [t \in Turn |-> "none"] /\ sent = [t \in Turn |-> 0]
  /\ stream = [c \in Conv |-> <<>>]
  /\ born = [t \in Turn |-> [c \in Conv |-> 0]]
  /\ retries = 0
  /\ link = Closed /\ handlers = FALSE
  /\ timer = FALSE /\ oldTimers = 0
  /\ active \in Conv /\ streaming = NoConv
  /\ shown = [t \in Turn |-> Absent]
  /\ opening = <<>> /\ sending = [t \in Turn |-> "no"]
  /\ errors = 0

-----------------------------------------------------------------------------
(* The API and the runner. *)

\* The row of a turn is created; turns of a conversation do not overlap here.
Create(t) ==
  /\ row[t] = "none"
  /\ \A u \in Turn : ConvOf[u] = ConvOf[t] =>
       IF u < t THEN sent[u] = Done ELSE row[u] = "none"
  /\ row' = [row EXCEPT ![t] = "streaming"]
  /\ born' = [born EXCEPT ![t] = [c \in Conv |-> Len(stream[c])]]
  /\ UNCHANGED <<sent, stream, retries>>

OtherDeviceSends(t) ==
  /\ t \notin Mine
  /\ Create(t)
  /\ UNCHANGED <<link, handlers, viewVars, timerVars, callVars, errors>>

\* publish_event.  A second attempt after a lost answer adds the event again.
Publish(t) ==
  /\ row[t] # "none" /\ sent[t] < Done
  /\ sent[t] + 1 = Done => row[t] = "complete"
  /\ sent' = [sent EXCEPT ![t] = @ + 1]
  /\ LET e == [turn |-> t, ev |-> sent[t] + 1]
     IN \/ /\ stream' = [stream EXCEPT ![ConvOf[t]] = Append(@, e)]
           /\ UNCHANGED retries
        \/ /\ retries < MaxRetries
           /\ stream' = [stream EXCEPT ![ConvOf[t]] = @ \o <<e, e>>]
           /\ retries' = retries + 1
  /\ UNCHANGED <<row, born, link, handlers, viewVars, timerVars, callVars, errors>>

\* _finalize commits the text before done is published.
Commit(t) ==
  /\ row[t] = "streaming" /\ sent[t] = Done - 1
  /\ row' = [row EXCEPT ![t] = "complete"]
  /\ UNCHANGED <<sent, stream, born, retries, link, handlers, viewVars, timerVars,
                 callVars, errors>>

-----------------------------------------------------------------------------
(* The chat store. *)

\* closeStream: close and offAll.  A running timer is not stopped.
CloseStream == link' = Closed /\ handlers' = FALSE

\* setupStreamHandlers and openSSE(url): the timer becomes one of the old ones.
Subscribe(c, now, since) ==
  /\ link' = [Closed EXCEPT !.pc = "connecting", !.conv = c, !.now = now, !.since = since]
  /\ handlers' = TRUE
  /\ oldTimers' = oldTimers + IF timer THEN 1 ELSE 0
  /\ timer' = FALSE

Settled == /\ \A i \in DOMAIN opening : opening[i].pc = "over"
           /\ \A t \in Turn : sending[t] \in {"no", "sent"}

\* sendSingle up to its first await.  The composer is off while it streams.
SendSingle(t) ==
  /\ t \in Mine
  /\ sending[t] = "no" /\ row[t] = "none"
  /\ \A u \in Turn : u < t /\ ConvOf[u] = ConvOf[t] => sent[u] = Done
  /\ active = ConvOf[t] /\ streaming # active
  /\ Settled \/ Hasty
  /\ Subscribe(active, TRUE, 0)
  /\ streaming' = active
  /\ sending' = [sending EXCEPT ![t] = "opening"]
  /\ UNCHANGED <<serverVars, active, shown, opening, errors>>

\* Mutant: the message is posted without waiting for the stream.
PostAtOnce(t) ==
  /\ sending[t] = "opening"
  /\ Create(t)
  /\ sending' = [sending EXCEPT ![t] = "posting"]
  /\ UNCHANGED <<link, handlers, viewVars, timerVars, opening, errors>>

\* openSSE resolves when the stream is open, or by its timeout.
Post(t) ==
  /\ sending[t] = "opening"
  /\ link.pc # "connecting" \/ Slow
  /\ Create(t)
  /\ sending' = [sending EXCEPT ![t] = "posting"]
  /\ UNCHANGED <<link, handlers, viewVars, timerVars, opening, errors>>

\* The answer of the POST: the message is added if no event has brought it.
PostReturns(t) ==
  /\ sending[t] = "posting"
  /\ sending' = [sending EXCEPT ![t] = "sent"]
  /\ shown' = [shown EXCEPT ![t] = IF @ = Absent THEN [@ EXCEPT !.status = "streaming"]
                                                 ELSE @]
  /\ UNCHANGED <<serverVars, link, handlers, active, streaming, timerVars, opening,
                 errors>>

\* openConversation up to its first await.
OpenConversation(c) ==
  /\ Len(opening) < MaxOpens
  /\ Settled \/ Hasty
  /\ opening' = Append(opening, [pc |-> "get", conv |-> c])
  /\ active' = c
  /\ CloseStream
  /\ UNCHANGED <<serverVars, streaming, shown, timerVars, sending, errors>>

\* A message as its row has it.
FromRow(t) == CASE row[t] = "none"      -> Absent
                [] row[t] = "streaming" -> [status |-> "streaming", text |-> <<>>]
                [] row[t] = "complete"  -> [status |-> "complete", text |-> Full]

\* The detail of the conversation arrives: its messages replace those on screen.
OpenGot(i) ==
  /\ opening[i].pc = "get"
  /\ opening' = [opening EXCEPT ![i].pc = "files"]
  /\ shown' = [t \in Turn |-> IF ConvOf[t] = opening[i].conv THEN FromRow(t) ELSE Absent]
  /\ UNCHANGED <<serverVars, link, handlers, active, streaming, timerVars, sending,
                 errors>>

StreamingShown == {t \in Turn : shown[t].status = "streaming"}

\* Mutant: the stream of a conversation in flight is joined at its end.
OpenAtTheEnd(i) ==
  /\ opening[i].pc = "files"
  /\ opening' = [opening EXCEPT ![i].pc = "over"]
  /\ IF StreamingShown = {}
       THEN UNCHANGED <<link, handlers, streaming, timerVars>>
       ELSE /\ streaming' = opening[i].conv
            /\ Subscribe(opening[i].conv, TRUE, 0)
  /\ UNCHANGED <<serverVars, active, shown, sending, errors>>

\* The files arrive: a streaming message among those on screen is followed from
\* its creation on.
OpenDone(i) ==
  /\ opening[i].pc = "files"
  /\ opening' = [opening EXCEPT ![i].pc = "over"]
  /\ IF StreamingShown = {}
       THEN UNCHANGED <<link, handlers, streaming, timerVars>>
       ELSE LET c == opening[i].conv
                t == CHOOSE t \in StreamingShown : \A u \in StreamingShown : t <= u
            IN streaming' = c /\ Subscribe(c, FALSE, born[t][c])
  /\ UNCHANGED <<serverVars, active, shown, sending, errors>>

\* cancel(): the stream is closed without waiting for the server.
Cancel ==
  /\ Cancels
  /\ active # NoConv /\ streaming = active
  /\ CloseStream
  /\ UNCHANGED <<serverVars, viewVars, timerVars, callVars, errors>>

\* refreshAfterTurn.
RefreshAfterTurn == streaming' = NoConv /\ CloseStream

\* Mutant: the stream is closed, the conversation goes on streaming.
TimerCloses ==
  /\ timer
  /\ timer' = FALSE
  /\ CloseStream
  /\ UNCHANGED <<serverVars, viewVars, oldTimers, callVars, errors>>

TimerFires ==
  /\ timer
  /\ timer' = FALSE
  /\ RefreshAfterTurn
  /\ UNCHANGED <<serverVars, active, shown, oldTimers, callVars, errors>>

OldTimerFires ==
  /\ oldTimers > 0
  /\ oldTimers' = oldTimers - 1
  /\ RefreshAfterTurn
  /\ UNCHANGED <<serverVars, active, shown, timer, callVars, errors>>

-----------------------------------------------------------------------------
(* The connection. *)

\* The endpoint takes its position: since, or the newest entry.
Connect ==
  /\ link.pc = "connecting"
  /\ link' = [link EXCEPT !.pc = "open", !.errors = 0,
                          !.cursor = IF link.now THEN Len(stream[link.conv]) ELSE link.since]
  /\ UNCHANGED <<serverVars, handlers, viewVars, timerVars, callVars, errors>>

\* onerror: the EventSource is closed, a new one with the same url will follow.
LinkFails ==
  /\ link.pc \in {"connecting", "open"}
  /\ errors < MaxErrors
  /\ errors' = errors + 1
  /\ link' = IF link.errors + 1 >= GiveUp
               THEN Closed
               ELSE [link EXCEPT !.pc = "backoff", !.errors = @ + 1]
  /\ UNCHANGED <<serverVars, handlers, viewVars, timerVars, callVars>>

Reconnect ==
  /\ link.pc = "backoff"
  /\ link' = [link EXCEPT !.pc = "connecting"]
  /\ UNCHANGED <<serverVars, handlers, viewVars, timerVars, callVars, errors>>

\* What the handlers make of an event of the open conversation.
OnStart(m) == IF m = Absent THEN [m EXCEPT !.status = "streaming"] ELSE m
OnDone(m)  == IF m = Absent THEN m ELSE [status |-> "complete", text |-> Full]

\* Mutant: a token is added whatever the status of the message.
AddToken(m, k) == IF m = Absent THEN m ELSE [m EXCEPT !.text = Append(@, k)]

OnToken(m, k) ==
  IF m.status = "streaming" THEN [m EXCEPT !.text = Append(@, k)] ELSE m

\* The next event the capped stream still has reaches the browser.
Deliver ==
  /\ link.pc = "open"
  /\ link.cursor < Len(stream[link.conv])
  /\ LET all  == stream[link.conv]
         next == Max({link.cursor + 1} \cup {n \in DOMAIN all : n = Len(all) - Cap + 1})
         e    == all[next]
         t    == e.turn
     IN /\ link' = [link EXCEPT !.cursor = next, !.errors = 0]
        /\ IF ~handlers \/ active # link.conv
             THEN UNCHANGED <<shown, timer>>
             ELSE /\ shown' = [shown EXCEPT ![t] =
                                 CASE e.ev = Start -> OnStart(@)
                                   [] e.ev = Done  -> OnDone(@)
                                   [] OTHER        -> OnToken(@, e.ev - 1)]
                  /\ timer' = CASE e.ev = Start -> FALSE
                                [] e.ev = Done  -> TRUE
                                [] OTHER        -> timer
  /\ UNCHANGED <<serverVars, handlers, active, streaming, oldTimers, callVars, errors>>

-----------------------------------------------------------------------------
Server(t) == OtherDeviceSends(t) \/ Publish(t) \/ Commit(t)
Store     == \/ \E t \in Turn : Post(t) \/ PostReturns(t)
             \/ \E i \in DOMAIN opening : OpenGot(i) \/ OpenDone(i)
             \/ TimerFires \/ OldTimerFires
User      == \/ \E t \in Turn : SendSingle(t)
             \/ \E c \in Conv : OpenConversation(c)
             \/ Cancel
Network   == Connect \/ LinkFails \/ Reconnect \/ Deliver

Next == (\E t \in Turn : Server(t)) \/ Store \/ User \/ Network

Spec == Init /\ [][Next]_vars

(***************************************************************************)
(* Fairness: a created turn is published to its end, requests are          *)
(* answered, timers fire and the connection is made and used.  Nothing is  *)
(* assumed of the user or of failures.                                     *)
(***************************************************************************)
Fairness ==
  /\ \A t \in Turn : /\ WF_vars(Publish(t)) /\ WF_vars(Commit(t))
                     /\ WF_vars(Post(t)) /\ WF_vars(PostReturns(t))
  /\ \A i \in 1..MaxOpens : WF_vars(i \in DOMAIN opening /\ (OpenGot(i) \/ OpenDone(i)))
  /\ WF_vars(TimerFires) /\ WF_vars(OldTimerFires)
  /\ WF_vars(Connect) /\ WF_vars(Reconnect) /\ WF_vars(Deliver)

FairSpec == Spec /\ Fairness

-----------------------------------------------------------------------------
\* A message shown as complete has the text that is saved, whatever was lost,
\* repeated or replayed while it streamed.
ShownIsSaved == \A t \in Turn : shown[t].status = "complete" => shown[t].text = Full

\* While a message streams, what is on screen is a prefix of the answer: the row,
\* the replay from its creation and the live events fit together.
NoGap == \A t \in Turn : IsPrefix(shown[t].text, Full)

\* A turn on screen is shown to its end, unless the user leaves: the durable
\* stream recovers the tokens emitted while the browser was away.  Not promised
\* when the refresh timer of an earlier registration may close the stream, or has.
OnScreen(t) == active = ConvOf[t] /\ shown[t].status = "streaming" /\ oldTimers = 0
TurnShown == \A t \in Turn : OnScreen(t) /\ link.pc # "none" ~> ~OnScreen(t)

\* The composer is freed after each turn of a user who stays in the conversation
\* and lets the turn end, as long as the stream of the turn is not closed by the
\* refresh timer of an earlier registration.
Following(c) == streaming = c /\ opening = <<>> /\ oldTimers = 0
ComposerFrees ==
  \A c \in Conv : Following(c) /\ link.pc # "none" ~> ~Following(c)

\* What is shown as complete is what is saved, and what is shown has its type.
SavedShown == TypeOK /\ ShownIsSaved
=============================================================================
