--------------------------- MODULE ChatStreamProofs ---------------------------
(***************************************************************************)
(* Proofs about the live stream of a conversation: what is shown as        *)
(* complete is what is saved, and what streams is shown without a gap.     *)
(***************************************************************************)
EXTENDS MCChatStream, SequenceTheorems, WellFoundedInduction, TLAPS

(* What the parts of the state are.  SavedShown is not inductive: that the  *)
(* server's cursor stays inside the stream needs the same of the position a *)
(* url asks for, hence of the creation of the turns.                        *)
Event    == [turn : Turn, ev : Nat \ {0}]
Message  == [status : {"absent", "streaming", "complete"}, text : Seq(Nat)]
Source   == [pc : {"none", "connecting", "open", "backoff"}, conv : Conv \cup {NoConv},
             now : BOOLEAN, since : Nat, cursor : Nat, errors : Nat]
OpenCall == [pc : {"get", "files", "over"}, conv : Conv]

ServerTypes ==
  /\ row \in [Turn -> {"none", "streaming", "complete"}]
  /\ sent \in [Turn -> 0..Done]
  /\ stream \in [Conv -> Seq(Event)]
  /\ \A c \in Conv : \A i \in DOMAIN stream[c] : ConvOf[stream[c][i].turn] = c
  /\ born \in [Turn -> [Conv -> Nat]]
  /\ \A t \in Turn, c \in Conv : born[t][c] <= Len(stream[c])

LinkTypes ==
  /\ link \in Source
  /\ link.errors < GiveUp
  /\ link.pc # "none" => link.conv \in Conv
  /\ link.conv \in Conv =>
       link.since <= Len(stream[link.conv]) /\ link.cursor <= Len(stream[link.conv])

StoreTypes ==
  /\ handlers \in BOOLEAN /\ timer \in BOOLEAN /\ oldTimers \in Nat
  /\ active \in Conv \cup {NoConv} /\ streaming \in Conv \cup {NoConv}
  /\ opening \in Seq(OpenCall)
  /\ sending \in [Turn -> {"no", "opening", "posting", "sent"}]

ShownTypes ==
  /\ shown \in [Turn -> Message]
  /\ ShownIsSaved

StreamInv == ServerTypes /\ LinkTypes /\ StoreTypes /\ ShownTypes

LEMMA FullType == Full \in Seq(Nat)
  BY BoundsType DEF Full

LEMMA Initially == Init => StreamInv
<1> SUFFICES ASSUME Init PROVE StreamInv
  OBVIOUS
<1> USE TurnType, BoundsType DEF Init
<1>1. ServerTypes
  BY DEF ServerTypes, Done, Event
<1>2. LinkTypes
  BY DEF LinkTypes, Source, Closed
<1>3. StoreTypes
  <2>1. <<>> \in Seq(OpenCall)
    OBVIOUS
  <2>2. sending \in [Turn -> {"no", "opening", "posting", "sent"}] /\ 0 \in Nat
    OBVIOUS
  <2> QED BY <2>1, <2>2 DEF StoreTypes
<1>4. ShownTypes
  BY DEF ShownTypes, ShownIsSaved, Message, Absent
<1> QED BY <1>1, <1>2, <1>3, <1>4 DEF StreamInv

-----------------------------------------------------------------------------
(* The server: creation, publication and commit; the rest leaves it alone.  *)

LEMMA ServerActs ==
  ASSUME Next
  PROVE  \/ \E t \in Turn : Create(t) \/ Publish(t) \/ Commit(t)
         \/ UNCHANGED serverVars
<1> USE DEF serverVars
<1>1. ASSUME NEW t \in Turn, Server(t)
      PROVE  \/ Create(t) \/ Publish(t) \/ Commit(t)
  BY <1>1 DEF Server, OtherDeviceSends
<1>2. ASSUME NEW t \in Turn, Post(t) \/ PostReturns(t)
      PROVE  Create(t) \/ UNCHANGED serverVars
  BY <1>2 DEF Post, PostReturns
<1>3. ASSUME NEW i \in DOMAIN opening, OpenGot(i) \/ OpenDone(i)
      PROVE  UNCHANGED serverVars
  BY <1>3 DEF OpenGot, OpenDone
<1>4. ASSUME TimerFires \/ OldTimerFires PROVE UNCHANGED serverVars
  BY <1>4 DEF TimerFires, OldTimerFires
<1>5. ASSUME NEW t \in Turn, SendSingle(t) PROVE UNCHANGED serverVars
  BY <1>5 DEF SendSingle
<1>6. ASSUME NEW c \in Conv, OpenConversation(c) PROVE UNCHANGED serverVars
  BY <1>6 DEF OpenConversation
<1>7. ASSUME Cancel PROVE UNCHANGED serverVars
  BY <1>7 DEF Cancel
<1>8. ASSUME Network PROVE UNCHANGED serverVars
  BY <1>8 DEF Network, Connect, LinkFails, Reconnect, Deliver
<1> QED BY <1>1, <1>2, <1>3, <1>4, <1>5, <1>6, <1>7, <1>8 DEF Next, Store, User

(* A stream grows by one event, or by the same event twice.                 *)
LEMMA PublishGrows ==
  ASSUME ServerTypes, NEW t \in Turn, Publish(t)
  PROVE  /\ stream' \in [Conv -> Seq(Event)]
         /\ \A c \in Conv : Len(stream[c]) <= Len(stream'[c])
         /\ \A c \in Conv : \A i \in DOMAIN stream'[c] : ConvOf[stream'[c][i].turn] = c
<1> DEFINE e == [turn |-> t, ev |-> sent[t] + 1]
           d == ConvOf[t]
<1>1. d \in Conv /\ sent[t] \in Nat
  BY TurnType, BoundsType DEF ServerTypes, Done
<1>2. e \in Event /\ e.turn = t
  BY <1>1 DEF Event
<1>3. PICK more \in {<<e>>, <<e, e>>} : stream' = [stream EXCEPT ![d] = @ \o more]
  <2>1. stream[d] \in Seq(Event)
    BY <1>1 DEF ServerTypes
  <2>2. Append(stream[d], e) = stream[d] \o <<e>>
    BY <2>1, <1>2
  <2> QED BY <2>2 DEF Publish, ServerTypes
<1> HIDE DEF e, d
<1>4. more \in Seq(Event) /\ \A i \in DOMAIN more : more[i] = e
  <2>1. CASE more = <<e>>
    BY <1>2, <2>1
  <2>2. CASE more = <<e, e>>
    BY <1>2, <2>2
  <2> QED BY <2>1, <2>2
<1>5. \A c \in Conv : stream[c] \in Seq(Event)
  BY DEF ServerTypes
<1>6. stream' \in [Conv -> Seq(Event)]
  BY <1>1, <1>3, <1>4, <1>5 DEF ServerTypes
<1>7. \A c \in Conv : stream'[c] = IF c = d THEN stream[d] \o more ELSE stream[c]
  BY <1>3 DEF ServerTypes
<1>8. Len(stream[d]) <= Len(stream[d] \o more)
  BY <1>1, <1>4, <1>5
<1>9. ASSUME NEW i \in DOMAIN (stream[d] \o more)
      PROVE  ConvOf[(stream[d] \o more)[i].turn] = d
  <2>0. stream[d] \in Seq(Event) /\ more \in Seq(Event)
    BY <1>1, <1>4, <1>5
  <2>1. CASE i \in DOMAIN stream[d]
    <3>1. (stream[d] \o more)[i] = stream[d][i]
      BY <2>0, <2>1
    <3> QED BY <2>1, <3>1, <1>1 DEF ServerTypes
  <2>2. CASE i \notin DOMAIN stream[d]
    <3>1. i - Len(stream[d]) \in DOMAIN more
      BY <2>0, <2>2
    <3>2. (stream[d] \o more)[i] = more[i - Len(stream[d])]
      BY <2>0, <2>2
    <3> QED BY <3>1, <3>2, <1>4, <1>2 DEF d
  <2> QED BY <2>1, <2>2
<1>10. \A c \in Conv : Len(stream[c]) <= Len(stream'[c])
  <2>1. \A c \in Conv : Len(stream[c]) \in Nat /\ Len(stream[c]) <= Len(stream[c])
    BY <1>5
  <2> QED BY <2>1, <1>7, <1>8
<1>11. \A c \in Conv : \A i \in DOMAIN stream'[c] : ConvOf[stream'[c][i].turn] = c
  BY <1>7, <1>9 DEF ServerTypes
<1> QED BY <1>6, <1>10, <1>11

LEMMA ServerStep ==
  ASSUME ServerTypes, Next
  PROVE  ServerTypes' /\ \A c \in Conv : Len(stream[c]) <= Len(stream'[c])
<1>0. \A c \in Conv : stream[c] \in Seq(Event) /\ Len(stream[c]) \in Nat
  BY DEF ServerTypes
<1>1. ASSUME NEW t \in Turn, Create(t) PROVE ServerTypes' /\ stream' = stream
  BY <1>0, <1>1 DEF Create, ServerTypes
<1>2. ASSUME NEW t \in Turn, Publish(t)
      PROVE  ServerTypes' /\ \A c \in Conv : Len(stream[c]) <= Len(stream'[c])
  <2>1. /\ stream' \in [Conv -> Seq(Event)]
        /\ \A c \in Conv : Len(stream[c]) <= Len(stream'[c])
        /\ \A c \in Conv : \A i \in DOMAIN stream'[c] : ConvOf[stream'[c][i].turn] = c
    BY <1>2, PublishGrows
  <2>2. sent' \in [Turn -> 0..Done] /\ row' = row /\ born' = born
    <3>1. Done \in Nat /\ sent[t] \in 0..Done /\ sent[t] < Done
      BY <1>2, BoundsType DEF Publish, ServerTypes, Done
    <3>2. sent[t] + 1 \in 0..Done
      BY <3>1
    <3> QED BY <1>2, <3>2 DEF Publish, ServerTypes
  <2>3. \A u \in Turn, c \in Conv : born[u][c] <= Len(stream'[c])
    <3> TAKE u \in Turn, c \in Conv
    <3>1. born[u][c] \in Nat /\ Len(stream[c]) \in Nat /\ Len(stream'[c]) \in Nat
      BY <1>0, <2>1 DEF ServerTypes
    <3> QED BY <2>1, <3>1 DEF ServerTypes
  <2> QED BY <2>1, <2>2, <2>3 DEF ServerTypes
<1>3. ASSUME NEW t \in Turn, Commit(t) PROVE ServerTypes' /\ stream' = stream
  BY <1>3 DEF Commit, ServerTypes
<1>4. ASSUME UNCHANGED serverVars PROVE ServerTypes' /\ stream' = stream
  BY <1>4 DEF serverVars, ServerTypes
<1> QED BY <1>0, <1>1, <1>2, <1>3, <1>4, ServerActs

-----------------------------------------------------------------------------
(* The connection.                                                          *)

(* A set of numbers with an element has a least one.                        *)
LEMMA LeastTurn ==
  ASSUME NEW T \in SUBSET Nat, NEW t \in T
  PROVE  \E m \in T : \A n \in T : m <= n
<1> DEFINE R == OpToRel(<, Nat)
<1>1. IsWellFoundedOn(R, Nat)
  BY NatLessThanWellFounded
<1>2. \A x, y \in Nat : x < y => <<x, y>> \in R
  BY DEF OpToRel
<1> HIDE DEF R
<1>3. PICK m \in T : \A y \in T : ~ (<<y, m>> \in R)
  BY <1>1, WFMin
<1>4. \A n \in T : ~(n < m) /\ n \in Nat /\ m \in Nat
  BY <1>2, <1>3
<1>5. \A n \in T : m <= n
  BY <1>4
<1> QED BY <1>5

(* The next event that is still there lies behind the cursor, in the stream. *)
LEMMA NextEvent ==
  ASSUME NEW len \in Nat, NEW at \in Nat, NEW cap \in Nat, at < len, cap # 0
  PROVE  LET next == Max({at + 1} \cup {n \in 1..len : n = len - cap + 1})
         IN  next \in 1..len /\ at < next
<1> DEFINE S == {at + 1} \cup {n \in 1..len : n = len - cap + 1}
<1>1. \A n \in S : n \in 1..len
  OBVIOUS
<1>2. \E m \in S : \A n \in S : m >= n
  <2>1. CASE len - cap + 1 \in 1..len /\ len - cap + 1 > at + 1
    BY <2>1
  <2>2. CASE ~(len - cap + 1 \in 1..len /\ len - cap + 1 > at + 1)
    <3>1. \A n \in S : at + 1 >= n
      BY <2>2
    <3> QED BY <3>1
  <2> QED BY <2>1, <2>2
<1> HIDE DEF S
<1>3. Max(S) \in S /\ \A n \in S : Max(S) >= n
  BY <1>2 DEF Max
<1>4. at + 1 \in S
  BY DEF S
<1>5. Max(S) \in 1..len /\ Max(S) >= at + 1
  BY <1>1, <1>3, <1>4
<1> QED BY <1>5 DEF S

LEMMA CallOf ==
  ASSUME StoreTypes, NEW i \in DOMAIN opening
  PROVE  /\ opening[i] \in OpenCall /\ opening[i].conv \in Conv
         /\ \A p \in {"get", "files", "over"} :
              [opening EXCEPT ![i].pc = p] \in Seq(OpenCall)
<1>1. opening \in Seq(OpenCall) /\ i \in 1..Len(opening)
  BY DEF StoreTypes
<1>2. opening[i] \in OpenCall
  BY <1>1
<1>3. \A p \in {"get", "files", "over"} : [opening[i] EXCEPT !.pc = p] \in OpenCall
  BY <1>2 DEF OpenCall
<1>4. \A p \in {"get", "files", "over"} :
        [opening EXCEPT ![i].pc = p] \in Seq(OpenCall)
  BY <1>1, <1>3, ExceptSeq
<1> QED BY <1>2, <1>4 DEF OpenCall

(* What a step makes of the connection, its position inside the stream.     *)
LEMMA Moves ==
  ASSUME LinkTypes, stream' = stream, link.conv \in Conv, Len(stream[link.conv]) \in Nat,
         NEW pc \in {"connecting", "open", "backoff"}, NEW cursor \in Nat, NEW n \in Nat,
         n < GiveUp, cursor <= Len(stream[link.conv]),
         link' = [link EXCEPT !.pc = pc, !.cursor = cursor, !.errors = n]
  PROVE  LinkTypes'
<1>1. link' = [pc |-> pc, conv |-> link.conv, now |-> link.now, since |-> link.since,
               cursor |-> cursor, errors |-> n]
  BY DEF LinkTypes, Source
<1>2. link.now \in BOOLEAN /\ link.since \in Nat /\ link.since <= Len(stream[link.conv])
  BY DEF LinkTypes, Source
<1> QED BY <1>1, <1>2 DEF LinkTypes, Source

(* A new EventSource, a closed one.                                         *)
LEMMA Subscribes ==
  ASSUME NEW c \in Conv, NEW now \in BOOLEAN, NEW since \in Nat, since <= Len(stream'[c]),
         stream'[c] \in Seq(Event), Subscribe(c, now, since)
  PROVE  LinkTypes'
<1>1. link' = [pc |-> "connecting", conv |-> c, now |-> now, since |-> since, cursor |-> 0,
               errors |-> 0]
  BY DEF Subscribe, Closed
<1>2. Len(stream'[c]) \in Nat
  OBVIOUS
<1> QED BY <1>1, <1>2, BoundsType DEF LinkTypes, Source

LEMMA Closes == ASSUME link' = Closed PROVE LinkTypes'
  BY TurnType, BoundsType DEF LinkTypes, Source, Closed

LEMMA Stays ==
  ASSUME LinkTypes, ServerTypes, ServerTypes',
         \A c \in Conv : Len(stream[c]) <= Len(stream'[c]), link' = link
  PROVE  LinkTypes'
<1>1. ASSUME link.conv \in Conv
      PROVE  /\ Len(stream[link.conv]) \in Nat /\ Len(stream'[link.conv]) \in Nat
             /\ Len(stream[link.conv]) <= Len(stream'[link.conv])
  BY <1>1 DEF ServerTypes
<1>2. link.since \in Nat /\ link.cursor \in Nat
  BY DEF LinkTypes, Source
<1> QED BY <1>1, <1>2 DEF LinkTypes

LEMMA LinkStep ==
  ASSUME StreamInv, Next, ServerTypes',
         \A c \in Conv : Len(stream[c]) <= Len(stream'[c])
  PROVE  LinkTypes'
<1> USE DEF StreamInv
<1>0. ASSUME link' = link PROVE LinkTypes'
  BY <1>0, Stays
<1>1. ASSUME NEW t \in Turn, Server(t) PROVE LinkTypes'
  BY <1>0, <1>1 DEF Server, OtherDeviceSends, Publish, Commit
<1>2. ASSUME NEW t \in Turn, Post(t) \/ PostReturns(t) PROVE LinkTypes'
  BY <1>0, <1>2 DEF Post, PostReturns
<1>3. ASSUME NEW i \in DOMAIN opening, OpenGot(i) PROVE LinkTypes'
  BY <1>0, <1>3 DEF OpenGot
<1>4. ASSUME NEW i \in DOMAIN opening, OpenDone(i) PROVE LinkTypes'
  <2>1. CASE StreamingShown = {}
    BY <2>1, <1>4, <1>0 DEF OpenDone
  <2>2. CASE StreamingShown # {}
    <3> DEFINE c == opening[i].conv
               t == CHOOSE u \in StreamingShown : \A v \in StreamingShown : u <= v
    <3>1. Subscribe(c, FALSE, born[t][c])
      BY <2>2, <1>4 DEF OpenDone
    <3>2. t \in Turn
      <4>1. StreamingShown \subseteq Turn /\ StreamingShown \in SUBSET Nat
        BY TurnType DEF StreamingShown
      <4>2. \E u \in StreamingShown : \A v \in StreamingShown : u <= v
        BY <2>2, <4>1, LeastTurn
      <4> QED BY <4>1, <4>2
    <3> HIDE DEF t
    <3>3. c \in Conv
      BY CallOf
    <3>4. born[t][c] \in Nat /\ born[t][c] <= Len(stream[c]) /\ Len(stream[c]) \in Nat
      BY <3>2, <3>3 DEF ServerTypes
    <3>5. stream'[c] \in Seq(Event) /\ Len(stream[c]) <= Len(stream'[c])
      BY <3>3 DEF ServerTypes
    <3>6. born[t][c] <= Len(stream'[c])
      BY <3>4, <3>5
    <3> HIDE DEF c
    <3> QED BY <3>1, <3>3, <3>4, <3>5, <3>6, Subscribes
  <2> QED BY <2>1, <2>2
<1>5. ASSUME TimerFires \/ OldTimerFires \/ Cancel PROVE LinkTypes'
  BY <1>5, Closes DEF TimerFires, OldTimerFires, Cancel, RefreshAfterTurn, CloseStream
<1>6. ASSUME NEW c \in Conv, OpenConversation(c) PROVE LinkTypes'
  BY <1>6, Closes DEF OpenConversation, CloseStream
<1>7. ASSUME NEW t \in Turn, SendSingle(t) PROVE LinkTypes'
  <2>1. active \in Conv /\ Subscribe(active, TRUE, 0)
    BY <1>7, TurnType DEF SendSingle
  <2>2. stream'[active] \in Seq(Event) /\ 0 <= Len(stream'[active])
    BY <2>1 DEF ServerTypes
  <2> QED BY <2>1, <2>2, Subscribes
<1>l. ASSUME link.pc # "none", stream' = stream
      PROVE  /\ link.conv \in Conv /\ stream[link.conv] \in Seq(Event)
             /\ Len(stream[link.conv]) \in Nat
             /\ link.since <= Len(stream[link.conv]) /\ link.cursor <= Len(stream[link.conv])
             /\ link.cursor \in Nat /\ link.errors \in Nat /\ link.since \in Nat
             /\ link = [link EXCEPT !.cursor = link.cursor]
             /\ link = [link EXCEPT !.errors = link.errors]
             /\ link = [link EXCEPT !.pc = link.pc]
  <2>1. link.conv \in Conv
    BY <1>l DEF LinkTypes
  <2> QED BY <2>1 DEF LinkTypes, Source, ServerTypes
<1>8. ASSUME Connect PROVE LinkTypes'
  <2> DEFINE at == IF link.now THEN Len(stream[link.conv]) ELSE link.since
  <2>1. /\ link.pc = "connecting" /\ stream' = stream
        /\ link' = [link EXCEPT !.pc = "open", !.cursor = at, !.errors = 0]
    BY <1>8 DEF Connect, serverVars, LinkTypes, Source
  <2>2. at \in Nat /\ at <= Len(stream[link.conv])
    BY <1>l, <2>1
  <2>3. 0 < GiveUp /\ 0 \in Nat
    BY BoundsType
  <2> HIDE DEF at
  <2> QED BY <1>l, <2>1, <2>2, <2>3, Moves
<1>9. ASSUME LinkFails PROVE LinkTypes'
  <2>1. CASE link' = Closed
    BY <2>1, Closes
  <2>2. CASE link' = [link EXCEPT !.pc = "backoff", !.errors = @ + 1] /\ link.errors + 1 < GiveUp
    <3>1. stream' = stream /\ link.pc # "none"
      BY <1>9 DEF LinkFails, serverVars
    <3>2. link' = [link EXCEPT !.pc = "backoff", !.cursor = link.cursor,
                               !.errors = link.errors + 1]
      BY <2>2 DEF LinkTypes, Source
    <3>3. link.errors + 1 \in Nat
      BY <1>l, <3>1
    <3> QED BY <1>l, <2>2, <3>1, <3>2, <3>3, Moves
  <2>3. link.errors \in Nat /\ GiveUp \in Nat
    BY BoundsType DEF LinkTypes, Source
  <2> QED BY <1>9, <2>1, <2>2, <2>3 DEF LinkFails
<1>10. ASSUME Reconnect PROVE LinkTypes'
  <2>1. link.pc = "backoff" /\ stream' = stream /\ link' = [link EXCEPT !.pc = "connecting"]
    BY <1>10 DEF Reconnect, serverVars
  <2>2. link' = [link EXCEPT !.pc = "connecting", !.cursor = link.cursor,
                             !.errors = link.errors]
    BY <2>1 DEF LinkTypes, Source
  <2>3. link.errors < GiveUp
    BY DEF LinkTypes
  <2> QED BY <1>l, <2>1, <2>2, <2>3, Moves
<1>11. ASSUME Deliver PROVE LinkTypes'
  <2> DEFINE all  == stream[link.conv]
             next == Max({link.cursor + 1} \cup {n \in DOMAIN all : n = Len(all) - Cap + 1})
  <2>1. /\ link.pc = "open" /\ link.cursor < Len(all) /\ stream' = stream
        /\ link' = [link EXCEPT !.cursor = next, !.errors = 0]
    BY <1>11 DEF Deliver, serverVars
  <2>2. all \in Seq(Event) /\ link.cursor \in Nat /\ link.conv \in Conv
    BY <1>l, <2>1
  <2>3. DOMAIN all = 1..Len(all) /\ Len(all) \in Nat /\ Cap \in Nat /\ Cap # 0
    BY <2>2, BoundsType
  <2>4. next \in 1..Len(all)
    BY <2>1, <2>2, <2>3, NextEvent
  <2> HIDE DEF next
  <2>5. next \in Nat /\ next <= Len(all) /\ 0 \in Nat /\ 0 < GiveUp
    BY <2>3, <2>4, BoundsType
  <2>6. link' = [link EXCEPT !.pc = "open", !.cursor = next, !.errors = 0]
    BY <2>1 DEF LinkTypes, Source
  <2> QED BY <2>1, <2>2, <2>3, <2>5, <2>6, Moves DEF all
<1> QED BY <1>1, <1>2, <1>3, <1>4, <1>5, <1>6, <1>7, <1>8, <1>9, <1>10, <1>11
           DEF Next, Store, User, Network

-----------------------------------------------------------------------------
(* The store.                                                               *)

LEMMA StoreStep == ASSUME StreamInv, Next PROVE StoreTypes'
<1> USE DEF StreamInv, StoreTypes
<1> USE DEF serverVars, viewVars, timerVars, callVars
<1>1. ASSUME NEW t \in Turn, Server(t) PROVE StoreTypes'
  BY <1>1 DEF Server, OtherDeviceSends, Publish, Commit
<1>2. ASSUME NEW t \in Turn, Post(t) \/ PostReturns(t) PROVE StoreTypes'
  BY <1>2 DEF Post, PostReturns
<1>3. ASSUME NEW i \in DOMAIN opening, OpenGot(i) PROVE StoreTypes'
  BY <1>3, CallOf DEF OpenGot
<1>4. ASSUME NEW i \in DOMAIN opening, OpenDone(i) PROVE StoreTypes'
  <2>1. opening' = [opening EXCEPT ![i].pc = "over"]
    BY <1>4 DEF OpenDone
  <2>2. opening' \in Seq(OpenCall) /\ opening[i].conv \in Conv
    BY <2>1, CallOf
  <2>3. /\ handlers' \in BOOLEAN /\ timer' \in BOOLEAN /\ oldTimers' \in Nat
        /\ streaming' \in Conv \cup {NoConv}
    <3>1. CASE StreamingShown = {}
      BY <1>4, <3>1 DEF OpenDone
    <3>2. CASE StreamingShown # {}
      <4>1. /\ streaming' = opening[i].conv /\ handlers' = TRUE /\ timer' = FALSE
            /\ oldTimers' = oldTimers + IF timer THEN 1 ELSE 0
        BY <1>4, <3>2 DEF OpenDone, Subscribe
      <4>2. oldTimers' \in Nat
        BY <4>1
      <4> QED BY <2>2, <4>1, <4>2
    <3> QED BY <3>1, <3>2
  <2> QED BY <1>4, <2>2, <2>3 DEF OpenDone
<1>5. ASSUME TimerFires \/ OldTimerFires \/ Cancel PROVE StoreTypes'
  <2>1. ASSUME OldTimerFires PROVE oldTimers' \in Nat
    BY <2>1 DEF OldTimerFires
  <2> QED BY <1>5, <2>1 DEF TimerFires, OldTimerFires, Cancel, RefreshAfterTurn, CloseStream
<1>6. ASSUME NEW c \in Conv, OpenConversation(c) PROVE StoreTypes'
  <2>1. [pc |-> "get", conv |-> c] \in OpenCall
    BY DEF OpenCall
  <2>2. opening' \in Seq(OpenCall)
    BY <1>6, <2>1 DEF OpenConversation
  <2> QED BY <1>6, <2>2 DEF OpenConversation, CloseStream
<1>7. ASSUME NEW t \in Turn, SendSingle(t) PROVE StoreTypes'
  <2>1. oldTimers' = oldTimers + IF timer THEN 1 ELSE 0
    BY <1>7 DEF SendSingle, Subscribe
  <2>2. oldTimers' \in Nat
    BY <2>1
  <2>3. timer' \in BOOLEAN /\ handlers' \in BOOLEAN
    BY <1>7 DEF SendSingle, Subscribe
  <2> QED BY <1>7, <2>2, <2>3 DEF SendSingle
<1>8. ASSUME Connect \/ LinkFails \/ Reconnect PROVE StoreTypes'
  BY <1>8 DEF Connect, LinkFails, Reconnect
<1>9. ASSUME Deliver PROVE StoreTypes'
  BY <1>9 DEF Deliver
<1> QED BY <1>1, <1>2, <1>3, <1>4, <1>5, <1>6, <1>7, <1>8, <1>9 DEF Next, Store, User, Network

(* What the handlers make of a message keeps a complete one at its text.    *)
Right(m) == m \in Message /\ (m.status = "complete" => m.text = Full)

LEMMA Handled ==
  ASSUME NEW m, Right(m), NEW k \in Nat
  PROVE  /\ Right(Absent) /\ Right(OnStart(m)) /\ Right(OnDone(m)) /\ Right(OnToken(m, k))
         /\ Right([status |-> "complete", text |-> Full])
         /\ Right([status |-> "streaming", text |-> <<>>])
         /\ (m = Absent => Right([m EXCEPT !.status = "streaming"]))
<1>1. Right([status |-> "complete", text |-> Full])
  BY FullType DEF Right, Message
<1>2. Right([status |-> "streaming", text |-> <<>>]) /\ Right(Absent)
  BY DEF Right, Message, Absent
<1>3. m = Absent => [m EXCEPT !.status = "streaming"] = [status |-> "streaming", text |-> <<>>]
  BY DEF Absent
<1>4. ASSUME m.status = "streaming" PROVE Right([m EXCEPT !.text = Append(@, k)])
  <2>1. m.text \in Seq(Nat) /\ Append(m.text, k) \in Seq(Nat)
    BY DEF Right, Message
  <2>2. [m EXCEPT !.text = Append(@, k)] = [status |-> "streaming", text |-> Append(m.text, k)]
    <3>1. m = [status |-> m.status, text |-> m.text]
      BY DEF Right, Message
    <3> QED BY <1>4, <3>1
  <2> QED BY <2>1, <2>2 DEF Right, Message
<1> QED BY <1>1, <1>2, <1>3, <1>4 DEF OnStart, OnDone, OnToken

LEMMA ShownStep == ASSUME StreamInv, Next PROVE ShownTypes'
<1> USE DEF StreamInv
<1>0. ASSUME shown' = shown PROVE ShownTypes'
  BY <1>0 DEF ShownTypes, ShownIsSaved
<1>r. \A t \in Turn : Right(shown[t])
  BY DEF ShownTypes, ShownIsSaved, Right
<1>s. ASSUME shown' = [t \in Turn |-> shown'[t]], \A t \in Turn : Right(shown'[t])
      PROVE  ShownTypes'
  BY <1>s DEF ShownTypes, ShownIsSaved, Right
<1>d. shown = [t \in Turn |-> shown[t]]
  BY DEF ShownTypes
<1> USE DEF serverVars, viewVars, timerVars, callVars
<1>1. ASSUME NEW t \in Turn, Server(t) PROVE ShownTypes'
  BY <1>0, <1>1 DEF Server, OtherDeviceSends, Publish, Commit
<1>2. ASSUME NEW t \in Turn, Post(t) PROVE ShownTypes'
  BY <1>0, <1>2 DEF Post
<1>3. ASSUME NEW t \in Turn, PostReturns(t) PROVE ShownTypes'
  <2>1. Right(IF shown[t] = Absent THEN [shown[t] EXCEPT !.status = "streaming"] ELSE shown[t])
    BY <1>r, Handled
  <2> QED BY <1>3, <1>r, <1>s, <1>d, <2>1 DEF PostReturns
<1>4. ASSUME NEW i \in DOMAIN opening, OpenGot(i) PROVE ShownTypes'
  <2>1. \A t \in Turn : shown'[t] \in {Absent, [status |-> "streaming", text |-> <<>>],
                                       [status |-> "complete", text |-> Full]}
    <3>1. \A t \in Turn : row[t] \in {"none", "streaming", "complete"}
      BY DEF ServerTypes
    <3> QED BY <1>4, <3>1 DEF OpenGot, FromRow
  <2>2. shown' = [t \in Turn |-> shown'[t]]
    BY <1>4 DEF OpenGot
  <2>3. \A t \in Turn : Right(shown'[t])
    BY <2>1, <1>r, Handled
  <2> QED BY <1>s, <2>2, <2>3
<1>5. ASSUME NEW i \in DOMAIN opening, OpenDone(i) PROVE ShownTypes'
  BY <1>0, <1>5 DEF OpenDone
<1>6. ASSUME TimerFires \/ OldTimerFires \/ Cancel PROVE ShownTypes'
  BY <1>0, <1>6 DEF TimerFires, OldTimerFires, Cancel
<1>7. ASSUME User PROVE ShownTypes'
  BY <1>0, <1>7 DEF User, SendSingle, OpenConversation, Cancel
<1>8. ASSUME Connect \/ LinkFails \/ Reconnect PROVE ShownTypes'
  BY <1>0, <1>8 DEF Connect, LinkFails, Reconnect
<1>9. ASSUME Deliver PROVE ShownTypes'
  <2> DEFINE all  == stream[link.conv]
             next == Max({link.cursor + 1} \cup {n \in DOMAIN all : n = Len(all) - Cap + 1})
             e    == all[next]
             t    == e.turn
             new  == CASE e.ev = Start -> OnStart(shown[t])
                       [] e.ev = Done  -> OnDone(shown[t])
                       [] OTHER        -> OnToken(shown[t], e.ev - 1)
  <2>1. /\ link.pc = "open" /\ link.cursor < Len(all)
        /\ shown' = shown \/ shown' = [shown EXCEPT ![t] = new]
    BY <1>9 DEF Deliver
  <2>2. link.conv \in Conv /\ link.cursor \in Nat
    BY <2>1 DEF LinkTypes, Source
  <2>3. all \in Seq(Event)
    BY <2>2 DEF ServerTypes
  <2>4. DOMAIN all = 1..Len(all) /\ Len(all) \in Nat /\ Cap \in Nat /\ Cap # 0
    BY <2>3, BoundsType
  <2>5. next \in 1..Len(all)
    BY <2>1, <2>2, <2>4, NextEvent
  <2>6. t \in Turn /\ e.ev \in Nat \ {0}
    <3> HIDE DEF next, all
    <3>1. e \in Event
      BY <2>3, <2>4, <2>5
    <3> QED BY <3>1 DEF Event
  <2>7. Right(shown[t])
    BY <2>6, <1>r
  <2> HIDE DEF t, e
  <2>8. Right(new)
    <3>1. CASE e.ev = Start \/ e.ev = Done
      BY <3>1, <2>7, Handled
    <3>2. CASE e.ev # Start /\ e.ev # Done
      <4>1. e.ev - 1 \in Nat
        BY <2>6
      <4> QED BY <3>2, <4>1, <2>7, Handled
    <3> QED BY <3>1, <3>2
  <2> HIDE DEF new
  <2> QED BY <2>1, <2>6, <2>8, <1>0, <1>r, <1>s, <1>d
<1> QED BY <1>1, <1>2, <1>3, <1>4, <1>5, <1>6, <1>7, <1>8, <1>9 DEF Next, Store, Network

-----------------------------------------------------------------------------
LEMMA StreamInvariant == Spec => []StreamInv
<1>1. StreamInv /\ [Next]_vars => StreamInv'
  <2> SUFFICES ASSUME StreamInv, [Next]_vars PROVE StreamInv'
    OBVIOUS
  <2>1. CASE Next
    <3>1. ServerTypes' /\ \A c \in Conv : Len(stream[c]) <= Len(stream'[c])
      BY <2>1, ServerStep DEF StreamInv
    <3>2. LinkTypes' /\ StoreTypes' /\ ShownTypes'
      BY <2>1, <3>1, LinkStep, StoreStep, ShownStep
    <3> QED BY <3>1, <3>2 DEF StreamInv
  <2>2. CASE UNCHANGED vars
    BY <2>2 DEF vars, serverVars, viewVars, timerVars, callVars, StreamInv, ServerTypes,
                LinkTypes, StoreTypes, ShownTypes, ShownIsSaved
  <2> QED BY <2>1, <2>2
<1> QED BY <1>1, Initially, PTL DEF Spec

(* A message that the browser shows as complete has the text that is saved,  *)
(* whatever was lost, repeated, replayed, reconnected or trimmed away while  *)
(* it streamed, and whatever the user did meanwhile (chat.ts: onDone and     *)
(* openConversation set the whole text); and the server's cursor never       *)
(* leaves the stream.                                                        *)
THEOREM SavedShownHolds == Spec => []SavedShown
<1>1. StreamInv => SavedShown
  <2> SUFFICES ASSUME StreamInv PROVE SavedShown
    OBVIOUS
  <2>1. TypeOK
    BY DEF StreamInv, ServerTypes, LinkTypes, StoreTypes, ShownTypes, Source, Message, TypeOK
  <2> QED BY <2>1 DEF SavedShown, StreamInv, ShownTypes
<1> QED BY <1>1, StreamInvariant, PTL

-----------------------------------------------------------------------------
(* Fitting together.  Turns of a conversation do not overlap, so without    *)
(* repetitions the events of a turn are consecutive in the stream, from its *)
(* creation on.  A connection that follows a streaming message is at the    *)
(* event after the text on screen; one that starts at the end starts before *)
(* the turn that it is made for, and after all the others.                  *)

(* No connection failed, no publication was repeated, no stream trimmed.    *)
Faultless == errors = 0 /\ retries = 0 /\ \A c \in Conv : Len(stream[c]) <= Cap

Home(t)    == born[t][ConvOf[t]]
Earlier(t) == {u \in Turn : ConvOf[u] = ConvOf[t] /\ u < t}

Layout ==
  /\ \A t \in Turn : /\ sent[t] # 0 => row[t] # "none"
                     /\ sent[t] = Done => row[t] = "complete"
  /\ \A t \in Turn : row[t] # "none" =>
       /\ \A u \in Earlier(t) : sent[u] = Done /\ Home(u) + Done <= Home(t)
       /\ Home(t) + sent[t] <= Len(stream[ConvOf[t]])
       /\ sent[t] # Done => Home(t) + sent[t] = Len(stream[ConvOf[t]])
  /\ \A c \in Conv, t \in Turn : \A i \in DOMAIN stream[c] :
       stream[c][i].turn = t =>
         row[t] # "none" /\ i = Home(t) + stream[c][i].ev /\ stream[c][i].ev <= Done

(* Who does not act hastily waits for the answer to what was asked.         *)
CallsInv ==
  /\ \A i \in DOMAIN opening : opening[i].pc # "over" =>
       /\ i = Len(opening) /\ active = opening[i].conv /\ link.pc = "none"
       /\ \A t \in Turn : sending[t] \in {"no", "sent"}
  /\ link.pc # "none" => link.pc # "backoff" /\ handlers /\ link.conv = active
  /\ \A t \in Turn : /\ sending[t] = "opening" => row[t] = "none" /\ t \in Mine
                     /\ sending[t] = "posting" => row[t] # "none" /\ link.pc # "connecting"

(* A connection that starts at the end was made for a turn to come.         *)
JoinInv ==
  link.pc = "connecting" /\ link.now =>
    \E t \in Turn : /\ ConvOf[t] = link.conv /\ sending[t] = "opening"
                    /\ \A u \in Earlier(t) : sent[u] = Done

(* The first tokens of an answer.                                           *)
Piece(s) == Len(s) <= Tokens /\ \A k \in 1..Len(s) : s[k] = k

(* At position p of the stream the text of m is all that its turn had so    *)
(* far, or the turn, whose events start behind h, has no more tokens.       *)
Caught(m, h, p) ==
  \/ p >= h + Tokens + 1
  \/ p <= h /\ m.text = <<>>
  \/ h < p /\ p = h + 1 + Len(m.text)

Follows(p) ==
  \A t \in StreamingShown : ConvOf[t] = link.conv => Caught(shown[t], Home(t), p)

ScreenInv ==
  /\ \A t \in Turn : Piece(shown[t].text)
  /\ \A t \in StreamingShown : row[t] # "none"
  /\ \A i \in DOMAIN opening : opening[i].pc = "files" =>
       /\ \A t \in StreamingShown : ConvOf[t] = active /\ shown[t].text = <<>>
       /\ \A t, u \in StreamingShown : t = u

FollowInv ==
  /\ link.pc = "connecting" /\ ~link.now => Follows(link.since)
  /\ link.pc = "open" => Follows(link.cursor)
  /\ link.pc = "open" => \A t \in Turn :
       sending[t] = "posting" /\ ConvOf[t] = link.conv /\ shown[t] = Absent =>
         link.cursor <= Home(t)

GapInv == Layout /\ CallsInv /\ JoinInv /\ ScreenInv /\ FollowInv

(* The first tokens: none, all of them, one more.                           *)
LEMMA Pieces ==
  /\ Piece(<<>>) /\ Piece(Full)
  /\ \A s \in Seq(Nat) : Piece(s) => IsPrefix(s, Full)
  /\ \A s \in Seq(Nat), k \in Nat :
       Piece(s) /\ k = Len(s) + 1 /\ k <= Tokens => Piece(Append(s, k))
<1> USE BoundsType
<1>1. Tokens \in Nat /\ Full \in Seq(Nat) /\ Len(Full) = Tokens
      /\ \A k \in 1..Tokens : Full[k] = k
  BY DEF Full
<1>2. Piece(<<>>) /\ Piece(Full)
  BY <1>1 DEF Piece
<1>3. ASSUME NEW s \in Seq(Nat), Piece(s) PROVE IsPrefix(s, Full)
  <2>1. Len(s) \in Nat /\ Len(s) <= Tokens
    BY <1>3 DEF Piece
  <2>2. SubSeq(s, 1, Len(s)) = [k \in 1..Len(s) |-> s[k]]
    BY <2>1
  <2>3. SubSeq(Full, 1, Len(s)) = [k \in 1..Len(s) |-> Full[k]]
    BY <1>1, <2>1
  <2>4. \A k \in 1..Len(s) : s[k] = Full[k]
    BY <1>1, <1>3, <2>1 DEF Piece
  <2> QED BY <1>1, <2>1, <2>2, <2>3, <2>4 DEF IsPrefix
<1>4. ASSUME NEW s \in Seq(Nat), NEW k \in Nat, Piece(s), k = Len(s) + 1, k <= Tokens
      PROVE  Piece(Append(s, k))
  BY <1>4 DEF Piece
<1> QED BY <1>2, <1>3, <1>4

(* Without repetitions the events of two turns lie apart.                   *)
LEMMA Apart ==
  ASSUME ServerTypes, Layout, NEW t \in Turn, NEW u \in Turn, t # u,
         ConvOf[t] = ConvOf[u], row[t] # "none", row[u] # "none"
  PROVE  \/ t < u /\ sent[t] = Done /\ Home(t) + Done <= Home(u)
         \/ u < t /\ sent[u] = Done /\ Home(u) + Done <= Home(t)
<1>1. t < u \/ u < t
  BY TurnType
<1> QED BY <1>1 DEF Layout, Earlier

LEMMA HomeType ==
  ASSUME ServerTypes, NEW t \in Turn
  PROVE  /\ ConvOf[t] \in Conv /\ Home(t) \in Nat /\ sent[t] \in 0..Done /\ Done \in Nat
         /\ Done = Tokens + 2 /\ Tokens \in Nat /\ Tokens # 0
         /\ stream[ConvOf[t]] \in Seq(Event) /\ Len(stream[ConvOf[t]]) \in Nat
         /\ Home(t) <= Len(stream[ConvOf[t]])
  BY TurnType, BoundsType DEF ServerTypes, Home, Done

-----------------------------------------------------------------------------
LEMMA LayoutCreate ==
  ASSUME ServerTypes, Layout, NEW t \in Turn, Create(t)
  PROVE  Layout' /\ sent' = sent /\ (\A u \in Turn : u # t => Home(u)' = Home(u))
         /\ Home(t)' = Len(stream[ConvOf[t]]) /\ row[t] = "none" /\ row'[t] # "none"
         /\ (\A u \in Turn : u # t => row'[u] = row[u])
<1> USE HomeType
<1>1. /\ row[t] = "none" /\ row'[t] = "streaming" /\ sent' = sent /\ stream' = stream
      /\ \A u \in Turn : u # t => row'[u] = row[u]
      /\ \A u \in Earlier(t) : sent[u] = Done
  BY DEF Create, ServerTypes, Earlier
<1>2. (\A u \in Turn : u # t => Home(u)' = Home(u)) /\ Home(t)' = Len(stream[ConvOf[t]])
  BY DEF Create, ServerTypes, Home
<1>3. sent[t] = 0 /\ Done # 0
  BY <1>1 DEF Layout
<1>4. \A u \in Turn : Earlier(u)' = Earlier(u) /\ Earlier(u) \in SUBSET Turn
  BY DEF Earlier
<1>5. \A u \in Turn : /\ sent'[u] # 0 => row'[u] # "none"
                      /\ sent'[u] = Done => row'[u] = "complete"
  BY <1>1, <1>3 DEF Layout
<1>6. ASSUME NEW u \in Turn, row'[u] # "none"
      PROVE  /\ \A v \in Earlier(u) : sent'[v] = Done /\ Home(v)' + Done <= Home(u)'
             /\ Home(u)' + sent'[u] <= Len(stream'[ConvOf[u]])
             /\ sent'[u] # Done => Home(u)' + sent'[u] = Len(stream'[ConvOf[u]])
  <2>1. CASE u = t
    <3>1. ASSUME NEW v \in Earlier(t) PROVE sent[v] = Done /\ Home(v)' + Done <= Home(t)'
      <4>1. v \in Turn /\ v # t /\ ConvOf[v] = ConvOf[t] /\ sent[v] = Done
        BY <1>1, TurnType DEF Earlier
      <4>2. row[v] # "none" /\ Home(v) + sent[v] <= Len(stream[ConvOf[v]])
        BY <4>1, <1>3 DEF Layout
      <4> QED BY <4>1, <4>2, <1>2
    <3>2. Home(t)' + sent[t] = Len(stream[ConvOf[t]])
      BY <1>2, <1>3
    <3> QED BY <2>1, <3>1, <3>2, <1>1
  <2>2. CASE u # t
    <3>1. row[u] # "none" /\ Home(u)' = Home(u)
      BY <1>1, <1>2, <1>6, <2>2
    <3>2. t \notin Earlier(u)
      BY <3>1, <1>3 DEF Layout
    <3>3. \A v \in Earlier(u) : Home(v)' = Home(v)
      BY <3>2, <1>2, <1>4
    <3> QED BY <3>1, <3>3, <1>1 DEF Layout
  <2> QED BY <2>1, <2>2
<1>7. ASSUME NEW c \in Conv, NEW u \in Turn, NEW i \in DOMAIN stream'[c],
             stream'[c][i].turn = u
      PROVE  /\ row'[u] # "none" /\ i = Home(u)' + stream'[c][i].ev
             /\ stream'[c][i].ev <= Done
  <2>1. i \in DOMAIN stream[c] /\ stream[c][i].turn = u /\ stream'[c] = stream[c]
    BY <1>1, <1>7
  <2>2. row[u] # "none" /\ i = Home(u) + stream[c][i].ev /\ stream[c][i].ev <= Done
    BY <2>1 DEF Layout
  <2>3. u # t
    BY <1>1, <2>2
  <2>4. row'[u] = row[u] /\ Home(u)' = Home(u)
    BY <1>1, <1>2, <2>3
  <2> QED BY <2>1, <2>2, <2>4
<1>8. Done' = Done /\ \A u \in Turn : ConvOf[u]' = ConvOf[u]
  BY DEF Done
<1>9. Layout'
  BY <1>4, <1>5, <1>6, <1>7, <1>8 DEF Layout
<1> QED BY <1>1, <1>2, <1>9

LEMMA LayoutPublish ==
  ASSUME ServerTypes, ServerTypes', Layout, NEW t \in Turn, Publish(t), retries \in Nat,
         retries' = 0
  PROVE  Layout'
<1> USE HomeType
<1> DEFINE d == ConvOf[t]
           e == [turn |-> t, ev |-> sent[t] + 1]
<1>0. \A n \in Nat : n + 1 # 0
  OBVIOUS
<1>1. /\ row[t] # "none" /\ sent[t] < Done /\ (sent[t] + 1 = Done => row[t] = "complete")
      /\ row' = row /\ born' = born /\ sent' = [sent EXCEPT ![t] = sent[t] + 1]
  BY DEF Publish
<1>2. stream' = [stream EXCEPT ![d] = Append(stream[d], e)]
  BY <1>0 DEF Publish
<1>3. /\ \A c \in Conv : c # d => stream'[c] = stream[c]
      /\ stream'[d] = Append(stream[d], e) /\ d \in Conv /\ stream[d] \in Seq(Event)
      /\ e.turn = t /\ e.ev = sent[t] + 1
  BY <1>2 DEF ServerTypes
<1>4. /\ \A u \in Turn : u # t => sent'[u] = sent[u]
      /\ sent'[t] = sent[t] + 1
      /\ \A u \in Turn : Home(u)' = Home(u) /\ Earlier(u)' = Earlier(u)
      /\ \A u \in Turn : Earlier(u) \in SUBSET Turn
  BY <1>1 DEF ServerTypes, Home, Earlier
<1>5. /\ Home(t) + sent[t] = Len(stream[d]) /\ Home(t) \in Nat /\ sent[t] \in Nat
      /\ Len(stream[d]) \in Nat
  BY <1>1 DEF Layout
<1>e. e \in Event
  BY DEF Event
<1> HIDE DEF e
<1>6. /\ Len(stream'[d]) = Len(stream[d]) + 1
      /\ stream'[d][Len(stream[d]) + 1] = e
      /\ \A i \in DOMAIN stream[d] : stream'[d][i] = stream[d][i]
      /\ DOMAIN stream'[d] = DOMAIN stream[d] \cup {Len(stream[d]) + 1}
  BY <1>3, <1>e, AppendProperties
<1>7. \A u \in Turn : /\ sent'[u] # 0 => row'[u] # "none"
                      /\ sent'[u] = Done => row'[u] = "complete"
  BY <1>1, <1>4 DEF Layout
<1>8. ASSUME NEW u \in Turn, row'[u] # "none"
      PROVE  /\ \A v \in Earlier(u) : sent'[v] = Done /\ Home(v)' + Done <= Home(u)'
             /\ Home(u)' + sent'[u] <= Len(stream'[ConvOf[u]])
             /\ sent'[u] # Done => Home(u)' + sent'[u] = Len(stream'[ConvOf[u]])
  <2>0. row[u] # "none" /\ Home(u)' = Home(u)
    BY <1>1, <1>4, <1>8
  <2>1. \A v \in Earlier(u) : sent'[v] = Done /\ Home(v)' + Done <= Home(u)'
    <3> TAKE v \in Earlier(u)
    <3>1. v \in Turn /\ sent[v] = Done /\ Home(v) + Done <= Home(u)
      BY <2>0, <1>4 DEF Layout
    <3>2. v # t
      BY <3>1, <1>1
    <3> QED BY <3>1, <3>2, <1>4
  <2>2. CASE u = t
    <3>1. Home(t) + sent'[t] = Len(stream'[d])
      <4>1. Len(stream'[d]) = (Home(t) + sent[t]) + 1
        BY <1>5, <1>6
      <4> QED BY <4>1, <1>4, <1>5
    <3> QED BY <2>1, <2>2, <3>1, <1>4
  <2>3. CASE u # t /\ ConvOf[u] = d
    <3>1. sent'[u] = Done
      BY <2>0, <2>3, <1>1, <1>4, Apart
    <3>2. Home(u) + sent[u] <= Len(stream[d])
      BY <2>0, <2>3 DEF Layout
    <3>3. Home(u) + sent[u] <= Len(stream'[d])
      BY <3>2, <1>6
    <3> QED BY <2>1, <2>3, <3>1, <3>3, <1>4
  <2>4. CASE ConvOf[u] # d
    <3>1. stream'[ConvOf[u]] = stream[ConvOf[u]] /\ sent'[u] = sent[u]
      BY <2>4, <1>3, <1>4
    <3> QED BY <2>0, <2>1, <3>1 DEF Layout
  <2> QED BY <2>2, <2>3, <2>4
<1>9. ASSUME NEW c \in Conv, NEW u \in Turn, NEW i \in DOMAIN stream'[c],
             stream'[c][i].turn = u
      PROVE  /\ row'[u] # "none" /\ i = Home(u)' + stream'[c][i].ev
             /\ stream'[c][i].ev <= Done
  <2>1. CASE c = d /\ i = Len(stream[d]) + 1
    <3>1. stream'[c][i] = e /\ u = t /\ stream'[c][i].ev = sent[t] + 1
      BY <2>1, <1>3, <1>6, <1>9
    <3>2. i = Home(t) + (sent[t] + 1) /\ sent[t] + 1 <= Done
      <4>1. sent[t] \in Nat /\ Done \in Nat /\ sent[t] < Done
        BY <1>1
      <4>2. i = (Home(t) + sent[t]) + 1
        BY <2>1, <1>5
      <4> QED BY <4>1, <4>2, <1>5
    <3> QED BY <3>1, <3>2, <1>1, <1>4
  <2>2. CASE ~(c = d /\ i = Len(stream[d]) + 1)
    <3>1. i \in DOMAIN stream[c] /\ stream'[c][i] = stream[c][i]
      BY <2>2, <1>3, <1>6
    <3>2. row[u] # "none" /\ i = Home(u) + stream[c][i].ev /\ stream[c][i].ev <= Done
      BY <3>1, <1>9 DEF Layout
    <3> QED BY <3>1, <3>2, <1>1, <1>4
  <2> QED BY <2>1, <2>2
<1>10. Done' = Done /\ \A u \in Turn : ConvOf[u]' = ConvOf[u]
  BY DEF Done
<1> QED BY <1>4, <1>7, <1>8, <1>9, <1>10 DEF Layout

LEMMA LayoutStep ==
  ASSUME ServerTypes, ServerTypes', Layout, Next, retries \in Nat, retries' = 0
  PROVE  Layout'
<1>1. ASSUME NEW t \in Turn, Create(t) PROVE Layout'
  BY <1>1, LayoutCreate
<1>2. ASSUME NEW t \in Turn, Publish(t) PROVE Layout'
  BY <1>2, LayoutPublish
<1>3. ASSUME NEW t \in Turn, Commit(t) PROVE Layout'
  <2>1. /\ row[t] = "streaming" /\ row' = [row EXCEPT ![t] = "complete"]
        /\ sent' = sent /\ stream' = stream /\ born' = born
    BY <1>3 DEF Commit
  <2>2. \A u \in Turn : /\ row'[u] # "none" <=> row[u] # "none"
                        /\ row[u] = "complete" => row'[u] = "complete"
                        /\ Home(u)' = Home(u) /\ Earlier(u)' = Earlier(u)
                        /\ Earlier(u) \in SUBSET Turn
    BY <2>1 DEF ServerTypes, Home, Earlier
  <2>4. \A u \in Turn : /\ sent'[u] # 0 => row'[u] # "none"
                        /\ sent'[u] = Done => row'[u] = "complete"
    BY <2>1, <2>2 DEF Layout
  <2>5. Done' = Done
    BY DEF Done
  <2> QED BY <2>1, <2>2, <2>4, <2>5 DEF Layout
<1>4. ASSUME UNCHANGED serverVars PROVE Layout'
  BY <1>4 DEF serverVars, Layout, Home, Earlier, Done
<1> QED BY <1>1, <1>2, <1>3, <1>4, ServerActs

-----------------------------------------------------------------------------
(* Who waits for an answer is not overtaken.                                *)

LEMMA CallMoves ==
  ASSUME StoreTypes, NEW i \in DOMAIN opening, NEW p,
         opening' = [opening EXCEPT ![i].pc = p]
  PROVE  /\ DOMAIN opening' = DOMAIN opening /\ Len(opening') = Len(opening)
         /\ \A j \in DOMAIN opening : /\ opening'[j].conv = opening[j].conv
                                      /\ opening'[j].pc = IF j = i THEN p ELSE opening[j].pc
<1>1. opening \in Seq(OpenCall) /\ \A j \in DOMAIN opening : opening[j] \in OpenCall
  BY DEF StoreTypes
<1>2. DOMAIN opening' = 1..Len(opening) /\ Len(opening) \in Nat
  BY <1>1
<1>3. ASSUME NEW j \in DOMAIN opening
      PROVE  /\ opening'[j].conv = opening[j].conv
             /\ opening'[j].pc = IF j = i THEN p ELSE opening[j].pc
  BY <1>1, <1>3 DEF OpenCall
<1>4. Len(opening') = Len(opening)
  BY <1>1, <1>2
<1> QED BY <1>1, <1>2, <1>3, <1>4

LEMMA CloseFacts == ASSUME CloseStream PROVE link'.pc = "none"
  BY DEF CloseStream, Closed

(* The first call that is not over leaves the connection closed.            *)
LEMMA NoCallWhileLinked ==
  ASSUME CallsInv, link.pc # "none"
  PROVE  \A i \in DOMAIN opening : opening[i].pc = "over"
  BY DEF CallsInv

LEMMA NoCallWhileSending ==
  ASSUME CallsInv, NEW t \in Turn, sending[t] \in {"opening", "posting"}
  PROVE  \A i \in DOMAIN opening : opening[i].pc = "over"
  BY DEF CallsInv

(* openConversation has its files: it follows the stream, or nothing.       *)
LEMMA FollowsFromCreation ==
  ASSUME StreamInv, NEW i \in DOMAIN opening, OpenDone(i), StreamingShown # {}
  PROVE  \E t \in StreamingShown :
           /\ link'.pc = "connecting" /\ link'.conv = opening[i].conv /\ ~link'.now
           /\ link'.since = born[t][opening[i].conv] /\ handlers'
<1> DEFINE t == CHOOSE u \in StreamingShown : \A v \in StreamingShown : u <= v
<1>1. StreamingShown \in SUBSET Nat
  BY TurnType DEF StreamingShown
<1>2. \E u \in StreamingShown : \A v \in StreamingShown : u <= v
  BY <1>1, LeastTurn
<1>3. t \in StreamingShown
  BY <1>2
<1>4. Subscribe(opening[i].conv, FALSE, born[t][opening[i].conv])
  BY DEF OpenDone
<1> HIDE DEF t
<1> QED BY <1>3, <1>4 DEF Subscribe, Closed

LEMMA CallsStep ==
  ASSUME StreamInv, CallsInv, Next, errors \in Nat, errors' = 0, ~Hasty, ~Slow
  PROVE  CallsInv'
<1> USE DEF StreamInv, serverVars, viewVars, timerVars, callVars
<1>0. sending \in [Turn -> {"no", "opening", "posting", "sent"}]
  BY DEF StoreTypes
<1>1. ASSUME NEW t \in Turn, OtherDeviceSends(t) PROVE CallsInv'
  <2>1. \A u \in Turn : u # t => row'[u] = row[u]
    BY <1>1 DEF OtherDeviceSends, Create, ServerTypes
  <2>2. row'[t] # "none" /\ t \notin Mine
    BY <1>1 DEF OtherDeviceSends, Create, ServerTypes
  <2>3. sending' = sending /\ opening' = opening /\ active' = active /\ link' = link
        /\ handlers' = handlers
    BY <1>1 DEF OtherDeviceSends
  <2> QED BY <2>1, <2>2, <2>3 DEF CallsInv
<1>2. ASSUME NEW t \in Turn, Publish(t) \/ Commit(t) PROVE CallsInv'
  <2>1. \A u \in Turn : row'[u] = "none" <=> row[u] = "none"
    BY <1>2 DEF Publish, Commit, ServerTypes
  <2>2. sending' = sending /\ opening' = opening /\ active' = active /\ link' = link
        /\ handlers' = handlers
    BY <1>2 DEF Publish, Commit
  <2> QED BY <2>1, <2>2 DEF CallsInv
<1>3. ASSUME NEW t \in Turn, Post(t) PROVE CallsInv'
  <2>1. /\ sending[t] = "opening" /\ link.pc # "connecting" /\ sending'[t] = "posting"
        /\ \A u \in Turn : u # t => row'[u] = row[u] /\ sending'[u] = sending[u]
        /\ row'[t] # "none"
    BY <1>3, <1>0 DEF Post, Create, ServerTypes
  <2>2. opening' = opening /\ active' = active /\ link' = link /\ handlers' = handlers
    BY <1>3 DEF Post
  <2>3. \A i \in DOMAIN opening : opening[i].pc = "over"
    BY <2>1, NoCallWhileSending
  <2> QED BY <2>1, <2>2, <2>3 DEF CallsInv
<1>4. ASSUME NEW t \in Turn, PostReturns(t) PROVE CallsInv'
  <2>1. /\ row' = row /\ sending'[t] = "sent"
        /\ \A u \in Turn : u # t => sending'[u] = sending[u]
    BY <1>4, <1>0 DEF PostReturns
  <2>2. opening' = opening /\ active' = active /\ link' = link /\ handlers' = handlers
    BY <1>4 DEF PostReturns
  <2> QED BY <2>1, <2>2 DEF CallsInv
<1>5. ASSUME NEW i \in DOMAIN opening, OpenGot(i) PROVE CallsInv'
  <2>1. /\ DOMAIN opening' = DOMAIN opening /\ Len(opening') = Len(opening)
        /\ \A j \in DOMAIN opening :
             /\ opening'[j].conv = opening[j].conv
             /\ opening'[j].pc = IF j = i THEN "files" ELSE opening[j].pc
    BY <1>5, CallMoves DEF OpenGot
  <2>2. /\ row' = row /\ sending' = sending /\ active' = active /\ link' = link
        /\ handlers' = handlers /\ opening[i].pc = "get"
    BY <1>5 DEF OpenGot
  <2> QED BY <2>1, <2>2 DEF CallsInv
<1>6. ASSUME NEW i \in DOMAIN opening, OpenDone(i) PROVE CallsInv'
  <2>1. /\ DOMAIN opening' = DOMAIN opening
        /\ \A j \in DOMAIN opening : opening'[j].pc = IF j = i THEN "over" ELSE opening[j].pc
    BY <1>6, CallMoves DEF OpenDone
  <2>2. /\ row' = row /\ sending' = sending /\ active' = active /\ opening[i].pc = "files"
    BY <1>6 DEF OpenDone
  <2>3. /\ i = Len(opening) /\ active = opening[i].conv /\ link.pc = "none"
        /\ \A t \in Turn : sending[t] \in {"no", "sent"}
    BY <2>2 DEF CallsInv
  <2>4. \A j \in DOMAIN opening' : opening'[j].pc = "over"
    BY <2>1, <2>3 DEF CallsInv
  <2>5. link'.pc # "none" => link'.pc # "backoff" /\ handlers' /\ link'.conv = active
    <3>1. CASE StreamingShown = {}
      BY <1>6, <3>1, <2>3 DEF OpenDone
    <3>2. CASE StreamingShown # {}
      BY <1>6, <3>2, <2>3, FollowsFromCreation
    <3> QED BY <3>1, <3>2
  <2> QED BY <2>2, <2>3, <2>4, <2>5 DEF CallsInv
<1>7. ASSUME TimerFires \/ OldTimerFires \/ Cancel PROVE CallsInv'
  <2>1. /\ row' = row /\ sending' = sending /\ active' = active /\ opening' = opening
        /\ link'.pc = "none"
    BY <1>7, CloseFacts DEF TimerFires, OldTimerFires, Cancel, RefreshAfterTurn
  <2> QED BY <2>1 DEF CallsInv
<1>8. ASSUME NEW t \in Turn, SendSingle(t) PROVE CallsInv'
  <2>1. /\ link'.pc = "connecting" /\ link'.conv = active /\ handlers' = TRUE
        /\ active' = active /\ row' = row /\ opening' = opening
    BY <1>8 DEF SendSingle, Subscribe, Closed
  <2>2. /\ \A i \in DOMAIN opening : opening[i].pc = "over"
        /\ \A u \in Turn : u # t => sending'[u] \in {"no", "sent"}
        /\ sending'[t] = "opening" /\ row[t] = "none" /\ t \in Mine
    BY <1>8, <1>0 DEF SendSingle, Settled
  <2> QED BY <2>1, <2>2 DEF CallsInv
<1>9. ASSUME NEW c \in Conv, OpenConversation(c) PROVE CallsInv'
  <2>1. /\ link'.pc = "none" /\ active' = c /\ row' = row /\ sending' = sending
    BY <1>9, CloseFacts DEF OpenConversation
  <2>2. /\ \A i \in DOMAIN opening : opening[i].pc = "over"
        /\ \A u \in Turn : sending[u] \in {"no", "sent"}
    BY <1>9 DEF OpenConversation, Settled
  <2>3. /\ Len(opening') = Len(opening) + 1
        /\ opening'[Len(opening) + 1] = [pc |-> "get", conv |-> c]
        /\ DOMAIN opening' = DOMAIN opening \cup {Len(opening) + 1}
        /\ \A i \in DOMAIN opening : opening'[i] = opening[i]
    <3>1. opening \in Seq(OpenCall) /\ [pc |-> "get", conv |-> c] \in OpenCall
      BY DEF StoreTypes, OpenCall
    <3> HIDE DEF OpenCall
    <3> QED BY <3>1, <1>9, AppendProperties DEF OpenConversation
  <2>4. \A i \in DOMAIN opening' : opening'[i].pc # "over" =>
          i = Len(opening') /\ opening'[i].conv = c
    BY <2>2, <2>3
  <2> QED BY <2>1, <2>2, <2>4 DEF CallsInv
<1>10. ASSUME Connect PROVE CallsInv'
  <2>1. /\ row' = row /\ sending' = sending /\ active' = active /\ opening' = opening
        /\ handlers' = handlers /\ link.pc = "connecting"
    BY <1>10 DEF Connect
  <2>2. link'.pc = "open" /\ link'.conv = link.conv
    BY <1>10 DEF Connect, LinkTypes, Source
  <2> QED BY <2>1, <2>2 DEF CallsInv
<1>11. ASSUME LinkFails PROVE FALSE
  BY <1>11 DEF LinkFails
<1>12. ASSUME Reconnect PROVE FALSE
  BY <1>12 DEF Reconnect, CallsInv
<1>13. ASSUME Deliver PROVE CallsInv'
  <2>1. /\ row' = row /\ sending' = sending /\ active' = active /\ opening' = opening
        /\ handlers' = handlers /\ link.pc = "open"
    BY <1>13 DEF Deliver
  <2>2. link'.pc = "open" /\ link'.conv = link.conv
    BY <1>13 DEF Deliver, LinkTypes, Source
  <2> QED BY <2>1, <2>2 DEF CallsInv
<1> QED BY <1>1, <1>2, <1>3, <1>4, <1>5, <1>6, <1>7, <1>8, <1>9, <1>10, <1>11, <1>12, <1>13
           DEF Next, Server, Store, User, Network

-----------------------------------------------------------------------------
(* The turn that a connection at the end was made for is still to come.     *)
LEMMA JoinStep ==
  ASSUME StreamInv, CallsInv, JoinInv, Next, errors \in Nat, errors' = 0, ~Slow
  PROVE  JoinInv'
<1> USE DEF StreamInv, serverVars, viewVars, timerVars, callVars
<1>0. sending \in [Turn -> {"no", "opening", "posting", "sent"}] /\ sent \in [Turn -> 0..Done]
  BY DEF StoreTypes, ServerTypes
<1>e. Done' = Done /\ \A t \in Turn : Earlier(t)' = Earlier(t) /\ Earlier(t) \in SUBSET Turn
  BY DEF Done, Earlier
<1>s. ASSUME link' = link,
             \A t \in Turn : sending[t] = "opening" => sending'[t] = "opening",
             \A t \in Turn : sent[t] = Done => sent'[t] = Done
      PROVE  JoinInv'
  BY <1>s, <1>e DEF JoinInv
<1>n. ASSUME ~ (link'.pc = "connecting" /\ link'.now) PROVE JoinInv'
  BY <1>n DEF JoinInv
<1>1. ASSUME NEW t \in Turn, Server(t) PROVE JoinInv'
  <2>1. link' = link /\ sending' = sending
    BY <1>1 DEF Server, OtherDeviceSends, Publish, Commit
  <2>2. \A u \in Turn : sent[u] = Done => sent'[u] = Done
    <3>1. CASE Publish(t)
      <4>1. sent[t] < Done /\ \A u \in Turn : u # t => sent'[u] = sent[u]
        BY <3>1, <1>0 DEF Publish
      <4>2. sent[t] # Done
        BY <4>1, <1>0, BoundsType DEF Done
      <4> QED BY <4>1, <4>2
    <3>2. CASE ~Publish(t)
      BY <1>1, <3>2 DEF Server, OtherDeviceSends, Create, Commit
    <3> QED BY <3>1, <3>2
  <2> QED BY <2>1, <2>2, <1>s
<1>2. ASSUME NEW t \in Turn, Post(t) PROVE JoinInv'
  BY <1>2, <1>n DEF Post
<1>3. ASSUME NEW t \in Turn, PostReturns(t) PROVE JoinInv'
  <2>1. link' = link /\ sent' = sent /\ sending[t] = "posting"
        /\ \A u \in Turn : u # t => sending'[u] = sending[u]
    BY <1>3, <1>0 DEF PostReturns
  <2> QED BY <2>1, <1>s
<1>4. ASSUME NEW i \in DOMAIN opening, OpenGot(i) PROVE JoinInv'
  BY <1>4, <1>s DEF OpenGot
<1>5. ASSUME NEW i \in DOMAIN opening, OpenDone(i) PROVE JoinInv'
  <2>1. CASE StreamingShown = {}
    BY <1>5, <2>1, <1>s DEF OpenDone
  <2>2. CASE StreamingShown # {}
    <3>1. ~link'.now
      BY <1>5, <2>2, FollowsFromCreation
    <3> QED BY <3>1, <1>n
  <2> QED BY <2>1, <2>2
<1>6. ASSUME TimerFires \/ OldTimerFires \/ Cancel PROVE JoinInv'
  <2>1. link'.pc = "none"
    BY <1>6, CloseFacts DEF TimerFires, OldTimerFires, Cancel, RefreshAfterTurn
  <2> QED BY <2>1, <1>n
<1>7. ASSUME NEW t \in Turn, SendSingle(t) PROVE JoinInv'
  <2>1. ConvOf[t] = active /\ sending'[t] = "opening" /\ sent' = sent
        /\ \A u \in Earlier(t) : sent[u] = Done
    BY <1>7, <1>0 DEF SendSingle, Earlier
  <2>2. link'.conv = active
    BY <1>7 DEF SendSingle, Subscribe, Closed
  <2> QED BY <2>1, <2>2, <1>e DEF JoinInv
<1>8. ASSUME NEW c \in Conv, OpenConversation(c) PROVE JoinInv'
  <2>1. link'.pc = "none"
    BY <1>8, CloseFacts DEF OpenConversation
  <2> QED BY <2>1, <1>n
<1>9. ASSUME Connect \/ Deliver PROVE JoinInv'
  <2>1. link'.pc = "open"
    BY <1>9 DEF Connect, Deliver, LinkTypes, Source
  <2> QED BY <2>1, <1>n
<1>10. ASSUME LinkFails \/ Reconnect PROVE FALSE
  BY <1>10 DEF LinkFails, Reconnect, CallsInv
<1> QED BY <1>1, <1>2, <1>3, <1>4, <1>5, <1>6, <1>7, <1>8, <1>9, <1>10
           DEF Next, Store, User, Network

-----------------------------------------------------------------------------
(* The next event of an untrimmed stream is the one after the cursor.       *)
LEMMA NextWhenShort ==
  ASSUME NEW len \in Nat, NEW at \in Nat, NEW cap \in Nat, at < len, len <= cap
  PROVE  Max({at + 1} \cup {n \in 1..len : n = len - cap + 1}) = at + 1
<1> DEFINE S == {at + 1} \cup {n \in 1..len : n = len - cap + 1}
<1>1. at + 1 \in S /\ \A n \in S : n \in Nat /\ n <= at + 1
  OBVIOUS
<1> HIDE DEF S
<1>2. \E m \in S : \A n \in S : m >= n
  BY <1>1
<1>3. Max(S) \in S /\ \A n \in S : Max(S) >= n
  BY <1>2 DEF Max
<1>4. Max(S) \in Nat /\ Max(S) <= at + 1 /\ Max(S) >= at + 1
  BY <1>1, <1>3
<1>5. Max(S) = at + 1
  BY <1>4
<1> QED BY <1>5 DEF S

(* What the handlers make of the event ev of a turn.                        *)
Applied(m, ev) == CASE ev = Start -> OnStart(m)
                    [] ev = Done  -> OnDone(m)
                    [] OTHER      -> OnToken(m, ev - 1)

LEMMA Delivers ==
  ASSUME StreamInv, Layout, CallsInv, Deliver, \A c \in Conv : Len(stream[c]) <= Cap
  PROVE  \E t \in Turn, ev \in 1..Done :
           /\ ConvOf[t] = link.conv /\ row[t] # "none" /\ link.cursor + 1 = Home(t) + ev
           /\ link'.pc = "open" /\ link'.conv = link.conv
           /\ link'.cursor = link.cursor + 1
           /\ shown'[t] = Applied(shown[t], ev)
           /\ \A u \in Turn : u # t => shown'[u] = shown[u]
<1> USE DEF StreamInv
<1> DEFINE all  == stream[link.conv]
           next == Max({link.cursor + 1} \cup {n \in DOMAIN all : n = Len(all) - Cap + 1})
           e    == all[next]
           t    == e.turn
<1>1. link.pc = "open" /\ link.cursor < Len(all)
  BY DEF Deliver
<1>2. link.conv \in Conv /\ link.cursor \in Nat /\ handlers /\ active = link.conv
  BY <1>1 DEF LinkTypes, Source, CallsInv
<1>3. all \in Seq(Event) /\ \A i \in DOMAIN all : ConvOf[all[i].turn] = link.conv
  BY <1>2 DEF ServerTypes
<1>4. DOMAIN all = 1..Len(all) /\ Len(all) \in Nat /\ Cap \in Nat /\ Len(all) <= Cap
  BY <1>2, <1>3, BoundsType
<1>5. next = link.cursor + 1
  <2>1. next = Max({link.cursor + 1} \cup {n \in 1..Len(all) : n = Len(all) - Cap + 1})
    BY <1>4
  <2> HIDE DEF next, all
  <2> QED BY <2>1, <1>1, <1>2, <1>4, NextWhenShort
<1>6. /\ link' = [link EXCEPT !.cursor = next, !.errors = 0]
      /\ shown' = [shown EXCEPT ![t] = Applied(shown[t], e.ev)]
  BY <1>2 DEF Deliver, Applied
<1> HIDE DEF next, all
<1>7. next \in DOMAIN all
  BY <1>1, <1>2, <1>4, <1>5
<1>8. t \in Turn /\ e.ev \in Nat \ {0} /\ ConvOf[t] = link.conv
  <2>1. e \in Event
    BY <1>3, <1>7
  <2> HIDE DEF e
  <2>2. e.turn \in Turn /\ e.ev \in Nat \ {0}
    BY <2>1 DEF Event
  <2> QED BY <2>2, <1>3, <1>7 DEF e
<1>9. row[t] # "none" /\ next = Home(t) + e.ev /\ e.ev <= Done
  BY <1>2, <1>7, <1>8 DEF Layout, all
<1>10. link'.pc = "open" /\ link'.conv = link.conv /\ link'.cursor = next
  BY <1>1, <1>6 DEF LinkTypes, Source
<1>11. e.ev \in 1..Done
  BY <1>8, <1>9, HomeType
<1> HIDE DEF t, e
<1>12. shown'[t] = Applied(shown[t], e.ev) /\ \A u \in Turn : u # t => shown'[u] = shown[u]
  BY <1>6, <1>8 DEF ShownTypes
<1> QED BY <1>5, <1>8, <1>9, <1>10, <1>11, <1>12

(* The event after the text on screen keeps it a first piece, and caught.   *)
LEMMA AppliedFits ==
  ASSUME NEW m, Right(m), Piece(m.text), NEW h \in Nat, NEW p \in Nat, NEW ev \in 1..Done,
         p + 1 = h + ev, m.status = "streaming" => Caught(m, h, p)
  PROVE  /\ Piece(Applied(m, ev).text)
         /\ Applied(m, ev).status = "streaming" => Caught(Applied(m, ev), h, p + 1)
         /\ Applied(m, ev) = Absent => m = Absent /\ ev # Start
<1> USE BoundsType
<1>0. Tokens \in Nat /\ Tokens # 0 /\ Done = Tokens + 2 /\ Start = 1 /\ ev \in Nat /\ ev >= 1
      /\ ev <= Tokens + 2
  BY DEF Done, Start
<1>m. m \in Message /\ m.text \in Seq(Nat) /\ Len(m.text) \in Nat
  BY DEF Right, Message
<1>1. CASE ev = Start
  <2>0. Applied(m, ev) = OnStart(m) /\ p = h
    BY <1>0, <1>1 DEF Applied
  <2>1. CASE m = Absent
    <3>1. OnStart(m) = [status |-> "streaming", text |-> <<>>]
      BY <2>1 DEF OnStart, Absent
    <3>2. Len(<<>>) = 0
      OBVIOUS
    <3>3. Caught(OnStart(m), h, p + 1)
      BY <2>0, <3>1, <3>2 DEF Caught
    <3>4. OnStart(m) # Absent /\ Piece(OnStart(m).text)
      BY <3>1, Pieces DEF Absent
    <3> QED BY <2>0, <3>3, <3>4
  <2>2. CASE m # Absent
    <3>1. OnStart(m) = m
      BY <2>2 DEF OnStart
    <3>2. ASSUME m.status = "streaming" PROVE Caught(m, h, p + 1)
      <4>1. Caught(m, h, p)
        BY <3>2
      <4>2. m.text = <<>>
        <5>1. ~ (p >= h + Tokens + 1) /\ ~ (h < p)
          BY <2>0, <1>0
        <5> QED BY <4>1, <5>1 DEF Caught
      <4>3. Len(m.text) = 0
        BY <4>2
      <4> QED BY <4>3, <2>0 DEF Caught
    <3> QED BY <2>0, <2>2, <3>1, <3>2
  <2> QED BY <2>1, <2>2
<1>2. CASE ev = Done
  <2>0. Applied(m, ev) = OnDone(m)
    BY <1>0, <1>2 DEF Applied
  <2>1. CASE m = Absent
    <3>1. OnDone(m) = m /\ m.status # "streaming"
      BY <2>1 DEF OnDone, Absent
    <3>2. ev # Start
      BY <1>0, <1>2
    <3> QED BY <2>0, <2>1, <3>1, <3>2
  <2>2. CASE m # Absent
    <3>1. OnDone(m) = [status |-> "complete", text |-> Full]
      BY <2>2 DEF OnDone
    <3>2. OnDone(m) # Absent /\ OnDone(m).status # "streaming" /\ Piece(OnDone(m).text)
      BY <3>1, Pieces DEF Absent
    <3> QED BY <2>0, <3>2
  <2> QED BY <2>1, <2>2
<1>3. CASE ev # Start /\ ev # Done
  <2>0. Applied(m, ev) = OnToken(m, ev - 1)
    BY <1>3 DEF Applied
  <2>1. CASE m.status = "streaming"
    <3> DEFINE k == ev - 1
    <3>1. k \in Nat /\ k <= Tokens /\ p = h + k /\ k # 0
      BY <1>0, <1>3
    <3>2. Len(m.text) + 1 = k
      <4>1. Caught(m, h, p)
        BY <2>1
      <4>2. p = h + 1 + Len(m.text)
        <5>1. ~ (p >= h + Tokens + 1) /\ ~ (p <= h)
          BY <3>1, <1>0
        <5> QED BY <4>1, <5>1 DEF Caught
      <4>3. \A i, j, n \in Nat : i + 1 + n = i + j => n + 1 = j
        OBVIOUS
      <4> HIDE DEF k
      <4> QED BY <4>2, <4>3, <3>1, <1>m
    <3>3. OnToken(m, k) = [status |-> "streaming", text |-> Append(m.text, k)]
      <4>1. m = [status |-> m.status, text |-> m.text]
        BY <1>m DEF Message
      <4> QED BY <2>1, <4>1 DEF OnToken
    <3> HIDE DEF k
    <3>4. Piece(Append(m.text, k))
      BY <1>m, <3>1, <3>2, Pieces
    <3>5. OnToken(m, k).text = Append(m.text, k) /\ Len(Append(m.text, k)) = k
      BY <1>m, <3>2, <3>3
    <3>6. Caught(OnToken(m, k), h, p + 1)
      <4>1. p + 1 = h + 1 + k /\ h < p + 1
        BY <3>1
      <4> QED BY <4>1, <3>5 DEF Caught
    <3>7. OnToken(m, k) # Absent
      BY <3>3 DEF Absent
    <3>8. Applied(m, ev) = OnToken(m, k) /\ Piece(OnToken(m, k).text)
      BY <2>0, <3>4, <3>5 DEF k
    <3> QED BY <3>6, <3>7, <3>8
  <2>2. CASE m.status # "streaming"
    <3>1. OnToken(m, ev - 1) = m
      BY <2>2 DEF OnToken
    <3> QED BY <2>0, <2>2, <3>1, <1>3
  <2> QED BY <2>1, <2>2
<1> QED BY <1>1, <1>2, <1>3

(* An event of another turn leaves a message caught.                        *)
LEMMA OthersFit ==
  ASSUME StreamInv, Layout, NEW t \in Turn, NEW u \in Turn, t # u, ConvOf[t] = ConvOf[u],
         row[t] # "none", row[u] # "none", NEW p \in Nat, NEW ev \in 1..Done,
         p + 1 = Home(t) + ev
  PROVE  /\ Caught(shown[u], Home(u), p) => Caught(shown[u], Home(u), p + 1)
         /\ p <= Home(u) => p + 1 <= Home(u)
<1> USE DEF StreamInv
<1>1. /\ Home(t) \in Nat /\ Home(u) \in Nat /\ Done = Tokens + 2 /\ Tokens \in Nat
      /\ ev \in Nat /\ ev >= 1 /\ ev <= Done /\ Len(shown[u].text) \in Nat
  BY HomeType DEF ShownTypes, Message
<1>2. p + 1 <= Home(u) \/ p >= Home(u) + Done
  <2>1. Home(t) + Done <= Home(u) \/ Home(u) + Done <= Home(t)
    BY Apart
  <2> QED BY <1>1, <2>1
<1> QED BY <1>1, <1>2 DEF Caught

LEMMA DeliverStep ==
  ASSUME StreamInv, Layout, CallsInv, ScreenInv, FollowInv, Deliver,
         \A c \in Conv : Len(stream[c]) <= Cap
  PROVE  ScreenInv' /\ FollowInv'
<1> USE DEF StreamInv
<1>1. PICK t \in Turn, ev \in 1..Done :
           /\ ConvOf[t] = link.conv /\ row[t] # "none" /\ link.cursor + 1 = Home(t) + ev
           /\ link'.pc = "open" /\ link'.conv = link.conv
           /\ link'.cursor = link.cursor + 1
           /\ shown'[t] = Applied(shown[t], ev)
           /\ \A u \in Turn : u # t => shown'[u] = shown[u]
  BY Delivers
<1>2. /\ row' = row /\ born' = born /\ sending' = sending /\ opening' = opening
      /\ active' = active /\ link.pc = "open"
  BY DEF Deliver, serverVars, callVars
<1>3. \A i \in DOMAIN opening : opening[i].pc = "over"
  BY <1>2, NoCallWhileLinked
<1>4. link.cursor \in Nat
  BY DEF LinkTypes, Source
<1>5. \A u \in Turn : Home(u)' = Home(u) /\ Home(u) \in Nat
  BY <1>2, HomeType DEF Home
<1>6. /\ Right(shown[t]) /\ Piece(shown[t].text)
      /\ shown[t].status = "streaming" => Caught(shown[t], Home(t), link.cursor)
  BY <1>1, <1>2 DEF ShownTypes, ShownIsSaved, Right, ScreenInv, FollowInv, Follows,
                    StreamingShown
<1>7. /\ Piece(shown'[t].text)
      /\ shown'[t].status = "streaming" => Caught(shown'[t], Home(t), link.cursor + 1)
      /\ shown'[t] = Absent => shown[t] = Absent /\ ev # Start
  BY <1>1, <1>4, <1>5, <1>6, AppliedFits
<1>8. ScreenInv'
  <2>1. \A u \in Turn : Piece(shown'[u].text)
    BY <1>1, <1>7 DEF ScreenInv
  <2>2. \A u \in Turn : shown'[u].status = "streaming" => row[u] # "none"
    BY <1>1 DEF ScreenInv, StreamingShown
  <2> QED BY <1>2, <1>3, <2>1, <2>2 DEF ScreenInv, StreamingShown
<1>9. ASSUME NEW u \in Turn, shown'[u].status = "streaming", ConvOf[u] = link.conv
      PROVE  Caught(shown'[u], Home(u), link.cursor + 1)
  <2>1. CASE u = t
    BY <1>7, <1>9, <2>1
  <2>2. CASE u # t
    <3>1. u \in StreamingShown /\ shown'[u] = shown[u]
      BY <1>1, <1>9, <2>2 DEF StreamingShown
    <3>2. row[u] # "none" /\ Caught(shown[u], Home(u), link.cursor)
      BY <1>2, <1>9, <3>1 DEF ScreenInv, FollowInv, Follows
    <3> QED BY <1>1, <1>4, <1>9, <2>2, <3>1, <3>2, OthersFit
  <2> QED BY <2>1, <2>2
<1>10. ASSUME NEW u \in Turn, sending[u] = "posting", ConvOf[u] = link.conv,
              shown'[u] = Absent
       PROVE  link.cursor + 1 <= Home(u)
  <2>0. row[u] # "none"
    BY <1>10 DEF CallsInv
  <2>1. CASE u = t
    <3>1. link.cursor <= Home(t) /\ ev # Start
      BY <1>2, <1>7, <1>10, <2>1 DEF FollowInv
    <3>2. ev \in Nat /\ ev >= 2
      BY <3>1, HomeType DEF Start
    <3> QED BY <1>1, <1>4, <1>5, <3>1, <3>2
  <2>2. CASE u # t
    <3>1. link.cursor <= Home(u)
      BY <1>1, <1>2, <1>10, <2>2 DEF FollowInv
    <3> QED BY <1>1, <1>4, <1>10, <2>0, <2>2, <3>1, OthersFit
  <2> QED BY <2>1, <2>2
<1>11. FollowInv'
  BY <1>1, <1>2, <1>5, <1>9, <1>10 DEF FollowInv, Follows, StreamingShown, Absent
<1> QED BY <1>8, <1>11

-----------------------------------------------------------------------------
(* The other steps.                                                         *)

(* A step that leaves the screen and the connection alone.                  *)
LEMMA ViewKept ==
  ASSUME CallsInv, ScreenInv, FollowInv,
         shown' = shown, active' = active, opening' = opening, link' = link,
         sending' = sending,
         \A u \in Turn : row[u] # "none" => row'[u] # "none" /\ Home(u)' = Home(u)
  PROVE  ScreenInv' /\ FollowInv'
<1>1. StreamingShown' = StreamingShown /\ Absent' = Absent
  BY DEF StreamingShown, Absent
<1>2. \A u \in StreamingShown : u \in Turn /\ row[u] # "none"
  BY DEF ScreenInv, StreamingShown
<1>3. ScreenInv'
  BY <1>1, <1>2 DEF ScreenInv
<1>4. \A p : Follows(p) => \A u \in StreamingShown : ConvOf[u] = link.conv =>
                             Caught(shown[u], Home(u)', p)
  BY <1>2 DEF Follows
<1>5. \A u \in Turn : sending[u] = "posting" => Home(u)' = Home(u)
  BY DEF CallsInv
<1>6. FollowInv'
  BY <1>1, <1>4, <1>5 DEF FollowInv, Follows
<1> QED BY <1>3, <1>6

(* A step that closes the connection.                                       *)
LEMMA ViewClosed == ASSUME link'.pc = "none" PROVE FollowInv'
  BY DEF FollowInv

LEMMA PostStep ==
  ASSUME StreamInv, Layout, CallsInv, ScreenInv, FollowInv, NEW t \in Turn, Post(t), ~Slow
  PROVE  ScreenInv' /\ FollowInv'
<1> USE DEF StreamInv
<1>1. /\ shown' = shown /\ active' = active /\ opening' = opening /\ link' = link
      /\ sending[t] = "opening" /\ link.pc # "connecting" /\ Create(t)
      /\ \A u \in Turn : u # t => sending'[u] = sending[u]
  BY DEF Post, viewVars, StoreTypes
<1>2. /\ \A u \in Turn : u # t => Home(u)' = Home(u) /\ row'[u] = row[u]
      /\ Home(t)' = Len(stream[ConvOf[t]]) /\ row[t] = "none" /\ row'[t] # "none"
  BY <1>1, LayoutCreate
<1>3. \A i \in DOMAIN opening : opening[i].pc = "over"
  BY <1>1, NoCallWhileSending
<1>4. \A u \in StreamingShown : u \in Turn /\ row[u] # "none" /\ u # t
  BY <1>2 DEF ScreenInv, StreamingShown
<1>5. StreamingShown' = StreamingShown /\ Absent' = Absent
  BY <1>1 DEF StreamingShown, Absent
<1>6. ScreenInv'
  BY <1>1, <1>2, <1>3, <1>4, <1>5 DEF ScreenInv
<1>7. ASSUME link.pc = "open"
      PROVE  /\ \A u \in StreamingShown : ConvOf[u] = link.conv =>
                  Caught(shown[u], Home(u)', link.cursor)
             /\ \A u \in Turn : sending'[u] = "posting" /\ ConvOf[u] = link.conv
                                  /\ shown[u] = Absent => link.cursor <= Home(u)'
  <2>1. \A u \in StreamingShown : ConvOf[u] = link.conv =>
          Caught(shown[u], Home(u)', link.cursor)
    BY <1>2, <1>4, <1>7 DEF FollowInv, Follows
  <2>2. link.conv = ConvOf[t] => link.cursor <= Home(t)'
    BY <1>2, <1>7 DEF LinkTypes
  <2>3. \A u \in Turn : u # t /\ sending'[u] = "posting" /\ ConvOf[u] = link.conv
                          /\ shown[u] = Absent => link.cursor <= Home(u)'
    BY <1>1, <1>2, <1>7 DEF FollowInv
  <2> QED BY <2>1, <2>2, <2>3
<1>8. FollowInv'
  BY <1>1, <1>5, <1>7 DEF FollowInv, Follows
<1> QED BY <1>6, <1>8

LEMMA PostReturnsStep ==
  ASSUME StreamInv, CallsInv, ScreenInv, FollowInv, NEW t \in Turn, PostReturns(t)
  PROVE  ScreenInv' /\ FollowInv'
<1> USE DEF StreamInv
<1>1. /\ active' = active /\ opening' = opening /\ link' = link /\ row' = row /\ born' = born
      /\ sending[t] = "posting" /\ sending'[t] = "sent"
      /\ \A u \in Turn : u # t => sending'[u] = sending[u] /\ shown'[u] = shown[u]
      /\ shown'[t] = IF shown[t] = Absent THEN [shown[t] EXCEPT !.status = "streaming"]
                                          ELSE shown[t]
  BY DEF PostReturns, serverVars, StoreTypes, ShownTypes
<1>2. /\ \A i \in DOMAIN opening : opening[i].pc = "over"
      /\ row[t] # "none" /\ link.pc # "connecting"
  BY <1>1, NoCallWhileSending DEF CallsInv
<1>3. \A u \in Turn : Home(u)' = Home(u)
  BY <1>1 DEF Home
<1>4. \/ shown'[t] = shown[t] /\ shown[t] # Absent
      \/ shown[t] = Absent /\ shown'[t] = [status |-> "streaming", text |-> <<>>]
  BY <1>1 DEF Absent
<1>5. \A u \in Turn : Piece(shown'[u].text)
  BY <1>1, <1>4, Pieces DEF ScreenInv
<1>6. \A u \in Turn : shown'[u].status = "streaming" => row[u] # "none"
  BY <1>1, <1>2 DEF ScreenInv, StreamingShown
<1>7. ScreenInv'
  BY <1>1, <1>2, <1>5, <1>6 DEF ScreenInv, StreamingShown
<1>8. ASSUME link.pc = "open", NEW u \in Turn, shown'[u].status = "streaming",
             ConvOf[u] = link.conv
      PROVE  Caught(shown'[u], Home(u), link.cursor)
  <2>1. CASE shown'[u] = shown[u]
    BY <1>8, <2>1 DEF FollowInv, Follows, StreamingShown
  <2>2. CASE shown'[u] # shown[u]
    <3>1. u = t /\ shown[t] = Absent /\ shown'[t].text = <<>>
      BY <1>1, <1>4, <2>2
    <3>2. link.cursor <= Home(t)
      BY <1>1, <1>8, <3>1 DEF FollowInv
    <3> QED BY <3>1, <3>2 DEF Caught
  <2> QED BY <2>1, <2>2
<1>9. \A u \in Turn : sending'[u] = "posting" => u # t /\ sending[u] = "posting"
                                                 /\ shown'[u] = shown[u]
  BY <1>1
<1>10. Absent' = Absent
  BY DEF Absent
<1>11. FollowInv'
  BY <1>1, <1>2, <1>3, <1>8, <1>9, <1>10 DEF FollowInv, Follows, StreamingShown
<1> QED BY <1>7, <1>11

(* The detail of a conversation: at most one of its messages streams, empty. *)
LEMMA OpenGotStep ==
  ASSUME StreamInv, Layout, CallsInv, ScreenInv, NEW i \in DOMAIN opening, OpenGot(i)
  PROVE  ScreenInv' /\ FollowInv'
<1> USE DEF StreamInv
<1>1. /\ opening[i].pc = "get" /\ active' = active /\ link' = link /\ row' = row
      /\ \A u \in Turn : shown'[u] = IF ConvOf[u] = opening[i].conv THEN FromRow(u)
                                                                   ELSE Absent
  BY DEF OpenGot, serverVars
<1>2. active = opening[i].conv /\ link.pc = "none"
  BY <1>1 DEF CallsInv
<1>r. ASSUME NEW u \in Turn
      PROVE  /\ Piece(FromRow(u).text)
             /\ FromRow(u).status = "streaming" =>
                  row[u] = "streaming" /\ FromRow(u).text = <<>>
  <2>1. row[u] \in {"none", "streaming", "complete"}
    BY DEF ServerTypes
  <2>2. CASE row[u] = "none"
    BY <2>2, Pieces DEF FromRow, Absent
  <2>3. CASE row[u] = "streaming"
    BY <2>3, Pieces DEF FromRow
  <2>4. CASE row[u] = "complete"
    BY <2>4, Pieces DEF FromRow
  <2> QED BY <2>1, <2>2, <2>3, <2>4
<1>3. \A u \in Turn : Piece(shown'[u].text)
  <2>1. Piece(Absent.text)
    BY Pieces DEF Absent
  <2> QED BY <1>1, <1>r, <2>1
<1>4. \A u \in Turn : shown'[u].status = "streaming" =>
        ConvOf[u] = active /\ row[u] = "streaming" /\ shown'[u].text = <<>>
  <2> TAKE u \in Turn
  <2>1. CASE ConvOf[u] = opening[i].conv
    BY <1>1, <1>2, <1>r, <2>1
  <2>2. CASE ConvOf[u] # opening[i].conv
    <3>1. shown'[u] = Absent
      BY <1>1, <2>2
    <3> QED BY <3>1 DEF Absent
  <2> QED BY <2>1, <2>2
<1>5. \A u, v \in Turn : shown'[u].status = "streaming" /\ shown'[v].status = "streaming"
        => u = v
  <2> SUFFICES ASSUME NEW u \in Turn, NEW v \in Turn, shown'[u].status = "streaming",
                      shown'[v].status = "streaming", u # v
               PROVE  FALSE
    OBVIOUS
  <2>1. ConvOf[u] = ConvOf[v] /\ row[u] = "streaming" /\ row[v] = "streaming"
    BY <1>4
  <2>2. sent[u] = Done \/ sent[v] = Done
    BY <2>1, Apart
  <2> QED BY <2>1, <2>2 DEF Layout
<1>6. ScreenInv'
  BY <1>1, <1>3, <1>4, <1>5 DEF ScreenInv, StreamingShown
<1> QED BY <1>1, <1>2, <1>6, ViewClosed

LEMMA OpenDoneStep ==
  ASSUME StreamInv, CallsInv, ScreenInv, NEW i \in DOMAIN opening, OpenDone(i)
  PROVE  ScreenInv' /\ FollowInv'
<1> USE DEF StreamInv
<1>1. /\ opening[i].pc = "files" /\ shown' = shown /\ active' = active /\ row' = row
      /\ born' = born /\ sending' = sending
  BY DEF OpenDone, serverVars
<1>2. /\ DOMAIN opening' = DOMAIN opening
      /\ \A j \in DOMAIN opening : opening'[j].pc = IF j = i THEN "over" ELSE opening[j].pc
  BY CallMoves DEF OpenDone
<1>3. /\ active = opening[i].conv /\ link.pc = "none"
      /\ \A t \in Turn : sending[t] \in {"no", "sent"}
      /\ \A t \in StreamingShown : ConvOf[t] = active /\ shown[t].text = <<>>
      /\ \A t, u \in StreamingShown : t = u
  BY <1>1 DEF CallsInv, ScreenInv
<1>4. StreamingShown' = StreamingShown
  BY <1>1 DEF StreamingShown
<1>5. ScreenInv'
  BY <1>1, <1>2, <1>3, <1>4 DEF ScreenInv
<1>6. CASE StreamingShown = {}
  BY <1>3, <1>5, <1>6, ViewClosed DEF OpenDone
<1>7. CASE StreamingShown # {}
  <2>1. PICK t \in StreamingShown :
           /\ link'.pc = "connecting" /\ link'.conv = opening[i].conv /\ ~link'.now
           /\ link'.since = born[t][opening[i].conv] /\ handlers'
    BY <1>7, FollowsFromCreation
  <2>2. t \in Turn /\ link'.since = Home(t) /\ Home(t)' = Home(t)
    BY <1>1, <1>3, <2>1 DEF Home, StreamingShown
  <2>3. Home(t) \in Nat /\ shown[t].text = <<>>
    BY <1>3, <2>2, HomeType
  <2>4. Caught(shown[t], Home(t), link'.since)
    BY <2>2, <2>3 DEF Caught
  <2>5. \A u \in StreamingShown : Caught(shown[u], Home(u)', link'.since)
    BY <1>3, <2>2, <2>4
  <2> QED BY <1>1, <1>4, <1>5, <2>1, <2>5 DEF FollowInv, Follows
<1> QED BY <1>6, <1>7

(* The connection is made: at its end all the turns there were are over.    *)
LEMMA ConnectStep ==
  ASSUME StreamInv, Layout, CallsInv, JoinInv, ScreenInv, FollowInv, Connect
  PROVE  ScreenInv' /\ FollowInv'
<1> USE DEF StreamInv
<1>1. /\ shown' = shown /\ active' = active /\ opening' = opening /\ row' = row
      /\ born' = born /\ sending' = sending /\ link.pc = "connecting"
  BY DEF Connect, serverVars, viewVars, callVars
<1>2. /\ link'.pc = "open" /\ link'.conv = link.conv
      /\ link'.cursor = IF link.now THEN Len(stream[link.conv]) ELSE link.since
  BY DEF Connect, LinkTypes, Source
<1>3. StreamingShown' = StreamingShown /\ \A u \in Turn : Home(u)' = Home(u)
  BY <1>1 DEF StreamingShown, Home
<1>4. ScreenInv'
  BY <1>1, <1>3 DEF ScreenInv
<1>5. \A u \in Turn : sending[u] # "posting"
  BY <1>1 DEF CallsInv
<1>6. ASSUME NEW u \in StreamingShown, ConvOf[u] = link.conv
      PROVE  Caught(shown[u], Home(u), link'.cursor)
  <2>0. u \in Turn /\ row[u] # "none"
    BY DEF ScreenInv, StreamingShown
  <2>1. CASE link.now
    <3>1. PICK t \in Turn : /\ ConvOf[t] = link.conv /\ sending[t] = "opening"
                            /\ \A v \in Earlier(t) : sent[v] = Done
      BY <1>1, <2>1 DEF JoinInv
    <3>2. row[t] = "none" /\ t # u
      BY <2>0, <3>1 DEF CallsInv
    <3>3. sent[u] = Done
      <4>1. CASE u < t
        BY <1>6, <2>0, <3>1, <4>1 DEF Earlier
      <4>2. CASE t < u
        <5>1. sent[t] = Done /\ Done # 0
          BY <1>6, <2>0, <3>1, <4>2, HomeType DEF Earlier, Layout
        <5> QED BY <3>2, <5>1 DEF Layout
      <4> QED BY <2>0, <3>2, <4>1, <4>2, TurnType
    <3>4. Home(u) + Done <= link'.cursor
      BY <1>2, <1>6, <2>0, <2>1, <3>3 DEF Layout
    <3>5. link'.cursor \in Nat
      BY <1>2, <1>6, <2>0, <2>1, HomeType
    <3>6. link'.cursor >= Home(u) + Tokens + 1
      BY <2>0, <3>4, <3>5, HomeType
    <3> QED BY <3>6 DEF Caught
  <2>2. CASE ~link.now
    BY <1>1, <1>2, <1>6, <2>2 DEF FollowInv, Follows
  <2> QED BY <2>1, <2>2
<1>7. \A u \in StreamingShown : ConvOf[u] = link'.conv =>
        Caught(shown'[u], Home(u)', link'.cursor)
  <2>1. \A u \in StreamingShown : u \in Turn
    BY DEF StreamingShown
  <2> QED BY <1>1, <1>2, <1>3, <1>6, <2>1
<1>8. Follows(link.cursor)'
  BY <1>3, <1>7 DEF Follows
<1>9. FollowInv'
  BY <1>1, <1>2, <1>5, <1>8 DEF FollowInv
<1> QED BY <1>4, <1>9

LEMMA ViewStep ==
  ASSUME StreamInv, Layout, CallsInv, JoinInv, ScreenInv, FollowInv, Next,
         errors \in Nat, errors' = 0, \A c \in Conv : Len(stream[c]) <= Cap, ~Hasty, ~Slow
  PROVE  ScreenInv' /\ FollowInv'
<1> USE DEF StreamInv, serverVars, viewVars, timerVars, callVars
<1>1. ASSUME NEW t \in Turn, OtherDeviceSends(t) PROVE ScreenInv' /\ FollowInv'
  <2>1. \A u \in Turn : row[u] # "none" => row'[u] # "none" /\ Home(u)' = Home(u)
    BY <1>1, LayoutCreate DEF OtherDeviceSends
  <2> QED BY <1>1, <2>1, ViewKept DEF OtherDeviceSends
<1>2. ASSUME NEW t \in Turn, Publish(t) \/ Commit(t) PROVE ScreenInv' /\ FollowInv'
  <2>1. \A u \in Turn : row[u] # "none" => row'[u] # "none" /\ Home(u)' = Home(u)
    BY <1>2 DEF Publish, Commit, ServerTypes, Home
  <2> QED BY <1>2, <2>1, ViewKept DEF Publish, Commit
<1>3. ASSUME NEW t \in Turn, Post(t) \/ PostReturns(t) PROVE ScreenInv' /\ FollowInv'
  BY <1>3, PostStep, PostReturnsStep
<1>4. ASSUME NEW i \in DOMAIN opening, OpenGot(i) \/ OpenDone(i)
      PROVE  ScreenInv' /\ FollowInv'
  BY <1>4, OpenGotStep, OpenDoneStep
<1>5. ASSUME shown' = shown, row' = row, active' = active, opening' = opening
      PROVE  ScreenInv'
  BY <1>5 DEF ScreenInv, StreamingShown
<1>6. ASSUME TimerFires \/ OldTimerFires \/ Cancel PROVE ScreenInv' /\ FollowInv'
  <2>1. link'.pc = "none"
    BY <1>6, CloseFacts DEF TimerFires, OldTimerFires, Cancel, RefreshAfterTurn
  <2> QED BY <1>5, <1>6, <2>1, ViewClosed DEF TimerFires, OldTimerFires, Cancel
<1>7. ASSUME NEW t \in Turn, SendSingle(t) PROVE ScreenInv' /\ FollowInv'
  <2>1. link'.pc = "connecting" /\ link'.now
    BY <1>7 DEF SendSingle, Subscribe, Closed
  <2> QED BY <1>5, <1>7, <2>1 DEF SendSingle, FollowInv
<1>8. ASSUME NEW c \in Conv, OpenConversation(c) PROVE ScreenInv' /\ FollowInv'
  <2>1. link'.pc = "none"
    BY <1>8, CloseFacts DEF OpenConversation
  <2>2. \A i \in DOMAIN opening : opening[i].pc = "over"
    BY <1>8 DEF OpenConversation, Settled
  <2>3. \A i \in DOMAIN opening' : opening'[i].pc # "files"
    <3>1. opening \in Seq(OpenCall) /\ [pc |-> "get", conv |-> c] \in OpenCall
      BY DEF StoreTypes, OpenCall
    <3> HIDE DEF OpenCall
    <3>2. /\ opening'[Len(opening) + 1] = [pc |-> "get", conv |-> c]
          /\ DOMAIN opening' = DOMAIN opening \cup {Len(opening) + 1}
          /\ \A i \in DOMAIN opening : opening'[i] = opening[i]
      BY <3>1, <1>8, AppendProperties DEF OpenConversation
    <3>3. opening'[Len(opening) + 1].pc = "get"
      BY <3>2
    <3> QED BY <2>2, <3>2, <3>3
  <2>4. shown' = shown /\ row' = row
    BY <1>8 DEF OpenConversation
  <2> QED BY <2>1, <2>3, <2>4, ViewClosed DEF ScreenInv, StreamingShown
<1>9. ASSUME Connect PROVE ScreenInv' /\ FollowInv'
  BY <1>9, ConnectStep
<1>10. ASSUME Deliver PROVE ScreenInv' /\ FollowInv'
  BY <1>10, DeliverStep
<1>11. ASSUME LinkFails \/ Reconnect PROVE FALSE
  BY <1>11 DEF LinkFails, Reconnect, CallsInv
<1> QED BY <1>1, <1>2, <1>3, <1>4, <1>6, <1>7, <1>8, <1>9, <1>10, <1>11
           DEF Next, Server, Store, User, Network

-----------------------------------------------------------------------------
(* What has gone wrong stays wrong.                                         *)
Faults == errors \in Nat /\ retries \in Nat

LEMMA FaultsStay ==
  ASSUME StreamInv, StreamInv', Faults, Next
  PROVE  Faults' /\ (Faultless' => Faultless)
<1> USE DEF StreamInv, Faults
<1>1. retries' = retries \/ retries' = retries + 1
  <2>1. ASSUME NEW t \in Turn, Create(t) \/ Publish(t) \/ Commit(t)
        PROVE  retries' = retries \/ retries' = retries + 1
    BY <2>1 DEF Create, Publish, Commit
  <2> QED BY <2>1, ServerActs DEF serverVars
<1>2. errors' = errors \/ errors' = errors + 1
  BY DEF Next, Server, OtherDeviceSends, Publish, Commit, Store, Post, PostReturns, OpenGot,
         OpenDone, TimerFires, OldTimerFires, User, SendSingle, OpenConversation, Cancel,
         Network, Connect, LinkFails, Reconnect, Deliver
<1>3. ASSUME NEW c \in Conv, Len(stream'[c]) <= Cap PROVE Len(stream[c]) <= Cap
  <2>1. Len(stream[c]) <= Len(stream'[c])
    BY ServerStep
  <2>2. Len(stream[c]) \in Nat /\ Len(stream'[c]) \in Nat /\ Cap \in Nat
    BY BoundsType DEF ServerTypes
  <2> QED BY <1>3, <2>1, <2>2
<1>4. Faults'
  BY <1>1, <1>2
<1>5. Faultless' => Faultless
  BY <1>1, <1>2, <1>3 DEF Faultless
<1> QED BY <1>4, <1>5

LEMMA GapInvariant ==
  ASSUME ~Hasty, ~Slow
  PROVE  Spec => [](Faults /\ (Faultless => GapInv))
<1> DEFINE Inv == StreamInv /\ Faults /\ (Faultless => GapInv)
<1>1. Init => Inv
  <2> SUFFICES ASSUME Init PROVE Faults /\ GapInv
    BY Initially
  <2> USE TurnType, BoundsType DEF Init
  <2>1. Faults
    BY DEF Faults
  <2>2. Layout
    BY DEF Layout, Home, Earlier, Done
  <2>3. link.pc = "none" /\ StreamingShown = {} /\ DOMAIN opening = {}
        /\ \A t \in Turn : shown[t].text = <<>>
    BY DEF Closed, StreamingShown, Absent
  <2>4. CallsInv /\ JoinInv
    BY <2>3 DEF CallsInv, JoinInv
  <2>5. ScreenInv /\ FollowInv
    BY <2>3, Pieces DEF ScreenInv, FollowInv
  <2> QED BY <2>1, <2>2, <2>4, <2>5 DEF GapInv
<1>2. Inv /\ StreamInv' /\ [Next]_vars => Inv'
  <2> SUFFICES ASSUME Inv, StreamInv', [Next]_vars PROVE Inv'
    OBVIOUS
  <2>1. CASE Next
    <3>1. Faults' /\ (Faultless' => Faultless)
      BY <2>1, FaultsStay
    <3>2. ASSUME Faultless' PROVE GapInv'
      <4>1. GapInv /\ errors' = 0 /\ retries' = 0 /\ \A c \in Conv : Len(stream[c]) <= Cap
        BY <3>1, <3>2 DEF Faultless
      <4>2. Layout /\ CallsInv /\ JoinInv /\ ScreenInv /\ FollowInv
        BY <4>1 DEF GapInv
      <4>3. Layout'
        BY <2>1, <4>1, <4>2, LayoutStep DEF StreamInv, Faults
      <4>4. CallsInv' /\ JoinInv'
        BY <2>1, <4>1, <4>2, CallsStep, JoinStep DEF Faults
      <4>5. ScreenInv' /\ FollowInv'
        BY <2>1, <4>1, <4>2, ViewStep DEF Faults
      <4> QED BY <4>3, <4>4, <4>5 DEF GapInv
    <3> QED BY <3>1, <3>2
  <2>2. CASE UNCHANGED vars
    BY <2>2 DEF vars, serverVars, viewVars, timerVars, callVars, Faults, Faultless, GapInv,
                Layout, Home, Earlier, Done, CallsInv, JoinInv, ScreenInv, FollowInv, Follows,
                StreamingShown, Absent
  <2> QED BY <2>1, <2>2
<1> QED BY <1>1, <1>2, StreamInvariant, PTL DEF Spec

(* The row, the replay of the stream and the live events fit together: what  *)
(* is on screen of an answer that streams is a first part of it, without a   *)
(* gap, a repetition or a token of another turn, for a user who waits for    *)
(* what is loading or being sent, as long as no connection fails, nothing is *)
(* published twice and no stream is trimmed (chat.ts: openConversation takes *)
(* the stream up from created_at, sendSingle from its newest entry before it *)
(* posts; the SSE endpoint relays from there).                               *)
THEOREM NoGapHolds == ASSUME ~Hasty, ~Slow PROVE Spec => [](Faultless => NoGap)
<1>1. StreamInv /\ (Faultless => GapInv) => (Faultless => NoGap)
  <2> SUFFICES ASSUME StreamInv, GapInv, NEW t \in Turn PROVE IsPrefix(shown[t].text, Full)
    BY DEF NoGap
  <2>1. shown[t].text \in Seq(Nat) /\ Piece(shown[t].text)
    BY DEF StreamInv, ShownTypes, Message, GapInv, ScreenInv
  <2> QED BY <2>1, Pieces
<1> QED BY <1>1, StreamInvariant, GapInvariant, PTL
=============================================================================
