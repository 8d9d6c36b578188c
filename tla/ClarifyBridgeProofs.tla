------------------------ MODULE ClarifyBridgeProofs ------------------------
(***************************************************************************)
(* The agent hears the user's own answer, no answer is slept through and   *)
(* the row says what the agent was told, for any number of questions,      *)
(* answers and failed deliveries.                                          *)
(***************************************************************************)
EXTENDS ClarifyBridge, TLAPS

Decided == {"chosen", "published", "delivered", "writing", "done"}
Told    == {"delivered", "writing", "done"}

\* Nobody has taken care of the question yet.
Untouched(i) == waiter[i] = "none" /\ clarifies[i] = Nothing /\ handling # i

\* A question is popped once: it gets one record and one waiter.
QueueInv ==
  /\ agent = "blocked" => asked \in Ask
  /\ \A i \in Ask : i > asked => Untouched(i)
  /\ \A k \in 1..Len(requests) : requests[k] <= asked /\ Untouched(requests[k])
  /\ \A k, l \in 1..Len(requests) : requests[k] = requests[l] => k = l
  /\ poller = "recording" => /\ handling \in Ask
                             /\ waiter[handling] = "none" /\ clarifies[handling] = "pending"
  /\ poller # "recording" => handling = 0

\* What a waiter has chosen is what it pushes, what it records and all that
\* the agent can pop.
WaiterInv ==
  \A i \in Ask :
    /\ waiter[i] \notin Decided => choice[i] = Nothing
    /\ waiter[i] \in Decided => choice[i] \in Outcome
    /\ waiter[i] \notin Told => response[i] = <<>>
    /\ \A k \in 1..Len(response[i]) : response[i][k] = choice[i]
    /\ got[i] \in {Nothing, TimedOut, choice[i]}
    /\ clarifies[i] \in {Nothing, "pending", choice[i]}
    /\ waiter[i] \in {"writing", "done"} => clarifies[i] = choice[i]

\* Answers and cancels come from the user.
UserInv ==
  /\ cancelled => pressed
  /\ \A i \in Ask : /\ confirm[i] \in Choice => confirm[i] \in answered[i]
                    /\ choice[i] \in Choice => choice[i] \in answered[i]
                    /\ choice[i] = Declined => pressed

CInv == ClarifyTypeOK /\ QueueInv /\ WaiterInv /\ UserInv /\ OutcomeSaved /\ NoLostWakeup

LEMMA Basics ==
  /\ MaxAsks \in Nat /\ MaxAnswers \in Nat /\ MaxClarifyFaults \in Nat
  /\ Ask \subseteq Nat /\ 0 \notin Ask
  /\ Nothing \notin Outcome /\ "pending" \notin Outcome
  /\ TimedOut \notin Choice /\ Declined \notin Choice /\ TimedOut # Declined
BY ClarifyBounds, ChoiceType DEF Ask, Outcome, Nothing, TimedOut, Declined

\* A delivery that is repeated pushes the choice twice.
LEMMA Twice ==
  ASSUME NEW S, NEW x \in S
  PROVE  <<>> \in Seq(S) /\ <<x, x>> \in Seq(S)
OBVIOUS

\* A write of the row replaces its records.
LEMMA RowWrite ==
  ASSUME NEW r \in Row, NEW records \in [Ask -> Record]
  PROVE  [r EXCEPT !.records = records] \in Row
BY DEF Row

LEMMA ClarifyInitInv == ClarifyInit => CInv
<1> SUFFICES ASSUME ClarifyInit PROVE CInv
    OBVIOUS
<1> USE Basics DEF ClarifyInit
<1>1. ClarifyTypeOK
  <2>1. row \in Row /\ copy \in [Ask -> Row]
    BY DEF Row, Record, Blank
  <2>2. clarifies \in [Ask -> Record] /\ waiter \in [Ask -> WaiterPC]
    BY DEF Record, WaiterPC
  <2>3. asked \in 0..MaxAsks /\ handling \in 0..MaxAsks /\ answers \in 0..MaxAnswers
        /\ clarifyFaults \in 0..MaxClarifyFaults
    OBVIOUS
  <2>4. requests \in Seq(Ask) /\ response \in [Ask -> Seq(Outcome)]
    OBVIOUS
  <2> QED
    BY <2>1, <2>2, <2>3, <2>4 DEF ClarifyTypeOK
<1>2. QueueInv
  BY DEF QueueInv, Untouched
<1>3. WaiterInv
  BY DEF WaiterInv, Decided, Told
<1>4. UserInv
  BY DEF UserInv, Outcome
<1>5. OutcomeSaved
  BY DEF OutcomeSaved, Finished
<1>6. NoLostWakeup
  BY DEF NoLostWakeup
<1> QED
  BY <1>1, <1>2, <1>3, <1>4, <1>5, <1>6 DEF CInv

LEMMA ClarifyTypeOKStep == CInv /\ [ClarifyNext]_clarifyVars => ClarifyTypeOK'
<1> SUFFICES ASSUME CInv, [ClarifyNext]_clarifyVars PROVE ClarifyTypeOK'
    OBVIOUS
<1> USE Basics DEF CInv, ClarifyTypeOK, QueueInv, WaiterInv, Row, Record, WaiterPC, Decided,
        Outcome,
        agentVars, redisVars, taskVars, waiterVars, userVars, savedVars, WaiterVarsBut, Take
<1>1. CASE AgentAsks
  <2>1. asked + 1 \in Ask /\ requests' \in Seq(Ask) /\ asked' \in 0..MaxAsks
    BY <1>1 DEF AgentAsks, Ask
  <2> QED
    BY <1>1, <2>1 DEF AgentAsks
<1>2. CASE AgentResumes
  <2>1. asked \in Ask /\ Head(response[asked]) \in Outcome /\ Tail(response[asked]) \in Seq(Outcome)
    BY <1>2 DEF AgentResumes
  <2>2. got' \in [Ask -> Outcome \cup {Nothing}] /\ response' \in [Ask -> Seq(Outcome)]
    BY <1>2, <2>1 DEF AgentResumes
  <2> QED
    BY <1>2, <2>2 DEF AgentResumes
<1>3. CASE AgentGivesUp
  BY <1>3 DEF AgentGivesUp
<1>4. CASE AgentReturns
  BY <1>4 DEF AgentReturns
<1>5. CASE Pop
  <2>1. Head(requests) \in Ask /\ requests' \in Seq(Ask)
    BY <1>5 DEF Pop
  <2>2. handling' \in 0..MaxAsks
    BY <1>5, <2>1 DEF Pop, Ask
  <2> QED
    BY <1>5, <2>1, <2>2 DEF Pop
<1>6. CASE Show
  <2>1. row' = [row EXCEPT !.records = clarifies] /\ handling' = 0
    BY <1>6 DEF Show
  <2>3. row' \in Row /\ handling' \in 0..MaxAsks
    <3>1. row \in Row /\ clarifies \in [Ask -> Record]
      OBVIOUS
    <3>2. [row EXCEPT !.records = clarifies] \in Row
      BY <3>1, RowWrite
    <3> QED
      BY <2>1, <3>2
  <2>2. waiter' \in [Ask -> WaiterPC]
    BY <1>6 DEF Show
  <2> QED
    BY <1>6, <2>2, <2>3 DEF Show
<1>7. CASE ShowFails
  <2>1. row' = [row EXCEPT !.records = clarifies] /\ handling' = 0
    BY <1>7 DEF ShowFails
  <2>3. row' \in Row /\ handling' \in 0..MaxAsks
    <3>1. row \in Row /\ clarifies \in [Ask -> Record]
      OBVIOUS
    <3>2. [row EXCEPT !.records = clarifies] \in Row
      BY <3>1, RowWrite
    <3> QED
      BY <2>1, <3>2
  <2>2. clarifyFaults' \in 0..MaxClarifyFaults
    BY <1>7 DEF ShowFails
  <2> QED
    BY <1>7, <2>2, <2>3 DEF ShowFails
<1>8. CASE LoopEnds
  BY <1>8 DEF LoopEnds
<1>9. CASE Finalize
  BY <1>9 DEF Finalize
<1>26. CASE PromptFails
  BY <1>26 DEF PromptFails
<1>27. CASE Fail
  <2>1. row' = [text |-> TRUE, records |-> [i \in Ask |-> Nothing]]
    BY <1>27 DEF Fail, Blank
  <2>2. row' \in Row
    BY <2>1
  <2>3. dropped' \subseteq Ask /\ poller' = "over"
    BY <1>27 DEF Fail, Finished
  <2> QED
    BY <1>27, <2>2, <2>3 DEF Fail
<1>10. CASE PressCancel
  BY <1>10 DEF PressCancel
<1>11. CASE FlagCleared
  BY <1>11 DEF FlagCleared
<1>12. ASSUME NEW i \in Ask, Subscribe(i) PROVE ClarifyTypeOK'
  BY <1>12 DEF Subscribe
<1>13. ASSUME NEW i \in Ask, Check(i) PROVE ClarifyTypeOK'
  <2>1. waiter' \in [Ask -> WaiterPC]
    BY <1>13 DEF Check
  <2>2. choice' \in [Ask -> Outcome \cup {Nothing}] /\ confirm' \in [Ask -> Choice \cup {Nothing}]
    BY <1>13 DEF Check
  <2> QED
    BY <1>13, <2>1, <2>2 DEF Check
<1>14. ASSUME NEW i \in Ask, Notified(i) PROVE ClarifyTypeOK'
  <2>1. waiter' \in [Ask -> WaiterPC] /\ notified' \in [Ask -> BOOLEAN]
    BY <1>14 DEF Notified
  <2>2. choice' \in [Ask -> Outcome \cup {Nothing}] /\ confirm' \in [Ask -> Choice \cup {Nothing}]
    BY <1>14 DEF Notified
  <2> QED
    BY <1>14, <2>1, <2>2 DEF Notified
<1>15. ASSUME NEW i \in Ask, SeesCancel(i) PROVE ClarifyTypeOK'
  BY <1>15 DEF SeesCancel
<1>16. ASSUME NEW i \in Ask, WaitExpires(i) PROVE ClarifyTypeOK'
  BY <1>16 DEF WaitExpires
<1>17. ASSUME NEW i \in Ask, PublishResponse(i) PROVE ClarifyTypeOK'
  BY <1>17 DEF PublishResponse
<1>18. ASSUME NEW i \in Ask, Deliver(i) PROVE ClarifyTypeOK'
  <2>1. choice[i] \in Outcome
    BY <1>18 DEF Deliver
  <2>2. response' \in [Ask -> Seq(Outcome)]
    BY <1>18, <2>1 DEF Deliver
  <2>3. waiter' \in [Ask -> WaiterPC]
    BY <1>18 DEF Deliver
  <2> QED
    BY <1>18, <2>2, <2>3 DEF Deliver
<1>19. ASSUME NEW i \in Ask, DeliverFails(i) PROVE ClarifyTypeOK'
  <2>1. choice[i] \in Outcome
    BY <1>19 DEF DeliverFails
  <2>2. PICK s \in {<<>>, <<choice[i], choice[i]>>} : response' = [response EXCEPT ![i] = @ \o s]
    BY <1>19 DEF DeliverFails
  <2>3. s \in Seq(Outcome)
    <3> HIDE DEF CInv, Outcome
    <3>1. CASE s = <<>>
      BY <3>1, <2>1, Twice
    <3>2. CASE s = <<choice[i], choice[i]>>
      BY <3>2, <2>1, Twice
    <3> QED
      BY <2>2, <3>1, <3>2
  <2>4. response' \in [Ask -> Seq(Outcome)]
    BY <2>2, <2>3
  <2>5. waiter' \in [Ask -> WaiterPC] /\ clarifyFaults' \in 0..MaxClarifyFaults
    BY <1>19 DEF DeliverFails
  <2> QED
    BY <1>19, <2>4, <2>5 DEF DeliverFails
<1>20. ASSUME NEW i \in Ask, ReadRow(i) PROVE ClarifyTypeOK'
  BY <1>20 DEF ReadRow
<1>21. ASSUME NEW i \in Ask, WriteRow(i) PROVE ClarifyTypeOK'
  BY <1>21 DEF WriteRow
<1>22. ASSUME NEW i \in Ask, WriteFails(i) PROVE ClarifyTypeOK'
  <2>1. waiter' \in [Ask -> WaiterPC] /\ clarifyFaults' \in 0..MaxClarifyFaults
    BY <1>22 DEF WriteFails
  <2> QED
    BY <1>22, <2>1 DEF WriteFails
<1>23. ASSUME NEW i \in Ask, Notify(i) PROVE ClarifyTypeOK'
  BY <1>23 DEF Notify
<1>24. ASSUME NEW i \in Ask, NEW c \in Choice, Answer(i, c) PROVE ClarifyTypeOK'
  BY <1>24 DEF Answer
<1>25. CASE UNCHANGED clarifyVars
  BY <1>25 DEF clarifyVars
<1> QED
  BY <1>1, <1>2, <1>3, <1>4, <1>5, <1>6, <1>7, <1>8, <1>9, <1>10, <1>11, <1>12, <1>13, <1>14,
     <1>15, <1>16, <1>17, <1>18, <1>19, <1>20, <1>21, <1>22, <1>23, <1>24, <1>25, <1>26, <1>27
     DEF ClarifyNext, AgentStep, PollerStep, Waiter

LEMMA QueueInvStep == CInv /\ [ClarifyNext]_clarifyVars => QueueInv'
<1> SUFFICES ASSUME CInv, [ClarifyNext]_clarifyVars PROVE QueueInv'
    OBVIOUS
<1> USE Basics DEF CInv, ClarifyTypeOK, QueueInv, Untouched, WaiterPC, agentVars, redisVars,
        taskVars, waiterVars, userVars, savedVars, WaiterVarsBut, Take
<1>1. CASE AgentAsks
  <2>1. asked + 1 \in Ask /\ asked' = asked + 1 /\ asked \in Nat
    BY <1>1 DEF AgentAsks, Ask
  <2>2. /\ Len(requests') = Len(requests) + 1 /\ Len(requests) \in Nat
        /\ requests'[Len(requests) + 1] = asked + 1
        /\ \A k \in 1..Len(requests) : requests'[k] = requests[k] /\ requests[k] \in Ask
    BY <1>1, <2>1 DEF AgentAsks
  <2>3. Untouched(asked + 1)
    BY <2>1
  <2>4. \A i \in Ask : Untouched(i)' <=> Untouched(i)
    BY <1>1 DEF AgentAsks
  <2>5. (\A k \in 1..Len(requests) : requests[k] <= asked /\ Untouched(requests[k]))'
    <3> SUFFICES ASSUME NEW k \in 1..Len(requests')
                 PROVE  (requests[k] <= asked /\ Untouched(requests[k]))'
      OBVIOUS
    <3>1. CASE k = Len(requests) + 1
      BY <2>1, <2>2, <2>3, <2>4, <3>1
    <3>2. CASE k # Len(requests) + 1
      <4>1. k \in 1..Len(requests)
        BY <2>2, <3>2
      <4>2. requests[k] \in Nat /\ requests[k] <= asked /\ Untouched(requests[k])
        BY <2>2, <4>1
      <4> QED
        BY <2>1, <2>2, <2>4, <4>1, <4>2
    <3> QED
      BY <3>1, <3>2
  <2>6. \A k, l \in 1..Len(requests') : requests'[k] = requests'[l] => k = l
    <3> TAKE k, l \in 1..Len(requests')
    <3>1. \A m \in 1..Len(requests) : requests'[m] # requests'[Len(requests) + 1]
      BY <2>1, <2>2
    <3> QED
      BY <2>2, <3>1
  <2> QED
    BY <1>1, <2>1, <2>4, <2>5, <2>6 DEF AgentAsks
<1>2. CASE AgentResumes
  BY <1>2 DEF AgentResumes
<1>3. CASE AgentGivesUp
  BY <1>3 DEF AgentGivesUp
<1>4. CASE AgentReturns
  BY <1>4 DEF AgentReturns
<1>5. CASE Pop
  BY <1>5 DEF Pop
<1>6. CASE Show
  <2>1. \A i \in Ask \ {handling} : waiter'[i] = waiter[i]
    BY <1>6 DEF Show
  <2>2. UNCHANGED <<agent, asked, requests, clarifies>> /\ handling' = 0 /\ poller' = "polling"
    BY <1>6 DEF Show
  <2>3. \A k \in 1..Len(requests) : requests[k] \in Ask /\ requests[k] # handling
    OBVIOUS
  <2>4. \A i \in Ask : i > asked => i # handling
    OBVIOUS
  <2> QED
    BY <2>1, <2>2, <2>3, <2>4
<1>7. CASE ShowFails
  <2>1. \A i \in Ask \ {handling} : waiter'[i] = waiter[i]
    BY <1>7 DEF ShowFails
  <2>2. UNCHANGED <<agent, asked, requests, clarifies>> /\ handling' = 0 /\ poller' = "polling"
    BY <1>7 DEF ShowFails
  <2>3. \A k \in 1..Len(requests) : requests[k] \in Ask /\ requests[k] # handling
    OBVIOUS
  <2>4. \A i \in Ask : i > asked => i # handling
    OBVIOUS
  <2> QED
    BY <2>1, <2>2, <2>3, <2>4
<1>8. CASE LoopEnds
  BY <1>8 DEF LoopEnds
<1>9. CASE Finalize
  BY <1>9 DEF Finalize
<1>26. CASE PromptFails
  BY <1>26 DEF PromptFails
<1>27. CASE Fail
  BY <1>27 DEF Fail
<1>10. CASE PressCancel
  BY <1>10 DEF PressCancel
<1>11. CASE FlagCleared
  BY <1>11 DEF FlagCleared
<1>12. ASSUME NEW i \in Ask, Subscribe(i) PROVE QueueInv'
  BY <1>12 DEF Subscribe
<1>13. ASSUME NEW i \in Ask, Check(i) PROVE QueueInv'
  <2>1. \A j \in Ask : waiter[j] = "none" => waiter'[j] = "none"
    BY <1>13 DEF Check
  <2>2. UNCHANGED <<agentVars, requests, taskVars>>
    BY <1>13 DEF Check
  <2>3. \A k \in 1..Len(requests) : requests[k] \in Ask
    OBVIOUS
  <2> QED
    BY <2>1, <2>2, <2>3
<1>14. ASSUME NEW i \in Ask, Notified(i) PROVE QueueInv'
  <2>1. \A j \in Ask : waiter[j] = "none" => waiter'[j] = "none"
    BY <1>14 DEF Notified
  <2>2. UNCHANGED <<agentVars, requests, taskVars>>
    BY <1>14 DEF Notified
  <2>3. \A k \in 1..Len(requests) : requests[k] \in Ask
    OBVIOUS
  <2> QED
    BY <2>1, <2>2, <2>3
<1>15. ASSUME NEW i \in Ask, SeesCancel(i) PROVE QueueInv'
  BY <1>15 DEF SeesCancel
<1>16. ASSUME NEW i \in Ask, WaitExpires(i) PROVE QueueInv'
  BY <1>16 DEF WaitExpires
<1>17. ASSUME NEW i \in Ask, PublishResponse(i) PROVE QueueInv'
  BY <1>17 DEF PublishResponse
<1>18. ASSUME NEW i \in Ask, Deliver(i) PROVE QueueInv'
  BY <1>18 DEF Deliver
<1>19. ASSUME NEW i \in Ask, DeliverFails(i) PROVE QueueInv'
  BY <1>19 DEF DeliverFails
<1>20. ASSUME NEW i \in Ask, ReadRow(i) PROVE QueueInv'
  BY <1>20 DEF ReadRow
<1>21. ASSUME NEW i \in Ask, WriteRow(i) PROVE QueueInv'
  BY <1>21 DEF WriteRow
<1>22. ASSUME NEW i \in Ask, WriteFails(i) PROVE QueueInv'
  BY <1>22 DEF WriteFails
<1>23. ASSUME NEW i \in Ask, Notify(i) PROVE QueueInv'
  BY <1>23 DEF Notify
<1>24. ASSUME NEW i \in Ask, NEW c \in Choice, Answer(i, c) PROVE QueueInv'
  BY <1>24 DEF Answer
<1>25. CASE UNCHANGED clarifyVars
  BY <1>25 DEF clarifyVars
<1> QED
  BY <1>1, <1>2, <1>3, <1>4, <1>5, <1>6, <1>7, <1>8, <1>9, <1>10, <1>11, <1>12, <1>13, <1>14,
     <1>15, <1>16, <1>17, <1>18, <1>19, <1>20, <1>21, <1>22, <1>23, <1>24, <1>25, <1>26, <1>27
     DEF ClarifyNext, AgentStep, PollerStep, Waiter

LEMMA WaiterInvStep == CInv /\ [ClarifyNext]_clarifyVars => WaiterInv'
<1> SUFFICES ASSUME CInv, [ClarifyNext]_clarifyVars PROVE WaiterInv'
    OBVIOUS
<1> USE Basics DEF CInv, ClarifyTypeOK, QueueInv, WaiterInv, Untouched, Decided, Told, Outcome,
        agentVars, redisVars, taskVars, waiterVars, userVars, savedVars, WaiterVarsBut, Take
<1>1. CASE AgentAsks
  BY <1>1 DEF AgentAsks
<1>2. CASE AgentResumes
  BY <1>2 DEF AgentResumes
<1>3. CASE AgentGivesUp
  BY <1>3 DEF AgentGivesUp
<1>4. CASE AgentReturns
  BY <1>4 DEF AgentReturns
<1>5. CASE Pop
  BY <1>5 DEF Pop
<1>6. CASE Show
  BY <1>6 DEF Show
<1>7. CASE ShowFails
  BY <1>7 DEF ShowFails
<1>8. CASE LoopEnds
  BY <1>8 DEF LoopEnds
<1>9. CASE Finalize
  BY <1>9 DEF Finalize
<1>26. CASE PromptFails
  BY <1>26 DEF PromptFails
<1>27. CASE Fail
  BY <1>27 DEF Fail
<1>10. CASE PressCancel
  BY <1>10 DEF PressCancel
<1>11. CASE FlagCleared
  BY <1>11 DEF FlagCleared
<1>12. ASSUME NEW i \in Ask, Subscribe(i) PROVE WaiterInv'
  BY <1>12 DEF Subscribe
<1>13. ASSUME NEW i \in Ask, Check(i) PROVE WaiterInv'
  BY <1>13 DEF Check
<1>14. ASSUME NEW i \in Ask, Notified(i) PROVE WaiterInv'
  BY <1>14 DEF Notified
<1>15. ASSUME NEW i \in Ask, SeesCancel(i) PROVE WaiterInv'
  BY <1>15 DEF SeesCancel
<1>16. ASSUME NEW i \in Ask, WaitExpires(i) PROVE WaiterInv'
  BY <1>16 DEF WaitExpires
<1>17. ASSUME NEW i \in Ask, PublishResponse(i) PROVE WaiterInv'
  BY <1>17 DEF PublishResponse
<1>18. ASSUME NEW i \in Ask, Deliver(i) PROVE WaiterInv'
  BY <1>18 DEF Deliver
<1>19. ASSUME NEW i \in Ask, DeliverFails(i) PROVE WaiterInv'
  <2>1. response[i] = <<>> /\ choice[i] \in Outcome
    BY <1>19 DEF DeliverFails
  <2>2. PICK s \in {<<>>, <<choice[i], choice[i]>>} : response' = [response EXCEPT ![i] = @ \o s]
    BY <1>19 DEF DeliverFails
  <2>3. response'[i] = s
    BY <2>1, <2>2
  <2>4. \A k \in 1..Len(response'[i]) : response'[i][k] = choice[i]
    <3>1. CASE s = <<>>
      BY <2>3, <3>1
    <3>2. CASE s = <<choice[i], choice[i]>>
      BY <2>3, <3>2
    <3> QED
      BY <2>2, <3>1, <3>2
  <2> QED
    BY <1>19, <2>2, <2>4 DEF DeliverFails
<1>20. ASSUME NEW i \in Ask, ReadRow(i) PROVE WaiterInv'
  BY <1>20 DEF ReadRow
<1>21. ASSUME NEW i \in Ask, WriteRow(i) PROVE WaiterInv'
  BY <1>21 DEF WriteRow
<1>22. ASSUME NEW i \in Ask, WriteFails(i) PROVE WaiterInv'
  BY <1>22 DEF WriteFails
<1>23. ASSUME NEW i \in Ask, Notify(i) PROVE WaiterInv'
  BY <1>23 DEF Notify
<1>24. ASSUME NEW i \in Ask, NEW c \in Choice, Answer(i, c) PROVE WaiterInv'
  BY <1>24 DEF Answer
<1>25. CASE UNCHANGED clarifyVars
  BY <1>25 DEF clarifyVars
<1> QED
  BY <1>1, <1>2, <1>3, <1>4, <1>5, <1>6, <1>7, <1>8, <1>9, <1>10, <1>11, <1>12, <1>13, <1>14,
     <1>15, <1>16, <1>17, <1>18, <1>19, <1>20, <1>21, <1>22, <1>23, <1>24, <1>25, <1>26, <1>27
     DEF ClarifyNext, AgentStep, PollerStep, Waiter

LEMMA UserInvStep == CInv /\ [ClarifyNext]_clarifyVars => UserInv'
<1> SUFFICES ASSUME CInv, [ClarifyNext]_clarifyVars PROVE UserInv'
    OBVIOUS
<1> USE Basics DEF CInv, ClarifyTypeOK, WaiterInv, UserInv, Decided, Outcome, agentVars,
        redisVars, taskVars, waiterVars, userVars, savedVars, WaiterVarsBut, Take
<1>1. CASE AgentAsks
  BY <1>1 DEF AgentAsks
<1>2. CASE AgentResumes
  BY <1>2 DEF AgentResumes
<1>3. CASE AgentGivesUp
  BY <1>3 DEF AgentGivesUp
<1>4. CASE AgentReturns
  BY <1>4 DEF AgentReturns
<1>5. CASE Pop
  BY <1>5 DEF Pop
<1>6. CASE Show
  BY <1>6 DEF Show
<1>7. CASE ShowFails
  BY <1>7 DEF ShowFails
<1>8. CASE LoopEnds
  BY <1>8 DEF LoopEnds
<1>9. CASE Finalize
  BY <1>9 DEF Finalize
<1>26. CASE PromptFails
  BY <1>26 DEF PromptFails
<1>27. CASE Fail
  BY <1>27 DEF Fail
<1>10. CASE PressCancel
  BY <1>10 DEF PressCancel
<1>11. CASE FlagCleared
  BY <1>11 DEF FlagCleared
<1>12. ASSUME NEW i \in Ask, Subscribe(i) PROVE UserInv'
  BY <1>12 DEF Subscribe
<1>13. ASSUME NEW i \in Ask, Check(i) PROVE UserInv'
  <2>1. CASE confirm[i] # Nothing
    BY <1>13, <2>1 DEF Check
  <2>2. CASE confirm[i] = Nothing
    BY <1>13, <2>2 DEF Check
  <2> QED
    BY <2>1, <2>2
<1>14. ASSUME NEW i \in Ask, Notified(i) PROVE UserInv'
  BY <1>14 DEF Notified
<1>15. ASSUME NEW i \in Ask, SeesCancel(i) PROVE UserInv'
  BY <1>15 DEF SeesCancel
<1>16. ASSUME NEW i \in Ask, WaitExpires(i) PROVE UserInv'
  BY <1>16 DEF WaitExpires
<1>17. ASSUME NEW i \in Ask, PublishResponse(i) PROVE UserInv'
  BY <1>17 DEF PublishResponse
<1>18. ASSUME NEW i \in Ask, Deliver(i) PROVE UserInv'
  BY <1>18 DEF Deliver
<1>19. ASSUME NEW i \in Ask, DeliverFails(i) PROVE UserInv'
  BY <1>19 DEF DeliverFails
<1>20. ASSUME NEW i \in Ask, ReadRow(i) PROVE UserInv'
  BY <1>20 DEF ReadRow
<1>21. ASSUME NEW i \in Ask, WriteRow(i) PROVE UserInv'
  BY <1>21 DEF WriteRow
<1>22. ASSUME NEW i \in Ask, WriteFails(i) PROVE UserInv'
  BY <1>22 DEF WriteFails
<1>23. ASSUME NEW i \in Ask, Notify(i) PROVE UserInv'
  BY <1>23 DEF Notify
<1>24. ASSUME NEW i \in Ask, NEW c \in Choice, Answer(i, c) PROVE UserInv'
  BY <1>24 DEF Answer
<1>25. CASE UNCHANGED clarifyVars
  BY <1>25 DEF clarifyVars
<1> QED
  BY <1>1, <1>2, <1>3, <1>4, <1>5, <1>6, <1>7, <1>8, <1>9, <1>10, <1>11, <1>12, <1>13, <1>14,
     <1>15, <1>16, <1>17, <1>18, <1>19, <1>20, <1>21, <1>22, <1>23, <1>24, <1>25, <1>26, <1>27
     DEF ClarifyNext, AgentStep, PollerStep, Waiter

LEMMA OutcomeSavedStep == CInv /\ [ClarifyNext]_clarifyVars => OutcomeSaved'
<1> SUFFICES ASSUME CInv, [ClarifyNext]_clarifyVars PROVE OutcomeSaved'
    OBVIOUS
<1> USE Basics DEF CInv, ClarifyTypeOK, QueueInv, WaiterInv, OutcomeSaved, Finished, Decided,
        agentVars, redisVars, taskVars, waiterVars, userVars, savedVars, WaiterVarsBut, Take
<1>1. CASE AgentAsks
  BY <1>1 DEF AgentAsks
<1>2. CASE AgentResumes
  BY <1>2 DEF AgentResumes
<1>3. CASE AgentGivesUp
  BY <1>3 DEF AgentGivesUp
<1>4. CASE AgentReturns
  BY <1>4 DEF AgentReturns
<1>5. CASE Pop
  BY <1>5 DEF Pop
<1>6. CASE Show
  BY <1>6 DEF Show
<1>7. CASE ShowFails
  BY <1>7 DEF ShowFails
<1>8. CASE LoopEnds
  BY <1>8 DEF LoopEnds
<1>9. CASE Finalize
  BY <1>9 DEF Finalize
<1>26. CASE PromptFails
  BY <1>26 DEF PromptFails
<1>27. CASE Fail
  BY <1>27 DEF Fail
<1>10. CASE PressCancel
  BY <1>10 DEF PressCancel
<1>11. CASE FlagCleared
  BY <1>11 DEF FlagCleared
<1>12. ASSUME NEW i \in Ask, Subscribe(i) PROVE OutcomeSaved'
  BY <1>12 DEF Subscribe
<1>13. ASSUME NEW i \in Ask, Check(i) PROVE OutcomeSaved'
  <2>1. Finished' = Finished
    BY <1>13 DEF Check
  <2>2. UNCHANGED <<row, dropped, clarifyFaults>>
    BY <1>13 DEF Check
  <2> QED
    BY <2>1, <2>2
<1>14. ASSUME NEW i \in Ask, Notified(i) PROVE OutcomeSaved'
  <2>1. Finished' = Finished
    BY <1>14 DEF Notified
  <2>2. UNCHANGED <<row, dropped, clarifyFaults>>
    BY <1>14 DEF Notified
  <2> QED
    BY <2>1, <2>2
<1>15. ASSUME NEW i \in Ask, SeesCancel(i) PROVE OutcomeSaved'
  BY <1>15 DEF SeesCancel
<1>16. ASSUME NEW i \in Ask, WaitExpires(i) PROVE OutcomeSaved'
  BY <1>16 DEF WaitExpires
<1>17. ASSUME NEW i \in Ask, PublishResponse(i) PROVE OutcomeSaved'
  BY <1>17 DEF PublishResponse
<1>18. ASSUME NEW i \in Ask, Deliver(i) PROVE OutcomeSaved'
  BY <1>18 DEF Deliver
<1>19. ASSUME NEW i \in Ask, DeliverFails(i) PROVE OutcomeSaved'
  BY <1>19 DEF DeliverFails
<1>20. ASSUME NEW i \in Ask, ReadRow(i) PROVE OutcomeSaved'
  BY <1>20 DEF ReadRow
<1>21. ASSUME NEW i \in Ask, WriteRow(i) PROVE OutcomeSaved'
  <2>1. row'.records = clarifies /\ waiter' = [waiter EXCEPT ![i] = "done"]
    BY <1>21 DEF WriteRow
  <2>2. \A j \in Finished' : clarifies[j] \in Outcome
    BY <1>21, <2>1 DEF WriteRow
  <2> QED
    BY <2>1, <2>2
<1>22. ASSUME NEW i \in Ask, WriteFails(i) PROVE OutcomeSaved'
  BY <1>22 DEF WriteFails
<1>23. ASSUME NEW i \in Ask, Notify(i) PROVE OutcomeSaved'
  BY <1>23 DEF Notify
<1>24. ASSUME NEW i \in Ask, NEW c \in Choice, Answer(i, c) PROVE OutcomeSaved'
  BY <1>24 DEF Answer
<1>25. CASE UNCHANGED clarifyVars
  BY <1>25 DEF clarifyVars
<1> QED
  BY <1>1, <1>2, <1>3, <1>4, <1>5, <1>6, <1>7, <1>8, <1>9, <1>10, <1>11, <1>12, <1>13, <1>14,
     <1>15, <1>16, <1>17, <1>18, <1>19, <1>20, <1>21, <1>22, <1>23, <1>24, <1>25, <1>26, <1>27
     DEF ClarifyNext, AgentStep, PollerStep, Waiter

LEMMA NoLostWakeupStep == CInv /\ [ClarifyNext]_clarifyVars => NoLostWakeup'
<1> SUFFICES ASSUME CInv, [ClarifyNext]_clarifyVars PROVE NoLostWakeup'
    OBVIOUS
<1> USE Basics DEF CInv, ClarifyTypeOK, QueueInv, NoLostWakeup, agentVars, redisVars, taskVars,
        waiterVars, userVars, savedVars, WaiterVarsBut, Take
<1>1. CASE AgentAsks
  BY <1>1 DEF AgentAsks
<1>2. CASE AgentResumes
  BY <1>2 DEF AgentResumes
<1>3. CASE AgentGivesUp
  BY <1>3 DEF AgentGivesUp
<1>4. CASE AgentReturns
  BY <1>4 DEF AgentReturns
<1>5. CASE Pop
  BY <1>5 DEF Pop
<1>6. CASE Show
  BY <1>6 DEF Show
<1>7. CASE ShowFails
  BY <1>7 DEF ShowFails
<1>8. CASE LoopEnds
  BY <1>8 DEF LoopEnds
<1>9. CASE Finalize
  BY <1>9 DEF Finalize
<1>26. CASE PromptFails
  BY <1>26 DEF PromptFails
<1>27. CASE Fail
  BY <1>27 DEF Fail
<1>10. CASE PressCancel
  BY <1>10 DEF PressCancel
<1>11. CASE FlagCleared
  BY <1>11 DEF FlagCleared
<1>12. ASSUME NEW i \in Ask, Subscribe(i) PROVE NoLostWakeup'
  BY <1>12 DEF Subscribe
<1>13. ASSUME NEW i \in Ask, Check(i) PROVE NoLostWakeup'
  BY <1>13 DEF Check
<1>14. ASSUME NEW i \in Ask, Notified(i) PROVE NoLostWakeup'
  BY <1>14 DEF Notified
<1>15. ASSUME NEW i \in Ask, SeesCancel(i) PROVE NoLostWakeup'
  BY <1>15 DEF SeesCancel
<1>16. ASSUME NEW i \in Ask, WaitExpires(i) PROVE NoLostWakeup'
  BY <1>16 DEF WaitExpires
<1>17. ASSUME NEW i \in Ask, PublishResponse(i) PROVE NoLostWakeup'
  BY <1>17 DEF PublishResponse
<1>18. ASSUME NEW i \in Ask, Deliver(i) PROVE NoLostWakeup'
  BY <1>18 DEF Deliver
<1>19. ASSUME NEW i \in Ask, DeliverFails(i) PROVE NoLostWakeup'
  BY <1>19 DEF DeliverFails
<1>20. ASSUME NEW i \in Ask, ReadRow(i) PROVE NoLostWakeup'
  BY <1>20 DEF ReadRow
<1>21. ASSUME NEW i \in Ask, WriteRow(i) PROVE NoLostWakeup'
  BY <1>21 DEF WriteRow
<1>22. ASSUME NEW i \in Ask, WriteFails(i) PROVE NoLostWakeup'
  BY <1>22 DEF WriteFails
<1>23. ASSUME NEW i \in Ask, Notify(i) PROVE NoLostWakeup'
  BY <1>23 DEF Notify
<1>24. ASSUME NEW i \in Ask, NEW c \in Choice, Answer(i, c) PROVE NoLostWakeup'
  BY <1>24 DEF Answer
<1>25. CASE UNCHANGED clarifyVars
  BY <1>25 DEF clarifyVars
<1> QED
  BY <1>1, <1>2, <1>3, <1>4, <1>5, <1>6, <1>7, <1>8, <1>9, <1>10, <1>11, <1>12, <1>13, <1>14,
     <1>15, <1>16, <1>17, <1>18, <1>19, <1>20, <1>21, <1>22, <1>23, <1>24, <1>25, <1>26, <1>27
     DEF ClarifyNext, AgentStep, PollerStep, Waiter

\* The invariant is inductive.
LEMMA ClarifyInvariant == ClarifySpec => []CInv
<1>1. CInv /\ [ClarifyNext]_clarifyVars => CInv'
  BY ClarifyTypeOKStep, QueueInvStep, WaiterInvStep, UserInvStep, OutcomeSavedStep,
     NoLostWakeupStep DEF CInv
<1> QED
  BY ClarifyInitInv, <1>1, PTL DEF ClarifySpec

\* The agent gets for a question what the user answered to that question, and
\* hears of a cancel only when the user pressed it (clarify_callback).
THEOREM AnswersBelongHolds == ClarifySpec => []AnswersBelong
<1>1. CInv => AnswersBelong
  BY Basics DEF CInv, WaiterInv, UserInv, AnswersBelong, Outcome
<1> QED
  BY ClarifyInvariant, <1>1, PTL

\* A stored answer always has a notification on its way to the waiting task
\* (wait_for_confirmation subscribes before it looks).
THEOREM NoLostWakeupHolds == ClarifySpec => []NoLostWakeup
<1>1. CInv => NoLostWakeup
  BY DEF CInv
<1> QED
  BY ClarifyInvariant, <1>1, PTL

\* The state is well formed and the row says of a question what the agent was
\* told, although several waiters and the end of the turn write that row.
THEOREM OutcomeTrueHolds == ClarifySpec => []OutcomeTrue
<1>1. CInv => RecordedIsDelivered
  BY Basics DEF CInv, WaiterInv, RecordedIsDelivered
<1>2. CInv => OutcomeTrue
  BY <1>1 DEF CInv, OutcomeTrue
<1> QED
  BY ClarifyInvariant, <1>2, PTL
=============================================================================
