------------------------- MODULE RunnerTasksProofs --------------------------
(***************************************************************************)
(* What is proved of the runner: its lock, a round table that it runs, and *)
(* the two together.                                                       *)
(***************************************************************************)
EXTENDS MCRunnerTasks, FiniteSetTheorems, TLAPS

(* The lock: one main loop consumes.                                        *)

\* Failing refreshes a leased runner can still afford, in time.
Credit(r) == IF role[r] = "starting" THEN Startup + Gap * (MaxMisses + 1)
                                     ELSE Gap * (MaxMisses + 1 - misses[r])

TokensDistinct ==
  \A r, s \in Runner : r # s /\ token[r] # NoToken => token[r] # token[s]

\* A leased runner owns the lock, and the lease outlasts its credit.
LeaseInv ==
  \A r \in Runner :
    /\ role[r] \in {"launched"} \cup Working => token[r] # NoToken
    /\ role[r] \in {"out", "launched", "starting"} => misses[r] = 0
    /\ beating[r] => role[r] \in {"active", "stopping"}
    /\ Leased(r) =>
         /\ lock = token[r]
         /\ age[r] <= Deadline(r)
         /\ Credit(r) < ttl + age[r]

LInv == TypeOK /\ TokensDistinct /\ LeaseInv

LEMMA Times ==
  /\ \A n \in Nat : Gap * n \in Nat /\ Gap * (n + 1) = Gap * n + Gap
  /\ Gap \in Nat /\ Startup \in Nat /\ TTL \in Nat /\ Drain \in Nat
  /\ MaxMisses \in Nat
  /\ Startup + Gap * (MaxMisses + 1) < TTL
BY TimesType, LeaseLasts

LEMMA InitLInv == Init => LInv
BY TimesType, NoTokenType
   DEF Init, LInv, TypeOK, TokensDistinct, LeaseInv, Consuming, Working, Leased


\* Two runners never consume together: both would own the one lock.
LEMMA Alone ==
  ASSUME LInv, NEW r \in Runner, NEW s \in Runner,
         Leased(r), Leased(s)
  PROVE  r = s
BY DEF LInv, TokensDistinct, LeaseInv, Leased, Consuming, Working

LEMMA NextLInv == ASSUME LInv, [Next]_vars PROVE LInv'
<1>0. TypeOK /\ TokensDistinct /\ LeaseInv
  BY DEF LInv
<1> USE Times, NoTokenType DEF Consuming, Working, Leased
<1>1. ASSUME NEW r \in Runner, Launch(r) PROVE LInv'
  <2>1. TypeOK'
    BY <1>0, <1>1 DEF Launch, TypeOK
  <2>2. TokensDistinct'
    BY <1>0, <1>1 DEF Launch, TypeOK, TokensDistinct
  <2>3. LeaseInv'
    BY <1>0, <1>1 DEF Launch, TypeOK, LeaseInv, Deadline, Credit
  <2> QED BY <2>1, <2>2, <2>3 DEF LInv
<1>2. ASSUME NEW r \in Runner, Acquire(r) PROVE LInv'
  <2>1. TypeOK'
    BY <1>0, <1>2 DEF Acquire, TypeOK, LeaseInv
  <2>2. TokensDistinct'
    BY <1>0, <1>2 DEF Acquire, TokensDistinct
  <2>3. \A s \in Runner : ~Leased(s)
    BY <1>0, <1>2 DEF Acquire, LeaseInv
  <2>4. LeaseInv'
    BY <1>0, <1>2, <2>3 DEF Acquire, TypeOK, LeaseInv, Deadline, Credit
  <2> QED BY <2>1, <2>2, <2>4 DEF LInv
<1>3. ASSUME NEW r \in Runner, Refused(r) PROVE LInv'
  <2>1. TypeOK' /\ TokensDistinct'
    BY <1>0, <1>3 DEF Refused, TypeOK, TokensDistinct
  <2>2. LeaseInv'
    BY <1>0, <1>3 DEF Refused, TypeOK, LeaseInv, Deadline, Credit
  <2> QED BY <2>1, <2>2 DEF LInv
<1>4. ASSUME NEW r \in Runner, Begin(r) PROVE LInv'
  <2>1. TypeOK' /\ TokensDistinct'
    BY <1>0, <1>4 DEF Begin, TypeOK, TokensDistinct
  <2>2. LeaseInv'
    BY <1>0, <1>4 DEF Begin, TypeOK, LeaseInv, Deadline, Credit
  <2> QED BY <2>1, <2>2 DEF LInv
<1>5. ASSUME NEW r \in Runner, RefreshGet(r) PROVE LInv'
  <2>2. lock = token[r] /\ UNCHANGED age /\ seen' = [seen EXCEPT ![r] = TRUE]
    BY <1>0, <1>5 DEF RefreshGet, LeaseInv
  <2>1. TypeOK' /\ TokensDistinct'
    BY <1>0, <1>5, <2>2 DEF RefreshGet, TypeOK, TokensDistinct
  <2>3. LeaseInv'
    BY <1>0, <1>5, <2>2 DEF RefreshGet, TypeOK, LeaseInv, Deadline, Credit
  <2> QED BY <2>1, <2>3 DEF LInv
<1>6. ASSUME NEW r \in Runner, RefreshExpire(r) PROVE LInv'
  <2>1. lock = token[r] /\ lock # NoToken
    BY <1>0, <1>6 DEF RefreshExpire, LeaseInv
  <2>2. TypeOK' /\ TokensDistinct'
    BY <1>0, <1>6, <2>1 DEF RefreshExpire, TypeOK, TokensDistinct
  <2>3. \A s \in Runner : Leased(s) => s = r
    BY <1>6, Alone DEF RefreshExpire
  <2>4. LeaseInv'
    BY <1>0, <1>6, <2>1, <2>3 DEF RefreshExpire, TypeOK, LeaseInv, Deadline, Credit
  <2> QED BY <2>2, <2>4 DEF LInv
<1>7. ASSUME NEW r \in Runner, RefreshFails(r) PROVE LInv'
  <2>1. TypeOK' /\ TokensDistinct'
    BY <1>0, <1>7 DEF RefreshFails, TypeOK, TokensDistinct
  <2>2. /\ age'[r] = 0 /\ Deadline(r)' = Gap /\ role'[r] = role[r]
        /\ Credit(r)' < ttl'
    <3>1. /\ role[r] \in {"active", "stopping"} /\ beating[r] /\ beating' = beating
          /\ role' = role /\ ttl' = ttl
          /\ misses[r] \in 0..MaxMisses /\ misses[r] < MaxMisses
          /\ misses'[r] = misses[r] + 1 /\ age'[r] = 0
      BY <1>0, <1>7 DEF RefreshFails, TypeOK, LeaseInv
    <3>2. /\ age[r] <= Gap /\ age[r] \in Nat /\ ttl \in Nat
          /\ Gap * (MaxMisses + 1 - misses[r]) < ttl + age[r]
      BY <1>0, <3>1 DEF LeaseInv, Deadline, Credit, TypeOK
    <3>3. PICK n \in Nat : n = MaxMisses - misses[r]
      BY <3>1
    <3>4. /\ MaxMisses + 1 - misses[r] = n + 1
          /\ MaxMisses + 1 - misses'[r] = n
      BY <3>1, <3>3
    <3>5. Gap * (n + 1) < ttl + age[r]
      BY <3>2, <3>4
    <3>6. Gap * (n + 1) = Gap * n + Gap /\ Gap * n \in Nat
      OBVIOUS
    <3>7. Gap * n < ttl
      <4>1. PICK m \in Nat : m = Gap * n
        BY <3>6
      <4>2. m + Gap < ttl + age[r]
        BY <3>5, <3>6, <4>1
      <4>3. m < ttl
        BY <3>2, <4>2
      <4> QED BY <4>1, <4>3
    <3>8. Credit(r)' = Gap * n
      BY <3>1, <3>4 DEF Credit
    <3> QED BY <3>1, <3>7, <3>8 DEF Deadline
  <2>3. \A s \in Runner : Leased(s) => s = r
    BY <1>7, Alone DEF RefreshFails
  <2>4. LeaseInv'
    BY <1>0, <1>7, <2>2, <2>3 DEF RefreshFails, TypeOK, LeaseInv
  <2> QED BY <2>1, <2>4 DEF LInv
<1>8. ASSUME NEW r \in Runner, Signal(r) \/ LoopExits(r) PROVE LInv'
  <2>1. TypeOK' /\ TokensDistinct'
    <3>1. CASE Signal(r)
      BY <1>0, <3>1 DEF Signal, TypeOK, TokensDistinct
    <3>2. CASE LoopExits(r)
      BY <1>0, <3>2 DEF LoopExits, TypeOK, TokensDistinct
    <3> QED BY <1>8, <3>1, <3>2
  <2>2. LeaseInv'
    BY <1>0, <1>8 DEF Signal, LoopExits, TypeOK, LeaseInv, Deadline, Credit
  <2> QED BY <2>1, <2>2 DEF LInv
<1>9. ASSUME NEW r \in Runner, Release(r) PROVE LInv'
  <2>1. TypeOK' /\ TokensDistinct'
    BY <1>0, <1>9 DEF Release, Leave, TypeOK, TokensDistinct
  <2>2. \A s \in Runner : Leased(s) => lock # token[r]
    BY <1>0, <1>9 DEF Release, LeaseInv, TokensDistinct
  <2>3. LeaseInv'
    BY <1>0, <1>9, <2>2 DEF Release, Leave, TypeOK, LeaseInv, Deadline, Credit
  <2> QED BY <2>1, <2>3 DEF LInv
<1>10. ASSUME NEW r \in Runner, Crash(r) PROVE LInv'
  <2>1. TypeOK' /\ TokensDistinct'
    BY <1>0, <1>10, TimesType DEF Crash, Leave, TypeOK, TokensDistinct
  <2>2. LeaseInv'
    BY <1>0, <1>10 DEF Crash, Leave, TypeOK, LeaseInv, Deadline, Credit
  <2> QED BY <2>1, <2>2 DEF LInv
<1>11. CASE Tick
  <2>1. TypeOK' /\ TokensDistinct'
    BY <1>0, <1>11 DEF Tick, TypeOK, TokensDistinct
  <2>2. ASSUME NEW r \in Runner, Leased(r)'
        PROVE  /\ lock' = token'[r]
               /\ age'[r] <= Deadline(r)'
               /\ Credit(r)' < ttl' + age'[r]
    <3>1. /\ role' = role /\ token' = token /\ misses' = misses
          /\ beating' = beating /\ Leased(r) /\ Timed(r)
          /\ age'[r] = age[r] + 1 /\ age[r] < Deadline(r)
          /\ age[r] \in Nat /\ ttl \in Nat /\ misses[r] \in 0..MaxMisses
      BY <1>0, <1>11, <2>2 DEF Tick, TypeOK, Timed
    <3>2. /\ lock = token[r] /\ lock # NoToken /\ ttl > 0
          /\ Credit(r) < ttl + age[r]
      BY <1>0, <2>2, <3>1 DEF LeaseInv, TypeOK
    <3>3. Credit(r)' = Credit(r) /\ Deadline(r)' = Deadline(r)
      BY <3>1 DEF Credit, Deadline
    <3>4. Deadline(r) <= Credit(r) /\ Deadline(r) \in Nat /\ Credit(r) \in Nat
      <4>1. CASE role[r] = "starting"
        BY <4>1 DEF Deadline, Credit
      <4>2. CASE role[r] # "starting"
        <5>1. PICK n \in Nat : /\ n = MaxMisses - misses[r]
                               /\ MaxMisses + 1 - misses[r] = n + 1
          <6> HIDE Times
          <6>1. MaxMisses \in Nat /\ misses[r] \in 0..MaxMisses
            BY <3>1, TimesType
          <6>2. \A a, b \in Int : a + 1 - b = a - b + 1
            OBVIOUS
          <6>3. MaxMisses + 1 - misses[r] = MaxMisses - misses[r] + 1
            BY <6>1, <6>2
          <6> QED BY <6>1, <6>3
        <5>2. Credit(r) = Gap * (n + 1) /\ Deadline(r) = Gap
          <6>1. role[r] # "draining"
            BY <1>0, <3>1, <4>2 DEF LeaseInv
          <6>2. MaxMisses + 1 - misses[r] = n + 1
            BY <5>1
          <6>3. Credit(r) = Gap * (MaxMisses + 1 - misses[r])
            BY <4>2, <6>1 DEF Credit
          <6>4. Deadline(r) = Gap
            BY <4>2, <6>1 DEF Deadline
          <6> QED BY <6>2, <6>3, <6>4
        <5>3. Gap * (n + 1) = Gap * n + Gap /\ Gap * n \in Nat
          OBVIOUS
        <5> QED BY <5>2, <5>3
      <4> QED BY <4>1, <4>2
    <3>5. ttl > 1
      BY <3>1, <3>2, <3>4
    <3>6. ttl' = ttl - 1 /\ lock' = lock
      BY <1>11, <3>1, <3>5 DEF Tick
    <3> QED BY <3>1, <3>2, <3>3, <3>4, <3>5, <3>6
  <2>3. LeaseInv'
    BY <1>0, <1>11, <2>2 DEF Tick, LeaseInv
  <2> QED BY <2>1, <2>3 DEF LInv
<1>12. ASSUME NEW r \in Runner, HeartbeatDies(r) \/ ExitRaises(r) PROVE LInv'
  <2>1. TypeOK' /\ TokensDistinct'
    <3>1. CASE HeartbeatDies(r)
      BY <1>0, <3>1, TimesType DEF HeartbeatDies, TypeOK, TokensDistinct
    <3>2. CASE ExitRaises(r)
      BY <1>0, <3>2 DEF ExitRaises, Leave, TypeOK, TokensDistinct
    <3> QED BY <1>12, <3>1, <3>2
  <2>2. LeaseInv'
    BY <1>0, <1>12 DEF HeartbeatDies, ExitRaises, Leave, TypeOK, LeaseInv, Deadline, Credit
  <2> QED BY <2>1, <2>2 DEF LInv
<1>13. CASE UNCHANGED vars
  BY <1>0, <1>13 DEF vars, LInv, TypeOK, TokensDistinct, LeaseInv, Deadline, Credit
<1> QED BY <1>1, <1>2, <1>3, <1>4, <1>5, <1>6, <1>7, <1>8, <1>9, <1>10, <1>11,
           <1>12, <1>13 DEF Next, Step

\* While refreshes are at most Gap apart and at most MaxMisses of them fail in
\* a row, no two runners whose heartbeats run consume the stream at once.
THEOREM OneConsumerHolds == Spec => []OneConsumer
<1>1. LInv => OneConsumer
  BY Alone DEF OneConsumer
<1> QED BY <1>1, InitLInv, NextLInv, PTL DEF Spec

-----------------------------------------------------------------------------
(* A round table keeps its answers and its promise.                         *)

Verdict  == {"complete", "cancelled", "error"}
Before   == {"queued", "replying", "merging", "write"}  \* the row still streams
Settled  == {"merging", "write", "clear", "announce", "over"}

RoundTypes ==
  /\ rtpc \in {"send", "replying", "aborted"} \cup Before \cup Settled
  /\ call \in [Part -> [pc : {"idle", "asking", "stopping", "returned", "raised"},
                        text : Nat, status : ReplyEnd, deaf : BOOLEAN]]
  /\ shown \in [Part -> Nat]
  /\ verdict \in Verdict \cup {"none"}
  /\ rtrow \in [status : {"none", "streaming"} \cup Verdict,
                replies : [Slot -> [text : Nat, status : ReplyEnd \cup {"streaming"}]],
                merged : Nat]
  /\ rtlive \in BOOLEAN /\ absent \in SUBSET Slot /\ rtflag \in BOOLEAN
  /\ rthist \in [pressed : BOOLEAN, faults : Nat]

\* A call's buffer is what it has streamed, or a placeholder for nothing.
BufferInv ==
  \A s \in Slot :
    /\ call[s].text <= Dummy
    /\ call[s].pc = "idle" => call[s].text = 0 /\ shown[s] = 0 /\ ~call[s].deaf
    /\ call[s].pc = "asking" => call[s].text <= MaxChunks
    /\ call[s].pc = "asking" /\ ~call[s].deaf => call[s].text = shown[s]
    /\ call[s].pc \in {"stopping", "returned"} /\ ~call[s].deaf =>
         call[s].text = shown[s] \/ (call[s].text = Dummy /\ shown[s] = 0)
    /\ call[s].pc = "returned" => ~call[s].deaf

\* Calls run only in their phase.
PhaseInv ==
  /\ rtpc \in {"send", "queued"} => \A s \in Part : call[s].pc = "idle"
  /\ \A s \in Part : call[s].pc \in {"asking", "stopping"} =>
                       rtpc = IF s = Merger THEN "merging" ELSE "replying"
  /\ rtpc \in Settled => \A s \in Slot : Ended(s)
  /\ rtpc = "replying" => call[Merger].pc = "idle"

\* What the merge and the verdict rest on.
MergeInv ==
  /\ rtpc = "merging" => Cardinality(OkSlots) > 1
  /\ rtpc = "write" /\ verdict = "complete" =>
       /\ OkSlots # {}
       /\ Cardinality(OkSlots) = 1 => \A s \in OkSlots : call[Merger].text = call[s].text
  /\ rtpc = "write" => verdict # "none"

\* The row closes in one step, with what the calls returned.
RowInv ==
  /\ rtpc = "send" => rtrow.status = "none"
  /\ rtpc \in Before => rtrow.status = "streaming"
  /\ rtpc \in {"clear", "announce", "over"} => rtrow.status \in Verdict
  /\ rtrow.status \notin Verdict => \A s \in Slot : rtrow.replies[s] = NoReply
  /\ rtrow.status \in Verdict =>
       /\ rtpc \in {"clear", "announce", "over", "aborted"}
       /\ \A s \in Slot : Ended(s) /\ rtrow.replies[s] = Result(s)

\* The flag of an earlier turn is gone when the round table is queued.
PressInv ==
  /\ rtflag /\ rtpc \in Before => rthist.pressed
  /\ rtpc = "write" /\ verdict = "cancelled" => rthist.pressed

RInv == /\ RoundTypes /\ BufferInv /\ PhaseInv /\ MergeInv /\ RowInv /\ PressInv
        /\ MergeRestsOnReplies /\ RoundCancelPressed

LEMMA Numbers ==
  /\ Slots \in Nat \ {0} /\ MaxChunks \in Nat /\ Dummy \in Nat /\ MaxRtFaults \in Nat
  /\ Dummy = MaxChunks + 1
  /\ Slot \subseteq Nat /\ 0 \notin Slot /\ Merger = 0
  /\ Part = Slot \cup {0}
BY RoundTableConstants DEF Dummy, Slot, Merger, Part

\* At most all slots are usable: a finite set.
LEMMA OkFinite ==
  /\ IsFiniteSet(OkSlots)
  /\ Cardinality(OkSlots) \in Nat
<1>1. IsFiniteSet(Slot)
  BY Numbers, FS_Interval DEF Slot
<1>2. OkSlots \in SUBSET Slot
  BY DEF OkSlots
<1>3. IsFiniteSet(OkSlots)
  BY <1>1, <1>2, FS_Subset
<1> QED BY <1>3, FS_CardinalityType

\* Results of slots whose calls do not change do not change.
LEMMA SameResults ==
  ASSUME RoundTypes, RoundTypes', \A s \in Slot : call'[s] = call[s]
  PROVE  /\ OkSlots' = OkSlots
         /\ \A s \in Slot : Result(s)' = Result(s) /\ (Ended(s)' <=> Ended(s))
BY DEF OkSlots, Result, Ended

LEMMA InitRInv == RoundInit => RInv
<1> SUFFICES ASSUME RoundInit PROVE RInv
  OBVIOUS
<1> USE Numbers DEF RoundInit
<1>1. RoundTypes
  BY DEF RoundTypes, NoReply, ReplyEnd
<1>2. BufferInv /\ PhaseInv
  BY DEF BufferInv, PhaseInv, Settled
<1>3. MergeInv /\ RowInv /\ PressInv
  BY DEF MergeInv, RowInv, PressInv, Before, Verdict, NoReply
<1>4. MergeRestsOnReplies /\ RoundCancelPressed
  BY DEF MergeRestsOnReplies, RoundCancelPressed
<1> QED BY <1>1, <1>2, <1>3, <1>4 DEF RInv

\* Calls: a chunk, an end, the stop.
CallStep(s) ==
  AnswerEnds(s) \/ StopsQuietly(s) \/ StopRaisesIn(s) \/ Chunk(s) \/ ChunkFails(s)

LEMMA CallKeeps ==
  ASSUME RInv, NEW s \in Part, CallStep(s)
  PROVE  RInv'
<1> USE Numbers
<1>0. RoundTypes /\ BufferInv /\ PhaseInv /\ MergeInv /\ RowInv /\ PressInv
      /\ MergeRestsOnReplies /\ RoundCancelPressed
  BY DEF RInv
<1> DEFINE Rest == UNCHANGED <<rtpc, verdict, rtrow, rtlive, absent, rtflag>>
<1>1. Rest /\ (UNCHANGED rthist \/ (rthist.faults < MaxRtFaults /\ rthist' = [rthist EXCEPT !.faults = @ + 1]))
  BY DEF CallStep, AnswerEnds, CallReturns, CallTimesOut, CallFails, Ends, StopsQuietly,
         StopRaisesIn, Chunk, ChunkFails, Fault
<1>2. call[s].pc \in {"asking", "stopping"} /\ \A t \in Part \ {s} : call'[t] = call[t] /\ shown'[t] = shown[t]
  BY <1>0 DEF RoundTypes, CallStep, AnswerEnds, CallReturns, CallTimesOut, CallFails, Ends, StopsQuietly,
         StopRaisesIn, Chunk, ChunkFails
<1>3. rtpc = IF s = Merger THEN "merging" ELSE "replying"
  BY <1>0, <1>2 DEF PhaseInv
<1>4. RoundTypes'
  <2>1. call' \in [Part -> [pc : {"idle", "asking", "stopping", "returned", "raised"},
                            text : Nat, status : ReplyEnd, deaf : BOOLEAN]]
    BY <1>0 DEF RoundTypes, CallStep, AnswerEnds, CallReturns, CallTimesOut, CallFails, Ends,
         StopsQuietly, StopRaisesIn, Chunk, ChunkFails, OrDummy, ReplyEnd
  <2>2. shown' \in [Part -> Nat]
    BY <1>0 DEF RoundTypes, CallStep, AnswerEnds, CallReturns, CallTimesOut, CallFails, Ends,
         StopsQuietly, StopRaisesIn, Chunk, ChunkFails
  <2> QED BY <1>0, <1>1, <2>1, <2>2 DEF RoundTypes
<1>5. BufferInv'
  <2> SUFFICES ASSUME s \in Slot PROVE BufferInv'
    BY <1>0, <1>2 DEF BufferInv
  <2>1. CASE Chunk(s) \/ ChunkFails(s)
    BY <1>0, <1>2, <2>1 DEF RoundTypes, BufferInv, Chunk, ChunkFails
  <2>2. CASE AnswerEnds(s)
    BY <1>0, <1>2, <2>2 DEF RoundTypes, BufferInv, AnswerEnds, CallReturns, CallTimesOut, CallFails,
         Ends, OrDummy
  <2>3. CASE StopsQuietly(s) \/ StopRaisesIn(s)
    BY <1>0, <1>2, <2>3 DEF RoundTypes, BufferInv, StopsQuietly, StopRaisesIn
  <2> QED BY <2>1, <2>2, <2>3 DEF CallStep
<1>6. PhaseInv'
  BY <1>0, <1>1, <1>2, <1>3 DEF PhaseInv, Ended, Settled
<1>7. MergeInv'
  BY <1>0, <1>1, <1>2, <1>3, <1>4, SameResults DEF MergeInv
<1>8. RowInv' /\ MergeRestsOnReplies' /\ RoundCancelPressed'
  BY <1>0, <1>1, <1>3 DEF RowInv, MergeRestsOnReplies, RoundCancelPressed, Before, Verdict
<1>9. PressInv'
  BY <1>0, <1>1 DEF PressInv, RoundTypes
<1> QED BY <1>4, <1>5, <1>6, <1>7, <1>8, <1>9 DEF RInv

\* The row is not open yet, or stays as it is.
LEMMA FrameKeeps ==
  ASSUME RInv,
         SendRoundTask \/ PressRoundCancel \/ RoundFlagExpires \/ RoundClearCancel
           \/ AnnounceRound \/ AbortRound \/ UNCHANGED roundVars
  PROVE  RInv'
<1> USE Numbers
<1>0. RoundTypes /\ BufferInv /\ PhaseInv /\ MergeInv /\ RowInv /\ PressInv
      /\ MergeRestsOnReplies /\ RoundCancelPressed
  BY DEF RInv
<1>1. UNCHANGED <<call, shown, verdict, absent>>
  BY DEF SendRoundTask, PressRoundCancel, RoundFlagExpires, RoundClearCancel, AnnounceRound,
         AbortRound, roundVars
<1>2. RoundTypes'
  <2>1. CASE SendRoundTask
    BY <1>0, <1>1, <2>1 DEF RoundTypes, SendRoundTask, Before
  <2>2. CASE PressRoundCancel
    BY <1>0, <1>1, <2>2 DEF RoundTypes, PressRoundCancel
  <2>3. CASE RoundFlagExpires \/ UNCHANGED roundVars
    BY <1>0, <1>1, <2>3 DEF RoundTypes, RoundFlagExpires, roundVars
  <2>4. CASE RoundClearCancel \/ AnnounceRound
    BY <1>0, <1>1, <2>4 DEF RoundTypes, RoundClearCancel, AnnounceRound, Settled
  <2>5. CASE AbortRound
    <3>1. rthist' \in [pressed : BOOLEAN, faults : Nat]
      BY <1>0, <2>5 DEF RoundTypes, AbortRound, Fault
    <3> QED BY <1>0, <1>1, <2>5, <3>1 DEF RoundTypes, AbortRound
  <2> QED BY <2>1, <2>2, <2>3, <2>4, <2>5
<1>3. BufferInv'
  BY <1>0, <1>1 DEF BufferInv
<1>4. OkSlots' = OkSlots /\ \A s \in Slot : Result(s)' = Result(s) /\ (Ended(s)' <=> Ended(s))
  BY <1>0, <1>1, <1>2, SameResults
<1>5. PhaseInv'
  <2>1. CASE AbortRound
    BY <1>0, <1>1, <2>1 DEF PhaseInv, AbortRound, Settled, Ended
  <2>2. CASE ~AbortRound
    BY <1>0, <1>1, <1>4, <2>2 DEF PhaseInv, Settled, SendRoundTask, PressRoundCancel, RoundFlagExpires, RoundClearCancel,
         AnnounceRound, roundVars
  <2> QED BY <2>1, <2>2
<1>6. MergeInv'
  BY <1>0, <1>1, <1>4 DEF MergeInv, SendRoundTask, PressRoundCancel, RoundFlagExpires, RoundClearCancel,
         AnnounceRound, AbortRound, roundVars
<1>7. RowInv'
  BY <1>0, <1>4 DEF RowInv, RoundTypes, Before, Verdict, SendRoundTask, PressRoundCancel, RoundFlagExpires,
         RoundClearCancel, AnnounceRound, AbortRound, roundVars
<1>8. PressInv'
  <2>1. CASE PressRoundCancel
    <3>1. rthist'.pressed = (rtrow.status = "streaming") /\ ~rthist.pressed /\ UNCHANGED rtpc
      BY <1>0, <2>1 DEF RoundTypes, PressRoundCancel
    <3> QED BY <1>0, <1>1, <3>1 DEF PressInv, RowInv
  <2>2. CASE AbortRound
    BY <1>0, <1>1, <2>2 DEF PressInv, AbortRound, Before
  <2>3. CASE SendRoundTask \/ RoundFlagExpires \/ RoundClearCancel \/ AnnounceRound
               \/ UNCHANGED roundVars
    BY <1>0, <1>1, <2>3 DEF PressInv, Before, SendRoundTask, RoundFlagExpires, RoundClearCancel,
           AnnounceRound, roundVars
  <2> QED BY <2>1, <2>2, <2>3
<1>9. MergeRestsOnReplies' /\ RoundCancelPressed'
  <2>1. CASE SendRoundTask
    <3>1. rtrow'.status = "streaming"
      BY <1>0, <2>1 DEF SendRoundTask, RoundTypes
    <3> QED BY <3>1 DEF MergeRestsOnReplies, RoundCancelPressed
  <2>2. CASE ~SendRoundTask
    <3>1. UNCHANGED rtrow
      BY <2>2 DEF PressRoundCancel, RoundFlagExpires, RoundClearCancel, AnnounceRound, AbortRound, roundVars
    <3>2. MergeRestsOnReplies'
      BY <1>0, <3>1 DEF MergeRestsOnReplies
    <3>3. CASE PressRoundCancel
      <4>1. rtrow.status # "cancelled" \/ rthist.pressed
        BY <1>0 DEF RoundCancelPressed
      <4>2. rthist.pressed => rthist'.pressed
        BY <1>0, <3>3 DEF PressRoundCancel, RoundTypes
      <4> QED BY <3>1, <3>2, <4>1, <4>2 DEF RoundCancelPressed
    <3>4. CASE ~PressRoundCancel
      <4>1. rthist'.pressed = rthist.pressed
        BY <1>0, <2>2, <3>4 DEF RoundFlagExpires, RoundClearCancel, AnnounceRound, AbortRound, Fault, roundVars, RoundTypes
      <4> QED BY <1>0, <3>1, <3>2, <4>1 DEF RoundCancelPressed
    <3> QED BY <3>3, <3>4
  <2> QED BY <2>1, <2>2
<1> QED BY <1>2, <1>3, <1>5, <1>6, <1>7, <1>8, <1>9 DEF RInv

\* Starting the answers and the merge.
LEMMA StartKeeps ==
  ASSUME RInv, StartReplies \/ StartMerge
  PROVE  RInv'
<1> USE Numbers
<1>0. RoundTypes /\ BufferInv /\ PhaseInv /\ MergeInv /\ RowInv /\ PressInv
      /\ MergeRestsOnReplies /\ RoundCancelPressed
  BY DEF RInv
<1>1. UNCHANGED <<shown, verdict, rtrow, rtlive, absent, rtflag, rthist>>
  BY DEF StartReplies, StartMerge
<1>2. RoundTypes'
  BY <1>0, <1>1 DEF RoundTypes, StartReplies, StartMerge, Starts, Settled, Before
<1>3. CASE StartReplies
  <2>1. \A s \in Slot : call'[s] = [call[s] EXCEPT !.pc = IF s \in absent THEN "raised" ELSE "asking"]
    BY <1>3 DEF StartReplies, Starts
  <2>2. call'[Merger] = call[Merger] /\ rtpc = "queued" /\ rtpc' = "replying"
    BY <1>3 DEF StartReplies, Starts
  <2>3. BufferInv'
    <3>1. \A s \in Slot : /\ call'[s].pc \in {"raised", "asking"} /\ ~call'[s].deaf
                          /\ call'[s].text = 0 /\ shown'[s] = 0
      <4> SUFFICES ASSUME NEW s \in Slot
                   PROVE  /\ call'[s].pc \in {"raised", "asking"} /\ ~call'[s].deaf
                          /\ call'[s].text = 0 /\ shown'[s] = 0
        OBVIOUS
      <4>1. call[s].pc = "idle"
        BY <1>0, <2>2 DEF PhaseInv
      <4>2. call[s].text = 0 /\ shown[s] = 0 /\ ~call[s].deaf
        BY <1>0, <4>1 DEF BufferInv
      <4>3. call[s] \in [pc : {"idle", "asking", "stopping", "returned", "raised"},
                         text : Nat, status : ReplyEnd, deaf : BOOLEAN]
        BY <1>0 DEF RoundTypes
      <4>4. /\ call'[s].pc = IF s \in absent THEN "raised" ELSE "asking"
            /\ call'[s].text = call[s].text /\ call'[s].deaf = call[s].deaf
        BY <2>1, <4>3
      <4> QED BY <1>1, <4>2, <4>4
    <3>2. 0 <= Dummy /\ 0 <= MaxChunks
      OBVIOUS
    <3>3. \A s \in Slot : call'[s].text <= Dummy /\ call'[s].text <= MaxChunks
      BY <3>1, <3>2, Zenon
    <3>4. \A s \in Slot : call'[s].pc # "idle" /\ call'[s].pc \notin {"stopping", "returned"}
      BY <3>1
    <3> HIDE Numbers
    <3> QED BY <3>1, <3>3, <3>4 DEF BufferInv
  <2>4. PhaseInv'
    BY <1>0, <2>1, <2>2 DEF RoundTypes, PhaseInv, Settled
  <2>5. MergeInv' /\ RowInv' /\ PressInv' /\ MergeRestsOnReplies' /\ RoundCancelPressed'
    BY <1>0, <1>1, <2>2 DEF MergeInv, RowInv, PressInv, MergeRestsOnReplies, RoundCancelPressed, Before, Verdict
  <2> QED BY <1>2, <2>3, <2>4, <2>5 DEF RInv
<1>4. CASE StartMerge
  <2>1. rtpc = "replying" /\ rtpc' = "merging" /\ \A s \in Slot : call'[s] = call[s] /\ Ended(s)
    BY <1>0, <1>4 DEF StartMerge, Starts, RoundTypes
  <2>2. OkSlots' = OkSlots /\ \A s \in Slot : Ended(s)'
    BY <1>0, <1>2, <2>1, SameResults
  <2>3. BufferInv'
    BY <1>0, <1>1, <2>1 DEF BufferInv
  <2>4. PhaseInv'
    BY <1>0, <2>1, <2>2 DEF PhaseInv, Settled, Ended
  <2>5. MergeInv'
    BY <1>4, <2>1, <2>2 DEF MergeInv, StartMerge
  <2>6. RowInv' /\ PressInv' /\ MergeRestsOnReplies' /\ RoundCancelPressed'
    BY <1>0, <1>1, <2>1 DEF RowInv, PressInv, MergeRestsOnReplies, RoundCancelPressed, Before, Verdict
  <2> QED BY <1>2, <2>2, <2>3, <2>4, <2>5, <2>6 DEF RInv
<1> QED BY <1>3, <1>4

\* The verdict, after the answers or after the merge.
LEMMA DecisionKeeps ==
  ASSUME RInv, FindsCancelled \/ NothingUsable \/ MergesOne \/ MergeEnds
  PROVE  RInv'
<1> USE Numbers
<1>0. RoundTypes /\ BufferInv /\ PhaseInv /\ MergeInv /\ RowInv /\ PressInv
      /\ MergeRestsOnReplies /\ RoundCancelPressed
  BY DEF RInv
<1>1. /\ rtpc \in {"replying", "merging"} /\ rtpc' = "write" /\ verdict' \in Verdict
      /\ UNCHANGED <<rtrow, rtlive, absent, rtflag, rthist>>
      /\ \A s \in Slot : call'[s] = call[s] /\ shown'[s] = shown[s]
      /\ call'[Merger].pc = call[Merger].pc
  BY <1>0 DEF FindsCancelled, NothingUsable, MergesOne, MergeEnds, MergeEndsWith, Decides, RoundTypes, Verdict
<1>2. RoundTypes'
  <2>1. CASE MergesOne
    <3>1. PICK s \in OkSlots : /\ call' = [call EXCEPT ![Merger].text = Result(s).text]
                               /\ shown' = [shown EXCEPT ![Merger] = Result(s).text]
      BY <2>1 DEF MergesOne
    <3>2. Result(s).text \in Nat
      BY <1>0 DEF Result, OkSlots, RoundTypes
    <3> QED BY <1>0, <1>1, <3>1, <3>2 DEF RoundTypes, Before
  <2>2. CASE ~MergesOne
    BY <1>0, <1>1, <2>2 DEF FindsCancelled, NothingUsable, MergeEnds, MergeEndsWith, Decides, RoundTypes, Before
  <2> QED BY <2>1, <2>2
<1>3. OkSlots' = OkSlots /\ \A s \in Slot : Ended(s) /\ Ended(s)'
  <2>1. \A s \in Slot : Ended(s)
    BY <1>0 DEF FindsCancelled, NothingUsable, MergesOne, MergeEnds, MergeEndsWith, Decides, PhaseInv, Settled
  <2> QED BY <1>0, <1>1, <1>2, <2>1, SameResults
<1>4. BufferInv'
  BY <1>0, <1>1 DEF BufferInv
<1>5. PhaseInv'
  <2>1. call[Merger].pc \notin {"asking", "stopping"}
    BY <1>0 DEF FindsCancelled, NothingUsable, MergesOne, MergeEnds, MergeEndsWith, Decides, PhaseInv
  <2> QED BY <1>1, <1>3, <2>1 DEF PhaseInv, Ended
<1>6. MergeInv'
  <2>1. CASE FindsCancelled \/ NothingUsable
    BY <1>1, <2>1 DEF MergeInv, FindsCancelled, NothingUsable, Decides
  <2>2. CASE MergesOne
    <3>1. PICK s \in OkSlots : call' = [call EXCEPT ![Merger].text = Result(s).text]
      BY <2>2 DEF MergesOne
    <3>2. OkSlots = {s}
      <4>1. PICK x : OkSlots = {x}
        BY <2>2, OkFinite, FS_Singleton DEF MergesOne
      <4> QED BY <3>1, <4>1
    <3>3. Result(s).text = call[s].text /\ s \in Slot
      BY <1>0, <3>2 DEF OkSlots, Result
    <3>4. call'[Merger].text = call'[s].text
      BY <1>0, <1>1, <3>1, <3>3 DEF RoundTypes
    <3> QED BY <1>1, <1>3, <3>2, <3>4 DEF MergeInv, Verdict
  <2>3. CASE MergeEnds
    <3>1. Cardinality(OkSlots) > 1
      BY <1>0, <2>3 DEF MergeInv, MergeEnds, MergeEndsWith
    <3>2. OkSlots # {} /\ Cardinality(OkSlots) # 1
      BY <3>1, OkFinite, FS_EmptySet
    <3> QED BY <1>1, <1>3, <3>2 DEF MergeInv, Verdict
  <2> QED BY <2>1, <2>2, <2>3
<1>7. RowInv' /\ MergeRestsOnReplies' /\ RoundCancelPressed'
  BY <1>0, <1>1 DEF RowInv, MergeRestsOnReplies, RoundCancelPressed, Before, Verdict
<1>8. PressInv'
  BY <1>0, <1>1 DEF PressInv, Before, FindsCancelled, NothingUsable, MergesOne, MergeEnds, MergeEndsWith, Decides
<1> QED BY <1>2, <1>4, <1>5, <1>6, <1>7, <1>8 DEF RInv

\* The one write of the row.
LEMMA FinalizeKeeps ==
  ASSUME RInv, FinalizeRoundtable
  PROVE  RInv'
<1> USE Numbers DEF FinalizeRoundtable
<1>0. RoundTypes /\ BufferInv /\ PhaseInv /\ MergeInv /\ RowInv /\ PressInv
      /\ MergeRestsOnReplies /\ RoundCancelPressed
  BY DEF RInv
<1>1. \A s \in Slot : Ended(s) /\ Result(s) \in [text : Nat, status : ReplyEnd]
  BY <1>0 DEF PhaseInv, Settled, RoundTypes, Result, ReplyEnd
<1>2. verdict \in Verdict /\ verdict # "none"
  BY <1>0 DEF MergeInv, RoundTypes
<1>3. RoundTypes'
  BY <1>0, <1>1, <1>2 DEF RoundTypes, Settled
<1>4. /\ OkSlots' = OkSlots
      /\ \A s \in Slot : Result(s)' = Result(s) /\ (Ended(s)' <=> Ended(s))
  BY <1>0, <1>3, SameResults
<1>5. BufferInv' /\ PhaseInv' /\ MergeInv' /\ PressInv'
  BY <1>0, <1>4 DEF BufferInv, PhaseInv, MergeInv, PressInv, Settled, Before
<1>6. RowInv'
  BY <1>1, <1>2, <1>4 DEF RowInv, Before, Verdict
<1>7. MergeRestsOnReplies'
  <2>1. OkSlots = {s \in Slot : rtrow'.replies[s].status = "complete" /\ rtrow'.replies[s].text # 0}
    BY DEF OkSlots
  <2>2. \A s \in OkSlots : rtrow'.replies[s].text = call[s].text
    BY <1>0 DEF OkSlots, Result
  <2> QED BY <1>0, <2>1, <2>2 DEF MergeRestsOnReplies, MergeInv
<1>8. RoundCancelPressed'
  BY <1>0 DEF RoundCancelPressed, PressInv
<1> QED BY <1>3, <1>5, <1>6, <1>7, <1>8 DEF RInv

LEMMA NextRInv == ASSUME RInv, [RoundNext]_roundVars PROVE RInv'
<1>1. CASE StartReplies \/ StartMerge
  BY <1>1, StartKeeps
<1>2. CASE FindsCancelled \/ NothingUsable \/ MergesOne \/ MergeEnds
  BY <1>2, DecisionKeeps
<1>3. CASE FinalizeRoundtable
  BY <1>3, FinalizeKeeps
<1>4. CASE \E s \in Part : CallStep(s)
  BY <1>4, CallKeeps
<1>5. CASE SendRoundTask \/ PressRoundCancel \/ RoundFlagExpires \/ RoundClearCancel
             \/ AnnounceRound \/ AbortRound \/ UNCHANGED roundVars
  BY <1>5, FrameKeeps
<1> QED BY <1>1, <1>2, <1>3, <1>4, <1>5 DEF RoundNext, RunsOn, CallStep

LEMMA RInvInvariant == RoundSpec => []RInv
BY InitRInv, NextRInv, PTL DEF RoundSpec

-----------------------------------------------------------------------------
(* The stored answer is the streamed one: each agent's reply in a closed    *)
(* row is what its on_update published, or a placeholder.                   *)
LEMMA Replies == ASSUME RInv PROVE RepliesKept
<1> USE Numbers
<1>0. RoundTypes /\ BufferInv /\ RowInv
  BY DEF RInv
<1> SUFFICES ASSUME rtrow.status \in Verdict, NEW s \in Slot
             PROVE  \/ rtrow.replies[s].text = shown[s]
                    \/ rtrow.replies[s].text = Dummy /\ (shown[s] = 0 \/ call[s].pc = "raised")
  BY DEF RepliesKept, Verdict
<1>1. Ended(s) /\ rtrow.replies[s] = Result(s)
  BY <1>0 DEF RowInv
<1>2. CASE call[s].pc = "raised"
  BY <1>1, <1>2 DEF Result
<1>3. CASE call[s].pc = "returned"
  BY <1>0, <1>1, <1>3 DEF Result, BufferInv, RoundTypes
<1> QED BY <1>1, <1>2, <1>3 DEF Ended

(* What a finished round table leaves in its row (finalize_roundtable): the *)
(* streamed answers, a merge that rests on them, a cancellation only when   *)
(* the user pressed cancel during it, for any number of agents.             *)
THEOREM RoundResultHolds == RoundSpec => []RoundResult
<1>1. RInv => RoundResult
  <2> SUFFICES ASSUME RInv PROVE RoundResult
    OBVIOUS
  <2>1. RoundTypeOK
    <3>1. RoundTypes /\ BufferInv /\ RowInv
      BY DEF RInv
    <3>2. rtrow.status \in {"none", "streaming", "complete", "cancelled", "error"}
      BY <3>1 DEF RoundTypes, Verdict
    <3>3. ASSUME NEW s \in Slot PROVE rtrow.replies[s].text \in 0..Dummy
      <4>1. CASE rtrow.status \notin Verdict
        BY <3>1, <4>1, Numbers DEF RowInv, NoReply
      <4>2. CASE rtrow.status \in Verdict
        <5>1. Result(s).text \in 0..Dummy
          BY <3>1, Numbers DEF Result, RoundTypes, BufferInv
        <5> QED BY <3>1, <4>2, <5>1 DEF RowInv
      <4> QED BY <4>1, <4>2
    <3> QED BY <3>1, <3>2, <3>3 DEF RoundTypes, RoundTypeOK
  <2> QED BY <2>1, Replies DEF RInv, RoundResult
<1> QED BY <1>1, RInvInvariant, PTL

\* Every step opens, closes or announces the message, or leaves it alone.
LEMMA RoundStepRefines ==
  ASSUME RInv, [RoundNext]_roundVars
  PROVE  [Promise!Next]_(Promise!vars)
<1>0. RoundTypes /\ RowInv /\ MergeInv
  BY DEF RInv
<1> DEFINE Mapped == [t \in {1} |-> rtrow.status]
<1>1. CASE SendRoundTask
  <2>1. rtrow.status = "none" /\ rtrow'.status = "streaming" /\ UNCHANGED rtlive
    BY <1>0, <1>1 DEF SendRoundTask, RowInv, RoundTypes
  <2>2. Promise!Open(1)
    BY <2>1 DEF Promise!Open
  <2> QED BY <2>2 DEF Promise!Next
<1>2. CASE FinalizeRoundtable
  <2>1. rtrow.status = "streaming" /\ rtrow'.status = verdict /\ verdict \in Verdict /\ UNCHANGED rtlive
    BY <1>0, <1>2 DEF FinalizeRoundtable, RowInv, RoundTypes, MergeInv, Before
  <2>2. Promise!Close(1, verdict)
    BY <2>1 DEF Promise!Close
  <2> QED BY <2>1, <2>2 DEF Promise!Next, Promise!Closed, Verdict
<1>3. CASE AnnounceRound
  <2>1. rtrow.status \in Verdict /\ rtlive' = TRUE /\ UNCHANGED rtrow
    BY <1>0, <1>3 DEF AnnounceRound, RowInv
  <2>2. Promise!Announce(1)
    BY <2>1 DEF Promise!Announce, Promise!Closed, Verdict
  <2> QED BY <2>2 DEF Promise!Next
<1>4. CASE ~(SendRoundTask \/ FinalizeRoundtable \/ AnnounceRound)
  <2>1. UNCHANGED <<rtrow, rtlive>>
    BY <1>4 DEF RoundNext, RunsOn, roundVars, PressRoundCancel, RoundFlagExpires, AbortRound, StartReplies,
           FindsCancelled, NothingUsable, Decides, MergesOne, StartMerge, MergeEnds, MergeEndsWith,
           RoundClearCancel, AnswerEnds, CallReturns, CallTimesOut, CallFails, Ends, StopsQuietly,
           StopRaisesIn, Chunk, ChunkFails
  <2> QED BY <2>1 DEF Promise!vars
<1> QED BY <1>1, <1>2, <1>3, <1>4

(* A round table implements TurnLifecycle like any turn: its message is     *)
(* opened once, closed once, and announced when it is closed, whatever its  *)
(* agents, their stops, the cancel flag and the database do.                *)
THEOREM RoundRefinement == RoundSpec => RoundKeepsPromise
<1>1. RoundInit => Promise!Init
  BY DEF RoundInit, Promise!Init
<1>2. RInv /\ [RoundNext]_roundVars => [Promise!Next]_(Promise!vars)
  BY RoundStepRefines
<1> QED BY <1>1, <1>2, RInvInvariant, PTL DEF RoundSpec, RoundKeepsPromise, Promise!Spec

-----------------------------------------------------------------------------
(* The run of both.                                                         *)

\* A behaviour of the runner is one of its lock and one of its round table.
LEMMA Composed == RunnerSpec => Init /\ [][Next]_vars /\ RoundSpec
<1>1. RunnerInit => Init /\ RoundInit
  BY DEF RunnerInit
<1>2. [RunnerNext]_<<focus, vars, roundVars>> => [Next]_vars /\ [RoundNext]_roundVars
  BY DEF RunnerNext
<1> QED BY <1>1, <1>2, PTL DEF RunnerSpec, RoundSpec

(* The lock's state is well formed and a round table adds up                *)
(* (finalize_roundtable), for any number of runners, agents and failures.   *)
THEOREM RunnerConsistentHolds == RunnerSpec => []RunnerConsistent
<1>1. Init /\ [][Next]_vars => []LInv
  BY InitLInv, NextLInv, PTL
<1>2. LInv /\ RoundResult => RunnerConsistent
  BY DEF LInv, RunnerConsistent
<1> QED BY <1>1, <1>2, Composed, RoundResultHolds, PTL
=============================================================================
