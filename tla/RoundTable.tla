----------------------------- MODULE RoundTable -----------------------------
(***************************************************************************)
(* A round table: every agent answers the prompt in a subprocess of its    *)
(* own, then one agent merges the answers that are complete.  The cancel   *)
(* flag is looked at once, between the two phases; the row is written once *)
(* at the end.                                                             *)
(***************************************************************************)
EXTENDS Naturals, FiniteSets

CONSTANTS
  Slots,       \* number of agents
  MaxChunks,   \* bound: text chunks of one answer
  MaxRtFaults  \* bound: failing publishes, Redis and database calls

ASSUME RoundTableConstants == Slots \in Nat \ {0} /\ MaxChunks \in Nat /\ MaxRtFaults \in Nat

Slot    == 1..Slots
Merger  == 0
Dummy   == MaxChunks + 1   \* a placeholder stored for an answer that has no text
ReplyEnd == {"complete", "timeout", "error"}

VARIABLES
  rtpc,    \* "send", "queued", "replying", "merging", "write", "clear", "announce", "over",
           \* "aborted"
  call,    \* [Slot and Merger -> pc ("idle", "asking", "stopping", "returned", "raised"),
           \* text in the buffer, status, deaf: its read loop ended with an exception]
  shown,   \* [Slot and Merger -> chunks streamed]
  verdict, \* status the row is about to get
  rtrow,   \* the row: status, replies, merged
  rtlive,  \* the done event was published
  absent,  \* slots for which the runner knows neither the agent nor hermes
  rtflag,  \* cancel flag of the conversation
  rthist   \* history: pressed while the turn was streaming; faults so far

roundVars == <<rtpc, call, shown, verdict, rtrow, rtlive, absent, rtflag, rthist>>

Part == Slot \cup {Merger}
NoReply == [text |-> 0, status |-> "streaming"]

RoundInit ==
  /\ rtpc = "send"
  /\ call = [s \in Part |-> [pc |-> "idle", text |-> 0, status |-> "complete", deaf |-> FALSE]]
  /\ shown = [s \in Part |-> 0]
  /\ verdict = "none"
  /\ rtrow = [status |-> "none", replies |-> [s \in Slot |-> NoReply], merged |-> 0]
  /\ rtlive = FALSE
  /\ absent \in SUBSET Slot
  /\ rtflag \in BOOLEAN          \* left by an earlier turn of the conversation
  /\ rthist = [pressed |-> FALSE, faults |-> 0]

Fault == rthist.faults < MaxRtFaults /\ rthist' = [rthist EXCEPT !.faults = @ + 1]

-----------------------------------------------------------------------------
(* The row is committed, the flag is cleared, the task is queued.           *)

SendRoundTask ==
  /\ rtpc = "send"
  /\ rtpc' = "queued"
  /\ rtrow' = [rtrow EXCEPT !.status = "streaming"]
  /\ rtflag' = FALSE
  /\ UNCHANGED <<call, shown, verdict, rtlive, absent, rthist>>

PressRoundCancel ==
  /\ rtpc # "send" /\ ~rthist.pressed
  /\ rtflag' = TRUE
  /\ rthist' = [rthist EXCEPT !.pressed = rtrow.status = "streaming"]
  /\ UNCHANGED <<rtpc, call, shown, verdict, rtrow, rtlive, absent>>

RoundFlagExpires ==
  /\ rtflag /\ rtflag' = FALSE
  /\ UNCHANGED <<rtpc, call, shown, verdict, rtrow, rtlive, absent, rthist>>

-----------------------------------------------------------------------------
(* run_one, and the merge call, which differ in what they catch.            *)

Starts(parts) ==
  call' = [s \in Part |-> IF s \in parts
                           THEN [call[s] EXCEPT !.pc = IF s \in absent THEN "raised" ELSE "asking"]
                           ELSE call[s]]
Ends(s, status, text) ==
  /\ call[s].pc = "asking"
  /\ call' = [call EXCEPT ![s].pc = "stopping", ![s].status = status, ![s].text = text]
  /\ UNCHANGED <<rtpc, shown, verdict, rtrow, rtlive, absent, rtflag, rthist>>

StartReplies ==
  /\ rtpc = "queued" /\ rtpc' = "replying"
  /\ Starts(Slot)
  /\ UNCHANGED <<shown, verdict, rtrow, rtlive, absent, rtflag, rthist>>

(* on_update: the buffer grows, then the chunk is published. *)
Chunk(s) ==
  /\ call[s].pc = "asking" /\ ~call[s].deaf /\ call[s].text < MaxChunks
  /\ call' = [call EXCEPT ![s].text = @ + 1]
  /\ shown' = [shown EXCEPT ![s] = @ + 1]
  /\ UNCHANGED <<rtpc, verdict, rtrow, rtlive, absent, rtflag, rthist>>

(* A failing publish ends the read loop, which fails the request. *)
ChunkFails(s) ==
  /\ call[s].pc = "asking" /\ call[s].text < MaxChunks
  /\ Fault
  /\ call' = [call EXCEPT ![s].text = @ + 1, ![s].deaf = TRUE]
  /\ UNCHANGED <<rtpc, shown, verdict, rtrow, rtlive, absent, rtflag>>

OrDummy(s) == IF s # Merger /\ call[s].text = 0 THEN Dummy ELSE call[s].text

CallReturns(s)  == ~call[s].deaf /\ Ends(s, "complete", call[s].text)
TimesOutBlank(s) == ~call[s].deaf /\ Ends(s, "timeout", IF s = Merger THEN call[s].text ELSE Dummy)
CallTimesOut(s) == ~call[s].deaf /\ Ends(s, "timeout", OrDummy(s))
CallFails(s)    == Ends(s, "error", OrDummy(s))

(* The finally clause: stop() raises what ended the read loop; so does a    *)
(* failing rt_reply_done.                                                   *)
StopsQuietly(s) ==
  /\ call[s].pc = "stopping" /\ ~call[s].deaf
  /\ call' = [call EXCEPT ![s].pc = "returned"]
  /\ UNCHANGED <<rtpc, shown, verdict, rtrow, rtlive, absent, rtflag, rthist>>

StopRaisesIn(s) ==
  /\ call[s].pc = "stopping"
  /\ \/ call[s].deaf /\ UNCHANGED rthist
     \/ ~call[s].deaf /\ s # Merger /\ Fault
  /\ call' = [call EXCEPT ![s].pc = "raised"]
  /\ UNCHANGED <<rtpc, shown, verdict, rtrow, rtlive, absent, rtflag>>

-----------------------------------------------------------------------------
(* gather(return_exceptions) and what follows.                              *)

Ended(s)   == call[s].pc \in {"returned", "raised"}
Result(s)  == IF call[s].pc = "raised" THEN [text |-> Dummy, status |-> "error"]
              ELSE [text |-> call[s].text, status |-> call[s].status]
OkSlots     == {s \in Slot : Result(s).status = "complete" /\ Result(s).text # 0}

Decides(v) ==
  /\ rtpc = "replying" /\ \A s \in Slot : Ended(s)
  /\ verdict' = v /\ rtpc' = "write"
  /\ UNCHANGED <<call, shown, rtrow, rtlive, absent, rtflag, rthist>>

FindsCancelled == rtflag /\ Decides("cancelled")
NothingUsable  == ~rtflag /\ OkSlots = {} /\ Decides("error")

(* A single answer is the merge; otherwise hermes or the first agent merges. *)
MergesOne ==
  /\ rtpc = "replying" /\ \A s \in Slot : Ended(s)
  /\ ~rtflag /\ Cardinality(OkSlots) = 1
  /\ \E s \in OkSlots : /\ call' = [call EXCEPT ![Merger].text = Result(s).text]
                        /\ shown' = [shown EXCEPT ![Merger] = Result(s).text]
  /\ verdict' = "complete" /\ rtpc' = "write"
  /\ UNCHANGED <<rtrow, rtlive, absent, rtflag, rthist>>

StartMerge ==
  /\ rtpc = "replying" /\ \A s \in Slot : Ended(s)
  /\ ~rtflag /\ Cardinality(OkSlots) > 1
  /\ 1 \notin absent
  /\ Starts({Merger})
  /\ rtpc' = "merging"
  /\ UNCHANGED <<shown, verdict, rtrow, rtlive, absent, rtflag, rthist>>

(* A merge that fails or times out is stored as far as it got. *)
MergeEndsWith(v) ==
  /\ rtpc = "merging" /\ call[Merger].pc = "returned"
  /\ verdict' = v /\ rtpc' = "write"
  /\ UNCHANGED <<call, shown, rtrow, rtlive, absent, rtflag, rthist>>

MergeMustComplete == call[Merger].status = "complete" /\ MergeEndsWith("complete")
MergeEnds         == MergeEndsWith("complete")

FinalizeForgotten ==
  /\ rtpc = "write" /\ rtpc' = "clear"
  /\ UNCHANGED <<call, shown, verdict, rtrow, rtlive, absent, rtflag, rthist>>

FinalizeRoundtable ==
  /\ rtpc = "write" /\ rtpc' = "clear"
  /\ rtrow' = [status |-> verdict, replies |-> [s \in Slot |-> Result(s)],
               merged |-> IF verdict = "complete" THEN call[Merger].text ELSE 0]
  /\ UNCHANGED <<call, shown, verdict, rtlive, absent, rtflag, rthist>>

RoundClearCancel ==
  /\ rtpc = "clear" /\ rtpc' = "announce"
  /\ rtflag' = FALSE
  /\ UNCHANGED <<call, shown, verdict, rtrow, rtlive, absent, rthist>>

(* With an error an error event comes first. *)
AnnounceRound ==
  /\ rtpc = "announce" /\ rtpc' = "over"
  /\ rtlive' = TRUE
  /\ UNCHANGED <<call, shown, verdict, rtrow, absent, rtflag, rthist>>

(* What the runner only logs: the merge's stop() raises, no agent is left   *)
(* for it, or a call to Redis or to the database fails.                     *)
AbortRound ==
  /\ \/ rtpc = "merging" /\ call[Merger].pc = "raised" /\ UNCHANGED rthist
     \/ rtpc = "replying" /\ (\A s \in Slot : Ended(s)) /\ Cardinality(OkSlots) > 1 /\ ~rtflag
        /\ 1 \in absent /\ UNCHANGED rthist
     \/ rtpc \in {"queued", "write", "clear", "announce"} /\ Fault
     \/ rtpc = "replying" /\ (\A s \in Slot : Ended(s)) /\ Fault
  /\ rtpc' = "aborted"
  /\ UNCHANGED <<call, shown, verdict, rtrow, rtlive, absent, rtflag>>

-----------------------------------------------------------------------------
AnswerEnds(s) == CallReturns(s) \/ CallTimesOut(s) \/ CallFails(s)
RunsOn ==
  \/ StartReplies \/ FindsCancelled \/ NothingUsable \/ MergesOne \/ StartMerge \/ MergeEnds
  \/ FinalizeRoundtable \/ RoundClearCancel \/ AnnounceRound
  \/ \E s \in Part : AnswerEnds(s) \/ StopsQuietly(s) \/ StopRaisesIn(s)

RoundNext ==
  \/ SendRoundTask \/ PressRoundCancel \/ RoundFlagExpires \/ RunsOn \/ AbortRound
  \/ \E s \in Part : Chunk(s) \/ ChunkFails(s)

(* Every prompt has a timeout, and the task runs until it returns or raises. *)
RoundFairness == WF_roundVars(RunsOn)
RoundSpec     == RoundInit /\ [][RoundNext]_roundVars

-----------------------------------------------------------------------------
RoundTypeOK ==
  /\ rtrow.status \in {"none", "streaming", "complete", "cancelled", "error"}
  /\ \A s \in Slot : /\ rtrow.replies[s].text \in 0..Dummy
                     /\ rtrow.replies[s].status \in ReplyEnd \cup {"streaming"}

(* The stored answer is the text that was streamed; a placeholder stands    *)
(* only where nothing was streamed or where the call's end raised.          *)
RepliesKept ==
  rtrow.status \in {"complete", "cancelled", "error"} =>
    \A s \in Slot :
      \/ rtrow.replies[s].text = shown[s]
      \/ rtrow.replies[s].text = Dummy /\ (shown[s] = 0 \/ call[s].pc = "raised")

(* A merge rests on complete answers, a single one is passed on as it is.   *)
MergeRestsOnReplies ==
  rtrow.status = "complete" =>
    LET ok == {s \in Slot : rtrow.replies[s].status = "complete" /\ rtrow.replies[s].text # 0} IN
      ok # {} /\ (Cardinality(ok) = 1 => \A s \in ok : rtrow.merged = rtrow.replies[s].text)

(* A round table ends as cancelled only if the user pressed cancel during   *)
(* it, not because of a flag that an earlier turn left.                     *)
RoundCancelPressed == rtrow.status = "cancelled" => rthist.pressed

(* A queued round table leaves the streaming state whatever the answers and *)
(* the merge do: only a failing Redis, database or publish, or a merge for  *)
(* which no agent is left, may leave it open.                               *)
RoundSettles ==
  rtpc = "queued" ~> (rtrow.status # "streaming" \/ rthist.faults > 0 \/ 1 \in absent)

(* Together with the other turns' rows: see TurnLifecycle.                  *)
Promise == INSTANCE TurnLifecycle WITH
  Turn      <- {1},
  status    <- [t \in {1} |-> rtrow.status],
  announced <- IF rtlive THEN {1} ELSE {},
  doubt     <- {}
RoundKeepsPromise == Promise!Spec

(* What a finished round table leaves: the streamed answers, a merge that    *)
(* rests on them, and a cancellation only when it was asked for.            *)
RoundResult == RoundTypeOK /\ RepliesKept /\ MergeRestsOnReplies /\ RoundCancelPressed
=============================================================================
