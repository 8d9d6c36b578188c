------------------------ MODULE MemoryConsolidation ------------------------
(***************************************************************************)
(* A user's long-term memory: the user edits its fields, and a background  *)
(* job ("dream") reads the conversations since the last one, has an agent  *)
(* rewrite the fields and saves them.  A Redis key is both the status that *)
(* is shown and the lock of the run.                                       *)
(***************************************************************************)
EXTENDS Naturals, FiniteSets

CONSTANTS
  Fields,      \* number of fields
  Budget,      \* total length the fields may have
  MaxEdits,    \* bound: edits by the user
  MaxDreams,   \* bound: triggers
  MaxSaid,     \* bound: messages
  Talks,       \* number of the user's conversations
  MaxTalks,    \* memory_consolidate_max_conversations
  MaxLines     \* memory_consolidate_input_chars, in messages

ASSUME MemoryConstants ==
  /\ Fields \in Nat \ {0} /\ Budget \in Nat /\ MaxEdits \in Nat /\ MaxDreams \in Nat
  /\ MaxSaid \in Nat /\ {Talks, MaxTalks, MaxLines} \subseteq Nat \ {0}

Field  == 1..Fields
Edit   == 1..MaxEdits
Dream  == 1..MaxDreams
Said   == 1..MaxSaid
Talk   == 1..Talks
Length == 0..Budget
Output == 0..(Budget + 1)   \* lengths the agent may answer with

VARIABLES
  memory,  \* the row: there, ts (last_consolidated_at), len, by: [Field -> last edit it knows of]
  editor,  \* [Edit -> pc "fresh", "check", "insert", "done", and the payload]
  dream,   \* [Dream -> pc of the trigger and of its job, and what the job has loaded]
  dreamLock,    \* status key: "none", "running", "done", "error"; cooldown
  said,    \* [Said -> pc "none", "open", "in"; talk: its conversation; and while open,
           \* at: now() of its transaction, moves: whether it writes the conversation]
  updated, \* [Talk -> updated_at]
  now,     \* clock of stamps
  mhist    \* history: typed [Field -> last edit], trampled (fields edited during a dream),
           \* overlapped (a write during an edit's check), remembered (messages read by a
           \* saved dream), late (of a conversation stamped behind a dream's reading), cut
           \* (left out of a prompt), unstamped (since their conversation was last
           \* stamped), read (stamp of the last dream that has read),
           \* outlived (the key expired or was set while a job was under way)

memoryVars == <<memory, editor, dream, dreamLock, said, updated, now, mhist>>

Total(len) == LET sum[k \in 0..Fields] == IF k = 0 THEN 0 ELSE sum[k - 1] + len[k] IN sum[Fields]

Least(a, b) == IF a <= b THEN a ELSE b

(* trim_memory_to_budget: proportional, the rounding goes to the last field. *)
Trim(len) ==
  LET total == Total(len)
      part  == [k \in Field |-> (len[k] * Budget) \div total]
      used  == Total([part EXCEPT ![Fields] = 0]) IN
  IF total <= Budget THEN len ELSE [part EXCEPT ![Fields] = Least(len[Fields], Budget - used)]

Running(j)  == dream[j].pc \in {"loaded", "save", "insert"}
JobAlive(j) == dream[j].pc \in {"queued", "loaded", "save", "insert", "report"}
Checking(e) == editor[e].pc \in {"check", "insert"}

MemoryInit ==
  /\ memory = [there |-> FALSE, ts |-> 0, len |-> [f \in Field |-> 0], by |-> [f \in Field |-> 0]]
  /\ editor = [e \in Edit |-> [pc |-> "fresh"]]
  /\ dream = [j \in Dream |-> [pc |-> "fresh"]]
  /\ dreamLock \in [key : {"none", "done"}, cooldown : {FALSE}]
  /\ said = [s \in Said |-> [pc |-> "none"]]
  /\ updated = [c \in Talk |-> 0]
  /\ now = 0
  /\ mhist = [typed |-> [f \in Field |-> 0], trampled |-> {}, overlapped |-> FALSE,
              remembered |-> {}, late |-> {}, cut |-> {}, unstamped |-> {}, read |-> 0,
              outlived |-> FALSE]

-----------------------------------------------------------------------------
(* PUT /memory: the merged lengths are checked against the row as read,     *)
(* then the given fields are written.                                       *)

BeginEdit(e) ==
  /\ editor[e].pc = "fresh" /\ \A d \in 1..(e - 1) : editor[d].pc # "fresh"
  /\ \E given \in SUBSET Field \ {{}} : \E len \in [given -> Length] :
       editor' = [editor EXCEPT ![e] =
         IF Total([f \in Field |-> IF f \in given THEN len[f] ELSE memory.len[f]]) > Budget
         THEN [pc |-> "done"] ELSE [pc |-> "check", given |-> given, len |-> len]]
  /\ UNCHANGED <<memory, dream, dreamLock, said, updated, now, mhist>>

Edited(e) ==
  LET given == editor[e].given
      Over(old, new) == [f \in Field |-> IF f \in given THEN new[f] ELSE old[f]] IN
  /\ memory' = [memory EXCEPT !.there = TRUE, !.len = Over(@, editor[e].len),
                              !.by = Over(@, [f \in Field |-> e])]
  /\ mhist' = [mhist EXCEPT
       !.typed = Over(@, [f \in Field |-> e]),
       !.trampled = IF \E j \in Dream : Running(j) THEN @ \cup given ELSE @,
       !.overlapped = @ \/ \E d \in Edit \ {e} : Checking(d)]
  /\ editor' = [editor EXCEPT ![e] = [pc |-> "done"]]
  /\ UNCHANGED <<dream, dreamLock, said, updated, now>>

UpsertEdit(e) == editor[e].pc = "check" /\ memory.there /\ Edited(e)
EditFindsNone(e) ==
  /\ editor[e].pc = "check" /\ ~memory.there
  /\ editor' = [editor EXCEPT ![e].pc = "insert"]
  /\ UNCHANGED <<memory, dream, dreamLock, said, updated, now, mhist>>
InsertEdit(e) == editor[e].pc = "insert" /\ ~memory.there /\ Edited(e)

(* user_id is unique. *)
EditConflicts(e) ==
  /\ editor[e].pc = "insert" /\ memory.there
  /\ editor' = [editor EXCEPT ![e] = [pc |-> "done"]]
  /\ UNCHANGED <<memory, dream, dreamLock, said, updated, now, mhist>>

-----------------------------------------------------------------------------
(* A message.  The user's first one titles the conversation, and an answer is *)
(* finalized: these write the conversation, whose updated_at is taken before *)
(* the commit.  Another message of the user leaves it alone.                 *)

Begun(c) == \E r \in Said : said[r].pc # "none" /\ said[r].talk = c

OpenSaid(s) ==
  /\ said[s].pc = "none" /\ \A r \in 1..(s - 1) : said[r].pc # "none"
  /\ now' = now + 1
  /\ \E c \in Talk, moves \in BOOLEAN :
       /\ \A d \in 1..(c - 1) : Begun(d)
       /\ moves \/ Begun(c)
       /\ said' = [said EXCEPT ![s] = [pc |-> "open", talk |-> c, at |-> now + 1,
                                       moves |-> moves]]
  /\ UNCHANGED <<memory, editor, dream, dreamLock, updated, mhist>>

Thread(s) == {r \in Said : said[r].pc = "in" /\ said[r].talk = said[s].talk} \cup {s}

CommitSaid(s) ==
  /\ said[s].pc = "open"
  /\ said' = [said EXCEPT ![s] = [pc |-> "in", talk |-> @.talk]]
  /\ updated' = IF said[s].moves THEN [updated EXCEPT ![said[s].talk] = said[s].at] ELSE updated
  /\ mhist' = IF ~said[s].moves THEN [mhist EXCEPT !.unstamped = @ \cup {s}]
              ELSE IF mhist.read >= said[s].at THEN [mhist EXCEPT !.late = @ \cup Thread(s)]
              ELSE [mhist EXCEPT !.unstamped = @ \ Thread(s)]
  /\ UNCHANGED <<memory, editor, dream, dreamLock, now>>

-----------------------------------------------------------------------------
(* POST /consolidate.  A super admin does not cool down.                    *)

Moves(j, pc) == dream' = [dream EXCEPT ![j] = [pc |-> pc]]

CheckCooldown(j) ==
  /\ dream[j].pc = "fresh" /\ \A i \in 1..(j - 1) : dream[i].pc # "fresh"
  /\ \/ Moves(j, "trigger")
     \/ dreamLock.cooldown /\ Moves(j, "over")
  /\ UNCHANGED <<memory, editor, dreamLock, said, updated, now, mhist>>

TakesLock(j, free) ==
  /\ dream[j].pc = "trigger" /\ free
  /\ dreamLock' = [dreamLock EXCEPT !.key = "running"]
  /\ Moves(j, "enqueue")
  /\ UNCHANGED <<memory, editor, said, updated, now, mhist>>

SetAlways(j) == TakesLock(j, TRUE)
SetIfNone(j) == TakesLock(j, dreamLock.key = "none")

ReadStatus(j) ==
  /\ dream[j].pc = "trigger" /\ dreamLock.key # "none"
  /\ Moves(j, "stale")
  /\ UNCHANGED <<memory, editor, dreamLock, said, updated, now, mhist>>

(* A second call to Redis: the key may have changed since. *)
SeesRunning(j) ==
  /\ dream[j].pc = "stale" /\ dreamLock.key = "running"
  /\ Moves(j, "over")
  /\ UNCHANGED <<memory, editor, dreamLock, said, updated, now, mhist>>

SeesStale(j) ==
  /\ dream[j].pc = "stale" /\ dreamLock.key # "running"
  /\ Moves(j, "overwrite")
  /\ UNCHANGED <<memory, editor, dreamLock, said, updated, now, mhist>>

OverwriteStale(j) ==
  /\ dream[j].pc = "overwrite"
  /\ mhist' = [mhist EXCEPT !.outlived = @ \/ dreamLock.key = "running"]
  /\ dreamLock' = [dreamLock EXCEPT !.key = "running"]
  /\ Moves(j, "enqueue")
  /\ UNCHANGED <<memory, editor, said, updated, now>>

EnqueueDream(j) ==
  /\ dream[j].pc = "enqueue"
  /\ Moves(j, "queued")
  /\ dreamLock' = [dreamLock EXCEPT !.cooldown = TRUE]
  /\ UNCHANGED <<memory, editor, said, updated, now, mhist>>

(* Redis refuses the entry, or the runner loses it. *)
DreamLost(j) ==
  /\ dream[j].pc \in {"enqueue", "queued"}
  /\ Moves(j, "over")
  /\ UNCHANGED <<memory, editor, dreamLock, said, updated, now, mhist>>

LockExpires ==
  /\ dreamLock.key # "none"
  /\ dreamLock' = [dreamLock EXCEPT !.key = "none"]
  /\ mhist' = [mhist EXCEPT !.outlived =
       @ \/ (dreamLock.key = "running" /\ \E j \in Dream : JobAlive(j) \/ dream[j].pc = "enqueue")]
  /\ UNCHANGED <<memory, editor, dream, said, updated, now>>

CooldownExpires ==
  /\ dreamLock.cooldown /\ dreamLock' = [dreamLock EXCEPT !.cooldown = FALSE]
  /\ UNCHANGED <<memory, editor, dream, said, updated, now, mhist>>

-----------------------------------------------------------------------------
(* The job.  It reads the conversations written since the last dream, the    *)
(* newest first and whole, until the prompt is full.                         *)

Fresh(c) == memory.ts = 0 \/ updated[c] > memory.ts
Newer(c) == {d \in Talk : Fresh(d) /\ updated[d] > updated[c]}
Lines    == {s \in Said : said[s].pc = "in" /\ Fresh(said[s].talk)}
Chosen   == {s \in Lines : Cardinality(Newer(said[s].talk)) < MaxTalks}
Before(s) == {r \in Chosen : \/ said[r].talk \in Newer(said[s].talk)
                             \/ said[r].talk = said[s].talk /\ r < s}
Excerpt  == {s \in Chosen : Cardinality(Before(s)) < MaxLines}

LoadDream(j) ==
  /\ dream[j].pc = "queued"
  /\ now' = now + 1
  /\ dream' = [dream EXCEPT ![j] =
       IF Excerpt = {} THEN [pc |-> "report", status |-> "done"]
       ELSE [pc |-> "loaded", ts |-> now + 1, seen |-> Excerpt, old |-> memory]]
  /\ mhist' = [mhist EXCEPT !.read = now + 1, !.cut = @ \cup (Lines \ Excerpt)]
  /\ UNCHANGED <<memory, editor, dreamLock, said, updated>>

(* No agent, a timeout, output that does not parse. *)
DreamFails(j) ==
  /\ dream[j].pc \in {"loaded", "insert"}
  /\ dream[j].pc = "insert" => memory.there
  /\ dream' = [dream EXCEPT ![j] = [pc |-> "report", status |-> "error"]]
  /\ UNCHANGED <<memory, editor, dreamLock, said, updated, now, mhist>>

(* What the agent left empty keeps its old text. *)
OrOld(old, out) ==
  [len |-> Trim([f \in Field |-> IF out[f] = 0 THEN old.len[f] ELSE out[f]]), by |-> old.by]

AgentRewrites(j) ==
  /\ dream[j].pc = "loaded"
  /\ \E out \in [Field -> Output] :
       /\ Total(out) > 0
       /\ dream' = [dream EXCEPT ![j] = [pc |-> "save", ts |-> @.ts, seen |-> @.seen,
                                         new |-> OrOld(@.old, out)]]
  /\ UNCHANGED <<memory, editor, dreamLock, said, updated, now, mhist>>

StampAtEnd(j) == now
Stamp(j)      == dream[j].ts

Saves(j) ==
  /\ memory' = [there |-> TRUE, ts |-> Stamp(j), len |-> dream[j].new.len, by |-> dream[j].new.by]
  /\ mhist' = [mhist EXCEPT !.remembered = @ \cup dream[j].seen,
                            !.overlapped = @ \/ \E e \in Edit : Checking(e)]
  /\ dream' = [dream EXCEPT ![j] = [pc |-> "report", status |-> "done"]]
  /\ UNCHANGED <<editor, dreamLock, said, updated, now>>

UpsertDream(j) == dream[j].pc = "save" /\ memory.there /\ Saves(j)
DreamFindsNone(j) ==
  /\ dream[j].pc = "save" /\ ~memory.there
  /\ dream' = [dream EXCEPT ![j].pc = "insert"]
  /\ UNCHANGED <<memory, editor, dreamLock, said, updated, now, mhist>>
InsertDream(j) == dream[j].pc = "insert" /\ ~memory.there /\ Saves(j)

SetStatus(j) ==
  /\ dream[j].pc = "report"
  /\ dreamLock' = [dreamLock EXCEPT !.key = dream[j].status]
  /\ Moves(j, "over")
  /\ UNCHANGED <<memory, editor, said, updated, now, mhist>>

MemoryNext ==
  \/ \E e \in Edit :
       BeginEdit(e) \/ UpsertEdit(e) \/ EditFindsNone(e) \/ InsertEdit(e) \/ EditConflicts(e)
  \/ \E s \in Said : OpenSaid(s) \/ CommitSaid(s)
  \/ \E j \in Dream :
       \/ CheckCooldown(j) \/ SetIfNone(j) \/ ReadStatus(j) \/ SeesRunning(j) \/ SeesStale(j)
       \/ OverwriteStale(j) \/ EnqueueDream(j) \/ DreamLost(j) \/ LoadDream(j) \/ DreamFails(j)
       \/ AgentRewrites(j) \/ UpsertDream(j) \/ DreamFindsNone(j) \/ InsertDream(j) \/ SetStatus(j)
  \/ LockExpires \/ CooldownExpires

MemorySpec == MemoryInit /\ [][MemoryNext]_memoryVars

-----------------------------------------------------------------------------
(* The memory stays within its budget, unless another write came between an *)
(* edit's check and its commit: neither the agent's rewriting nor the       *)
(* trimming's rounding exceeds it.                                          *)
FitsBudget == Total(memory.len) <= Budget \/ mhist.overlapped

(* What the user typed last stays known to the memory, unless a dream had   *)
(* loaded the field before and saved it after.                              *)
EditKept == \A f \in Field : memory.by[f] = mhist.typed[f] \/ f \in mhist.trampled

(* No message falls between two dreams: those of a conversation that the    *)
(* next dream will not look at were read by a dream that was saved, unless   *)
(* there was no room in a prompt, the conversation has not been written     *)
(* since, or its stamp was committed behind a dream that had read already.  *)
NothingForgotten ==
  \A s \in Said :
    (said[s].pc = "in" /\ updated[said[s].talk] <= memory.ts)
      => s \in mhist.remembered \cup mhist.cut \cup mhist.unstamped \cup mhist.late

(* One dream at a time, unless the key expired under a job or two triggers  *)
(* overwrote the same stale status.                                         *)
DreamsAlone == Cardinality({j \in Dream : JobAlive(j)}) <= 1 \/ mhist.outlived

(* Edits and messages reach the memory, which stays within its budget.      *)
MemoryKept == EditKept /\ NothingForgotten /\ FitsBudget
=============================================================================
