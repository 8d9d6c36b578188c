---------------------------- MODULE AgentSessions ----------------------------
(***************************************************************************)
(* The agent subprocesses of the runner and the ACP sessions they speak    *)
(* for: SessionPool hands out one client per conversation, respawns it     *)
(* when it has died or the profile has changed, resumes the session the    *)
(* database remembers, evicts idle clients; a control request forks a      *)
(* session into a new conversation.  The runner starts a task for every    *)
(* prompt it reads, so that turns of one conversation may overlap.         *)
(***************************************************************************)
EXTENDS Naturals, Sequences

CONSTANTS
  Conv,
  Profile,
  MaxClients,  \* bound: subprocesses started
  MaxConcurrent, \* MAX_CONCURRENT of the runner
  MaxTurns,    \* bound: prompts handled
  MaxFaults,   \* bound: subprocesses that die; prompts, starts and resumes that fail
  MaxForks,    \* bound: fork requests
  CanResume    \* the agent offers session/resume

ASSUME BoundsType == {MaxClients, MaxConcurrent, MaxTurns, MaxFaults, MaxForks} \subseteq Nat
ASSUME FlagType   == CanResume \in BOOLEAN
ASSUME ProfilesExist == Profile # {} /\ Conv # {}   \* every agent has a profile

Client  == 1..MaxClients
Task    == 1..MaxConcurrent              \* the permits of the semaphore
None    == 0                                \* no client, no session
Session == 1..(MaxClients + MaxForks)

VARIABLES
  exists,     \* conversations with a row
  stored,     \* [Conv -> Session or None]  Conversation.acp_session_id
  pool,       \* [Conv -> Client or None]  _clients
  lastUsed,   \* [Conv -> ...]  _last_used: absent, recent or older than IDLE_TIMEOUT
  proc,       \* [Client -> ...]  the subprocess
  profile,    \* [Client -> Profile]  HERMES_HOME, fixed when spawned
  sid,        \* [Client -> Session or None]  _session_id
  home,       \* Seq(Profile)  the store each session lives in
  task,       \* [Task -> ...]  handle_single
  stale,      \* the rest of evict_idle's list
  evicting,   \* evict_idle: "no", "yes" while it waits for a client to stop, or
              \* "never" again, when a stop has raised and the heartbeat is gone
  fork,       \* the fork request in hand
  prompted,   \* history: the sessions each conversation was prompted in
  latest,     \* history: the session each conversation was last prompted in
  branched,   \* history: the sessions that forks have made
  unresumed,  \* history: the sessions whose resume has failed
  overlapped, \* history: conversations that had two turns at once
  overwritten,\* history: [Conv -> SUBSET Client]  the clients that lost their place
              \* in the pool to the client of another get
  turns, faults, forks

Idle == [pc |-> "idle", conv |-> CHOOSE c \in Conv : TRUE,
         profile |-> CHOOSE p \in Profile : TRUE, read |-> None, client |-> None,
         polled |-> None]
NoFork == [pc |-> "none", from |-> CHOOSE c \in Conv : TRUE,
           to |-> CHOOSE c \in Conv : TRUE, client |-> None]

rowVars   == <<exists, stored>>
poolVars  == <<pool, lastUsed>>
procVars  == <<proc, profile, sid, home>>
evictVars == <<stale, evicting>>
histVars  == <<prompted, latest, branched, unresumed, overlapped, overwritten>>
vars == <<rowVars, poolVars, procVars, task, evictVars, fork, histVars, turns,
          faults, forks>>

TypeOK ==
  /\ exists \subseteq Conv
  /\ stored \in [Conv -> Session \cup {None}]
  /\ pool \in [Conv -> Client \cup {None}]
  /\ lastUsed \in [Conv -> {"absent", "recent", "idle"}]
  \* "deaf": the subprocess runs, but an exception has ended the read loop
  /\ proc \in [Client -> {"none", "up", "deaf", "dead", "stopped"}]
  /\ profile \in [Client -> Profile]
  /\ sid \in [Client -> Session \cup {None}]
  /\ \A c \in Conv : pool[c] # None => sid[pool[c]] # None  \* only ready clients
  /\ home \in Seq(Profile) /\ Len(home) <= MaxClients + MaxForks
  /\ task \in [Task -> [pc : {"idle", "get", "spawn", "session", "save", "prompt"},
                        conv : Conv, profile : Profile, read : Session \cup {None},
                        client : Client \cup {None}, polled : Session \cup {None}]]
  /\ stale \subseteq Conv /\ evicting \in {"no", "yes", "never"}
  /\ fork.pc \in {"none", "asked", "forking"}
  /\ prompted \in [Conv -> SUBSET Session] /\ latest \in [Conv -> Session \cup {None}]
  /\ branched \subseteq Session /\ unresumed \subseteq Session
  /\ overlapped \subseteq Conv /\ overwritten \in [Conv -> SUBSET Client]
  /\ turns \in 0..MaxTurns /\ faults \in 0..MaxFaults /\ forks \in 0..MaxForks

Init ==
  /\ exists \in SUBSET Conv \ {{}}
  /\ stored = [c \in Conv |-> None]
  /\ pool = [c \in Conv |-> None] /\ lastUsed = [c \in Conv |-> "absent"]
  /\ proc = [k \in Client |-> "none"]
  /\ profile = [k \in Client |-> Idle.profile]
  /\ sid = [k \in Client |-> None] /\ home = <<>>
  /\ task = [t \in Task |-> Idle]
  /\ stale = {} /\ evicting = "no"
  /\ fork = NoFork
  /\ prompted = [c \in Conv |-> {}] /\ latest = [c \in Conv |-> None]
  /\ branched = {} /\ unresumed = {} /\ overlapped = {}
  /\ overwritten = [c \in Conv |-> {}]
  /\ turns = 0 /\ faults = 0 /\ forks = 0

Of(t)     == task[t].conv
Busy(t) == task[t].pc # "idle"

\* stop() changes nothing for a client that has died already.  It awaits the read
\* loop first: for a deaf client that raises, and the subprocess is not terminated.
Stopped(K) == [k \in Client |-> IF k \in K /\ proc[k] = "up" THEN "stopped" ELSE proc[k]]

StopRaises(k) == k \in Client /\ proc[k] = "deaf"

\* drop(c): the entries are popped before stop is awaited.
Drop(c) ==
  /\ pool' = [pool EXCEPT ![c] = None]
  /\ lastUsed' = [lastUsed EXCEPT ![c] = "absent"]
  /\ proc' = Stopped({pool[c]})

-----------------------------------------------------------------------------
(* handle_single and SessionPool.get. *)

\* The session the database remembers is read before the pool is asked.
Begin(t, c) ==
  /\ c \in exists
  /\ ~Busy(t) /\ \A u \in 1..(t - 1) : Busy(u)
  /\ turns < MaxTurns /\ turns' = turns + 1
  /\ \E p \in Profile :
       task' = [task EXCEPT ![t] = [pc |-> "get", conv |-> c, profile |-> p,
                                    read |-> stored[c], client |-> None, polled |-> None]]
  /\ overlapped' = IF \E u \in Task : Busy(u) /\ Of(u) = c THEN overlapped \cup {c}
                                                           ELSE overlapped
  /\ UNCHANGED <<rowVars, poolVars, procVars, evictVars, fork, prompted, latest, branched,
                 unresumed, overwritten, faults, forks>>

\* The client asks for its prompt's session; answers to the agent's questions
\* are looked for under the session the database had.
Prompt(t, k, polled) ==
  /\ task' = [task EXCEPT ![t].pc = "prompt", ![t].client = k, ![t].polled = polled]
  /\ prompted' = [prompted EXCEPT ![Of(t)] = @ \cup {sid[k]}]
  /\ latest' = [latest EXCEPT ![Of(t)] = sid[k]]
  /\ UNCHANGED <<branched, unresumed, overlapped, overwritten>>

\* _alive looks at the subprocess, not at the read loop.
Usable(t, k) == k # None /\ proc[k] \in {"up", "deaf"} /\ profile[k] = task[t].profile

\* Mutant: any live client of the profile will do.
ReuseAny(t) ==
  /\ task[t].pc = "get"
  /\ \E k \in Client : /\ \E d \in Conv : pool[d] = k
                       /\ Usable(t, k)
                       /\ Prompt(t, k, sid[k])
  /\ lastUsed' = [lastUsed EXCEPT ![Of(t)] = "recent"]
  /\ UNCHANGED <<rowVars, pool, procVars, evictVars, fork, turns, faults, forks>>

Reuse(t) ==
  /\ task[t].pc = "get"
  /\ Usable(t, pool[Of(t)])
  /\ Prompt(t, pool[Of(t)], task[t].read)
  /\ lastUsed' = [lastUsed EXCEPT ![Of(t)] = "recent"]
  /\ UNCHANGED <<rowVars, pool, procVars, evictVars, fork, turns, faults, forks>>

\* A dead client, or one of another profile, is dropped, its mark with it, although
\* another turn may be using it.  When the stop raises, so does get, and the turn is
\* an error.
Replace(t) ==
  /\ task[t].pc = "get"
  /\ ~Usable(t, pool[Of(t)])
  /\ IF pool[Of(t)] = None
       THEN lastUsed' = [lastUsed EXCEPT ![Of(t)] = "recent"] /\ UNCHANGED <<pool, proc>>
       ELSE Drop(Of(t))
  /\ task' = [task EXCEPT ![t] = IF StopRaises(pool[Of(t)]) THEN Idle
                                                           ELSE [@ EXCEPT !.pc = "spawn"]]
  /\ UNCHANGED <<rowVars, profile, sid, home, evictVars, fork, histVars, turns,
                 faults, forks>>

\* The subprocess is started and initialised.
Spawn(t) ==
  /\ task[t].pc = "spawn"
  /\ \E k \in Client :
       /\ proc[k] = "none" /\ \A l \in 1..(k - 1) : proc[l] # "none"
       /\ proc' = [proc EXCEPT ![k] = "up"]
       /\ profile' = [profile EXCEPT ![k] = task[t].profile]
       /\ task' = [task EXCEPT ![t].pc = "session", ![t].client = k]
  /\ UNCHANGED <<rowVars, poolVars, sid, home, evictVars, fork, histVars, turns,
                 faults, forks>>

\* The client speaks for session s and enters the pool, whoever is there.
Enter(t, s) ==
  /\ task[t].pc = "session" /\ proc[task[t].client] = "up"
  /\ pool' = [pool EXCEPT ![Of(t)] = task[t].client]
  /\ overwritten' = [overwritten EXCEPT ![Of(t)] = @ \cup ({pool[Of(t)]} \ {None})]
  /\ sid' = [sid EXCEPT ![task[t].client] = s]
  /\ task' = [task EXCEPT ![t].pc = "save", ![t].polled = s]
  /\ UNCHANGED <<rowVars, lastUsed, proc, profile, evictVars, fork, prompted, latest,
                 branched, overlapped, turns, forks>>

\* A session of another profile's store cannot be resumed.
Resumable(t) ==
  CanResume /\ task[t].read # None /\ home[task[t].read] = task[t].profile

Resume(t) ==
  /\ Resumable(t)
  /\ Enter(t, task[t].read)
  /\ UNCHANGED <<home, unresumed, faults>>

NewSession(t) ==
  /\ ~Resumable(t)
  /\ Enter(t, Len(home) + 1)
  /\ home' = Append(home, task[t].profile)
  /\ UNCHANGED <<unresumed, faults>>

\* The resume raises or times out: a new session takes its place.
ResumeFails(t) ==
  /\ Resumable(t)
  /\ faults < MaxFaults /\ faults' = faults + 1
  /\ unresumed' = unresumed \cup {task[t].read}
  /\ Enter(t, Len(home) + 1)
  /\ home' = Append(home, task[t].profile)

\* Mutant: the new session is not remembered.
PromptUnsaved(t) ==
  /\ task[t].pc = "save"
  /\ Prompt(t, task[t].client, task[t].polled)
  /\ UNCHANGED <<rowVars, poolVars, procVars, evictVars, fork, turns, faults, forks>>

\* _set_session_id when the session is new, then the prompt.
SaveAndPrompt(t) ==
  /\ task[t].pc = "save"
  /\ stored' = IF task[t].polled = task[t].read THEN stored
                ELSE [stored EXCEPT ![Of(t)] = task[t].polled]
  /\ Prompt(t, task[t].client, task[t].polled)
  /\ UNCHANGED <<exists, poolVars, procVars, evictVars, fork, turns, faults, forks>>

PromptEnds(t) ==
  /\ task[t].pc = "prompt" /\ proc[task[t].client] = "up"
  /\ task' = [task EXCEPT ![t] = Idle]
  /\ UNCHANGED <<rowVars, poolVars, procVars, evictVars, fork, histVars, turns,
                 faults, forks>>

\* The request fails or the client is gone: the client in the pool is dropped,
\* another turn's perhaps, and the turn is an error.
Fails(t) ==
  /\ \/ task[t].pc \in {"save", "prompt"}
     \/ task[t].pc = "session" /\ proc[task[t].client] # "up"
  /\ \/ proc[task[t].client] # "up" /\ UNCHANGED faults
     \/ faults < MaxFaults /\ faults' = faults + 1
  /\ Drop(Of(t))
  /\ task' = [task EXCEPT ![t] = Idle]
  /\ UNCHANGED <<rowVars, profile, sid, home, evictVars, fork, histVars, turns, forks>>

\* Mutant: a client whose session could not be created is left behind.
StartAbandoned(t) ==
  /\ task[t].pc = "session"
  /\ faults < MaxFaults /\ faults' = faults + 1
  /\ Drop(Of(t))
  /\ task' = [task EXCEPT ![t] = Idle]
  /\ UNCHANGED <<rowVars, profile, sid, home, evictVars, fork, histVars, turns, forks>>

\* get fails: its client is stopped, the error is raised, and drop(c) follows.
StartFails(t) ==
  /\ task[t].pc \in {"spawn", "session"}
  /\ faults < MaxFaults /\ faults' = faults + 1
  /\ pool' = [pool EXCEPT ![Of(t)] = None]
  /\ lastUsed' = [lastUsed EXCEPT ![Of(t)] = "absent"]
  /\ proc' = Stopped({task[t].client, pool[Of(t)]})
  /\ task' = [task EXCEPT ![t] = Idle]
  /\ UNCHANGED <<rowVars, profile, sid, home, evictVars, fork, histVars, turns, forks>>

\* The subprocess dies; or its read loop ends by an exception: an event could not
\* be published, or a line is longer than the reader takes.
Dies(k) ==
  /\ proc[k] = "up"
  /\ faults < MaxFaults /\ faults' = faults + 1
  /\ \E end \in {"dead", "deaf"} : proc' = [proc EXCEPT ![k] = end]
  /\ UNCHANGED <<rowVars, poolVars, profile, sid, home, task, evictVars, fork, histVars,
                 turns, forks>>

-----------------------------------------------------------------------------
(* evict_idle, called by the heartbeat. *)

\* An hour without get.  No turn lasts that long.
GoesIdle(c) ==
  /\ lastUsed[c] = "recent" /\ \A t \in Task : Of(t) = c => ~Busy(t)
  /\ lastUsed' = [lastUsed EXCEPT ![c] = "idle"]
  /\ UNCHANGED <<rowVars, pool, procVars, task, evictVars, fork, histVars, turns,
                 faults, forks>>

\* drop(c) of evict_idle.  A stop that raises ends the heartbeat task, and with it
\* this and every later eviction.
Evict(c, rest) ==
  /\ Drop(c)
  /\ IF StopRaises(pool[c]) THEN stale' = {} /\ evicting' = "never"
                            ELSE stale' = rest /\ evicting' = "yes"
  /\ UNCHANGED <<rowVars, profile, sid, home, task, fork, histVars, turns, faults, forks>>

\* The list is made and its first conversation popped in one go.
EvictFirst(c) ==
  /\ evicting = "no"
  /\ lastUsed[c] = "idle"
  /\ Evict(c, {d \in Conv : lastUsed[d] = "idle"} \ {c})

\* The next one follows when the previous client has stopped.
EvictNext(c) ==
  /\ evicting = "yes" /\ c \in stale
  /\ Evict(c, stale \ {c})

EvictEnds ==
  /\ evicting = "yes" /\ stale = {}
  /\ evicting' = "no"
  /\ UNCHANGED <<rowVars, poolVars, procVars, task, stale, fork, histVars, turns,
                 faults, forks>>

-----------------------------------------------------------------------------
(* Fork: the endpoint, and _handle_control of the runner. *)

ForkAsk(c, d) ==
  /\ fork.pc = "none" /\ forks < MaxForks
  /\ c \in exists /\ stored[c] # None /\ d \notin exists
  /\ forks' = forks + 1
  /\ fork' = [pc |-> "asked", from |-> c, to |-> d, client |-> None]
  /\ UNCHANGED <<rowVars, poolVars, procVars, task, evictVars, histVars, turns, faults>>

ForkSend ==
  /\ fork.pc = "asked" /\ pool[fork.from] # None
  /\ fork' = [fork EXCEPT !.pc = "forking", !.client = pool[fork.from]]
  /\ UNCHANGED <<rowVars, poolVars, procVars, task, evictVars, histVars, turns, faults,
                 forks>>

\* The agent answers; the client that asked now speaks for the new session.
ForkDone ==
  /\ fork.pc = "forking" /\ proc[fork.client] = "up"
  /\ LET k == fork.client
     IN /\ home' = Append(home, profile[k])
        /\ sid' = [sid EXCEPT ![k] = Len(home) + 1]
        /\ stored' = [stored EXCEPT ![fork.to] = Len(home) + 1]
  /\ exists' = exists \cup {fork.to}
  /\ branched' = branched \cup {Len(home) + 1}
  /\ fork' = NoFork
  /\ UNCHANGED <<poolVars, proc, profile, task, evictVars, prompted, latest, unresumed,
                 overlapped, overwritten, turns, faults, forks>>

\* No client, or no answer: the conversation is created without a session.
ForkFails ==
  /\ \/ fork.pc = "asked" /\ pool[fork.from] = None
     \/ fork.pc = "forking" /\ proc[fork.client] # "up"
  /\ exists' = exists \cup {fork.to}
  /\ fork' = NoFork
  /\ UNCHANGED <<stored, poolVars, procVars, task, evictVars, histVars, turns, faults,
                 forks>>

-----------------------------------------------------------------------------
Handle(t) == \/ Reuse(t) \/ Replace(t) \/ Spawn(t) \/ Resume(t) \/ NewSession(t)
             \/ ResumeFails(t) \/ SaveAndPrompt(t) \/ PromptEnds(t) \/ Fails(t)
             \/ StartFails(t)

Next == \/ \E t \in Task : Handle(t) \/ \E c \in Conv : Begin(t, c)
        \/ \E c \in Conv : GoesIdle(c) \/ EvictFirst(c) \/ EvictNext(c)
        \/ \E k \in Client : Dies(k)
        \/ EvictEnds
        \/ \E c, d \in Conv : ForkAsk(c, d)
        \/ ForkSend \/ ForkDone \/ ForkFails

Spec == Init /\ [][Next]_vars

-----------------------------------------------------------------------------
\* One ACP session per conversation: a session is prompted for one conversation,
\* whoever spawned the client that speaks for it; the sessions that forks have
\* made are the subject of ForkKeepsApart.
OwnSession ==
  \A c, d \in Conv : c # d => prompted[c] \cap prompted[d] \subseteq branched

\* The questions of the agent are looked for under the session it is prompted in,
\* as long as the turns of the conversation have come one after the other.
PolledSession ==
  \A t \in Task : task[t].pc = "prompt" =>
    \/ task[t].polled = sid[task[t].client]
    \/ Of(t) \in overlapped \/ sid[task[t].client] \in branched

\* A running subprocess is in the pool or about to enter it: none is forgotten,
\* but for one whose read loop has ended by an exception, and for one that was
\* overwritten in the pool, which takes two turns of the conversation at once.
NoProcessLost ==
  /\ \A k \in Client : proc[k] = "up" =>
       \/ \E c \in Conv : pool[c] = k \/ k \in overwritten[c]
       \/ \E t \in Task : task[t].pc = "session" /\ task[t].client = k
  /\ \A c \in Conv : overwritten[c] # {} => c \in overlapped

\* The agent's context is preserved across turns: whatever was evicted, failed or
\* died in between, a conversation goes on in the session of its previous turn
\* unless the user has changed the profile, the resume of that session has failed,
\* or turns of the conversation have overlapped.
ContextKept ==
  [][\A c \in Conv : \/ latest[c] \in {None, latest'[c]}
                     \/ home[latest[c]] # home'[latest'[c]]
                     \/ latest[c] \in unresumed \/ c \in overlapped
                     \/ {latest[c], latest'[c]} \cap branched # {}]_vars

\* A fork branches a session into a new one: the two conversations go on apart.
ForkKeepsApart ==
  \A c, d \in Conv : c # d => prompted[c] \cap prompted[d] = {}

\* Conversations, sessions and subprocesses stay matched, and questions are looked
\* for where they are asked.
SessionsApart == TypeOK /\ OwnSession /\ PolledSession
=============================================================================
