-------------------------- MODULE AgentLinksProofs --------------------------
(***************************************************************************)
(* What is proved of the components that talk to an agent subprocess: its  *)
(* session and the pool, its control channel, the memory job.              *)
(***************************************************************************)
EXTENDS MCAgentLinks, MemoryConsolidation, FiniteSetTheorems, WellFoundedInduction, TLAPS

(* Session pool: clients, sessions, turns and rows stay matched.             *)

TaskRec == [pc : {"idle", "get", "spawn", "session", "save", "prompt"}, conv : Conv,
            profile : Profile, read : Nat, client : Client \cup {None}, polled : Nat]

SessionTypes ==
  /\ exists \subseteq Conv
  /\ stored \in [Conv -> Nat]
  /\ pool \in [Conv -> Client \cup {None}]
  /\ proc \in [Client -> {"none", "up", "deaf", "dead", "stopped"}]
  /\ profile \in [Client -> Profile]
  /\ sid \in [Client -> Nat] /\ home \in Seq(Profile)
  /\ task \in [Task -> TaskRec]
  /\ prompted \in [Conv -> SUBSET Nat] /\ latest \in [Conv -> Nat]
  /\ branched \subseteq Nat /\ unresumed \subseteq Nat
  /\ overlapped \subseteq Conv /\ overwritten \in [Conv -> SUBSET Client]
  /\ \A t \in Task : task[t].pc \in {"session", "save", "prompt"} => task[t].client \in Client

Marks ==
  /\ lastUsed \in [Conv -> {"absent", "recent", "idle"}]
  /\ stale \subseteq Conv /\ evicting \in {"no", "yes", "never"}
  /\ turns \in 0..MaxTurns /\ faults \in 0..MaxFaults /\ forks \in 0..MaxForks

ForkShape ==
  /\ fork = [pc |-> fork.pc, from |-> fork.from, to |-> fork.to, client |-> fork.client]
  /\ fork.pc \in {"none", "asked", "forking"}
  /\ fork.pc # "none" => fork.from \in Conv /\ fork.to \in Conv \ exists /\ forks > 0
  /\ fork.pc = "forking" => fork.client \in Client /\ sid[fork.client] # None

Speaks(t) == task[t].pc \in {"session", "save", "prompt"}

\* A client of a turn that has no session yet is nobody else's.
TurnClients ==
  /\ \A t \in Task : task[t].pc \in {"save", "prompt"} => sid[task[t].client] # None
  /\ \A t \in Task : task[t].pc = "session" => /\ sid[task[t].client] = None
                                               /\ proc[task[t].client] # "none"
  /\ \A t, u \in Task :
       (task[t].pc = "session" /\ Speaks(u) /\ task[u].client = task[t].client) => u = t
  /\ \A c \in Conv : pool[c] # None => sid[pool[c]] # None
  /\ \A k \in Client : proc[k] = "none" => sid[k] = None

Has(c, k) == pool[c] = k \/ \E t \in Task : Of(t) = c /\ Speaks(t) /\ task[t].client = k

\* A client works for one conversation.
ClientsApart == \A c, d \in Conv, k \in Client : Has(c, k) /\ Has(d, k) => c = d

NoRow ==
  \A c \in Conv \ exists :
    /\ stored[c] = None /\ pool[c] = None /\ latest[c] = None /\ prompted[c] = {}
    /\ \A t \in Task : Of(t) = c => ~Busy(t)

WithinHome ==
  /\ \A c \in Conv : stored[c] <= Len(home) /\ latest[c] <= Len(home)
  /\ \A c \in Conv : \A s \in prompted[c] : s \in 1..Len(home)
  /\ \A k \in Client : sid[k] <= Len(home)
  /\ \A t \in Task : task[t].read <= Len(home) /\ task[t].polled <= Len(home)
  /\ \A s \in branched \cup unresumed : s \in 1..Len(home)

-----------------------------------------------------------------------------
(* What a step does. *)

\* No subprocess starts.
ProcKeeps ==
  /\ proc' \in [Client -> {"none", "up", "deaf", "dead", "stopped"}]
  /\ \A k \in Client : /\ proc'[k] = "none" <=> proc[k] = "none"
                       /\ proc'[k] = "up" => proc[k] = "up"

Others(t) == /\ task' \in [Task -> TaskRec]
             /\ \A u \in Task : u # t => task'[u] = task[u]
Steps(t, pc, k, polled) ==
  /\ Others(t)
  /\ task'[t].pc = pc /\ task'[t].client = k /\ task'[t].polled = polled
  /\ task'[t].conv = task[t].conv /\ task'[t].read = task[t].read
  /\ task'[t].profile = task[t].profile

ForkMoves ==
  \/ UNCHANGED <<fork, forks, exists>>
  \/ /\ fork.pc = "none" /\ forks' = forks + 1 /\ forks < MaxForks /\ UNCHANGED exists
     /\ \E c \in Conv, d \in Conv \ exists :
          fork' = [pc |-> "asked", from |-> c, to |-> d, client |-> None]
  \/ /\ fork.pc = "asked" /\ pool[fork.from] # None
     /\ fork' = [fork EXCEPT !.pc = "forking", !.client = pool[fork.from]]
     /\ UNCHANGED <<forks, exists>>
  \/ /\ fork.pc # "none" /\ fork' = NoFork /\ exists' = exists \cup {fork.to} /\ UNCHANGED forks

Beside ==
  /\ ProcKeeps /\ ForkMoves
  /\ UNCHANGED <<stored, pool, profile, sid, home, task, histVars>>

Leaves(t) == task[t].pc # "idle" /\ Others(t) /\ task'[t] = Idle

\* An entry of the pool is dropped, or a turn ends, or both.
LetsGo(c) ==
  /\ ProcKeeps
  /\ pool' = pool \/ pool' = [pool EXCEPT ![c] = None]
  /\ \A k \in Client : proc'[k] = "up" => k # pool[c] \/ pool'[c] = pool[c]
  /\ \/ UNCHANGED task
     \/ \E t \in Task : /\ Of(t) = c /\ Leaves(t)
                        /\ task[t].pc = "session" => proc'[task[t].client] # "up"
                        /\ task[t].pc = "save" => pool'[c] = None
     \/ \E t \in Task : /\ Of(t) = c /\ task[t].pc = "get" /\ pool'[c] = None
                        /\ Steps(t, "spawn", task[t].client, task[t].polled)
  /\ UNCHANGED <<exists, stored, profile, sid, home, fork, forks, histVars>>

Begins(t, c) ==
  /\ c \in exists /\ task[t].pc = "idle" /\ Others(t)
  /\ \E p \in Profile : task'[t] = [pc |-> "get", conv |-> c, profile |-> p,
                                    read |-> stored[c], client |-> None, polled |-> None]
  /\ \/ c \in overlapped' /\ overlapped' = overlapped \cup {c}
     \/ overlapped' = overlapped /\ \A u \in Task : Of(u) = c => task[u].pc = "idle"
  /\ UNCHANGED <<rowVars, pool, procVars, fork, forks, prompted, latest, branched,
                 unresumed, overwritten>>

Starts(t, k) ==
  /\ task[t].pc = "spawn" /\ proc[k] = "none"
  /\ proc' = [proc EXCEPT ![k] = "up"]
  /\ profile' \in [Client -> Profile]
  /\ Steps(t, "session", k, task[t].polled)
  /\ UNCHANGED <<rowVars, pool, sid, home, fork, forks, histVars>>

Enters(t, s) ==
  /\ task[t].pc = "session" /\ proc[task[t].client] = "up"
  /\ pool' = [pool EXCEPT ![Of(t)] = task[t].client]
  /\ overwritten' = [overwritten EXCEPT ![Of(t)] = @ \cup ({pool[Of(t)]} \ {None})]
  /\ sid' = [sid EXCEPT ![task[t].client] = s]
  /\ Steps(t, "save", task[t].client, s)
  /\ \/ Resumable(t) /\ s = task[t].read /\ UNCHANGED <<home, unresumed>>
     \/ /\ s = Len(home) + 1 /\ home' = Append(home, task[t].profile)
        /\ \/ ~Resumable(t) /\ UNCHANGED unresumed
           \/ Resumable(t) /\ unresumed' = unresumed \cup {task[t].read}
  /\ UNCHANGED <<rowVars, proc, profile, fork, forks, prompted, latest, branched, overlapped>>

Prompts(t, k, polled) ==
  /\ k # None
  /\ Steps(t, "prompt", k, polled)
  /\ prompted' = [prompted EXCEPT ![Of(t)] = @ \cup {sid[k]}]
  /\ latest' = [latest EXCEPT ![Of(t)] = sid[k]]
  /\ \/ task[t].pc = "get" /\ k = pool[Of(t)] /\ polled = task[t].read /\ UNCHANGED stored
     \/ /\ task[t].pc = "save" /\ k = task[t].client /\ polled = task[t].polled
        /\ \/ polled = task[t].read /\ UNCHANGED stored
           \/ polled # task[t].read /\ stored' = [stored EXCEPT ![Of(t)] = polled]
  /\ UNCHANGED <<exists, pool, procVars, fork, forks, branched, unresumed, overlapped,
                 overwritten>>

Branches ==
  /\ fork.pc = "forking" /\ fork' = NoFork /\ UNCHANGED forks
  /\ home' = Append(home, profile[fork.client])
  /\ sid' = [sid EXCEPT ![fork.client] = Len(home) + 1]
  /\ stored' = [stored EXCEPT ![fork.to] = Len(home) + 1]
  /\ exists' = exists \cup {fork.to} /\ branched' = branched \cup {Len(home) + 1}
  /\ UNCHANGED <<pool, proc, profile, task, prompted, latest, unresumed, overlapped,
                 overwritten>>

SessionEffect ==
  \/ Beside
  \/ \E c \in Conv : LetsGo(c)
  \/ \E t \in Task, c \in Conv : Begins(t, c)
  \/ \E t \in Task, k \in Client : Starts(t, k)
  \/ \E t \in Task : \E s \in Nat : Enters(t, s)
  \/ \E t \in Task : \E k \in Client \cup {None} : \E p \in Nat : Prompts(t, k, p)
  \/ Branches

LEMMA NoneApart == None \notin Client /\ None \in Nat /\ Client \subseteq Nat
BY BoundsType DEF None, Client

LEMMA IdleFields ==
  /\ Idle = [pc |-> "idle", conv |-> Idle.conv, profile |-> Idle.profile, read |-> None,
             client |-> None, polled |-> None]
  /\ Idle.conv \in Conv /\ Idle.profile \in Profile
BY ProfilesExist DEF Idle

LEMMA IdleIsTask == Idle \in TaskRec
BY IdleFields, NoneApart DEF TaskRec

LEMMA SessionEffects == SessionTypes /\ [Next]_vars => SessionEffect
<1> SUFFICES ASSUME SessionTypes, [Next]_vars PROVE SessionEffect
    OBVIOUS
<1> USE NoneApart, IdleFields, IdleIsTask DEF rowVars, poolVars, procVars, evictVars, histVars,
        Busy, Of, Others, Steps
<1>0. task \in [Task -> TaskRec] /\ \A t \in Task : Of(t) \in Conv /\ task[t].client \in Client \cup {None}
  BY DEF SessionTypes, TaskRec
<1>1. ASSUME NEW t \in Task, NEW c \in Conv, Begin(t, c) PROVE SessionEffect
  <2>1. Begins(t, c)
    BY <1>0, <1>1 DEF Begin, Begins, SessionTypes, TaskRec
  <2> QED BY <2>1 DEF SessionEffect
<1>p. ASSUME NEW t \in Task, NEW k \in Client \cup {None}, NEW p \in Nat, Prompt(t, k, p)
      PROVE  /\ Steps(t, "prompt", k, p)
             /\ prompted' = [prompted EXCEPT ![Of(t)] = @ \cup {sid[k]}]
             /\ latest' = [latest EXCEPT ![Of(t)] = sid[k]]
             /\ UNCHANGED <<branched, unresumed, overlapped, overwritten>>
  <2>1. /\ task' = [task EXCEPT ![t].pc = "prompt", ![t].client = k, ![t].polled = p]
        /\ prompted' = [prompted EXCEPT ![Of(t)] = @ \cup {sid[k]}]
        /\ latest' = [latest EXCEPT ![Of(t)] = sid[k]]
        /\ UNCHANGED <<branched, unresumed, overlapped, overwritten>>
    BY <1>p DEF Prompt
  <2>2. Steps(t, "prompt", k, p)
    BY <2>1, <1>0 DEF TaskRec
  <2> QED BY <2>1, <2>2
<1>2. ASSUME NEW t \in Task, Reuse(t) PROVE SessionEffect
  <2> DEFINE k == pool[Of(t)]
  <2>0. /\ task[t].pc = "get" /\ k # None /\ Prompt(t, k, task[t].read)
        /\ UNCHANGED <<exists, stored, pool, procVars, fork, forks>>
    BY <1>2 DEF Reuse, Usable
  <2>2. k \in Client \cup {None} /\ task[t].read \in Nat
    BY <1>0 DEF SessionTypes, TaskRec
  <2>3. Prompts(t, k, task[t].read)
    <3> HIDE DEF Steps
    <3> QED BY <2>0, <2>2, <1>p DEF Prompts
  <2> QED BY <2>2, <2>3 DEF SessionEffect
<1>3. ASSUME NEW t \in Task, Replace(t) PROVE SessionEffect
  <2>1. /\ task[t].pc = "get"
        /\ \/ pool[Of(t)] = None /\ UNCHANGED <<pool, proc>>
           \/ /\ pool' = [pool EXCEPT ![Of(t)] = None]
              /\ proc' = Stopped({pool[Of(t)]})
        /\ task' = [task EXCEPT ![t] = Idle] \/ task' = [task EXCEPT ![t].pc = "spawn"]
        /\ UNCHANGED <<exists, stored, profile, sid, home, fork, forks, histVars>>
    BY <1>3 DEF Replace, Drop
  <2>2. Leaves(t) \/ Steps(t, "spawn", task[t].client, task[t].polled)
    BY <1>0, <2>1 DEF Leaves, TaskRec
  <2>3. /\ ProcKeeps /\ pool'[Of(t)] = None
        /\ \A k \in Client : proc'[k] = "up" => proc[k] = "up" /\ k # pool[Of(t)]
    BY <1>0, <2>1 DEF ProcKeeps, Stopped, SessionTypes
  <2>4. pool' = pool \/ pool' = [pool EXCEPT ![Of(t)] = None]
    BY <2>1
  <2> HIDE DEF Others, Steps
  <2>5. LetsGo(Of(t))
    BY <1>0, <2>1, <2>2, <2>3, <2>4 DEF LetsGo
  <2> QED BY <1>0, <2>5 DEF SessionEffect
<1>4. ASSUME NEW t \in Task, Spawn(t) PROVE SessionEffect
  <2>1. PICK k \in Client : /\ proc[k] = "none" /\ proc' = [proc EXCEPT ![k] = "up"]
                            /\ profile' = [profile EXCEPT ![k] = task[t].profile]
                            /\ task' = [task EXCEPT ![t].pc = "session", ![t].client = k]
    BY <1>4 DEF Spawn
  <2>2. Steps(t, "session", k, task[t].polled)
    BY <1>0, <2>1 DEF TaskRec
  <2>3. profile' \in [Client -> Profile] /\ task[t].pc = "spawn"
        /\ UNCHANGED <<rowVars, pool, sid, home, fork, forks, histVars>>
    BY <1>0, <1>4, <2>1 DEF Spawn, SessionTypes, TaskRec
  <2>4. Starts(t, k)
    <3> HIDE DEF Steps
    <3> QED BY <2>1, <2>2, <2>3 DEF Starts
  <2> QED BY <2>4 DEF SessionEffect
<1>5. ASSUME NEW t \in Task, NEW s \in Nat, Enter(t, s),
             \/ Resumable(t) /\ s = task[t].read /\ UNCHANGED <<home, unresumed>>
             \/ /\ s = Len(home) + 1 /\ home' = Append(home, task[t].profile)
                /\ \/ ~Resumable(t) /\ UNCHANGED unresumed
                   \/ Resumable(t) /\ unresumed' = unresumed \cup {task[t].read}
      PROVE SessionEffect
  <2>1. /\ task[t].pc = "session" /\ proc[task[t].client] = "up"
        /\ pool' = [pool EXCEPT ![Of(t)] = task[t].client]
        /\ overwritten' = [overwritten EXCEPT ![Of(t)] = @ \cup ({pool[Of(t)]} \ {None})]
        /\ sid' = [sid EXCEPT ![task[t].client] = s]
        /\ task' = [task EXCEPT ![t].pc = "save", ![t].polled = s]
        /\ UNCHANGED <<rowVars, proc, profile, fork, forks, prompted, latest, branched,
                       overlapped>>
    BY <1>5 DEF Enter
  <2>2. Steps(t, "save", task[t].client, s)
    BY <1>0, <2>1 DEF TaskRec
  <2>3. Enters(t, s)
    <3> HIDE DEF Steps, Resumable
    <3> QED BY <2>1, <2>2, <1>5 DEF Enters
  <2> QED BY <2>3 DEF SessionEffect
<1>6. ASSUME NEW t \in Task, Resume(t) \/ NewSession(t) \/ ResumeFails(t) PROVE SessionEffect
  <2>1. task[t].read \in Nat /\ Len(home) + 1 \in Nat
    BY <1>0 DEF SessionTypes, TaskRec
  <2>2. CASE Resume(t)
    BY <1>5, <2>1, <2>2 DEF Resume
  <2>3. CASE NewSession(t)
    BY <1>5, <2>1, <2>3 DEF NewSession
  <2>4. CASE ResumeFails(t)
    BY <1>5, <2>1, <2>4 DEF ResumeFails
  <2> QED BY <1>6, <2>2, <2>3, <2>4
<1>7. ASSUME NEW t \in Task, SaveAndPrompt(t) PROVE SessionEffect
  <2> DEFINE k == task[t].client  p == task[t].polled
  <2>1. /\ task[t].pc = "save" /\ Prompt(t, k, p)
        /\ stored' = IF p = task[t].read THEN stored ELSE [stored EXCEPT ![Of(t)] = p]
        /\ UNCHANGED <<exists, pool, procVars, fork, forks>>
    BY <1>7 DEF SaveAndPrompt
  <2>2. p \in Nat /\ k \in Client
    BY <1>0, <2>1 DEF TaskRec, SessionTypes
  <2>3. Prompts(t, k, p)
    <3> HIDE DEF Steps
    <3> QED BY <2>1, <2>2, <1>p DEF Prompts
  <2> QED BY <2>2, <2>3 DEF SessionEffect
<1>8. ASSUME NEW t \in Task, PromptEnds(t) PROVE SessionEffect
  <2>1. LetsGo(Of(t))
    BY <1>0, <1>8 DEF PromptEnds, LetsGo, Leaves, ProcKeeps, SessionTypes, TaskRec
  <2> QED BY <1>0, <2>1 DEF SessionEffect
<1>9. ASSUME NEW t \in Task, Fails(t) PROVE SessionEffect
  <2>1. /\ task[t].pc # "idle"
        /\ task[t].pc = "session" => proc[task[t].client] # "up"
        /\ pool' = [pool EXCEPT ![Of(t)] = None] /\ task' = [task EXCEPT ![t] = Idle]
        /\ proc' = Stopped({pool[Of(t)]})
        /\ UNCHANGED <<exists, stored, profile, sid, home, fork, forks, histVars>>
    BY <1>9 DEF Fails, Drop
  <2>2. Leaves(t)
    BY <1>0, <2>1 DEF Leaves
  <2>3. /\ ProcKeeps /\ pool'[Of(t)] = None
        /\ \A k \in Client : proc'[k] = "up" => proc[k] = "up" /\ k # pool[Of(t)]
    BY <1>0, <2>1 DEF ProcKeeps, Stopped, SessionTypes
  <2>4. task[t].pc = "session" => proc'[task[t].client] # "up"
    BY <1>0, <2>1, <2>3 DEF SessionTypes
  <2> HIDE DEF Others
  <2>5. LetsGo(Of(t))
    BY <1>0, <2>1, <2>2, <2>3, <2>4 DEF LetsGo
  <2> QED BY <1>0, <2>5 DEF SessionEffect
<1>10. ASSUME NEW t \in Task, StartFails(t) PROVE SessionEffect
  <2>1. /\ task[t].pc # "idle"
        /\ pool' = [pool EXCEPT ![Of(t)] = None] /\ task' = [task EXCEPT ![t] = Idle]
        /\ proc' = Stopped({task[t].client, pool[Of(t)]})
        /\ UNCHANGED <<exists, stored, profile, sid, home, fork, forks, histVars>>
    BY <1>10 DEF StartFails
  <2>2. Leaves(t)
    BY <1>0, <2>1 DEF Leaves
  <2>3. /\ ProcKeeps /\ pool'[Of(t)] = None
        /\ \A k \in Client : proc'[k] = "up" => proc[k] = "up" /\ k # pool[Of(t)]
                                             /\ k # task[t].client
    BY <1>0, <2>1 DEF ProcKeeps, Stopped, SessionTypes
  <2>4. task[t].pc = "session" => proc'[task[t].client] # "up"
    BY <1>0, <2>1, <2>3 DEF SessionTypes
  <2> HIDE DEF Others
  <2>5. LetsGo(Of(t))
    BY <1>0, <2>1, <2>2, <2>3, <2>4 DEF LetsGo
  <2> QED BY <1>0, <2>5 DEF SessionEffect
<1>11. ASSUME NEW k \in Client, Dies(k) PROVE SessionEffect
  <2>1. Beside
    BY <1>11 DEF Dies, Beside, ForkMoves, ProcKeeps, SessionTypes
  <2> QED BY <2>1 DEF SessionEffect
<1>12. ASSUME NEW c \in Conv, GoesIdle(c) \/ EvictFirst(c) \/ EvictNext(c)
      PROVE SessionEffect
  <2>1. CASE GoesIdle(c)
    <3>1. Beside
      BY <2>1 DEF GoesIdle, Beside, ForkMoves, ProcKeeps, SessionTypes
    <3> QED BY <3>1 DEF SessionEffect
  <2>2. ASSUME NEW rest, Evict(c, rest), UNCHANGED forks PROVE SessionEffect
    <3>1. LetsGo(c)
      BY <2>2 DEF Evict, LetsGo, ProcKeeps, Drop, Stopped, SessionTypes
    <3> QED BY <3>1 DEF SessionEffect
  <2>3. CASE EvictFirst(c)
    BY <2>2, <2>3 DEF EvictFirst, Evict
  <2>4. CASE EvictNext(c)
    BY <2>2, <2>4 DEF EvictNext, Evict
  <2> QED BY <1>12, <2>1, <2>3, <2>4
<1>13. ASSUME NEW c \in Conv, NEW d \in Conv, ForkAsk(c, d) PROVE SessionEffect
  <2>1. ForkMoves
    BY <1>13 DEF ForkAsk, ForkMoves
  <2>2. Beside
    BY <1>13, <2>1 DEF ForkAsk, Beside, ProcKeeps, SessionTypes
  <2> QED BY <2>2 DEF SessionEffect
<1>14. ASSUME ForkSend PROVE SessionEffect
  <2>1. Beside
    BY <1>14 DEF ForkSend, ForkMoves, Beside, ProcKeeps, SessionTypes
  <2> QED BY <2>1 DEF SessionEffect
<1>15. ASSUME ForkDone PROVE SessionEffect
  <2>1. Branches
    BY <1>15 DEF ForkDone, Branches
  <2> QED BY <2>1 DEF SessionEffect
<1>16. ASSUME ForkFails PROVE SessionEffect
  <2>1. Beside
    BY <1>16 DEF ForkFails, ForkMoves, Beside, ProcKeeps, SessionTypes
  <2> QED BY <2>1 DEF SessionEffect
<1>17. ASSUME EvictEnds \/ UNCHANGED vars PROVE SessionEffect
  <2>1. Beside
    BY <1>17 DEF EvictEnds, vars, ForkMoves, Beside, ProcKeeps, SessionTypes
  <2> QED BY <2>1 DEF SessionEffect
<1> QED
  BY <1>1, <1>2, <1>3, <1>4, <1>6, <1>7, <1>8, <1>9, <1>10, <1>11, <1>12, <1>13, <1>14,
     <1>15, <1>16, <1>17 DEF Next, Handle

-----------------------------------------------------------------------------
(* The bounded marks, and the types. *)

LEMMA MarksKept == SessionTypes /\ Marks /\ [Next]_vars => Marks'
<1> SUFFICES ASSUME SessionTypes, Marks, [Next]_vars PROVE Marks'
    OBVIOUS
<1> USE BoundsType DEF rowVars, poolVars, procVars, evictVars, histVars, Marks
<1>0. /\ {MaxTurns, MaxFaults, MaxForks} \subseteq Nat
      /\ \A t \in Task : Of(t) \in Conv
      /\ pool \in [Conv -> Client \cup {None}]
  BY DEF SessionTypes, TaskRec, Of
<1>1. ASSUME NEW t \in Task, Handle(t) PROVE Marks'
  BY <1>0, <1>1 DEF Handle, Reuse, Replace, Spawn, Resume, NewSession, ResumeFails, Enter,
     SaveAndPrompt, PromptEnds, Fails, StartFails, Drop
<1>2. ASSUME NEW t \in Task, NEW c \in Conv, Begin(t, c) PROVE Marks'
  BY <1>0, <1>2 DEF Begin
<1>3. ASSUME NEW c \in Conv, GoesIdle(c) \/ EvictFirst(c) \/ EvictNext(c) PROVE Marks'
  BY <1>0, <1>3 DEF GoesIdle, EvictFirst, EvictNext, Evict, Drop
<1>4. ASSUME NEW k \in Client, Dies(k) PROVE Marks'
  BY <1>0, <1>4 DEF Dies
<1>5. ASSUME NEW c \in Conv, NEW d \in Conv, ForkAsk(c, d) PROVE Marks'
  BY <1>0, <1>5 DEF ForkAsk
<1>6. ASSUME EvictEnds \/ ForkSend \/ ForkDone \/ ForkFails \/ UNCHANGED vars PROVE Marks'
  BY <1>6 DEF EvictEnds, ForkSend, ForkDone, ForkFails, vars
<1> QED BY <1>1, <1>2, <1>3, <1>4, <1>5, <1>6 DEF Next

LEMMA HomeGrows ==
  ASSUME NEW q \in Profile, home \in Seq(Profile)
  PROVE  /\ Append(home, q) \in Seq(Profile) /\ Len(Append(home, q)) = Len(home) + 1
         /\ \A i \in 1..Len(home) : Append(home, q)[i] = home[i]
         /\ Append(home, q)[Len(home) + 1] = q
OBVIOUS

LEMMA TypesKept == SessionTypes /\ ForkShape /\ SessionEffect => SessionTypes'
<1> SUFFICES ASSUME SessionTypes, ForkShape, SessionEffect PROVE SessionTypes'
    OBVIOUS
<1> USE NoneApart, IdleIsTask DEF rowVars, procVars, histVars, Of
<1>0. task \in [Task -> TaskRec] /\ \A t \in Task : Of(t) \in Conv /\ task[t].read \in Nat
  BY DEF SessionTypes, TaskRec
<1>1. CASE Beside
  <2>1. exists' \subseteq Conv
    BY <1>1 DEF Beside, ForkMoves, ForkShape, SessionTypes
  <2> QED BY <1>1, <2>1 DEF Beside, ProcKeeps, SessionTypes
<1>2. ASSUME NEW c \in Conv, LetsGo(c) PROVE SessionTypes'
  <2>1. /\ pool' \in [Conv -> Client \cup {None}] /\ task' \in [Task -> TaskRec]
        /\ proc' \in [Client -> {"none", "up", "deaf", "dead", "stopped"}]
    BY <1>2 DEF LetsGo, Leaves, Steps, Others, ProcKeeps, SessionTypes
  <2>2. \A u \in Task : task'[u].pc \in {"session", "save", "prompt"} => task'[u] = task[u]
    BY <1>0, <1>2, IdleFields DEF LetsGo, Leaves, Steps, Others
  <2> QED BY <1>2, <2>1, <2>2 DEF SessionTypes, LetsGo
<1>3. ASSUME NEW t \in Task, NEW c \in Conv, Begins(t, c) PROVE SessionTypes'
  <2>1. /\ task' \in [Task -> TaskRec] /\ overlapped' \subseteq Conv
        /\ \A u \in Task : task'[u].pc \in {"session", "save", "prompt"} => task'[u] = task[u]
    BY <1>0, <1>3 DEF Begins, Others, SessionTypes
  <2> QED BY <1>3, <2>1 DEF SessionTypes, Begins
<1>4. ASSUME NEW t \in Task, NEW k \in Client, Starts(t, k) PROVE SessionTypes'
  BY <1>0, <1>4 DEF Starts, Steps, Others, SessionTypes
<1>5. ASSUME NEW t \in Task, NEW s \in Nat, Enters(t, s) PROVE SessionTypes'
  <2>1. task[t].client \in Client /\ task[t].profile \in Profile
    BY <1>0, <1>5 DEF Enters, SessionTypes, TaskRec
  <2>4. home' \in Seq(Profile) /\ unresumed' \subseteq Nat
    <3>1. home \in Seq(Profile) /\ Append(home, task[t].profile) \in Seq(Profile)
      BY <2>1, HomeGrows DEF SessionTypes
    <3>2. home' = home \/ home' = Append(home, task[t].profile)
      BY <1>5 DEF Enters
    <3>3. unresumed' = unresumed \/ unresumed' = unresumed \cup {task[t].read}
      BY <1>5 DEF Enters
    <3> QED BY <1>0, <3>1, <3>2, <3>3 DEF SessionTypes
  <2>5. sid' \in [Client -> Nat] /\ pool' \in [Conv -> Client \cup {None}]
    BY <1>0, <1>5, <2>1 DEF Enters, SessionTypes
  <2>6. overwritten' \in [Conv -> SUBSET Client]
    BY <1>0, <1>5, <2>1 DEF Enters, SessionTypes
  <2>3. /\ task' \in [Task -> TaskRec]
        /\ \A u \in Task : task'[u].pc \in {"session", "save", "prompt"} => task'[u].client \in Client
    BY <1>0, <1>5, <2>1 DEF Enters, Steps, Others, SessionTypes
  <2> QED BY <1>5, <2>3, <2>4, <2>5, <2>6 DEF Enters, SessionTypes
<1>6. ASSUME NEW t \in Task, NEW k \in Client \cup {None}, NEW p \in Nat, Prompts(t, k, p)
      PROVE SessionTypes'
  <2>1. /\ stored' \in [Conv -> Nat] /\ prompted' \in [Conv -> SUBSET Nat]
        /\ latest' \in [Conv -> Nat]
    BY <1>0, <1>6 DEF Prompts, SessionTypes
  <2>2. /\ task' \in [Task -> TaskRec]
        /\ \A u \in Task : task'[u].pc \in {"session", "save", "prompt"} => task'[u].client \in Client
    BY <1>0, <1>6 DEF Prompts, Steps, Others, SessionTypes
  <2> QED BY <1>6, <2>1, <2>2 DEF Prompts, SessionTypes
<1>7. ASSUME Branches, fork.pc = "forking" => fork.client \in Client /\ fork.to \in Conv
      PROVE SessionTypes'
  <2>1. Len(home) + 1 \in Nat /\ fork.client \in Client /\ fork.to \in Conv
    BY <1>7 DEF Branches, SessionTypes
  <2>2. home' \in Seq(Profile)
    <3>1. home \in Seq(Profile) /\ profile[fork.client] \in Profile
      BY <2>1 DEF SessionTypes
    <3> QED BY <1>7, <3>1, HomeGrows DEF Branches
  <2>3. sid' \in [Client -> Nat] /\ stored' \in [Conv -> Nat] /\ branched' \subseteq Nat
        /\ exists' \subseteq Conv
    BY <1>7, <2>1 DEF Branches, SessionTypes
  <2> QED BY <1>7, <2>2, <2>3 DEF Branches, SessionTypes
<1> QED BY <1>1, <1>2, <1>3, <1>4, <1>5, <1>6, <1>7 DEF SessionEffect, ForkShape, Branches

LEMMA ForkShapeKept ==
  SessionTypes /\ Marks /\ TurnClients /\ ForkShape /\ SessionEffect => ForkShape'
<1> SUFFICES ASSUME SessionTypes, Marks, TurnClients, ForkShape, SessionEffect PROVE ForkShape'
    OBVIOUS
<1> USE NoneApart DEF rowVars, procVars, histVars, Of
<1>0. \A t \in Task : Of(t) \in Conv
  BY DEF SessionTypes, TaskRec
<1>n. NoFork = [pc |-> "none", from |-> NoFork.from, to |-> NoFork.to, client |-> None]
  BY DEF NoFork
<1>1. CASE Beside
  <2>1. CASE UNCHANGED <<fork, forks, exists>>
    BY <1>1, <2>1 DEF Beside, ForkShape
  <2>2. CASE fork' = NoFork
    BY <1>n, <2>2 DEF ForkShape
  <2>3. ASSUME forks' = forks + 1, forks < MaxForks, UNCHANGED exists, NEW c \in Conv,
               NEW d \in Conv \ exists,
               fork' = [pc |-> "asked", from |-> c, to |-> d, client |-> None]
        PROVE ForkShape'
    BY <2>3, BoundsType DEF ForkShape, Marks
  <2>4. CASE /\ fork.pc = "asked" /\ pool[fork.from] # None
             /\ fork' = [fork EXCEPT !.pc = "forking", !.client = pool[fork.from]]
             /\ UNCHANGED <<forks, exists>>
    <3>1. fork.from \in Conv /\ pool[fork.from] \in Client /\ sid[pool[fork.from]] # None
      BY <2>4 DEF ForkShape, SessionTypes, TurnClients
    <3>2. /\ fork'.pc = "forking" /\ fork'.client = pool[fork.from]
          /\ fork'.from = fork.from /\ fork'.to = fork.to
          /\ fork' = [pc |-> fork'.pc, from |-> fork'.from, to |-> fork'.to, client |-> fork'.client]
      BY <2>4 DEF ForkShape
    <3> QED BY <1>1, <2>4, <3>1, <3>2 DEF Beside, ForkShape
  <2> QED BY <1>1, <2>1, <2>2, <2>3, <2>4 DEF Beside, ForkMoves
<1>2. ASSUME UNCHANGED <<fork, forks, exists>>,
             \A k \in Client : sid[k] # None => sid'[k] # None
      PROVE ForkShape'
  BY <1>2 DEF ForkShape
<1>3. ASSUME NEW t \in Task, NEW s \in Nat, Enters(t, s) PROVE ForkShape'
  <2>1. \A k \in Client : sid[k] # None => sid'[k] # None
    BY <1>3 DEF Enters, TurnClients, SessionTypes
  <2> QED BY <1>2, <1>3, <2>1 DEF Enters
<1>4. CASE Branches
  BY <1>4, <1>n DEF Branches, ForkShape
<1> QED BY <1>1, <1>2, <1>3, <1>4 DEF SessionEffect, LetsGo, Begins, Starts, Prompts

LEMMA TurnClientsKept ==
  SessionTypes /\ TurnClients /\ ForkShape /\ SessionEffect => TurnClients'
<1> SUFFICES ASSUME SessionTypes, TurnClients, ForkShape, SessionEffect PROVE TurnClients'
    OBVIOUS
<1> USE NoneApart DEF rowVars, procVars, histVars, Of
<1>0. \A t \in Task : /\ Of(t) \in Conv
                      /\ Speaks(t) => task[t].client \in Client
  BY DEF SessionTypes, TaskRec, Speaks
<1>p. \A c \in Conv : pool[c] # None => pool[c] \in Client
  BY DEF SessionTypes
\* A step in which turns at most end, and no session is given.
<1>1. ASSUME \A u \in Task : task'[u] = task[u] \/ task'[u].pc \in {"idle", "get", "spawn"},
             \A c \in Conv : pool'[c] \in {None, pool[c]}, UNCHANGED sid, ProcKeeps
      PROVE TurnClients'
  <2>1. \A u \in Task : task'[u].pc \in {"session", "save", "prompt"} => task'[u] = task[u]
    BY <1>1
  <2>2. \A k \in Client : /\ proc'[k] = "none" <=> proc[k] = "none"
                          /\ sid'[k] = sid[k]
    BY <1>1 DEF ProcKeeps
  <2>3. \A c \in Conv : pool'[c] # None => pool'[c] = pool[c]
    BY <1>1
  <2>4. \A u \in Task : task'[u].pc \in {"save", "prompt"} => sid'[task'[u].client] # None
    <3> SUFFICES ASSUME NEW u \in Task, task'[u].pc \in {"save", "prompt"}
                 PROVE sid'[task'[u].client] # None
        OBVIOUS
    <3>1. task'[u] = task[u]
      BY <2>1
    <3>2. task[u].client \in Client /\ sid[task[u].client] # None
      BY <1>0, <3>1 DEF TurnClients, Speaks
    <3> QED BY <2>2, <3>1, <3>2
  <2>5. \A u \in Task : task'[u].pc = "session" => /\ sid'[task'[u].client] = None
                                                   /\ proc'[task'[u].client] # "none"
    <3> SUFFICES ASSUME NEW u \in Task, task'[u].pc = "session"
                 PROVE sid'[task'[u].client] = None /\ proc'[task'[u].client] # "none"
        OBVIOUS
    <3>1. task'[u] = task[u] /\ task[u].pc = "session" /\ task[u].client \in Client
      BY <1>0, <2>1 DEF Speaks
    <3> QED BY <2>2, <3>1 DEF TurnClients
  <2>6. \A t, u \in Task :
          (/\ task'[t].pc = "session" /\ task'[u].pc \in {"session", "save", "prompt"}
           /\ task'[u].client = task'[t].client) => u = t
    BY <2>1 DEF TurnClients, Speaks
  <2>7. \A c \in Conv : pool'[c] # None => sid'[pool'[c]] # None
    BY <1>p, <2>2, <2>3 DEF TurnClients
  <2> QED BY <2>2, <2>4, <2>5, <2>6, <2>7 DEF TurnClients, Speaks
<1>2. CASE Beside
  BY <1>1, <1>2 DEF Beside
<1>3. ASSUME NEW c \in Conv, LetsGo(c) PROVE TurnClients'
  <2>1. \A u \in Task : task'[u] = task[u] \/ task'[u].pc \in {"idle", "get", "spawn"}
    BY <1>3, IdleFields DEF LetsGo, Leaves, Steps, Others
  <2>2. \A d \in Conv : pool'[d] \in {None, pool[d]}
    BY <1>3 DEF LetsGo, SessionTypes
  <2> QED BY <1>1, <1>3, <2>1, <2>2 DEF LetsGo
<1>4. ASSUME NEW t \in Task, NEW c \in Conv, Begins(t, c) PROVE TurnClients'
  <2>1. \A u \in Task : task'[u] = task[u] \/ task'[u].pc \in {"idle", "get", "spawn"}
    BY <1>4 DEF Begins, Others
  <2> QED BY <1>1, <1>4, <2>1 DEF Begins, ProcKeeps, SessionTypes
<1>5. ASSUME NEW t \in Task, NEW k \in Client, Starts(t, k) PROVE TurnClients'
  <2>1. sid[k] = None /\ \A u \in Task : Speaks(u) => task[u].client # k
    BY <1>0, <1>5 DEF Starts, TurnClients, Speaks
  <2>2. /\ task'[t].pc = "session" /\ task'[t].client = k /\ proc'[k] = "up"
        /\ \A u \in Task : u # t => task'[u] = task[u]
        /\ \A l \in Client : l # k => proc'[l] = proc[l]
    BY <1>5 DEF Starts, Steps, Others, SessionTypes
  <2> QED BY <1>0, <1>5, <2>1, <2>2 DEF Starts, TurnClients, Speaks
<1>6. ASSUME NEW t \in Task, NEW s \in Nat, Enters(t, s) PROVE TurnClients'
  <2> DEFINE k == task[t].client
  <2>4. k \in Client /\ sid[k] = None /\ proc[k] = "up"
    BY <1>0, <1>6 DEF Enters, TurnClients, Speaks
  <2>5. s # None
    <3>1. Len(home) \in Nat
      BY DEF SessionTypes
    <3> QED BY <1>6, <3>1 DEF Enters, Resumable, None
  <2>1. /\ k \in Client /\ sid[k] = None /\ sid'[k] = s /\ s # None /\ proc[k] = "up"
        /\ \A l \in Client : l # k => sid'[l] = sid[l]
        /\ UNCHANGED proc
    BY <1>6, <2>4, <2>5 DEF Enters, SessionTypes
  <2>2. /\ task'[t].pc = "save" /\ task'[t].client = k
        /\ \A u \in Task : u # t => task'[u] = task[u]
        /\ \A c \in Conv : pool'[c] = pool[c] \/ pool'[c] = k
    BY <1>0, <1>6 DEF Enters, Steps, Others, SessionTypes
  <2>3. \A u \in Task : u # t /\ Speaks(u) => task[u].client # k
    BY <1>6 DEF Enters, TurnClients
  <2> HIDE DEF k
  <2>6. ASSUME NEW u \in Task, task'[u].pc \in {"save", "prompt"}
        PROVE  sid'[task'[u].client] # None
    <3>1. CASE u = t
      BY <2>1, <2>2, <3>1
    <3>2. CASE u # t
      <4>1. task'[u] = task[u] /\ Speaks(u) /\ task[u].pc \in {"save", "prompt"}
        BY <2>2, <2>6, <3>2 DEF Speaks
      <4>2. task[u].client \in Client /\ task[u].client # k
        BY <1>0, <2>3, <3>2, <4>1
      <4>3. sid'[task[u].client] = sid[task[u].client]
        BY <2>1, <4>2
      <4>4. sid[task[u].client] # None
        BY <4>1 DEF TurnClients
      <4> QED BY <4>1, <4>3, <4>4
    <3> QED BY <3>1, <3>2
  <2>7. \A u \in Task : task'[u].pc = "session" => /\ sid'[task'[u].client] = None
                                                   /\ proc'[task'[u].client] # "none"
    <3> SUFFICES ASSUME NEW u \in Task, task'[u].pc = "session"
                 PROVE  sid'[task'[u].client] = None /\ proc'[task'[u].client] # "none"
        OBVIOUS
    <3>1. u # t /\ task'[u] = task[u] /\ Speaks(u)
      BY <2>2 DEF Speaks
    <3>2. task[u].client \in Client /\ task[u].client # k
      BY <1>0, <2>3, <3>1
    <3> QED BY <2>1, <3>1, <3>2 DEF TurnClients
  <2>8. \A v, u \in Task :
          (task'[v].pc = "session" /\ Speaks(u)' /\ task'[u].client = task'[v].client) => u = v
    <3> SUFFICES ASSUME NEW v \in Task, NEW u \in Task, task'[v].pc = "session",
                        task'[u].pc \in {"session", "save", "prompt"},
                        task'[u].client = task'[v].client, u # v
                 PROVE  FALSE
        BY DEF Speaks
    <3>1. v # t /\ task'[v] = task[v] /\ Speaks(v)
      BY <2>2 DEF Speaks
    <3>2. u # t
      BY <2>2, <2>3, <3>1
    <3>3. task'[u] = task[u] /\ Speaks(u)
      BY <2>2, <3>2 DEF Speaks
    <3> QED BY <3>1, <3>3 DEF TurnClients
  <2>9. ASSUME NEW c \in Conv, pool'[c] # None PROVE sid'[pool'[c]] # None
    <3>1. CASE pool'[c] = k
      BY <2>1, <3>1
    <3>2. CASE pool'[c] = pool[c] /\ pool[c] # k
      <4>1. pool[c] \in Client /\ sid[pool[c]] # None
        BY <1>p, <2>9, <3>2 DEF TurnClients
      <4> QED BY <2>1, <3>2, <4>1
    <3> QED BY <2>2, <3>1, <3>2
  <2>10. \A l \in Client : proc'[l] = "none" => sid'[l] = None
    BY <2>1 DEF TurnClients
  <2> QED BY <2>6, <2>7, <2>8, <2>9, <2>10 DEF TurnClients
<1>7. ASSUME NEW t \in Task, NEW k \in Client \cup {None}, NEW p \in Nat, Prompts(t, k, p)
      PROVE TurnClients'
  <2>1. k \in Client /\ sid[k] # None
    BY <1>0, <1>7 DEF Prompts, TurnClients
  <2>2. /\ task'[t].pc = "prompt" /\ task'[t].client = k
        /\ \A u \in Task : u # t => task'[u] = task[u]
        /\ UNCHANGED <<pool, sid, proc>>
    BY <1>7 DEF Prompts, Steps, Others
  <2> QED BY <1>0, <2>1, <2>2 DEF TurnClients, Speaks
<1>8. CASE Branches
  <2>1. /\ fork.client \in Client /\ sid[fork.client] # None /\ sid'[fork.client] # None
        /\ \A l \in Client : l # fork.client => sid'[l] = sid[l]
        /\ UNCHANGED <<pool, proc, task>>
    <3>1. fork.client \in Client /\ sid[fork.client] # None /\ Len(home) \in Nat
      BY <1>8 DEF Branches, ForkShape, SessionTypes
    <3>2. Len(home) + 1 # None
      BY <3>1 DEF None
    <3> QED BY <1>8, <3>1, <3>2 DEF Branches, SessionTypes
  <2> QED BY <1>0, <1>p, <2>1 DEF TurnClients, Speaks
<1> QED BY <1>2, <1>3, <1>4, <1>5, <1>6, <1>7, <1>8 DEF SessionEffect

\* A conversation comes to a client by starting it.
LEMMA HasStep ==
  SessionTypes /\ SessionEffect =>
    \A c \in Conv, k \in Client :
      Has(c, k)' => Has(c, k) \/ \E t \in Task : Of(t) = c /\ Starts(t, k)
<1> SUFFICES ASSUME SessionTypes, SessionEffect, NEW c \in Conv, NEW k \in Client, Has(c, k)'
             PROVE  Has(c, k) \/ \E t \in Task : Of(t) = c /\ Starts(t, k)
    OBVIOUS
<1> USE NoneApart DEF rowVars, procVars, histVars
<1>0. /\ pool \in [Conv -> Client \cup {None}] /\ \A t \in Task : Of(t) \in Conv
      /\ k # None
  BY DEF SessionTypes, TaskRec, Of
\* A step that changes at most one task, to one that has no client.
<1>1. ASSUME \A d \in Conv : pool'[d] \in {None, pool[d]},
             \A u \in Task : task'[u] = task[u] \/ task'[u].pc \in {"idle", "get", "spawn"}
      PROVE Has(c, k)
  BY <1>0, <1>1 DEF Has, Speaks, Of
<1>2. CASE Beside
  BY <1>0, <1>1, <1>2 DEF Beside
<1>3. ASSUME NEW d \in Conv, LetsGo(d) PROVE Has(c, k)
  <2>1. \A u \in Task : task'[u] = task[u] \/ task'[u].pc \in {"idle", "get", "spawn"}
    BY <1>3, IdleFields DEF LetsGo, Leaves, Steps, Others
  <2>2. \A e \in Conv : pool'[e] \in {None, pool[e]}
    BY <1>3 DEF LetsGo, SessionTypes
  <2> QED BY <1>1, <2>1, <2>2
<1>4. ASSUME NEW t \in Task, NEW d \in Conv, Begins(t, d) PROVE Has(c, k)
  <2>1. \A u \in Task : task'[u] = task[u] \/ task'[u].pc \in {"idle", "get", "spawn"}
    BY <1>4 DEF Begins, Others
  <2> QED BY <1>0, <1>1, <1>4, <2>1 DEF Begins
<1>5. ASSUME NEW t \in Task, NEW l \in Client, Starts(t, l)
      PROVE Has(c, k) \/ \E u \in Task : Of(u) = c /\ Starts(u, k)
  <2>1. /\ task'[t].conv = task[t].conv /\ task'[t].client = l
        /\ \A u \in Task : u # t => task'[u] = task[u]
        /\ UNCHANGED pool
    BY <1>5 DEF Starts, Steps, Others
  <2>2. CASE l = k /\ Of(t) = c
    BY <1>5, <2>2
  <2>3. CASE ~(l = k /\ Of(t) = c)
    BY <2>1, <2>3 DEF Has, Speaks, Of
  <2> QED BY <2>2, <2>3
<1>6. ASSUME NEW t \in Task, NEW s \in Nat, Enters(t, s) PROVE Has(c, k)
  <2>1. /\ task'[t].conv = task[t].conv /\ task'[t].client = task[t].client /\ Speaks(t)
        /\ \A u \in Task : u # t => task'[u] = task[u]
        /\ \A d \in Conv : pool'[d] = pool[d] \/ (d = Of(t) /\ pool'[d] = task[t].client)
    BY <1>0, <1>6 DEF Enters, Steps, Others, Speaks
  <2> QED BY <2>1 DEF Has, Speaks, Of
<1>7. ASSUME NEW t \in Task, NEW l \in Client \cup {None}, NEW p \in Nat, Prompts(t, l, p)
      PROVE Has(c, k)
  <2>1. /\ task'[t].conv = task[t].conv /\ task'[t].client = l
        /\ l = pool[Of(t)] \/ (Speaks(t) /\ l = task[t].client)
        /\ \A u \in Task : u # t => task'[u] = task[u]
        /\ UNCHANGED pool
    BY <1>7 DEF Prompts, Steps, Others, Speaks, Of
  <2> QED BY <2>1 DEF Has, Speaks, Of
<1>8. CASE Branches
  BY <1>0, <1>1, <1>8 DEF Branches
<1> QED BY <1>2, <1>3, <1>4, <1>5, <1>6, <1>7, <1>8 DEF SessionEffect

LEMMA ClientsApartKept ==
  SessionTypes /\ TurnClients /\ ClientsApart /\ SessionEffect => ClientsApart'
<1> SUFFICES ASSUME SessionTypes, TurnClients, ClientsApart, SessionEffect,
                    NEW c \in Conv, NEW d \in Conv, NEW k \in Client, Has(c, k)', Has(d, k)'
             PROVE  c = d
    BY DEF ClientsApart
<1>1. \A e \in Conv : Has(e, k) => proc[k] # "none"
  BY NoneApart DEF Has, TurnClients, Speaks, Of
<1>2. \A e \in Conv : Has(e, k)' => Has(e, k) \/ \E t \in Task : Of(t) = e /\ Starts(t, k)
  BY HasStep
<1>3. \A t, u \in Task : Starts(t, k) /\ Starts(u, k) => Of(t) = Of(u)
  BY DEF Starts, Steps, Others, Of
<1>4. \A t \in Task : Starts(t, k) => proc[k] = "none"
  BY DEF Starts
<1> QED BY <1>1, <1>2, <1>3, <1>4 DEF ClientsApart

LEMMA NoRowKept ==
  SessionTypes /\ TurnClients /\ ForkShape /\ NoRow /\ SessionEffect => NoRow'
<1> SUFFICES ASSUME SessionTypes, TurnClients, ForkShape, NoRow, SessionEffect,
                    NEW c \in Conv \ exists'
             PROVE  /\ stored'[c] = None /\ pool'[c] = None /\ latest'[c] = None
                    /\ prompted'[c] = {}
                    /\ \A t \in Task : task'[t].conv = c => task'[t].pc = "idle"
    BY DEF NoRow, Of, Busy
<1> USE NoneApart DEF rowVars, procVars, histVars
<1>0. \A t \in Task : Of(t) \in Conv
  BY DEF SessionTypes, TaskRec, Of
<1>x. exists \subseteq exists'
  BY DEF SessionEffect, Beside, ForkMoves, LetsGo, Begins, Starts, Enters, Prompts, Branches
<1>y. /\ stored[c] = None /\ pool[c] = None /\ latest[c] = None /\ prompted[c] = {}
      /\ \A t \in Task : task[t].conv = c => task[t].pc = "idle"
  BY <1>x DEF NoRow, Of, Busy
<1>1. CASE Beside
  BY <1>y, <1>1 DEF Beside
<1>2. ASSUME NEW d \in Conv, LetsGo(d)
      PROVE  /\ stored'[c] = None /\ pool'[c] = None /\ latest'[c] = None /\ prompted'[c] = {}
             /\ \A t \in Task : task'[t].conv = c => task'[t].pc = "idle"
  <2>1. \A u \in Task : task'[u] = task[u] \/ task'[u].pc = "idle"
                        \/ (task[u].pc # "idle" /\ task'[u].conv = task[u].conv)
    BY <1>2, IdleFields DEF LetsGo, Leaves, Steps, Others
  <2>2. pool'[c] = None
    BY <1>2, <1>y DEF LetsGo, SessionTypes
  <2> QED BY <1>2, <1>y, <2>1, <2>2 DEF LetsGo
<1>3. ASSUME NEW t \in Task, NEW d \in Conv, Begins(t, d)
      PROVE  /\ stored'[c] = None /\ pool'[c] = None /\ latest'[c] = None /\ prompted'[c] = {}
             /\ \A u \in Task : task'[u].conv = c => task'[u].pc = "idle"
  BY <1>3, <1>y DEF Begins, Others
<1>4. ASSUME NEW t \in Task, NEW k \in Client, Starts(t, k)
      PROVE  /\ stored'[c] = None /\ pool'[c] = None /\ latest'[c] = None /\ prompted'[c] = {}
             /\ \A u \in Task : task'[u].conv = c => task'[u].pc = "idle"
  BY <1>4, <1>y DEF Starts, Steps, Others
<1>5. ASSUME NEW t \in Task, NEW s \in Nat, Enters(t, s)
      PROVE  /\ stored'[c] = None /\ pool'[c] = None /\ latest'[c] = None /\ prompted'[c] = {}
             /\ \A u \in Task : task'[u].conv = c => task'[u].pc = "idle"
  <2>1. Of(t) # c
    BY <1>5, <1>y DEF Enters, Of
  <2>2. pool'[c] = pool[c]
    BY <1>0, <1>5, <2>1 DEF Enters, SessionTypes
  <2> QED BY <1>5, <1>y, <2>1, <2>2 DEF Enters, Steps, Others, Of
<1>6. ASSUME NEW t \in Task, NEW k \in Client \cup {None}, NEW p \in Nat, Prompts(t, k, p)
      PROVE  /\ stored'[c] = None /\ pool'[c] = None /\ latest'[c] = None /\ prompted'[c] = {}
             /\ \A u \in Task : task'[u].conv = c => task'[u].pc = "idle"
  <2>1. Of(t) # c
    BY <1>6, <1>y DEF Prompts, Of
  <2>2. stored'[c] = stored[c] /\ latest'[c] = latest[c] /\ prompted'[c] = prompted[c]
    BY <1>0, <1>6, <2>1 DEF Prompts, SessionTypes
  <2> QED BY <1>6, <1>y, <2>1, <2>2 DEF Prompts, Steps, Others, Of
<1>7. CASE Branches
  <2>1. stored'[c] = stored[c]
    BY <1>7 DEF Branches, SessionTypes
  <2> QED BY <1>7, <1>y, <2>1 DEF Branches
<1> QED BY <1>1, <1>2, <1>3, <1>4, <1>5, <1>6, <1>7 DEF SessionEffect

LEMMA HomeExtends ==
  SessionTypes /\ ForkShape /\ SessionEffect =>
    /\ Len(home) \in Nat /\ Len(home') \in Nat /\ Len(home) <= Len(home')
    /\ \A i \in 1..Len(home) : home'[i] = home[i]
<1> SUFFICES ASSUME SessionTypes, ForkShape, SessionEffect
             PROVE  /\ Len(home) \in Nat /\ Len(home') \in Nat /\ Len(home) <= Len(home')
                    /\ \A i \in 1..Len(home) : home'[i] = home[i]
    OBVIOUS
<1>1. home' = home \/ \E q \in Profile : home' = Append(home, q)
  <2>1. ASSUME NEW t \in Task, NEW s \in Nat, Enters(t, s)
        PROVE home' = home \/ \E q \in Profile : home' = Append(home, q)
    BY <2>1 DEF Enters, SessionTypes, TaskRec
  <2>2. Branches => \E q \in Profile : home' = Append(home, q)
    BY DEF Branches, SessionTypes, ForkShape
  <2> QED BY <2>1, <2>2 DEF SessionEffect, Beside, LetsGo, Begins, Starts, Prompts, procVars
<1>2. home \in Seq(Profile) /\ Len(home) \in Nat
  BY DEF SessionTypes
<1> QED BY <1>1, <1>2, HomeGrows

LEMMA WithinHomeKept ==
  SessionTypes /\ TurnClients /\ ForkShape /\ WithinHome /\ SessionEffect => WithinHome'
<1> SUFFICES ASSUME SessionTypes, TurnClients, ForkShape, WithinHome, SessionEffect
             PROVE  WithinHome'
    OBVIOUS
<1> DEFINE m == Len(home)
           n == Len(home')
<1> USE NoneApart DEF rowVars, procVars, histVars
<1>0. /\ m \in Nat /\ n \in Nat /\ m <= n
      /\ \A t \in Task : /\ Of(t) \in Conv /\ task[t].read \in Nat /\ task[t].polled \in Nat
      /\ \A c \in Conv : stored[c] \in Nat /\ latest[c] \in Nat
      /\ \A k \in Client : sid[k] \in Nat
  BY HomeExtends DEF SessionTypes, TaskRec, Of
<1>w. /\ \A c \in Conv : stored[c] <= m /\ latest[c] <= m
      /\ \A c \in Conv : \A s \in prompted[c] : s \in 1..m
      /\ \A k \in Client : sid[k] <= m
      /\ \A t \in Task : task[t].read <= m /\ task[t].polled <= m
      /\ \A s \in branched \cup unresumed : s \in 1..m
  BY DEF WithinHome
<1> SUFFICES /\ \A c \in Conv : stored'[c] <= n /\ latest'[c] <= n
             /\ \A c \in Conv : \A s \in prompted'[c] : s \in 1..n
             /\ \A k \in Client : sid'[k] <= n
             /\ \A t \in Task : task'[t].read <= n /\ task'[t].polled <= n
             /\ \A s \in branched' \cup unresumed' : s \in 1..n
  BY DEF WithinHome
<1> HIDE DEF m, n
<1>z. \A i : (i \in Nat /\ i <= m) => i <= n
  BY <1>0
<1>v. \A i \in 1..m : i \in 1..n
  BY <1>0
<1>1. CASE Beside
  BY <1>0, <1>w, <1>z, <1>v, <1>1 DEF Beside
<1>2. ASSUME NEW c \in Conv, LetsGo(c)
      PROVE  \A t \in Task : task'[t].read <= n /\ task'[t].polled <= n
  BY <1>0, <1>w, <1>2, <1>z, IdleFields DEF LetsGo, Leaves, Steps, Others, None
<1>3. ASSUME NEW t \in Task, NEW c \in Conv, Begins(t, c)
      PROVE  \A u \in Task : task'[u].read <= n /\ task'[u].polled <= n
  <2>1. task'[t].read = stored[c] /\ task'[t].polled = 0
    BY <1>3 DEF Begins, None
  <2> QED BY <1>0, <1>w, <1>z, <1>3, <2>1 DEF Begins, Others
<1>4. ASSUME NEW t \in Task, NEW k \in Client, Starts(t, k)
      PROVE  \A u \in Task : task'[u].read <= n /\ task'[u].polled <= n
  BY <1>0, <1>w, <1>z, <1>4 DEF Starts, Steps, Others
<1>5. ASSUME NEW t \in Task, NEW s \in Nat, Enters(t, s)
      PROVE  /\ \A u \in Task : task'[u].read <= n /\ task'[u].polled <= n
             /\ \A k \in Client : sid'[k] <= n
             /\ \A r \in unresumed' : r \in 1..n
  <2>1. s <= n
    <3>1. home \in Seq(Profile) /\ task[t].profile \in Profile
      BY DEF SessionTypes, TaskRec
    <3>2. CASE s = task[t].read
      BY <1>0, <1>w, <1>z, <3>2
    <3>3. CASE s = m + 1 /\ home' = Append(home, task[t].profile)
      BY <1>0, <3>1, <3>3, HomeGrows DEF m, n
    <3> QED BY <1>5, <3>2, <3>3 DEF Enters, m
  <2>2. \A k \in Client : sid'[k] = sid[k] \/ sid'[k] = s
    BY <1>5 DEF Enters, SessionTypes
  <2>3. \A u \in Task : task'[u].read = task[u].read /\ task'[u].polled \in {task[u].polled, s}
    BY <1>5 DEF Enters, Steps, Others
  <2>4. \A r \in unresumed' : r \in unresumed \/ (r = task[t].read /\ r # None)
    BY <1>5 DEF Enters, Resumable
  <2>5. \A r \in unresumed' : r \in 1..m
    BY <1>0, <1>w, <2>4 DEF None
  <2> QED BY <1>0, <1>w, <1>z, <1>v, <2>1, <2>2, <2>3, <2>5
<1>6. ASSUME NEW t \in Task, NEW k \in Client \cup {None}, NEW p \in Nat, Prompts(t, k, p)
      PROVE  /\ \A c \in Conv : stored'[c] <= n /\ latest'[c] <= n
             /\ \A c \in Conv : \A s \in prompted'[c] : s \in 1..n
             /\ \A u \in Task : task'[u].read <= n /\ task'[u].polled <= n
  <2>1. k \in Client /\ sid[k] # None /\ p \in {task[t].read, task[t].polled}
    BY <1>0, <1>6 DEF Prompts, TurnClients
  <2>2. \A c \in Conv : stored'[c] \in {stored[c], p} /\ latest'[c] \in {latest[c], sid[k]}
    BY <1>6 DEF Prompts, SessionTypes
  <2>3. \A c \in Conv : \A s \in prompted'[c] : s \in prompted[c] \/ s = sid[k]
    BY <1>6 DEF Prompts, SessionTypes
  <2>4. \A u \in Task : task'[u].read = task[u].read /\ task'[u].polled \in {task[u].polled, p}
    BY <1>6 DEF Prompts, Steps, Others
  <2>5. sid[k] \in 1..m
    <3>1. sid[k] \in Nat /\ sid[k] <= m /\ m \in Nat
      BY <1>0, <1>w, <2>1
    <3>2. sid[k] # 0
      BY <2>1 DEF None
    <3> QED BY <3>1, <3>2
  <2> QED BY <1>0, <1>w, <1>z, <1>v, <2>1, <2>2, <2>3, <2>4, <2>5
<1>7. ASSUME Branches
      PROVE  /\ \A c \in Conv : stored'[c] <= n
             /\ \A k \in Client : sid'[k] <= n
             /\ \A s \in branched' : s \in 1..n
  <2>1. n = m + 1
    <3>1. home \in Seq(Profile) /\ profile[fork.client] \in Profile
      BY <1>7 DEF Branches, SessionTypes, ForkShape
    <3> QED BY <1>7, <3>1, HomeGrows DEF Branches, m, n
  <2>2. /\ \A c \in Conv : stored'[c] \in {stored[c], m + 1}
        /\ \A k \in Client : sid'[k] \in {sid[k], m + 1}
        /\ branched' = branched \cup {m + 1}
    BY <1>7 DEF Branches, SessionTypes, m
  <2> QED BY <1>0, <1>w, <2>1, <2>2
<1> QED
  <2>1. \A i \in branched \cup unresumed : i \in 1..n
    BY <1>v, <1>w
  <2>2. \A c \in Conv : stored[c] <= n /\ latest[c] <= n
    BY <1>0, <1>w, <1>z
  <2>3. \A k \in Client : sid[k] <= n
    BY <1>0, <1>w, <1>z
  <2>4. \A c \in Conv : \A s \in prompted[c] : s \in 1..n
    BY <1>v, <1>w
  <2>5. \A t \in Task : task[t].read <= n /\ task[t].polled <= n
    BY <1>0, <1>w, <1>z
  <2>6. ASSUME NEW c \in Conv, LetsGo(c)
        PROVE UNCHANGED <<stored, latest, prompted, sid, branched, unresumed>>
    BY <2>6 DEF LetsGo
  <2>7. ASSUME NEW t \in Task, NEW c \in Conv, Begins(t, c)
        PROVE UNCHANGED <<stored, latest, prompted, sid, branched, unresumed>>
    BY <2>7 DEF Begins
  <2>8. ASSUME NEW t \in Task, NEW k \in Client, Starts(t, k)
        PROVE UNCHANGED <<stored, latest, prompted, sid, branched, unresumed>>
    BY <2>8 DEF Starts
  <2>9. ASSUME NEW t \in Task, NEW s \in Nat, Enters(t, s)
        PROVE UNCHANGED <<stored, latest, prompted, branched>>
    BY <2>9 DEF Enters
  <2>10. ASSUME NEW t \in Task, NEW k \in Client \cup {None}, NEW p \in Nat, Prompts(t, k, p)
         PROVE UNCHANGED <<sid, branched, unresumed>>
    BY <2>10 DEF Prompts
  <2>11. Branches => UNCHANGED <<task, prompted, latest, unresumed>>
    BY DEF Branches
  <2> QED
    BY <1>1, <1>2, <1>3, <1>4, <1>5, <1>6, <1>7, <2>1, <2>2, <2>3, <2>4, <2>5, <2>6, <2>7,
       <2>8, <2>9, <2>10, <2>11 DEF SessionEffect

-----------------------------------------------------------------------------
(* Sessions apart. *)

Touches(c, s) ==
  \/ s = stored[c] \/ s \in prompted[c]
  \/ \E t \in Task : Busy(t) /\ Of(t) = c /\ s \in {task[t].read, task[t].polled}
  \/ \E k \in Client : Has(c, k) /\ s = sid[k]

TouchedApart ==
  \A c, d \in Conv : c # d =>
    \A s \in 1..Len(home) : Touches(c, s) /\ Touches(d, s) => s \in branched

\* A conversation touches a session for the first time when the session is made.
LEMMA TouchStep ==
  SessionTypes /\ TurnClients /\ ForkShape /\ SessionEffect =>
    \A c \in Conv, s \in Nat \ {None} :
      Touches(c, s)' =>
        \/ Touches(c, s) \/ s \in branched'
        \/ s = Len(home) + 1 /\ \E t \in Task : Of(t) = c /\ Enters(t, s)
<1> SUFFICES ASSUME SessionTypes, TurnClients, ForkShape, SessionEffect,
                    NEW c \in Conv, NEW s \in Nat, s # None, Touches(c, s)'
             PROVE  \/ Touches(c, s) \/ s \in branched'
                    \/ s = Len(home) + 1 /\ \E t \in Task : Of(t) = c /\ Enters(t, s)
    OBVIOUS
<1> USE NoneApart DEF rowVars, procVars, histVars
<1>0. \A t \in Task : Of(t) \in Conv
  BY DEF SessionTypes, TaskRec, Of
<1>h. \A k \in Client : Has(c, k)' => Has(c, k) \/ \E t \in Task : Of(t) = c /\ Starts(t, k)
  BY HasStep
<1>1. ASSUME stored'[c] = s PROVE stored[c] = s \/ s \in branched' \/ Touches(c, s)
  <2>1. ASSUME NEW t \in Task, NEW k \in Client \cup {None}, NEW p \in Nat, Prompts(t, k, p)
        PROVE stored[c] = s \/ Touches(c, s)
    <3>1. \/ stored'[c] = stored[c]
          \/ task[t].pc = "save" /\ Of(t) = c /\ stored'[c] = task[t].polled
      BY <2>1 DEF Prompts, SessionTypes
    <3> QED BY <1>1, <3>1 DEF Touches, Busy
  <2>2. ASSUME Branches PROVE stored[c] = s \/ s \in branched'
    BY <1>1, <2>2 DEF Branches, SessionTypes
  <2> QED BY <1>1, <2>1, <2>2 DEF SessionEffect, Beside, LetsGo, Begins, Starts, Enters
<1>2. ASSUME s \in prompted'[c] PROVE Touches(c, s)
  <2>1. ASSUME NEW t \in Task, NEW k \in Client \cup {None}, NEW p \in Nat, Prompts(t, k, p)
        PROVE Touches(c, s)
    <3>1. k \in Client /\ Has(Of(t), k)
      BY <1>0, <2>1 DEF Prompts, Has, Speaks
    <3>2. s \in prompted[c] \/ (Of(t) = c /\ s = sid[k])
      BY <1>2, <2>1 DEF Prompts, SessionTypes
    <3> QED BY <3>1, <3>2 DEF Touches
  <2> QED BY <1>2, <2>1 DEF SessionEffect, Beside, LetsGo, Begins, Starts, Enters, Branches, Touches
<1>3. ASSUME NEW t \in Task, task'[t].pc # "idle", task'[t].conv = c,
             s \in {task'[t].read, task'[t].polled}
      PROVE  \/ Touches(c, s)
             \/ s = Len(home) + 1 /\ \E u \in Task : Of(u) = c /\ Enters(u, s)
  <2>1. CASE task'[t] = task[t]
    BY <1>3, <2>1 DEF Touches, Of, Busy
  <2>2. ASSUME NEW d \in Conv, LetsGo(d), task'[t] # task[t] PROVE Touches(c, s)
    <3>1. /\ task[t].pc = "get" /\ task[t].conv = c
          /\ task'[t].read = task[t].read /\ task'[t].polled = task[t].polled
      BY <1>3, <2>2, IdleFields DEF LetsGo, Leaves, Steps, Others
    <3> QED BY <1>3, <3>1 DEF Touches, Of, Busy
  <2>3. ASSUME NEW u \in Task, NEW d \in Conv, Begins(u, d), task'[t] # task[t]
        PROVE Touches(c, s)
    <3>1. d = c /\ task'[t].read = stored[c] /\ task'[t].polled = None
      BY <1>3, <2>3 DEF Begins, Others
    <3> QED BY <1>3, <3>1 DEF Touches
  <2>4. ASSUME NEW u \in Task, NEW k \in Client, Starts(u, k), task'[t] # task[t]
        PROVE Touches(c, s)
    <3>1. /\ task[t].pc = "spawn" /\ task[t].conv = c
          /\ task'[t].read = task[t].read /\ task'[t].polled = task[t].polled
      BY <1>3, <2>4 DEF Starts, Steps, Others
    <3> QED BY <1>3, <3>1 DEF Touches, Of, Busy
  <2>5. ASSUME NEW u \in Task, NEW r \in Nat, Enters(u, r), task'[t] # task[t]
        PROVE  \/ Touches(c, s)
               \/ s = Len(home) + 1 /\ \E v \in Task : Of(v) = c /\ Enters(v, s)
    <3>1. /\ u = t /\ task[t].pc = "session" /\ task[t].conv = c
          /\ task'[t].read = task[t].read /\ task'[t].polled = r
      BY <1>3, <2>5 DEF Enters, Steps, Others
    <3>2. r = task[t].read \/ r = Len(home) + 1
      BY <2>5, <3>1 DEF Enters
    <3> QED BY <1>3, <2>5, <3>1, <3>2 DEF Touches, Of, Busy
  <2>6. ASSUME NEW u \in Task, NEW k \in Client \cup {None}, NEW p \in Nat, Prompts(u, k, p),
               task'[t] # task[t]
        PROVE Touches(c, s)
    <3>1. /\ u = t /\ task[t].pc \in {"get", "save"} /\ task[t].conv = c
          /\ task'[t].read = task[t].read /\ task'[t].polled = p
          /\ p \in {task[t].read, task[t].polled}
      BY <1>3, <2>6 DEF Prompts, Steps, Others
    <3> QED BY <1>3, <3>1 DEF Touches, Of, Busy
  <2>7. Beside \/ Branches => task'[t] = task[t]
    BY DEF Beside, Branches
  <2> QED BY <2>1, <2>2, <2>3, <2>4, <2>5, <2>6, <2>7 DEF SessionEffect
<1>4. ASSUME NEW k \in Client, Has(c, k)', s = sid'[k]
      PROVE  \/ Touches(c, s) \/ s \in branched'
             \/ s = Len(home) + 1 /\ \E t \in Task : Of(t) = c /\ Enters(t, s)
  <2>1. ASSUME sid'[k] = sid[k] PROVE Touches(c, s)
    <3>1. ASSUME NEW t \in Task, Starts(t, k) PROVE FALSE
      BY <1>4, <2>1, <3>1 DEF Starts, TurnClients
    <3> QED BY <1>4, <1>h, <2>1, <3>1 DEF Touches
  <2>2. ASSUME NEW t \in Task, NEW r \in Nat, Enters(t, r), sid'[k] # sid[k]
        PROVE  \/ Touches(c, s)
               \/ s = Len(home) + 1 /\ \E u \in Task : Of(u) = c /\ Enters(u, s)
    <3>1. k = task[t].client /\ s = r /\ task[t].pc = "session" /\ Speaks(t)
      BY <1>4, <2>2 DEF Enters, SessionTypes, Speaks
    <3>2. Has(c, k)
      BY <1>4, <1>h, <2>2 DEF Starts
    <3>3. Of(t) = c
      BY <3>1, <3>2 DEF Has, TurnClients
    <3>4. r = task[t].read \/ r = Len(home) + 1
      BY <2>2 DEF Enters
    <3> QED BY <2>2, <3>1, <3>3, <3>4 DEF Touches, Busy
  <2>3. ASSUME Branches, sid'[k] # sid[k] PROVE s \in branched'
    BY <1>4, <2>3 DEF Branches, SessionTypes
  <2> QED BY <2>1, <2>2, <2>3 DEF SessionEffect, Beside, LetsGo, Begins, Starts, Prompts
<1> QED BY <1>1, <1>2, <1>3, <1>4 DEF Touches, Busy, Of

LEMMA TouchedApartKept ==
  /\ SessionTypes /\ TurnClients /\ ForkShape /\ WithinHome /\ ClientsApart /\ TouchedApart
  /\ SessionEffect
  => TouchedApart'
<1> SUFFICES ASSUME SessionTypes, TurnClients, ForkShape, WithinHome, ClientsApart,
                    TouchedApart, SessionEffect, NEW c \in Conv, NEW d \in Conv, c # d,
                    NEW s \in 1..Len(home'), Touches(c, s)', Touches(d, s)'
             PROVE  s \in branched'
    BY DEF TouchedApart
<1>0. /\ Len(home) \in Nat /\ Len(home') \in Nat /\ s \in Nat /\ s # None
      /\ branched \subseteq branched'
  <2>1. branched \subseteq branched'
    BY DEF SessionEffect, Beside, LetsGo, Begins, Starts, Enters, Prompts, Branches, histVars
  <2> QED BY <2>1, HomeExtends DEF None
<1>1. \A e \in Conv : Touches(e, s)' =>
        \/ Touches(e, s) \/ s \in branched'
        \/ s = Len(home) + 1 /\ \E t \in Task : Of(t) = e /\ Enters(t, s)
  BY <1>0, TouchStep
<1>2. \A e \in Conv : Touches(e, s) => s <= Len(home)
  BY <1>0 DEF Touches, WithinHome
<1>3. \A t, u \in Task : Enters(t, s) /\ Enters(u, s) => Of(t) = Of(u)
  BY DEF Enters, Steps, Others, Of
<1>4. CASE s <= Len(home)
  <2>1. s \in branched' \/ (Touches(c, s) /\ Touches(d, s))
    BY <1>0, <1>1, <1>4
  <2> QED BY <1>0, <1>4, <2>1 DEF TouchedApart
<1>5. CASE ~(s <= Len(home))
  <2>1. \/ s \in branched'
        \/ /\ \E t \in Task : Of(t) = c /\ Enters(t, s)
           /\ \E t \in Task : Of(t) = d /\ Enters(t, s)
    BY <1>0, <1>1, <1>2, <1>5
  <2> QED BY <1>3, <2>1
<1> QED BY <1>4, <1>5

-----------------------------------------------------------------------------
(* What a conversation without overlapping turns remembers. *)

Alone == \A t, u \in Task :
  (Busy(t) /\ Busy(u) /\ Of(t) = Of(u) /\ Of(t) \notin overlapped) => t = u

Saving(c) == \E t \in Task : Of(t) = c /\ task[t].pc = "save"

\* Up to forks, the client, the turn and the row agree on the session.
TurnRemembers(t) ==
  /\ task[t].pc \in {"get", "spawn", "session", "save"} => task[t].read = stored[Of(t)]
  /\ task[t].pc \in {"spawn", "session"} => pool[Of(t)] = None
  /\ task[t].pc = "save" => pool[Of(t)] \in {None, task[t].client}
  /\ task[t].pc \in {"save", "prompt"} =>
       sid[task[t].client] \in {task[t].polled} \cup branched

Remembers(c) ==
  /\ \A t \in Task : Of(t) = c => TurnRemembers(t)
  /\ pool[c] # None /\ ~Saving(c) => sid[pool[c]] \in {stored[c]} \cup branched
  /\ latest[c] \in {None, stored[c]} \cup branched
  /\ overwritten[c] = {}

Remembered == \A c \in Conv \ overlapped : Remembers(c)

LEMMA AloneKept == SessionTypes /\ Alone /\ SessionEffect => Alone'
<1> SUFFICES ASSUME SessionTypes, Alone, SessionEffect, NEW t \in Task, NEW u \in Task,
                    Busy(t)', Busy(u)', task'[t].conv = task'[u].conv,
                    task'[t].conv \notin overlapped'
             PROVE  t = u
    BY DEF Alone, Of
<1> USE DEF histVars, Of, Busy
<1>1. ASSUME \A v \in Task : task'[v].pc # "idle" => task[v].pc # "idle" /\ task'[v].conv = task[v].conv,
             overlapped' = overlapped
      PROVE t = u
  BY <1>1 DEF Alone
<1>2. ASSUME NEW c \in Conv, LetsGo(c) PROVE t = u
  BY <1>1, <1>2, IdleFields DEF LetsGo, Leaves, Steps, Others
<1>3. ASSUME NEW v \in Task, NEW c \in Conv, Begins(v, c) PROVE t = u
  <2>1. /\ task'[v].conv = c /\ overlapped \subseteq overlapped'
        /\ \A w \in Task : w # v => task'[w] = task[w]
    BY <1>3 DEF Begins, Others
  <2>2. CASE t = v \/ u = v
    BY <1>3, <2>1, <2>2 DEF Begins
  <2>3. CASE t # v /\ u # v
    BY <2>1, <2>3 DEF Alone
  <2> QED BY <2>2, <2>3
<1>4. ASSUME NEW v \in Task, NEW k \in Client, Starts(v, k) PROVE t = u
  BY <1>1, <1>4 DEF Starts, Steps, Others
<1>5. ASSUME NEW v \in Task, NEW s \in Nat, Enters(v, s) PROVE t = u
  BY <1>1, <1>5 DEF Enters, Steps, Others
<1>6. ASSUME NEW v \in Task, NEW k \in Client \cup {None}, NEW p \in Nat, Prompts(v, k, p)
      PROVE t = u
  BY <1>1, <1>6 DEF Prompts, Steps, Others
<1>7. ASSUME Beside \/ Branches PROVE t = u
  BY <1>1, <1>7 DEF Beside, Branches
<1> QED BY <1>2, <1>3, <1>4, <1>5, <1>6, <1>7 DEF SessionEffect

\* A step of another conversation disturbs none of it.
LEMMA RememberedElsewhere ==
  ASSUME SessionTypes, NEW c \in Conv, Remembers(c), branched \subseteq branched',
         \A t \in Task : (task[t].conv = c /\ task[t].pc # "idle")
                         \/ (task'[t].conv = c /\ task'[t].pc # "idle") => task'[t] = task[t],
         \A k \in Client : Has(c, k) => sid'[k] = sid[k] \/ sid'[k] \in branched',
         pool'[c] = pool[c], stored'[c] = stored[c], latest'[c] = latest[c],
         overwritten'[c] = overwritten[c]
  PROVE  Remembers(c)'
<1> USE NoneApart DEF Of
<1>1. \A t \in Task : Of(t) = c /\ Speaks(t) =>
        /\ task[t].client \in Client
        /\ sid'[task[t].client] = sid[task[t].client] \/ sid'[task[t].client] \in branched'
  BY DEF Has, Speaks, SessionTypes
<1>2. ASSUME NEW t \in Task, task'[t].conv = c PROVE TurnRemembers(t)'
  <2>1. CASE task'[t].pc = "idle"
    BY <2>1 DEF TurnRemembers
  <2>2. CASE task'[t].pc # "idle"
    <3>1. task'[t] = task[t] /\ TurnRemembers(t)
      BY <1>2, <2>2 DEF Remembers
    <3> QED BY <1>1, <1>2, <3>1 DEF TurnRemembers, Speaks
  <2> QED BY <2>1, <2>2
<1>3. Saving(c)' <=> Saving(c)
  BY DEF Saving
<1>4. pool'[c] # None /\ ~Saving(c)' => sid'[pool'[c]] \in {stored'[c]} \cup branched'
  <2>1. pool[c] # None => /\ pool[c] \in Client
                          /\ sid'[pool[c]] = sid[pool[c]] \/ sid'[pool[c]] \in branched'
    BY DEF Has, SessionTypes
  <2> QED BY <1>3, <2>1 DEF Remembers
<1> QED BY <1>2, <1>3, <1>4 DEF Remembers

LEMMA RememberedKept ==
  /\ SessionTypes /\ TurnClients /\ ForkShape /\ NoRow /\ ClientsApart /\ Alone /\ Remembered
  /\ SessionEffect
  => Remembered'
<1> SUFFICES ASSUME SessionTypes, TurnClients, ForkShape, NoRow, ClientsApart, Alone, Remembered,
                    SessionEffect, NEW c \in Conv, c \notin overlapped'
             PROVE  Remembers(c)'
    BY DEF Remembered
<1> USE NoneApart DEF rowVars, procVars, histVars
<1>0. /\ overlapped \subseteq overlapped' /\ branched \subseteq branched'
      /\ \A t \in Task : Of(t) \in Conv /\ Of(t) = task[t].conv
  BY DEF SessionEffect, Beside, LetsGo, Begins, Starts, Enters, Prompts, Branches, SessionTypes,
     TaskRec, Of
<1>r. Remembers(c) /\ c \notin overlapped
  BY <1>0 DEF Remembered
<1>p. pool \in [Conv -> Client \cup {None}]
  BY DEF SessionTypes
\* The turn that steps is the only one of its conversation.
<1>a. \A t, u \in Task : (Busy(t) /\ Of(t) = c /\ u # t /\ Of(u) = c) => task[u].pc = "idle"
  BY <1>0, <1>r DEF Alone, Busy
<1>1. CASE Beside
  BY <1>0, <1>r, <1>1, RememberedElsewhere DEF Beside
<1>2. ASSUME NEW d \in Conv, LetsGo(d) PROVE Remembers(c)'
  <2>1. CASE d # c
    <3>1. \A t \in Task : (task[t].conv = c /\ task[t].pc # "idle")
                          \/ (task'[t].conv = c /\ task'[t].pc # "idle") => task'[t] = task[t]
      BY <1>0, <1>2, <2>1, IdleFields DEF LetsGo, Leaves, Steps, Others
    <3>2. pool'[c] = pool[c]
      BY <1>2, <1>p, <2>1 DEF LetsGo
    <3> QED BY <1>0, <1>r, <1>2, <3>1, <3>2, RememberedElsewhere DEF LetsGo
  <2>2. CASE d = c
    <3> USE DEF Of
    <3>0. /\ pool'[c] \in {None, pool[c]}
          /\ UNCHANGED <<stored, sid, latest, overwritten, branched>>
      BY <1>2, <1>p, <2>2 DEF LetsGo
    <3>1. CASE UNCHANGED task
      BY <1>r, <3>0, <3>1 DEF Remembers, TurnRemembers, Saving
    <3>2. ASSUME NEW t \in Task, Of(t) = c, Leaves(t), task[t].pc = "save" => pool'[c] = None
          PROVE Remembers(c)'
      <4>1. \A u \in Task : task'[u].conv = c => task'[u].pc = "idle"
        BY <1>a, <3>2, IdleFields DEF Leaves, Others, Busy
      <4>2. pool'[c] # None => ~Saving(c)
        BY <1>a, <3>2, <3>0 DEF Saving, Leaves, Busy
      <4> QED BY <1>r, <3>0, <4>1, <4>2 DEF Remembers, TurnRemembers
    <3>3. ASSUME NEW t \in Task, Of(t) = c, task[t].pc = "get", pool'[c] = None,
                 Steps(t, "spawn", task[t].client, task[t].polled)
          PROVE Remembers(c)'
      <4>1. \A u \in Task : (u # t /\ task'[u].conv = c) => task'[u].pc = "idle"
        BY <1>a, <3>3 DEF Steps, Others, Busy
      <4>2. task'[t].pc = "spawn" /\ task'[t].conv = c /\ task'[t].read = stored'[c]
        BY <1>r, <3>0, <3>3 DEF Steps, Remembers, TurnRemembers
      <4>3. \A u \in Task : task'[u].conv = c => TurnRemembers(u)'
        BY <3>3, <4>1, <4>2 DEF TurnRemembers
      <4> QED BY <1>r, <3>0, <3>3, <4>3 DEF Remembers
    <3> QED BY <1>2, <2>2, <3>1, <3>2, <3>3 DEF LetsGo
  <2> QED BY <2>1, <2>2
<1>3. ASSUME NEW t \in Task, NEW d \in Conv, Begins(t, d) PROVE Remembers(c)'
  <2>1. CASE d # c
    <3>1. \A u \in Task : (task[u].conv = c /\ task[u].pc # "idle")
                          \/ (task'[u].conv = c /\ task'[u].pc # "idle") => task'[u] = task[u]
      BY <1>3, <2>1 DEF Begins, Others
    <3> QED BY <1>0, <1>r, <1>3, <3>1, RememberedElsewhere DEF Begins
  <2>2. CASE d = c
    <3>1. /\ task[t].pc = "idle" /\ task'[t].pc = "get" /\ task'[t].read = stored[c]
          /\ task'[t].conv = c
          /\ UNCHANGED <<pool, stored, sid, latest, overwritten, branched>>
          /\ \A u \in Task : u # t => task'[u] = task[u]
      BY <1>3, <2>2 DEF Begins, Others
    <3>2. \A u \in Task : task'[u].conv = c => TurnRemembers(u)'
      BY <1>r, <3>1 DEF Remembers, TurnRemembers, Of
    <3>3. Saving(c) => Saving(c)'
      BY <3>1 DEF Saving, Of
    <3> QED BY <1>r, <3>1, <3>2, <3>3 DEF Remembers, Of
  <2> QED BY <2>1, <2>2
<1>4. ASSUME NEW t \in Task, NEW k \in Client, Starts(t, k) PROVE Remembers(c)'
  <2>1. CASE Of(t) # c
    <3>1. \A u \in Task : (task[u].conv = c /\ task[u].pc # "idle")
                          \/ (task'[u].conv = c /\ task'[u].pc # "idle") => task'[u] = task[u]
      BY <1>4, <2>1 DEF Starts, Steps, Others, Of
    <3> QED BY <1>0, <1>r, <1>4, <3>1, RememberedElsewhere DEF Starts
  <2>2. CASE Of(t) = c
    <3>1. /\ task[t].pc = "spawn" /\ task'[t].pc = "session" /\ task'[t].conv = c
          /\ task'[t].read = task[t].read
          /\ UNCHANGED <<pool, stored, sid, latest, overwritten, branched>>
          /\ \A u \in Task : u # t => task'[u] = task[u]
      BY <1>4, <2>2 DEF Starts, Steps, Others, Of
    <3>2. \A u \in Task : task'[u].conv = c => TurnRemembers(u)'
      BY <1>r, <2>2, <3>1 DEF Remembers, TurnRemembers, Of
    <3>3. pool'[c] = None
      BY <1>r, <2>2, <3>1 DEF Remembers, TurnRemembers
    <3> QED BY <1>r, <3>1, <3>2, <3>3 DEF Remembers, Of
  <2> QED BY <2>1, <2>2
<1>5. ASSUME NEW t \in Task, NEW s \in Nat, Enters(t, s) PROVE Remembers(c)'
  <2> DEFINE k == task[t].client
  <2>0. k \in Client /\ Has(Of(t), k) /\ Of(t) \in Conv
    BY <1>0, <1>5 DEF Enters, Has, Speaks, SessionTypes
  <2>1. CASE Of(t) # c
    <3>1. \A u \in Task : (task[u].conv = c /\ task[u].pc # "idle")
                          \/ (task'[u].conv = c /\ task'[u].pc # "idle") => task'[u] = task[u]
      BY <1>5, <2>1 DEF Enters, Steps, Others, Of
    <3>2. \A l \in Client : Has(c, l) => sid'[l] = sid[l]
      BY <1>5, <2>0, <2>1 DEF Enters, ClientsApart, SessionTypes
    <3>3. pool'[c] = pool[c] /\ overwritten'[c] = overwritten[c]
      BY <1>5, <2>1, <2>0 DEF Enters, SessionTypes
    <3> QED BY <1>0, <1>r, <1>5, <3>1, <3>2, <3>3, RememberedElsewhere DEF Enters
  <2>2. CASE Of(t) = c
    <3>1. /\ task[t].pc = "session" /\ task'[t].pc = "save" /\ task'[t].conv = c
          /\ task'[t].read = task[t].read /\ task'[t].client = k /\ task'[t].polled = s
          /\ UNCHANGED <<stored, latest, branched>>
          /\ \A u \in Task : u # t => task'[u] = task[u]
      BY <1>5, <2>2 DEF Enters, Steps, Others, Of
    <3>2. TurnRemembers(t) /\ overwritten[c] = {}
      BY <1>r, <2>2 DEF Remembers
    <3>3. pool[c] = None
      BY <2>2, <3>1, <3>2 DEF TurnRemembers
    <3>4. pool'[c] = k /\ sid'[k] = s /\ overwritten'[c] = {}
      BY <1>5, <2>0, <2>2, <3>2, <3>3 DEF Enters, SessionTypes
    <3>5. \A u \in Task : (u # t /\ task'[u].conv = c) => task'[u].pc = "idle"
      BY <1>a, <2>2, <3>1 DEF Of, Busy
    <3>6. TurnRemembers(t)'
      BY <2>2, <3>1, <3>2, <3>4 DEF TurnRemembers, Of
    <3>7. \A u \in Task : task'[u].conv = c => TurnRemembers(u)'
      BY <3>5, <3>6 DEF TurnRemembers
    <3>8. Saving(c)'
      BY <3>1 DEF Saving, Of
    <3>9. latest[c] \in {None, stored[c]} \cup branched
      BY <1>r DEF Remembers
    <3> QED BY <3>1, <3>4, <3>7, <3>8, <3>9 DEF Remembers, Of
  <2> QED BY <2>1, <2>2
<1>6. ASSUME NEW t \in Task, NEW k \in Client \cup {None}, NEW p \in Nat, Prompts(t, k, p)
      PROVE Remembers(c)'
  <2>1. CASE Of(t) # c
    <3>1. \A u \in Task : (task[u].conv = c /\ task[u].pc # "idle")
                          \/ (task'[u].conv = c /\ task'[u].pc # "idle") => task'[u] = task[u]
      BY <1>6, <2>1 DEF Prompts, Steps, Others, Of
    <3>2. stored'[c] = stored[c] /\ latest'[c] = latest[c]
      BY <1>6, <1>0, <2>1 DEF Prompts, SessionTypes
    <3> QED BY <1>0, <1>r, <1>6, <3>1, <3>2, RememberedElsewhere DEF Prompts
  <2>2. CASE Of(t) = c
    <3>1. /\ k \in Client /\ task'[t].pc = "prompt" /\ task'[t].conv = c
          /\ task'[t].client = k /\ task'[t].polled = p /\ latest'[c] = sid[k]
          /\ UNCHANGED <<pool, sid, overwritten, branched>>
          /\ \A u \in Task : u # t => task'[u] = task[u]
      BY <1>6, <2>2 DEF Prompts, Steps, Others, Of, SessionTypes
    <3>2. TurnRemembers(t) /\ overwritten[c] = {}
      BY <1>r, <2>2 DEF Remembers
    <3>3. sid[k] \in {p} \cup branched /\ stored'[c] = p /\ pool[c] \in {None, k}
      <4>1. CASE task[t].pc = "get"
        <5>1. k = pool[c] /\ p = task[t].read /\ UNCHANGED stored /\ task[t].read = stored[c]
          BY <1>6, <2>2, <3>2, <4>1 DEF Prompts, TurnRemembers
        <5>2. ~Saving(c)
          BY <1>a, <2>2, <4>1 DEF Saving, Busy
        <5> QED BY <1>r, <3>1, <5>1, <5>2 DEF Remembers
      <4>2. CASE task[t].pc = "save"
        <5>1. /\ k = task[t].client /\ p = task[t].polled /\ task[t].read = stored[c]
              /\ pool[c] \in {None, k} /\ sid[k] \in {p} \cup branched
          BY <1>6, <2>2, <3>2, <4>2 DEF Prompts, TurnRemembers
        <5>2. stored'[c] = p
          BY <1>6, <2>2, <4>2, <5>1 DEF Prompts, SessionTypes
        <5> QED BY <5>1, <5>2
      <4> QED BY <1>6, <4>1, <4>2 DEF Prompts
    <3>5. \A u \in Task : (u # t /\ task'[u].conv = c) => task'[u].pc = "idle"
      BY <1>a, <1>6, <2>2, <3>1 DEF Of, Busy, Prompts
    <3>7. \A u \in Task : task'[u].conv = c => TurnRemembers(u)'
      BY <3>1, <3>3, <3>5 DEF TurnRemembers, Of
    <3> QED BY <3>1, <3>2, <3>3, <3>7 DEF Remembers, Of
  <2> QED BY <2>1, <2>2
<1>7. CASE Branches
  <2>1. CASE fork.to = c
    <3>1. pool[c] = None /\ latest[c] = None /\ \A t \in Task : Of(t) = c => task[t].pc = "idle"
      BY <1>7, <2>1 DEF Branches, ForkShape, NoRow, Busy
    <3> QED BY <1>r, <1>7, <3>1 DEF Branches, Remembers, TurnRemembers, Of
  <2>2. CASE fork.to # c
    <3>1. stored'[c] = stored[c]
      BY <1>7, <2>2 DEF Branches, SessionTypes
    <3>2. \A k \in Client : sid'[k] = sid[k] \/ sid'[k] \in branched'
      BY <1>7 DEF Branches, SessionTypes
    <3> QED BY <1>0, <1>r, <1>7, <3>1, <3>2, RememberedElsewhere DEF Branches
  <2> QED BY <2>1, <2>2
<1> QED BY <1>1, <1>2, <1>3, <1>4, <1>5, <1>6, <1>7 DEF SessionEffect

\* A turn that got another session than the one it read had a reason.
NewForAReason ==
  \A t \in Task : task[t].pc = "save" =>
    /\ task[t].polled # None
    /\ \/ task[t].polled = task[t].read \/ task[t].read = None
       \/ home[task[t].polled] # home[task[t].read] \/ task[t].read \in unresumed

LEMMA NewForAReasonKept ==
  ASSUME CanResume, SessionTypes, TurnClients, ForkShape, WithinHome, NewForAReason, SessionEffect
  PROVE  NewForAReason'
<1> USE NoneApart DEF rowVars, procVars, histVars
<1>0. /\ \A i \in 1..Len(home) : home'[i] = home[i]
      /\ unresumed \subseteq unresumed' /\ Len(home) \in Nat
      /\ \A u \in Task : task[u].read \in Nat /\ task[u].polled \in Nat
  <2>1. unresumed \subseteq unresumed'
    BY DEF SessionEffect, Beside, LetsGo, Begins, Starts, Enters, Prompts, Branches
  <2> QED BY <2>1, HomeExtends DEF SessionTypes, TaskRec
<1> SUFFICES ASSUME NEW t \in Task, task'[t].pc = "save"
             PROVE  /\ task'[t].polled # None
                    /\ \/ task'[t].polled = task'[t].read \/ task'[t].read = None
                       \/ home'[task'[t].polled] # home'[task'[t].read]
                       \/ task'[t].read \in unresumed'
    BY DEF NewForAReason
<1>1. ASSUME task'[t] = task[t]
      PROVE  /\ task'[t].polled # None
             /\ \/ task'[t].polled = task'[t].read \/ task'[t].read = None
                \/ home'[task'[t].polled] # home'[task'[t].read]
                \/ task'[t].read \in unresumed'
  <2>1. task[t].polled \in 1..Len(home) /\ (task[t].read = None \/ task[t].read \in 1..Len(home))
    BY <1>0, <1>1 DEF WithinHome, NewForAReason, None
  <2> QED BY <1>0, <1>1, <2>1 DEF NewForAReason
<1>3. ASSUME NEW s \in Nat, Enters(t, s) PROVE task'[t].polled # None
  BY <1>0, <1>3 DEF Enters, Resumable, Steps, None
<1>2. ASSUME NEW s \in Nat, Enters(t, s), task'[t].polled # task'[t].read, task'[t].read # None
      PROVE  home'[task'[t].polled] # home'[task'[t].read] \/ task'[t].read \in unresumed'
  <2>1. /\ task'[t].read = task[t].read /\ task'[t].polled = s /\ task[t].profile \in Profile
        /\ home \in Seq(Profile)
    BY <1>2 DEF Enters, Steps, Others, SessionTypes, TaskRec
  <2>2. task[t].read \in 1..Len(home)
    BY <1>0, <1>2, <2>1 DEF WithinHome, None
  <2>3. s = Len(home) + 1 /\ home' = Append(home, task[t].profile)
    BY <1>2, <2>1 DEF Enters
  <2>4. home'[s] = task[t].profile
    BY <2>1, <2>3, HomeGrows
  <2>5. home[task[t].read] # task[t].profile \/ task[t].read \in unresumed'
    BY <1>2, <2>1, <2>2, <2>3 DEF Enters, Resumable
  <2> QED BY <1>0, <2>1, <2>2, <2>4, <2>5
<1>4. task'[t] = task[t] \/ \E s \in Nat : Enters(t, s)
  <2>1. ASSUME NEW u \in Task, NEW s \in Nat, Enters(u, s) PROVE task'[t] = task[t] \/ Enters(t, s)
    BY <2>1 DEF Enters, Steps, Others
  <2>2. ASSUME NEW c \in Conv, LetsGo(c) PROVE task'[t] = task[t]
    BY <2>2, IdleFields DEF LetsGo, Leaves, Steps, Others
  <2>3. ASSUME NEW u \in Task, NEW c \in Conv, Begins(u, c) PROVE task'[t] = task[t]
    BY <2>3 DEF Begins, Others
  <2>4. ASSUME NEW u \in Task, NEW k \in Client, Starts(u, k) PROVE task'[t] = task[t]
    BY <2>4 DEF Starts, Steps, Others
  <2>5. ASSUME NEW u \in Task, NEW k \in Client \cup {None}, NEW p \in Nat, Prompts(u, k, p)
        PROVE task'[t] = task[t]
    BY <2>5 DEF Prompts, Steps, Others
  <2> QED BY <2>1, <2>2, <2>3, <2>4, <2>5 DEF SessionEffect, Beside, Branches
<1> QED BY <1>1, <1>2, <1>3, <1>4

-----------------------------------------------------------------------------
(* No process lost. *)

LEMMA NoProcessLostKept ==
  SessionTypes /\ Remembered' /\ NoProcessLost /\ SessionEffect => NoProcessLost'
<1> SUFFICES ASSUME SessionTypes, Remembered', NoProcessLost, SessionEffect PROVE NoProcessLost'
    OBVIOUS
<1> USE NoneApart DEF rowVars, procVars, histVars
<1>0. \A t \in Task : Of(t) \in Conv
  BY DEF SessionTypes, TaskRec, Of
<1>1. \A c \in Conv : overwritten'[c] # {} => c \in overlapped'
  BY DEF Remembered, Remembers
<1> SUFFICES ASSUME NEW k \in Client, proc'[k] = "up"
             PROVE  \/ \E c \in Conv : pool'[c] = k \/ k \in overwritten'[c]
                    \/ \E t \in Task : task'[t].pc = "session" /\ task'[t].client = k
    BY <1>1 DEF NoProcessLost
<1>u. proc[k] = "up" => \/ \E c \in Conv : pool[c] = k \/ k \in overwritten[c]
                        \/ \E t \in Task : task[t].pc = "session" /\ task[t].client = k
  BY DEF NoProcessLost
<1>2. CASE Beside
  BY <1>u, <1>2 DEF Beside, ProcKeeps
<1>3. ASSUME NEW d \in Conv, LetsGo(d)
      PROVE  \/ \E c \in Conv : pool'[c] = k \/ k \in overwritten'[c]
             \/ \E t \in Task : task'[t].pc = "session" /\ task'[t].client = k
  <2>1. proc[k] = "up" /\ UNCHANGED overwritten
    BY <1>3 DEF LetsGo, ProcKeeps
  <2>2. \A c \in Conv : pool[c] = k => pool'[c] = k
    BY <1>3 DEF LetsGo, SessionTypes
  <2>3. \A t \in Task : task[t].pc = "session" /\ task[t].client = k => task'[t] = task[t]
    BY <1>3 DEF LetsGo, Leaves, Steps, Others
  <2> QED BY <1>u, <2>1, <2>2, <2>3
<1>4. ASSUME NEW u \in Task, NEW d \in Conv, Begins(u, d)
      PROVE  \/ \E c \in Conv : pool'[c] = k \/ k \in overwritten'[c]
             \/ \E t \in Task : task'[t].pc = "session" /\ task'[t].client = k
  BY <1>u, <1>4 DEF Begins, Others
<1>5. ASSUME NEW u \in Task, NEW l \in Client, Starts(u, l)
      PROVE  \/ \E c \in Conv : pool'[c] = k \/ k \in overwritten'[c]
             \/ \E t \in Task : task'[t].pc = "session" /\ task'[t].client = k
  <2>1. k = l \/ proc[k] = "up"
    BY <1>5 DEF Starts, SessionTypes
  <2>2. task'[u].pc = "session" /\ task'[u].client = l
    BY <1>5 DEF Starts, Steps
  <2>3. \A t \in Task : task[t].pc = "session" => task'[t] = task[t]
    BY <1>5 DEF Starts, Steps, Others
  <2> QED BY <1>u, <1>5, <2>1, <2>2, <2>3 DEF Starts
<1>6. ASSUME NEW u \in Task, NEW s \in Nat, Enters(u, s)
      PROVE  \/ \E c \in Conv : pool'[c] = k \/ k \in overwritten'[c]
             \/ \E t \in Task : task'[t].pc = "session" /\ task'[t].client = k
  <2>1. \A c \in Conv : pool[c] = k => pool'[c] = k \/ k \in overwritten'[c]
    BY <1>6 DEF Enters, SessionTypes
  <2>2. \A c \in Conv : k \in overwritten[c] => k \in overwritten'[c]
    BY <1>0, <1>6 DEF Enters, SessionTypes
  <2>3. pool'[Of(u)] = task[u].client
    BY <1>0, <1>6 DEF Enters, SessionTypes
  <2>4. \A t \in Task : t # u => task'[t] = task[t]
    BY <1>6 DEF Enters, Steps, Others
  <2> QED BY <1>0, <1>u, <1>6, <2>1, <2>2, <2>3, <2>4 DEF Enters
<1>7. ASSUME NEW u \in Task, NEW l \in Client \cup {None}, NEW p \in Nat, Prompts(u, l, p)
      PROVE  \/ \E c \in Conv : pool'[c] = k \/ k \in overwritten'[c]
             \/ \E t \in Task : task'[t].pc = "session" /\ task'[t].client = k
  <2>1. \A t \in Task : task[t].pc = "session" => task'[t] = task[t]
    BY <1>7 DEF Prompts, Steps, Others
  <2> QED BY <1>u, <1>7, <2>1 DEF Prompts
<1>8. CASE Branches
  BY <1>u, <1>8 DEF Branches
<1> QED BY <1>2, <1>3, <1>4, <1>5, <1>6, <1>7, <1>8 DEF SessionEffect

-----------------------------------------------------------------------------
(* How many sessions there are. *)

Speaking == {k \in Client : sid[k] # None}
HomeCounted ==
  Len(home) <= Cardinality(Speaking) + forks - (IF fork.pc = "none" THEN 0 ELSE 1)

LEMMA SpeakingFinite ==
  IsFiniteSet(Speaking) /\ Cardinality(Speaking) \in Nat /\ Cardinality(Speaking) <= MaxClients
<1>1. IsFiniteSet(Client) /\ Cardinality(Client) = MaxClients
  BY FS_Interval, BoundsType DEF Client
<1>2. Speaking \subseteq Client
  BY DEF Speaking
<1> QED BY <1>1, <1>2, FS_Subset, FS_CardinalityType

LEMMA HomeCountedKept ==
  SessionTypes /\ Marks /\ TurnClients /\ ForkShape /\ HomeCounted /\ SessionEffect
  => HomeCounted'
<1> SUFFICES ASSUME SessionTypes, Marks, TurnClients, ForkShape, HomeCounted, SessionEffect
             PROVE HomeCounted'
    OBVIOUS
<1> DEFINE C == Cardinality(Speaking)
<1> USE NoneApart, BoundsType DEF rowVars, procVars, histVars
<1>0. Len(home) \in Nat /\ C \in Nat /\ forks \in Nat
  BY SpeakingFinite DEF SessionTypes, Marks
<1>n. NoFork.pc = "none"
  BY DEF NoFork
<1>1. ASSUME UNCHANGED <<home, sid>>, UNCHANGED <<fork, forks>> \/ Beside PROVE HomeCounted'
  <2>1. Speaking' = Speaking
    BY <1>1 DEF Speaking
  <2>2. \/ UNCHANGED <<fork, forks>>
        \/ fork.pc = "none" /\ fork'.pc = "asked" /\ forks' = forks + 1
        \/ fork.pc = "asked" /\ fork'.pc = "forking" /\ UNCHANGED forks
        \/ fork.pc # "none" /\ fork'.pc = "none" /\ UNCHANGED forks
    <3>1. CASE UNCHANGED <<fork, forks>>
      BY <3>1
    <3>2. CASE Beside
      <4>1. fork.pc \in {"none", "asked", "forking"} /\ [fork EXCEPT !.pc = "forking",
              !.client = pool[fork.from]].pc = "forking"
        BY DEF ForkShape
      <4>2. ASSUME NEW c, NEW d, fork' = [pc |-> "asked", from |-> c, to |-> d, client |-> None]
            PROVE fork'.pc = "asked"
        BY <4>2
      <4>3. (fork' = [fork EXCEPT !.pc = "forking", !.client = pool[fork.from]])
            => fork'.pc = "forking"
        BY <4>1
      <4>4. ForkMoves
        BY <3>2 DEF Beside
      <4> QED BY <1>n, <4>2, <4>3, <4>4 DEF ForkMoves
    <3> QED BY <1>1, <3>1, <3>2
  <2> HIDE DEF C
  <2>3. C' = C
    BY <2>1 DEF C
  <2>4. Len(home) <= C + forks - (IF fork.pc = "none" THEN 0 ELSE 1) /\ home' = home
    BY <1>1 DEF HomeCounted, C
  <2>5. Len(home) <= C + forks' - (IF fork'.pc = "none" THEN 0 ELSE 1)
    BY <1>0, <2>2, <2>4
  <2> QED BY <2>3, <2>4, <2>5 DEF HomeCounted, C
<1>2. ASSUME NEW t \in Task, NEW s \in Nat, Enters(t, s) PROVE HomeCounted'
  <2> DEFINE k == task[t].client
  <2>1. k \in Client /\ sid[k] = None /\ task[t].profile \in Profile /\ home \in Seq(Profile)
    BY <1>2 DEF Enters, TurnClients, SessionTypes, TaskRec
  <2>2. s # None
    BY <1>0, <1>2 DEF Enters, Resumable, None
  <2>3. sid' = [sid EXCEPT ![k] = s]
    BY <1>2 DEF Enters
  <2>4. Speaking' = Speaking \cup {k} /\ k \notin Speaking
    BY <2>1, <2>2, <2>3 DEF Speaking, SessionTypes
  <2>5. Cardinality(Speaking') = C + 1
    BY <2>4, SpeakingFinite, FS_AddElement
  <2>6. Len(home') <= Len(home) + 1 /\ Len(home') \in Nat
    <3>1. home' = home \/ home' = Append(home, task[t].profile)
      BY <1>2 DEF Enters
    <3> QED BY <1>0, <2>1, <3>1, HomeGrows
  <2>7. UNCHANGED <<fork, forks>>
    BY <1>2 DEF Enters
  <2> HIDE DEF C
  <2>8. Len(home) <= C + forks - (IF fork.pc = "none" THEN 0 ELSE 1)
    BY DEF HomeCounted, C
  <2>9. Len(home') <= (C + 1) + forks - (IF fork.pc = "none" THEN 0 ELSE 1)
    BY <1>0, <2>6, <2>8
  <2> QED BY <2>5, <2>7, <2>9 DEF HomeCounted
<1>3. CASE Branches
  <2>1. /\ fork.client \in Client /\ sid[fork.client] # None /\ profile[fork.client] \in Profile
        /\ home \in Seq(Profile) /\ fork.pc # "none"
    BY <1>3 DEF Branches, ForkShape, SessionTypes
  <2>2. sid' = [sid EXCEPT ![fork.client] = Len(home) + 1] /\ Len(home) + 1 # None
    BY <1>0, <1>3 DEF Branches, None
  <2>3. Speaking' = Speaking
    BY <2>1, <2>2 DEF Speaking, SessionTypes
  <2>4. Len(home') = Len(home) + 1
    BY <1>3, <2>1, HomeGrows DEF Branches
  <2>5. fork'.pc = "none" /\ forks' = forks
    BY <1>3, <1>n DEF Branches
  <2> HIDE DEF C
  <2>6. C' = C
    BY <2>3 DEF C
  <2>7. Len(home) <= C + forks - 1
    BY <2>1 DEF HomeCounted, C
  <2>8. Len(home') <= C + forks
    BY <1>0, <2>4, <2>7
  <2>9. Len(home') <= C' + forks' - 0
    BY <1>0, <2>5, <2>6, <2>8
  <2> QED BY <2>5, <2>9 DEF HomeCounted, C
<1> QED BY <1>1, <1>2, <1>3 DEF SessionEffect, Beside, LetsGo, Begins, Starts, Prompts

-----------------------------------------------------------------------------
(* The invariant, and what follows. *)

SInv ==
  /\ SessionTypes /\ Marks /\ ForkShape /\ TurnClients /\ ClientsApart /\ NoRow /\ WithinHome
  /\ TouchedApart /\ Alone /\ Remembered /\ HomeCounted /\ NoProcessLost

LEMMA SessionsInit == Init => SInv
<1> SUFFICES ASSUME Init PROVE SInv
    OBVIOUS
<1> USE NoneApart, IdleFields, BoundsType DEF Init
<1>1. SessionTypes
  <2>1. <<>> \in Seq(Profile)
    OBVIOUS
  <2>2. task \in [Task -> TaskRec] /\ \A t \in Task : task[t].pc = "idle"
    BY IdleIsTask
  <2> QED BY <2>1, <2>2 DEF SessionTypes
<1>2. Marks
  BY DEF Marks
<1>3. ForkShape
  BY DEF ForkShape, NoFork
<1>4. \A t \in Task : task[t] = Idle /\ ~Busy(t) /\ ~Speaks(t)
  BY DEF Busy, Speaks
<1>5. TurnClients /\ Alone
  BY <1>4 DEF TurnClients, Alone, Busy, Speaks
<1>6. \A c \in Conv, k \in Client : ~Has(c, k)
  BY <1>4 DEF Has
<1>7. ClientsApart /\ NoRow
  BY <1>4, <1>6 DEF ClientsApart, NoRow
<1>8. WithinHome
  BY <1>4 DEF WithinHome, None
<1>9. TouchedApart
  BY DEF TouchedApart
<1>10. Remembered
  <2>1. \A t \in Task : TurnRemembers(t)
    <3>1. \A t \in Task : task[t].pc = "idle"
      BY <1>4
    <3> QED BY <3>1 DEF TurnRemembers
  <2>2. \A c \in Conv : pool[c] = None /\ latest[c] = None /\ overwritten[c] = {}
    OBVIOUS
  <2> HIDE DEF Init
  <2> QED BY <2>1, <2>2 DEF Remembered, Remembers
<1>11. HomeCounted
  BY SpeakingFinite DEF HomeCounted, NoFork
<1>12. NoProcessLost
  BY DEF NoProcessLost
<1> QED BY <1>1, <1>2, <1>3, <1>5, <1>7, <1>8, <1>9, <1>10, <1>11, <1>12 DEF SInv

LEMMA SessionsStep == SInv /\ [Next]_vars => SInv'
<1> SUFFICES ASSUME SInv, [Next]_vars PROVE SInv'
    OBVIOUS
<1>1. SessionEffect
  BY SessionEffects DEF SInv
<1>2. Remembered'
  BY <1>1, RememberedKept DEF SInv
<1> QED
  BY <1>1, <1>2, TypesKept, MarksKept, ForkShapeKept, TurnClientsKept, ClientsApartKept,
     NoRowKept, WithinHomeKept, TouchedApartKept, AloneKept, HomeCountedKept,
     NoProcessLostKept DEF SInv

LEMMA SessionsInvariant == Spec => []SInv
BY SessionsInit, SessionsStep, PTL DEF Spec

\* A running agent subprocess is never forgotten (SessionPool.get, drop, evict_idle;
\* handle_single), for any conversations, profiles, concurrency and failures: it stays in
\* the pool, or enters it next, or it was overwritten there by another get of the same
\* conversation, for which two turns of that conversation must have overlapped.
THEOREM NoProcessLostHolds == Spec => []NoProcessLost
BY SessionsInvariant, PTL DEF SInv

LEMMA SessionsTyped == SInv => TypeOK
<1> SUFFICES ASSUME SInv PROVE TypeOK
    OBVIOUS
<1> USE DEF SInv
<1> DEFINE m == Len(home)
<1>1. m \in Nat /\ m <= MaxClients + MaxForks /\ MaxClients \in Nat /\ MaxForks \in Nat
  <2>1. /\ m <= Cardinality(Speaking) + forks - (IF fork.pc = "none" THEN 0 ELSE 1)
        /\ m \in Nat /\ forks \in 0..MaxForks
    BY DEF HomeCounted, SessionTypes, Marks
  <2> HIDE DEF m
  <2> QED BY <2>1, SpeakingFinite, BoundsType
<1>2. \A s \in Nat : s <= m => s \in Session \cup {None}
  BY <1>1 DEF Session, None
<1>3. \A s \in 1..m : s \in Session
  BY <1>1 DEF Session
<1>t. task \in [Task -> TaskRec] /\ \A t \in Task : task[t] \in TaskRec
  BY DEF SessionTypes
<1>4. task \in [Task -> [pc : {"idle", "get", "spawn", "session", "save", "prompt"},
                         conv : Conv, profile : Profile, read : Session \cup {None},
                         client : Client \cup {None}, polled : Session \cup {None}]]
  <2>1. \A t \in Task : task[t].read \in Session \cup {None} /\ task[t].polled \in Session \cup {None}
    BY <1>2, <1>t DEF WithinHome, TaskRec
  <2> QED BY <1>t, <2>1 DEF TaskRec
<1>5. /\ stored \in [Conv -> Session \cup {None}] /\ sid \in [Client -> Session \cup {None}]
      /\ latest \in [Conv -> Session \cup {None}]
  BY <1>2 DEF SessionTypes, WithinHome
<1>6. prompted \in [Conv -> SUBSET Session] /\ branched \subseteq Session /\ unresumed \subseteq Session
  BY <1>3 DEF SessionTypes, WithinHome
<1>7. \A c \in Conv : pool[c] # None => sid[pool[c]] # None
  BY DEF TurnClients
<1> QED
  BY <1>1, <1>4, <1>5, <1>6, <1>7 DEF TypeOK, SessionTypes, Marks, ForkShape

\* Conversations, ACP sessions and subprocesses stay matched (SessionPool.get, drop,
\* evict_idle, _handle_control): a session is prompted for one conversation only, those
\* of forks apart, however its turns overlap; and where they do not, the agent's
\* questions are looked for under the session they are asked in.
THEOREM SessionsApartHolds == Spec => []SessionsApart
<1>1. SInv => SessionsApart
  <2> SUFFICES ASSUME SInv PROVE SessionsApart
      OBVIOUS
  <2>1. OwnSession
    <3> SUFFICES ASSUME NEW c \in Conv, NEW d \in Conv, c # d,
                        NEW x \in prompted[c] \cap prompted[d]
                 PROVE  x \in branched
        BY DEF OwnSession
    <3>1. x \in 1..Len(home)
      BY DEF SInv, WithinHome
    <3> QED BY <3>1 DEF SInv, TouchedApart, Touches
  <2>2. PolledSession
    <3> SUFFICES ASSUME NEW t \in Task, task[t].pc = "prompt", Of(t) \notin overlapped
                 PROVE  task[t].polled = sid[task[t].client] \/ sid[task[t].client] \in branched
        BY DEF PolledSession
    <3>1. Of(t) \in Conv
      BY DEF SInv, SessionTypes, TaskRec, Of
    <3> QED BY <3>1 DEF SInv, Remembered, Remembers, TurnRemembers
  <2> QED BY <2>1, <2>2, SessionsTyped DEF SessionsApart
<1> QED
  BY SessionsInvariant, <1>1, PTL

LEMMA ReasonsInvariant == ASSUME CanResume PROVE Spec => []NewForAReason
<1>1. Init => NewForAReason
  BY IdleFields DEF Init, NewForAReason
<1>2. SInv /\ NewForAReason /\ [Next]_vars => NewForAReason'
  BY SessionEffects, NewForAReasonKept DEF SInv
<1> QED
  BY SessionsInvariant, <1>1, <1>2, PTL DEF Spec

\* Whatever was evicted, dropped, replaced or died in between, a conversation's next
\* prompt goes to the session of its previous one, unless the profile was changed, that
\* session could not be resumed, turns of the conversation overlapped or a fork has moved
\* one of them, when the agent can resume sessions (SessionPool.get).
THEOREM ContextKeptHolds == ASSUME CanResume PROVE Spec => ContextKept
<1> DEFINE Kept(c) == \/ latest[c] \in {None, latest'[c]}
                      \/ home[latest[c]] # home'[latest'[c]]
                      \/ latest[c] \in unresumed \/ c \in overlapped
                      \/ {latest[c], latest'[c]} \cap branched # {}
<1>1. SInv /\ NewForAReason /\ [Next]_vars => [\A c \in Conv : Kept(c)]_vars
  <2> SUFFICES ASSUME SInv, NewForAReason, [Next]_vars, NEW c \in Conv PROVE Kept(c)
      OBVIOUS
  <2>0. SessionEffect
    BY SessionEffects DEF SInv
  <2>1. ASSUME latest'[c] = latest[c] PROVE Kept(c)
    BY <2>1
  <2>2. ASSUME NEW t \in Task, NEW k \in Client \cup {None}, NEW p \in Nat, Prompts(t, k, p),
               Of(t) = c, c \notin overlapped
        PROVE  Kept(c)
    <3>1. TurnRemembers(t) /\ latest[c] \in {None, stored[c]} \cup branched
      BY <2>2 DEF SInv, Remembered, Remembers
    <3>2. latest'[c] = sid[k] /\ home' = home
      BY <2>2 DEF Prompts, SInv, SessionTypes, procVars
    <3>3. CASE task[t].pc = "get"
      <4>1. k = pool[c] /\ k # None /\ ~Saving(c)
        BY <2>2, <3>3 DEF Prompts, Saving, SInv, Alone, Busy
      <4>2. sid[k] \in {stored[c]} \cup branched
        BY <2>2, <4>1 DEF SInv, Remembered, Remembers
      <4> QED BY <3>1, <3>2, <4>2
    <3>4. CASE task[t].pc = "save"
      <4>1. /\ k = task[t].client /\ sid[k] \in {task[t].polled} \cup branched
            /\ task[t].read = stored[c]
            /\ \/ task[t].polled = task[t].read \/ task[t].read = None
               \/ home[task[t].polled] # home[task[t].read] \/ task[t].read \in unresumed
        BY <2>2, <3>1, <3>4 DEF Prompts, TurnRemembers, NewForAReason
      <4> QED BY <3>1, <3>2, <4>1
    <3> QED BY <2>2, <3>3, <3>4 DEF Prompts
  <2>3. ASSUME NEW t \in Task, NEW k \in Client \cup {None}, NEW p \in Nat, Prompts(t, k, p)
        PROVE  Kept(c)
    <3>1. CASE Of(t) = c
      BY <2>2, <2>3, <3>1
    <3>2. CASE Of(t) # c
      <4>1. latest'[c] = latest[c]
        BY <2>3, <3>2 DEF Prompts, SInv, SessionTypes
      <4> QED BY <2>1, <4>1
    <3> QED BY <3>1, <3>2
  <2> HIDE DEF Kept
  <2>4. UNCHANGED latest => Kept(c)
    BY <2>1
  <2> QED
    BY <2>0, <2>3, <2>4 DEF SessionEffect, Beside, LetsGo, Begins, Starts, Enters, Branches,
       histVars
<1> QED
  BY SessionsInvariant, ReasonsInvariant, <1>1, PTL DEF ContextKept, Spec

-----------------------------------------------------------------------------
(* Control channel: answers find their request.                              *)

ControlRecord == [pc : {"fresh", "published", "waiting", "over"}, chat : Chat,
                  inbox : Seq(Control), got : Control \cup {0}]

\* What the proof needs of the shapes, and that a fresh request is nowhere yet.
ControlTypes ==
  /\ control \in [Control -> ControlRecord]
  /\ entries \in Seq(Control)
  /\ handler \in [Control -> {"none", "asking", "answered", "lost"}]
  /\ future \in [Rpc -> {"none", "open", "reply", "error"}]
  /\ chist \in [overlap : SUBSET Control, after : SUBSET Rpc]
  /\ \A c \in Control : control[c].pc = "fresh" => ~UnderWay(c)

\* Two requests of one chat under way at once have been marked when the second came.
MeetingsMarked ==
  \A c, d \in Control :
    c # d /\ control[c].chat = control[d].chat /\ UnderWay(c) /\ UnderWay(d)
      => c \in chist.overlap

\* An answer of another request reaches a subscriber only if the two met.
StrayAnswersMarked ==
  \A c \in Control : \A i \in DOMAIN control[c].inbox :
    control[c].inbox[i] # c => c \in chist.overlap

CInv == ControlTypes /\ MeetingsMarked /\ StrayAnswersMarked /\ AnswersReturn

\* What a queue holds after an append and after its head has been taken.
LEMMA AppendHolds ==
  ASSUME NEW S, NEW s \in Seq(S), NEW x \in S
  PROVE  /\ Append(s, x) \in Seq(S)
         /\ \A i \in DOMAIN Append(s, x) :
              Append(s, x)[i] = x \/ (i \in DOMAIN s /\ Append(s, x)[i] = s[i])
OBVIOUS

LEMMA TailHolds ==
  ASSUME NEW S, NEW s \in Seq(S), s # <<>>
  PROVE  /\ Tail(s) \in Seq(S) /\ Head(s) \in S
         /\ 1 \in DOMAIN s /\ s[1] = Head(s)
         /\ \A i \in DOMAIN Tail(s) : i + 1 \in DOMAIN s /\ Tail(s)[i] = s[i + 1]
OBVIOUS

\* The fields of a request, and what the API does to them.
LEMMA RecordKept ==
  ASSUME NEW r \in ControlRecord, NEW x \in Chat, NEW g \in Control \cup {0}
  PROVE  /\ [r EXCEPT !.pc = "published", !.chat = x] \in ControlRecord
         /\ [r EXCEPT !.pc = "over", !.got = g] \in ControlRecord
         /\ [r EXCEPT !.pc = "waiting"] \in ControlRecord
         /\ [r EXCEPT !.pc = "over"] \in ControlRecord
BY DEF ControlRecord

LEMMA InboxGrows ==
  ASSUME NEW r \in ControlRecord, NEW c \in Control
  PROVE  [r EXCEPT !.inbox = Append(@, c)] \in ControlRecord
BY DEF ControlRecord

LEMMA RecordFields ==
  ASSUME NEW r \in ControlRecord
  PROVE  /\ r.pc \in {"fresh", "published", "waiting", "over"} /\ r.chat \in Chat
         /\ r.inbox \in Seq(Control) /\ r.got \in Control \cup {0}
BY DEF ControlRecord

\* A message of the channel goes into inboxes of its conversation, and nowhere else.
LEMMA PublishShape ==
  ASSUME CInv, NEW c \in Control, Publish(c)
  PROVE  /\ control' \in [Control -> ControlRecord]
         /\ \A d \in Control :
              /\ control'[d].pc = control[d].pc /\ control'[d].chat = control[d].chat
              /\ control'[d].got = control[d].got
              /\ \/ control'[d].inbox = control[d].inbox
                 \/ /\ control[d].pc = "waiting" /\ control[d].chat = control[c].chat
                    /\ control'[d].inbox = Append(control[d].inbox, c)
<1> USE DEF CInv, ControlTypes
<1>1. \A d \in Control : [control[d] EXCEPT !.inbox = Append(@, c)] \in ControlRecord
  BY InboxGrows
<1>2. \A d \in Control : control'[d] \in ControlRecord
  BY <1>1 DEF Publish
<1>3. control' \in [Control -> ControlRecord]
  BY <1>2 DEF Publish
<1>4. \A d \in Control : control[d] = [f \in DOMAIN control[d] |-> control[d][f]]
                         /\ DOMAIN control[d] = {"pc", "chat", "inbox", "got"}
  BY DEF ControlRecord
<1> QED BY <1>3, <1>4 DEF Publish

LEMMA ControlInitInv == ControlInit => CInv
BY ControlConstants DEF ControlInit, ControlRecord, CInv, ControlTypes, UnderWay, Publish,
   Requests, LoopEndsWith, controlVars, rpcVars, Rpc, Turn0, MeetingsMarked,
   StrayAnswersMarked, AnswersReturn, AnswerIsOwn, NoneHangs, Control

LEMMA ControlTypesStep == CInv /\ [ControlNext]_controlVars => ControlTypes'
<1> SUFFICES ASSUME CInv, [ControlNext]_controlVars PROVE ControlTypes'
    OBVIOUS
<1> USE ControlConstants DEF CInv, ControlTypes, UnderWay, Publish, Requests, LoopEndsWith,
        controlVars, rpcVars, Rpc, Turn0
<1>1. ASSUME NEW c \in Control, NEW x \in Chat, PublishControl(c, x) PROVE ControlTypes'
  <2>1. /\ entries' \in Seq(Control)
        /\ \A i \in DOMAIN entries' :
             entries'[i] = c \/ (i \in DOMAIN entries /\ entries'[i] = entries[i])
    BY <1>1, AppendHolds DEF PublishControl
  <2>2. \A d \in Control : control'[d].pc = "fresh" => d # c /\ control[d].pc = "fresh"
    BY <1>1 DEF PublishControl
  <2>3. \A d \in Control : control'[d].pc = "fresh" => ~UnderWay(d)'
    BY <1>1, <2>1, <2>2 DEF PublishControl
  <2>4. control' \in [Control -> ControlRecord]
    <3>1. control' = [control EXCEPT ![c] = [control[c] EXCEPT !.pc = "published", !.chat = x]]
      BY <1>1 DEF PublishControl
    <3>2. [control[c] EXCEPT !.pc = "published", !.chat = x]
          \in ControlRecord
      BY RecordKept
    <3> QED BY <3>1, <3>2
  <2>5. chist' \in [overlap : SUBSET Control, after : SUBSET Rpc]
    BY <1>1 DEF PublishControl
  <2>6. UNCHANGED <<handler, future>>
    BY <1>1 DEF PublishControl
  <2> QED BY <2>1, <2>3, <2>4, <2>5, <2>6
<1>2. ASSUME NEW c \in Control, SubscribeControl(c) PROVE ControlTypes'
  <2>1. control' \in [Control -> ControlRecord]
    BY <1>2, RecordKept DEF SubscribeControl
  <2>2. \A d \in Control : control'[d].pc = "fresh" => control[d].pc = "fresh"
    BY <1>2, RecordFields DEF SubscribeControl, ControlRecord
  <2>3. \A d \in Control : control'[d].pc = "fresh" => ~UnderWay(d)'
    BY <1>2, <2>2 DEF SubscribeControl, ControlRecord
  <2> QED BY <1>2, <2>1, <2>3 DEF SubscribeControl
<1>3. ASSUME NEW c \in Control, TakeAnswer(c) PROVE ControlTypes'
  <2>1. control[c].inbox \in Seq(Control) /\ control[c].inbox # <<>>
    BY <1>3, RecordFields DEF TakeAnswer
  <2>2. Head(control[c].inbox) \in Control
    BY <2>1, TailHolds
  <2>3. control' \in [Control -> ControlRecord]
    <3>1. control' = [control EXCEPT ![c] = [control[c] EXCEPT !.pc = "over",
                                                              !.got = Head(control[c].inbox)]]
      BY <1>3 DEF TakeAnswer
    <3>2. [control[c] EXCEPT !.pc = "over", !.got = Head(control[c].inbox)]
          \in ControlRecord
      BY <2>2, RecordKept
    <3> QED BY <3>1, <3>2
  <2>4. \A d \in Control : control'[d].pc = "fresh" => ~UnderWay(d)'
    BY <1>3 DEF TakeAnswer
  <2> QED BY <1>3, <2>3, <2>4 DEF TakeAnswer
<1>4. ASSUME NEW c \in Control, ControlTimesOut(c) PROVE ControlTypes'
  <2>1. control' \in [Control -> ControlRecord]
    BY <1>4, RecordKept DEF ControlTimesOut
  <2>2. \A d \in Control : control'[d].pc = "fresh" => control[d].pc = "fresh"
    BY <1>4, RecordFields DEF ControlTimesOut, ControlRecord
  <2>3. \A d \in Control : control'[d].pc = "fresh" => ~UnderWay(d)'
    BY <1>4, <2>2 DEF ControlTimesOut, ControlRecord
  <2> QED BY <1>4, <2>1, <2>3 DEF ControlTimesOut
<1>5. ASSUME NEW c \in Control, ControlAnswered(c) PROVE ControlTypes'
  <2>2. \A d \in Control : control'[d].pc = control[d].pc
    BY <1>5, PublishShape DEF ControlAnswered
  <2>3. \A d \in Control : control'[d].pc = "fresh" => ~UnderWay(d)'
    BY <1>5, <2>2 DEF ControlAnswered
  <2>4. handler' \in [Control -> {"none", "asking", "answered", "lost"}]
    BY <1>5 DEF ControlAnswered
  <2>5. control' \in [Control -> ControlRecord]
    BY <1>5, PublishShape DEF ControlAnswered
  <2>6. chist' \in [overlap : SUBSET Control, after : SUBSET Rpc]
    BY <1>5 DEF ControlAnswered
  <2> QED BY <1>5, <2>3, <2>4, <2>5, <2>6 DEF ControlAnswered
<1>6. CASE HandleNoSession
  <2>1. /\ entries' \in Seq(Control) /\ Head(entries) \in Control
        /\ UnderWay(Head(entries))
        /\ \A i \in DOMAIN entries' : i + 1 \in DOMAIN entries /\ entries'[i] = entries[i + 1]
    BY <1>6, TailHolds DEF HandleNoSession

  <2>2. \A d \in Control : control'[d].pc = control[d].pc
    BY <1>6, <2>1, PublishShape DEF HandleNoSession
  <2>3. \A d \in Control : control'[d].pc = "fresh" => ~UnderWay(d)'
    BY <1>6, <2>1, <2>2 DEF HandleNoSession
  <2>4. handler' \in [Control -> {"none", "asking", "answered", "lost"}]
    BY <1>6, <2>1 DEF HandleNoSession
  <2>5. control' \in [Control -> ControlRecord]
    BY <1>6, <2>1, PublishShape DEF HandleNoSession
  <2>6. chist' \in [overlap : SUBSET Control, after : SUBSET Rpc]
    BY <1>6, <2>1 DEF HandleNoSession
  <2> QED BY <1>6, <2>1, <2>3, <2>4, <2>5, <2>6 DEF HandleNoSession
<1>7. CASE HandleControl
  <2>1. /\ entries' \in Seq(Control) /\ Head(entries) \in Control
        /\ UnderWay(Head(entries))
        /\ \A i \in DOMAIN entries' : i + 1 \in DOMAIN entries /\ entries'[i] = entries[i + 1]
    BY <1>7, TailHolds DEF HandleControl

  <2>2. \A d \in Control : control'[d].pc = control[d].pc
    BY <1>7, <2>1 DEF HandleControl
  <2>3. \A d \in Control : control'[d].pc = "fresh" => ~UnderWay(d)'
    BY <1>7, <2>1, <2>2 DEF HandleControl
  <2>4. handler' \in [Control -> {"none", "asking", "answered", "lost"}]
    BY <1>7, <2>1 DEF HandleControl
  <2>5. control' \in [Control -> ControlRecord]
    BY <1>7, <2>1 DEF HandleControl
  <2>6. chist' \in [overlap : SUBSET Control, after : SUBSET Rpc]
    BY <1>7, <2>1 DEF HandleControl
  <2> QED BY <1>7, <2>1, <2>3, <2>4, <2>5, <2>6 DEF HandleControl
<1>8. CASE ControlLost
  <2>1. /\ entries' \in Seq(Control) /\ Head(entries) \in Control
        /\ UnderWay(Head(entries))
        /\ \A i \in DOMAIN entries' : i + 1 \in DOMAIN entries /\ entries'[i] = entries[i + 1]
    BY <1>8, TailHolds DEF ControlLost

  <2>2. \A d \in Control : control'[d].pc = control[d].pc
    BY <1>8, <2>1 DEF ControlLost
  <2>3. \A d \in Control : control'[d].pc = "fresh" => ~UnderWay(d)'
    BY <1>8, <2>1, <2>2 DEF ControlLost
  <2>4. handler' \in [Control -> {"none", "asking", "answered", "lost"}]
    BY <1>8, <2>1 DEF ControlLost
  <2>5. control' \in [Control -> ControlRecord]
    BY <1>8, <2>1 DEF ControlLost
  <2>6. chist' \in [overlap : SUBSET Control, after : SUBSET Rpc]
    BY <1>8, <2>1 DEF ControlLost
  <2> QED BY <1>8, <2>1, <2>3, <2>4, <2>5, <2>6 DEF ControlLost
<1>9. CASE PromptAgent
  BY <1>9 DEF PromptAgent
<1>10. ASSUME NEW r \in Rpc, RequestTimesOut(r) PROVE ControlTypes'
  BY <1>10 DEF RequestTimesOut
<1>11. ASSUME NEW r \in Rpc, AgentAnswers(r) PROVE ControlTypes'
  BY <1>11 DEF AgentAnswers
<1>12. CASE AgentRequests
  BY <1>12 DEF AgentRequests
<1>13. CASE Answered
  BY <1>13 DEF Answered
<1>14. CASE ServeAgent
  BY <1>14 DEF ServeAgent
<1>15. CASE ServeEnds
  BY <1>15 DEF ServeEnds
<1>16. CASE ReadLoopEnds
  BY <1>16 DEF ReadLoopEnds
<1>17. CASE UNCHANGED controlVars
  BY <1>17 DEF controlVars
<1> QED
  BY <1>1, <1>2, <1>3, <1>4, <1>5, <1>6, <1>7, <1>8, <1>9, <1>10, <1>11, <1>12, <1>13,
     <1>14,
     <1>15, <1>16, <1>17 DEF ControlNext

LEMMA MeetingsMarkedStep == CInv /\ [ControlNext]_controlVars => MeetingsMarked'
<1> SUFFICES ASSUME CInv, [ControlNext]_controlVars PROVE MeetingsMarked'
    OBVIOUS
<1> USE ControlConstants DEF CInv, ControlTypes, UnderWay, Publish, Requests, LoopEndsWith,
        controlVars, rpcVars, Rpc, Turn0, MeetingsMarked
<1>1. ASSUME NEW c \in Control, NEW x \in Chat, PublishControl(c, x) PROVE MeetingsMarked'
  <2>1. /\ control'[c].chat = x
        /\ \A d \in Control \ {c} : control'[d] = control[d]
    BY <1>1 DEF PublishControl
  <2>2. \A d \in Control \ {c} : UnderWay(d)' => UnderWay(d)
    <3>1. \A i \in DOMAIN entries' :
            entries'[i] = c \/ (i \in DOMAIN entries /\ entries'[i] = entries[i])
      BY <1>1, AppendHolds DEF PublishControl
    <3> QED BY <1>1, <2>1, <3>1 DEF PublishControl
  <2>3. \A d \in Control \ {c} :
          control[d].chat = x /\ UnderWay(d) => {c, d} \subseteq chist'.overlap
    <3> HIDE DEF UnderWay
    <3> QED BY <1>1 DEF PublishControl
  <2>4. chist.overlap \subseteq chist'.overlap
    <3> HIDE DEF UnderWay
    <3> QED BY <1>1 DEF PublishControl
  <2> HIDE DEF UnderWay
  <2> QED BY <2>1, <2>2, <2>3, <2>4
<1>2. ASSUME NEW c \in Control, SubscribeControl(c) PROVE MeetingsMarked'
  <2>1. /\ \A d \in Control : control'[d].chat = control[d].chat
        /\ \A d \in Control :
             control'[d].pc = control[d].pc \/ (d = c /\ control[d].pc = "published")
    BY <1>2 DEF SubscribeControl
  <2>2. \A d \in Control : UnderWay(d)' => UnderWay(d)
    BY <1>2, <2>1 DEF SubscribeControl
  <2>3. chist' = chist
    BY <1>2 DEF SubscribeControl
  <2> HIDE DEF UnderWay
  <2> QED BY <2>1, <2>2, <2>3
<1>3. ASSUME NEW c \in Control, TakeAnswer(c) PROVE MeetingsMarked'
  BY <1>3 DEF TakeAnswer
<1>4. ASSUME NEW c \in Control, ControlTimesOut(c) PROVE MeetingsMarked'
  BY <1>4 DEF ControlTimesOut
<1>5. ASSUME NEW c \in Control, ControlAnswered(c) PROVE MeetingsMarked'
  BY <1>5 DEF ControlAnswered
<1>6. CASE HandleNoSession
  BY <1>6 DEF HandleNoSession
<1>7. CASE HandleControl
  <2>1. /\ entries' \in Seq(Control) /\ Head(entries) \in Control
        /\ UnderWay(Head(entries))
        /\ \A i \in DOMAIN entries' : i + 1 \in DOMAIN entries /\ entries'[i] = entries[i + 1]
    BY <1>7, TailHolds DEF HandleControl

  <2>2. \A d \in Control : UnderWay(d)' => UnderWay(d)
    BY <1>7, <2>1 DEF HandleControl
  <2>3. control' = control /\ chist'.overlap = chist.overlap
    BY <1>7 DEF HandleControl
  <2> HIDE DEF UnderWay
  <2> QED BY <2>2, <2>3
<1>8. CASE ControlLost
  BY <1>8 DEF ControlLost
<1>9. CASE PromptAgent
  BY <1>9 DEF PromptAgent
<1>10. ASSUME NEW r \in Rpc, RequestTimesOut(r) PROVE MeetingsMarked'
  BY <1>10 DEF RequestTimesOut
<1>11. ASSUME NEW r \in Rpc, AgentAnswers(r) PROVE MeetingsMarked'
  BY <1>11 DEF AgentAnswers
<1>12. CASE AgentRequests
  BY <1>12 DEF AgentRequests
<1>13. CASE Answered
  BY <1>13 DEF Answered
<1>14. CASE ServeAgent
  BY <1>14 DEF ServeAgent
<1>15. CASE ServeEnds
  BY <1>15 DEF ServeEnds
<1>16. CASE ReadLoopEnds
  BY <1>16 DEF ReadLoopEnds
<1>17. CASE UNCHANGED controlVars
  BY <1>17 DEF controlVars
<1> QED
  BY <1>1, <1>2, <1>3, <1>4, <1>5, <1>6, <1>7, <1>8, <1>9, <1>10, <1>11, <1>12, <1>13,
     <1>14,
     <1>15, <1>16, <1>17 DEF ControlNext

LEMMA StrayAnswersMarkedStep == CInv /\ [ControlNext]_controlVars => StrayAnswersMarked'
<1> SUFFICES ASSUME CInv, [ControlNext]_controlVars PROVE StrayAnswersMarked'
    OBVIOUS
<1> USE ControlConstants DEF CInv, ControlTypes, UnderWay, Publish, Requests, LoopEndsWith,
        controlVars, rpcVars, Rpc, Turn0, MeetingsMarked, StrayAnswersMarked
<1>1. ASSUME NEW c \in Control, NEW x \in Chat, PublishControl(c, x) PROVE StrayAnswersMarked'
  BY <1>1 DEF PublishControl
<1>2. ASSUME NEW c \in Control, SubscribeControl(c) PROVE StrayAnswersMarked'
  BY <1>2 DEF SubscribeControl
<1>3. ASSUME NEW c \in Control, TakeAnswer(c) PROVE StrayAnswersMarked'
  BY <1>3 DEF TakeAnswer
<1>4. ASSUME NEW c \in Control, ControlTimesOut(c) PROVE StrayAnswersMarked'
  BY <1>4 DEF ControlTimesOut
<1>5. ASSUME NEW c \in Control, ControlAnswered(c) PROVE StrayAnswersMarked'
  BY <1>5 DEF ControlAnswered
<1>6. CASE HandleNoSession
  BY <1>6 DEF HandleNoSession
<1>7. CASE HandleControl
  BY <1>7 DEF HandleControl
<1>8. CASE ControlLost
  BY <1>8 DEF ControlLost
<1>9. CASE PromptAgent
  BY <1>9 DEF PromptAgent
<1>10. ASSUME NEW r \in Rpc, RequestTimesOut(r) PROVE StrayAnswersMarked'
  BY <1>10 DEF RequestTimesOut
<1>11. ASSUME NEW r \in Rpc, AgentAnswers(r) PROVE StrayAnswersMarked'
  BY <1>11 DEF AgentAnswers
<1>12. CASE AgentRequests
  BY <1>12 DEF AgentRequests
<1>13. CASE Answered
  BY <1>13 DEF Answered
<1>14. CASE ServeAgent
  BY <1>14 DEF ServeAgent
<1>15. CASE ServeEnds
  BY <1>15 DEF ServeEnds
<1>16. CASE ReadLoopEnds
  BY <1>16 DEF ReadLoopEnds
<1>17. CASE UNCHANGED controlVars
  BY <1>17 DEF controlVars
<1> QED
  BY <1>1, <1>2, <1>3, <1>4, <1>5, <1>6, <1>7, <1>8, <1>9, <1>10, <1>11, <1>12, <1>13,
     <1>14,
     <1>15, <1>16, <1>17 DEF ControlNext

LEMMA AnswersReturnStep == CInv /\ [ControlNext]_controlVars => AnswersReturn'
<1> SUFFICES ASSUME CInv, [ControlNext]_controlVars PROVE AnswersReturn'
    OBVIOUS
<1> USE ControlConstants DEF CInv, ControlTypes, UnderWay, Publish, Requests, LoopEndsWith,
        controlVars, rpcVars, Rpc, Turn0, StrayAnswersMarked, AnswersReturn, AnswerIsOwn,
        NoneHangs
<1>1. ASSUME NEW c \in Control, NEW x \in Chat, PublishControl(c, x) PROVE AnswersReturn'
  BY <1>1 DEF PublishControl
<1>2. ASSUME NEW c \in Control, SubscribeControl(c) PROVE AnswersReturn'
  BY <1>2 DEF SubscribeControl
<1>3. ASSUME NEW c \in Control, TakeAnswer(c) PROVE AnswersReturn'
  <2>1. control[c].inbox \in Seq(Control) /\ control[c].inbox # <<>>
    BY <1>3, RecordFields DEF TakeAnswer
  <2>2. Head(control[c].inbox) # c => c \in chist.overlap
    BY <2>1, TailHolds
  <2> QED BY <1>3, <2>2 DEF TakeAnswer, ControlRecord
<1>4. ASSUME NEW c \in Control, ControlTimesOut(c) PROVE AnswersReturn'
  BY <1>4 DEF ControlTimesOut
<1>5. ASSUME NEW c \in Control, ControlAnswered(c) PROVE AnswersReturn'
  BY <1>5 DEF ControlAnswered
<1>6. CASE HandleNoSession
  BY <1>6 DEF HandleNoSession
<1>7. CASE HandleControl
  BY <1>7 DEF HandleControl
<1>8. CASE ControlLost
  BY <1>8 DEF ControlLost
<1>9. CASE PromptAgent
  BY <1>9 DEF PromptAgent
<1>10. ASSUME NEW r \in Rpc, RequestTimesOut(r) PROVE AnswersReturn'
  BY <1>10 DEF RequestTimesOut
<1>11. ASSUME NEW r \in Rpc, AgentAnswers(r) PROVE AnswersReturn'
  BY <1>11 DEF AgentAnswers
<1>12. CASE AgentRequests
  BY <1>12 DEF AgentRequests
<1>13. CASE Answered
  BY <1>13 DEF Answered
<1>14. CASE ServeAgent
  BY <1>14 DEF ServeAgent
<1>15. CASE ServeEnds
  BY <1>15 DEF ServeEnds
<1>16. CASE ReadLoopEnds
  BY <1>16 DEF ReadLoopEnds
<1>17. CASE UNCHANGED controlVars
  BY <1>17 DEF controlVars
<1> QED
  BY <1>1, <1>2, <1>3, <1>4, <1>5, <1>6, <1>7, <1>8, <1>9, <1>10, <1>11, <1>12, <1>13,
     <1>14,
     <1>15, <1>16, <1>17 DEF ControlNext

\* The invariant is inductive.
LEMMA ControlInvariant == ControlSpec => []CInv
<1>1. CInv /\ [ControlNext]_controlVars => CInv'
  BY ControlTypesStep, MeetingsMarkedStep, StrayAnswersMarkedStep, AnswersReturnStep DEF CInv
<1> QED
  BY ControlInitInv, <1>1, PTL DEF ControlSpec

\* A caller of the control channel gets the answer to its own request unless another
\* of its conversation was under way (the answer channel is the conversation's), and no
\* request written before the read loop ended waits on (_read_loop's finally).
THEOREM AnswersReturnHolds == ControlSpec => []AnswersReturn
<1>1. CInv => AnswersReturn
  BY DEF CInv
<1> QED
  BY ControlInvariant, <1>1, PTL

-----------------------------------------------------------------------------
(* Memory: one dream at a time.                                             *)

\* Between the SET of the key and the end of the job.
Active(j) == JobAlive(j) \/ dream[j].pc = "enqueue"

MemoryShape ==
  /\ dream = [j \in Dream |-> dream[j]]
  /\ \A j \in Dream : dream[j] = [f \in DOMAIN dream[j] |-> dream[j][f]] /\ "pc" \in DOMAIN dream[j]
  /\ dreamLock = [key |-> dreamLock.key, cooldown |-> dreamLock.cooldown]
  /\ "outlived" \in DOMAIN mhist /\ mhist = [f \in DOMAIN mhist |-> mhist[f]]

\* Who is active holds the key, alone.
KeyHeld ==
  \/ mhist.outlived
  \/ /\ \A i, j \in Dream : Active(i) /\ Active(j) => i = j
     /\ \A j \in Dream : Active(j) => dreamLock.key = "running"

MInv == MemoryShape /\ KeyHeld

LEMMA MemoryInitInv == MemoryInit => MInv
<1> SUFFICES ASSUME MemoryInit PROVE MInv
    OBVIOUS
<1>1. \A j \in Dream : dream[j] = [pc |-> "fresh"]
  BY DEF MemoryInit
<1>2. dream = [j \in Dream |-> dream[j]]
  BY DEF MemoryInit
<1>3. dreamLock = [key |-> dreamLock.key, cooldown |-> dreamLock.cooldown]
  BY DEF MemoryInit
<1>4. "outlived" \in DOMAIN mhist /\ mhist = [f \in DOMAIN mhist |-> mhist[f]]
  BY DEF MemoryInit
<1>5. MemoryShape
  BY <1>1, <1>2, <1>3, <1>4 DEF MemoryShape
<1>6. KeyHeld
  BY <1>1 DEF KeyHeld, Active, JobAlive
<1> QED
  BY <1>5, <1>6 DEF MInv

LEMMA MemoryShapeStep == MInv /\ [MemoryNext]_memoryVars => MemoryShape'
<1> SUFFICES ASSUME MInv, [MemoryNext]_memoryVars PROVE MemoryShape'
    OBVIOUS
<1> USE DEF MInv, MemoryShape, Moves, TakesLock, Saves, Edited
<1>1. ASSUME NEW e \in Edit, BeginEdit(e) PROVE MemoryShape'
  BY <1>1 DEF BeginEdit
<1>2. ASSUME NEW e \in Edit, UpsertEdit(e) PROVE MemoryShape'
  BY <1>2 DEF UpsertEdit
<1>3. ASSUME NEW e \in Edit, EditFindsNone(e) PROVE MemoryShape'
  BY <1>3 DEF EditFindsNone
<1>4. ASSUME NEW e \in Edit, InsertEdit(e) PROVE MemoryShape'
  BY <1>4 DEF InsertEdit
<1>5. ASSUME NEW e \in Edit, EditConflicts(e) PROVE MemoryShape'
  BY <1>5 DEF EditConflicts
<1>6. ASSUME NEW s \in Said, OpenSaid(s) PROVE MemoryShape'
  BY <1>6 DEF OpenSaid
<1>7. ASSUME NEW s \in Said, CommitSaid(s) PROVE MemoryShape'
  BY <1>7 DEF CommitSaid
<1>8. ASSUME NEW j \in Dream, CheckCooldown(j) PROVE MemoryShape'
  BY <1>8 DEF CheckCooldown
<1>9. ASSUME NEW j \in Dream, SetIfNone(j) PROVE MemoryShape'
  BY <1>9 DEF SetIfNone
<1>10. ASSUME NEW j \in Dream, ReadStatus(j) PROVE MemoryShape'
  BY <1>10 DEF ReadStatus
<1>11. ASSUME NEW j \in Dream, SeesRunning(j) PROVE MemoryShape'
  BY <1>11 DEF SeesRunning
<1>12. ASSUME NEW j \in Dream, SeesStale(j) PROVE MemoryShape'
  BY <1>12 DEF SeesStale
<1>13. ASSUME NEW j \in Dream, OverwriteStale(j) PROVE MemoryShape'
  BY <1>13 DEF OverwriteStale
<1>14. ASSUME NEW j \in Dream, EnqueueDream(j) PROVE MemoryShape'
  BY <1>14 DEF EnqueueDream
<1>15. ASSUME NEW j \in Dream, DreamLost(j) PROVE MemoryShape'
  BY <1>15 DEF DreamLost
<1>16. ASSUME NEW j \in Dream, LoadDream(j) PROVE MemoryShape'
  BY <1>16 DEF LoadDream
<1>17. ASSUME NEW j \in Dream, DreamFails(j) PROVE MemoryShape'
  BY <1>17 DEF DreamFails
<1>18. ASSUME NEW j \in Dream, AgentRewrites(j) PROVE MemoryShape'
  BY <1>18 DEF AgentRewrites
<1>19. ASSUME NEW j \in Dream, UpsertDream(j) PROVE MemoryShape'
  BY <1>19 DEF UpsertDream
<1>20. ASSUME NEW j \in Dream, DreamFindsNone(j) PROVE MemoryShape'
  BY <1>20 DEF DreamFindsNone
<1>21. ASSUME NEW j \in Dream, InsertDream(j) PROVE MemoryShape'
  BY <1>21 DEF InsertDream
<1>22. ASSUME NEW j \in Dream, SetStatus(j) PROVE MemoryShape'
  BY <1>22 DEF SetStatus
<1>23. CASE LockExpires
  BY <1>23 DEF LockExpires
<1>24. CASE CooldownExpires
  BY <1>24 DEF CooldownExpires
<1>25. CASE UNCHANGED memoryVars
  BY <1>25 DEF memoryVars
<1> QED
  BY <1>1, <1>2, <1>3, <1>4, <1>5, <1>6, <1>7, <1>8, <1>9, <1>10, <1>11, <1>12, <1>13, <1>14,
     <1>15, <1>16, <1>17, <1>18, <1>19, <1>20, <1>21, <1>22, <1>23, <1>24, <1>25 DEF MemoryNext

LEMMA KeyHeldStep == MInv /\ [MemoryNext]_memoryVars => KeyHeld'
<1> SUFFICES ASSUME MInv, [MemoryNext]_memoryVars PROVE KeyHeld'
    OBVIOUS
<1> USE DEF MInv, MemoryShape, KeyHeld, Active, JobAlive, Moves, TakesLock, Saves, Edited
<1>1. ASSUME NEW e \in Edit, BeginEdit(e) PROVE KeyHeld'
  BY <1>1 DEF BeginEdit
<1>2. ASSUME NEW e \in Edit, UpsertEdit(e) PROVE KeyHeld'
  BY <1>2 DEF UpsertEdit
<1>3. ASSUME NEW e \in Edit, EditFindsNone(e) PROVE KeyHeld'
  BY <1>3 DEF EditFindsNone
<1>4. ASSUME NEW e \in Edit, InsertEdit(e) PROVE KeyHeld'
  BY <1>4 DEF InsertEdit
<1>5. ASSUME NEW e \in Edit, EditConflicts(e) PROVE KeyHeld'
  BY <1>5 DEF EditConflicts
<1>6. ASSUME NEW s \in Said, OpenSaid(s) PROVE KeyHeld'
  BY <1>6 DEF OpenSaid
<1>7. ASSUME NEW s \in Said, CommitSaid(s) PROVE KeyHeld'
  BY <1>7 DEF CommitSaid
<1>8. ASSUME NEW j \in Dream, CheckCooldown(j) PROVE KeyHeld'
  BY <1>8 DEF CheckCooldown
<1>9. ASSUME NEW j \in Dream, SetIfNone(j) PROVE KeyHeld'
  BY <1>9 DEF SetIfNone
<1>10. ASSUME NEW j \in Dream, ReadStatus(j) PROVE KeyHeld'
  BY <1>10 DEF ReadStatus
<1>11. ASSUME NEW j \in Dream, SeesRunning(j) PROVE KeyHeld'
  BY <1>11 DEF SeesRunning
<1>12. ASSUME NEW j \in Dream, SeesStale(j) PROVE KeyHeld'
  BY <1>12 DEF SeesStale
<1>13. ASSUME NEW j \in Dream, OverwriteStale(j) PROVE KeyHeld'
  BY <1>13 DEF OverwriteStale
<1>14. ASSUME NEW j \in Dream, EnqueueDream(j) PROVE KeyHeld'
  BY <1>14 DEF EnqueueDream
<1>15. ASSUME NEW j \in Dream, DreamLost(j) PROVE KeyHeld'
  BY <1>15 DEF DreamLost
<1>16. ASSUME NEW j \in Dream, LoadDream(j) PROVE KeyHeld'
  BY <1>16 DEF LoadDream
<1>17. ASSUME NEW j \in Dream, DreamFails(j) PROVE KeyHeld'
  BY <1>17 DEF DreamFails
<1>18. ASSUME NEW j \in Dream, AgentRewrites(j) PROVE KeyHeld'
  BY <1>18 DEF AgentRewrites
<1>19. ASSUME NEW j \in Dream, UpsertDream(j) PROVE KeyHeld'
  BY <1>19 DEF UpsertDream
<1>20. ASSUME NEW j \in Dream, DreamFindsNone(j) PROVE KeyHeld'
  BY <1>20 DEF DreamFindsNone
<1>21. ASSUME NEW j \in Dream, InsertDream(j) PROVE KeyHeld'
  BY <1>21 DEF InsertDream
<1>22. ASSUME NEW j \in Dream, SetStatus(j) PROVE KeyHeld'
  BY <1>22 DEF SetStatus
<1>23. CASE LockExpires
  BY <1>23 DEF LockExpires
<1>24. CASE CooldownExpires
  BY <1>24 DEF CooldownExpires
<1>25. CASE UNCHANGED memoryVars
  BY <1>25 DEF memoryVars
<1> QED
  BY <1>1, <1>2, <1>3, <1>4, <1>5, <1>6, <1>7, <1>8, <1>9, <1>10, <1>11, <1>12, <1>13, <1>14,
     <1>15, <1>16, <1>17, <1>18, <1>19, <1>20, <1>21, <1>22, <1>23, <1>24, <1>25 DEF MemoryNext

\* The invariant is inductive.
LEMMA MemoryInvariant == MemorySpec => []MInv
<1>1. MInv /\ [MemoryNext]_memoryVars => MInv'
  BY MemoryShapeStep, KeyHeldStep DEF MInv
<1> QED
  BY MemoryInitInv, <1>1, PTL DEF MemorySpec

\* At most one consolidation of a user's memory is under way, as long as the
\* status key has neither expired under a job nor been overwritten by two
\* triggers (trigger_consolidation).
THEOREM DreamsAloneHolds == MemorySpec => []DreamsAlone
<1>1. MInv => DreamsAlone
  <2> SUFFICES ASSUME KeyHeld, ~mhist.outlived
               PROVE  Cardinality({j \in Dream : JobAlive(j)}) <= 1
    BY DEF MInv, DreamsAlone
  <2> DEFINE Jobs == {j \in Dream : JobAlive(j)}
  <2>1. CASE Jobs = {}
    BY <2>1, FS_EmptySet
  <2>2. ASSUME NEW j \in Jobs PROVE Cardinality(Jobs) <= 1
    <3>1. Jobs = {j}
      BY DEF KeyHeld, Active
    <3> QED
      BY <3>1, FS_Singleton
  <2> QED
    BY <2>1, <2>2
<1> QED
  BY MemoryInvariant, <1>1, PTL

-----------------------------------------------------------------------------
(* Induction over the naturals, from their well-foundedness.                *)

LEMMA LeastNat ==
  ASSUME NEW T \in SUBSET Nat, NEW t \in T
  PROVE  \E m \in T : \A n \in T : m <= n
<1> DEFINE R == OpToRel(<, Nat)
<1>1. IsWellFoundedOn(R, Nat)
  BY NatLessThanWellFounded
<1>2. \A x, y \in Nat : x < y => <<x, y>> \in R
  BY DEF OpToRel
<1> HIDE DEF R
<1>3. PICK m \in T : \A y \in T : ~ (<<y, m>> \in R)
  BY <1>1, WFMin
<1>4. \A n \in T : ~(n < m) /\ n \in Nat /\ m \in Nat
  BY <1>2, <1>3
<1>5. \A n \in T : m <= n
  BY <1>4
<1> QED BY <1>5

LEMMA SetInduction ==
  ASSUME NEW S, 0 \in S, \A n \in Nat : n \in S => n + 1 \in S
  PROVE  Nat \subseteq S
<1> SUFFICES ASSUME NEW k \in Nat, k \notin S PROVE FALSE
  OBVIOUS
<1> DEFINE T == Nat \ S
<1>1. PICK m \in T : \A n \in T : m <= n
  BY LeastNat
<1>2. m \in Nat /\ m # 0 /\ m \notin S
  OBVIOUS
<1>3. m - 1 \in Nat /\ m - 1 + 1 = m /\ ~(m <= m - 1)
  BY <1>2
<1>4. m - 1 \in S
  BY <1>1, <1>3
<1> QED BY <1>2, <1>3, <1>4

(* The total of the fields: the recursive function is one, and adds up.     *)

IsSum(s, len, n) == s = [k \in 0..n |-> IF k = 0 THEN 0 ELSE s[k - 1] + len[k]]

LEMMA SumExists == ASSUME NEW len, NEW m \in Nat PROVE \E s : IsSum(s, len, m)
<1> DEFINE S == {n \in Nat : \E s : IsSum(s, len, n)}
<1>1. 0 \in S
  <2>1. IsSum([k \in 0..0 |-> 0], len, 0)
    BY DEF IsSum
  <2> QED BY <2>1
<1>2. ASSUME NEW n \in Nat, n \in S PROVE n + 1 \in S
  <2>1. PICK s : IsSum(s, len, n)
    BY <1>2
  <2> DEFINE t == [k \in 0..(n + 1) |-> IF k = n + 1 THEN s[n] + len[n + 1] ELSE s[k]]
  <2>2. ASSUME NEW k \in 0..(n + 1) PROVE t[k] = IF k = 0 THEN 0 ELSE t[k - 1] + len[k]
    <3>1. CASE k = n + 1
      BY <3>1
    <3>2. CASE k \in 0..n /\ k # 0
      <4>1. k - 1 \in 0..n /\ k - 1 # n + 1 /\ k # n + 1 /\ k - 1 \in 0..(n + 1)
        BY <3>2
      <4>2. s[k] = s[k - 1] + len[k]
        BY <2>1, <3>2 DEF IsSum
      <4> QED BY <3>2, <4>1, <4>2
    <3>3. CASE k = 0
      BY <2>1, <3>3 DEF IsSum
    <3> QED BY <3>1, <3>2, <3>3
  <2>3. IsSum(t, len, n + 1)
    <3> HIDE DEF t
    <3>1. t = [k \in 0..(n + 1) |-> t[k]]
      BY DEF t
    <3> QED BY <2>2, <3>1 DEF IsSum
  <2> QED BY <2>3
<1> HIDE DEF S
<1>3. m \in S
  BY <1>1, <1>2, SetInduction
<1> QED BY <1>3 DEF S

LEMMA SumUnique ==
  ASSUME NEW len, NEW m \in Nat, NEW s, NEW t, IsSum(s, len, m), IsSum(t, len, m)
  PROVE  s = t
<1> DEFINE S == {n \in Nat : n \in 0..m => s[n] = t[n]}
<1>1. 0 \in S
  BY DEF IsSum
<1>2. ASSUME NEW n \in Nat, n \in S PROVE n + 1 \in S
  BY <1>2 DEF IsSum
<1> HIDE DEF S
<1>3. \A n \in 0..m : n \in S
  BY <1>1, <1>2, SetInduction
<1>4. \A n \in 0..m : s[n] = t[n]
  BY <1>3 DEF S
<1>5. s = [k \in 0..m |-> s[k]] /\ t = [k \in 0..m |-> t[k]]
  BY DEF IsSum
<1> QED BY <1>4, <1>5

LEMMA SumType ==
  ASSUME NEW len, NEW m \in Nat, NEW s, IsSum(s, len, m), \A k \in 1..m : len[k] \in Int
  PROVE  \A k \in 0..m : s[k] \in Int
<1> DEFINE S == {n \in Nat : n \in 0..m => s[n] \in Int}
<1>1. 0 \in S
  BY DEF IsSum
<1>2. ASSUME NEW n \in Nat, n \in S PROVE n + 1 \in S
  <2> SUFFICES ASSUME n + 1 \in 0..m PROVE s[n + 1] \in Int
    OBVIOUS
  <2>1. n \in 0..m /\ n + 1 \in 1..m /\ n + 1 # 0 /\ n + 1 - 1 = n
    OBVIOUS
  <2>2. s[n] \in Int
    BY <1>2, <2>1
  <2>3. s[n + 1] = s[n] + len[n + 1]
    BY <2>1 DEF IsSum
  <2> QED BY <2>1, <2>2, <2>3
<1> HIDE DEF S
<1>3. \A n \in 0..m : n \in S
  BY <1>1, <1>2, SetInduction
<1> QED BY <1>3 DEF S

LEMMA TotalIsSum ==
  ASSUME NEW len, NEW s, IsSum(s, len, Fields)
  PROVE  Total(len) = s[Fields]
<1> DEFINE sum == CHOOSE t : t = [k \in 0..Fields |-> IF k = 0 THEN 0 ELSE t[k - 1] + len[k]]
<1>1. Total(len) = sum[Fields]
  BY DEF Total
<1>2. IsSum(sum, len, Fields)
  BY DEF IsSum
<1> HIDE DEF sum
<1> QED BY <1>1, <1>2, SumUnique, MemoryConstants

LEMMA TotalType == ASSUME NEW len \in [Field -> Int] PROVE Total(len) \in Int
<1>1. PICK s : IsSum(s, len, Fields)
  BY SumExists, MemoryConstants
<1>2. \A k \in 1..Fields : len[k] \in Int
  BY DEF Field
<1>3. s[Fields] \in Int
  BY <1>1, <1>2, SumType, MemoryConstants
<1> QED BY <1>1, <1>3, TotalIsSum

\* The last field can be set apart.
LEMMA TotalLast ==
  ASSUME NEW len \in [Field -> Int], NEW x \in Int
  PROVE  Total([len EXCEPT ![Fields] = x]) = Total([len EXCEPT ![Fields] = 0]) + x
<1> DEFINE zero == [len EXCEPT ![Fields] = 0]
           with == [len EXCEPT ![Fields] = x]
<1>1. PICK s : IsSum(s, zero, Fields)
  BY SumExists, MemoryConstants
<1> DEFINE t == [s EXCEPT ![Fields] = s[Fields - 1] + x]
<1>2. Fields \in Nat /\ Fields # 0 /\ Fields \in Field /\ Fields - 1 \in 0..Fields /\ Fields - 1 # Fields
  BY MemoryConstants DEF Field
<1>3. \A k \in 1..Fields : zero[k] \in Int
  BY DEF Field
<1>4. s[Fields] = s[Fields - 1] + 0 /\ s[Fields - 1] \in Int
  <2>1. s[Fields - 1] \in Int
    BY <1>1, <1>2, <1>3, SumType
  <2>2. zero[Fields] = 0
    BY <1>2
  <2>3. s[Fields] = s[Fields - 1] + zero[Fields]
    BY <1>1, <1>2 DEF IsSum
  <2> QED BY <2>1, <2>2, <2>3
<1>5. IsSum(t, with, Fields)
  <2>1. DOMAIN s = 0..Fields /\ s = [k \in 0..Fields |-> s[k]]
    BY <1>1 DEF IsSum
  <2>2. t = [k \in 0..Fields |-> t[k]]
    BY <2>1
  <2>3. ASSUME NEW k \in 0..Fields PROVE t[k] = IF k = 0 THEN 0 ELSE t[k - 1] + with[k]
    <3>1. CASE k = Fields
      BY <1>2, <2>1, <3>1
    <3>2. CASE k # Fields /\ k # 0
      <4>1. k \in Field /\ k - 1 \in 0..Fields /\ k - 1 # Fields
        BY <1>2, <3>2 DEF Field
      <4>2. with[k] = zero[k]
        BY <3>2, <4>1
      <4>3. s[k] = s[k - 1] + zero[k]
        BY <1>1, <3>2 DEF IsSum
      <4>4. t[k] = s[k] /\ t[k - 1] = s[k - 1]
        BY <2>1, <3>2, <4>1
      <4> QED BY <3>2, <4>2, <4>3, <4>4
    <3>3. CASE k = 0
      <4>1. s[0] = 0
        BY <1>1, <1>2 DEF IsSum
      <4> QED BY <1>2, <2>1, <3>3, <4>1
    <3> QED BY <3>1, <3>2, <3>3
  <2> HIDE DEF t, with
  <2> QED BY <2>2, <2>3 DEF IsSum
<1>6. t[Fields] = s[Fields - 1] + x
  <2>1. DOMAIN s = 0..Fields
    BY <1>1 DEF IsSum
  <2> QED BY <1>2, <2>1
<1>7. Total(zero) = s[Fields] /\ Total(with) = t[Fields]
  <2> HIDE DEF zero, with, t
  <2> QED BY <1>1, <1>5, TotalIsSum
<1> QED BY <1>4, <1>6, <1>7

LEMMA ExceptType ==
  ASSUME NEW D, NEW V, NEW p \in [D -> V], NEW d, NEW v \in V
  PROVE  [p EXCEPT ![d] = v] \in [D -> V]
OBVIOUS

\* trim_memory_to_budget keeps within the budget, however the shares round.
LEMMA TrimFits ==
  ASSUME NEW len \in [Field -> Int]
  PROVE  Trim(len) \in [Field -> Int] /\ Total(Trim(len)) <= Budget
<1> DEFINE total == Total(len)
           part == [k \in Field |-> (len[k] * Budget) \div total]
           used == Total([part EXCEPT ![Fields] = 0])
           last == Least(len[Fields], Budget - used)
<1>0. total \in Int /\ Budget \in Nat /\ Fields \in Field
  BY TotalType, MemoryConstants DEF Field
<1>1. CASE total <= Budget
  BY <1>0, <1>1 DEF Trim
<1>2. CASE ~(total <= Budget)
  <2>1. total \in Nat /\ total > 0
    BY <1>0, <1>2
  <2>2. ASSUME NEW k \in Field PROVE (len[k] * Budget) \div total \in Int
    <3>1. len[k] * Budget \in Int
      BY <1>0
    <3> HIDE DEF total
    <3> QED BY <2>1, <3>1
  <2>3. part \in [Field -> Int]
    BY <2>2
  <2>4. [part EXCEPT ![Fields] = 0] \in [Field -> Int]
    <3> HIDE DEF part
    <3> QED BY <2>3, ExceptType
  <2>5. used \in Int
    BY <2>4, TotalType
  <2>6. last \in Int /\ last <= Budget - used
    BY <1>0, <2>5 DEF Least
  <2>7. Trim(len) = [part EXCEPT ![Fields] = last]
    BY <1>2 DEF Trim
  <2> HIDE DEF total, part, last
  <2>8. Total([part EXCEPT ![Fields] = last]) = used + last
    BY <2>3, <2>6, TotalLast
  <2>9. [part EXCEPT ![Fields] = last] \in [Field -> Int]
    BY <2>3, <2>6
  <2> HIDE DEF used
  <2> QED BY <1>0, <2>5, <2>6, <2>7, <2>8, <2>9
<1> QED BY <1>1, <1>2

(* Memory: edits and messages reach it, and it fits.                        *)

\* The fields that are read of the row, an edit and a dream, step by step.
RowType ==
  /\ memory = [there |-> memory.there, ts |-> memory.ts, len |-> memory.len, by |-> memory.by]
  /\ memory.ts \in Nat /\ memory.len \in [Field -> Int] /\ memory.by \in [Field -> Nat]

EditorType ==
  /\ editor = [e \in Edit |-> editor[e]]
  /\ \A e \in Edit :
       /\ editor[e] = [f \in DOMAIN editor[e] |-> editor[e][f]] /\ "pc" \in DOMAIN editor[e]
       /\ Checking(e) => /\ DOMAIN editor[e] = {"pc", "given", "len"}
                         /\ editor[e].given \subseteq Field
                         /\ editor[e].len \in [editor[e].given -> Int]

DreamType ==
  \A j \in Dream :
    /\ dream[j].pc = "loaded" =>
         /\ DOMAIN dream[j] = {"pc", "ts", "seen", "old"}
         /\ dream[j].old.len \in [Field -> Int] /\ dream[j].old.by \in [Field -> Nat]
    /\ dream[j].pc \in {"save", "insert"} =>
         /\ DOMAIN dream[j] = {"pc", "ts", "seen", "new"}
         /\ dream[j].new.len \in [Field -> Int] /\ dream[j].new.by \in [Field -> Nat]
    /\ Running(j) => dream[j].seen \subseteq Said /\ dream[j].ts \in Nat

HistoryType ==
  /\ said = [s \in Said |-> said[s]] /\ updated \in [Talk -> Nat] /\ now \in Nat
  /\ \A s \in Said : /\ said[s].pc = "open" => said[s].talk \in Talk /\ said[s].at \in Nat
                     /\ said[s].pc = "in" => said[s].talk \in Talk
  /\ DOMAIN mhist = {"typed", "trampled", "overlapped", "remembered", "late", "cut",
                     "unstamped", "read", "outlived"}
  /\ mhist.typed \in [Field -> Nat] /\ mhist.trampled \subseteq Field
  /\ mhist.overlapped \in BOOLEAN /\ mhist.read \in Nat

Knows(by) == \A f \in Field : by[f] = mhist.typed[f] \/ f \in mhist.trampled

\* A dream carries on what the user typed before it, as the row does.
EditsKnown ==
  /\ Knows(memory.by)
  /\ \A j \in Dream : /\ dream[j].pc = "loaded" => Knows(dream[j].old.by)
                      /\ dream[j].pc \in {"save", "insert"} => Knows(dream[j].new.by)

\* What a dream would pass over is accounted for.
Excused == mhist.remembered \cup mhist.cut \cup mhist.unstamped \cup mhist.late

\* The messages of conversations that were not written since ts, for a dream that has
\* seen some of them.
CoveredBy(ts, seen) ==
  \A s \in Said : said[s].pc = "in" /\ updated[said[s].talk] <= ts => s \in seen \cup Excused

\* Stamps come from one clock, and no dream has one later than the last reading.
MessagesKnown ==
  /\ memory.ts <= mhist.read /\ mhist.read <= now
  /\ CoveredBy(memory.ts, {})
  /\ \A j \in Dream : Running(j) => /\ dream[j].ts <= mhist.read
                                    /\ CoveredBy(dream[j].ts, dream[j].seen)

\* What the row will be after the edit.
Merged(e) == [f \in Field |-> IF f \in editor[e].given THEN editor[e].len[f] ELSE memory.len[f]]

\* The row fits; so does what an edit would make of it, and what an agent has written.
RowFits ==
  \/ mhist.overlapped
  \/ /\ Total(memory.len) <= Budget
     /\ \A e \in Edit : Checking(e) => Total(Merged(e)) <= Budget
LengthsFit ==
  /\ RowFits
  /\ \A j \in Dream : dream[j].pc \in {"save", "insert"} => Total(dream[j].new.len) <= Budget

KInv == /\ RowType /\ EditorType /\ DreamType /\ HistoryType
        /\ EditsKnown /\ MessagesKnown /\ LengthsFit

\* Steps that touch neither the row nor an edit nor what a running dream holds.
Quiet ==
  /\ UNCHANGED <<memory, editor, said, updated, now>>
  /\ \A j \in Dream : Running(j)' => dream'[j] = dream[j]
  /\ DOMAIN mhist' = DOMAIN mhist
  /\ \A f \in DOMAIN mhist \ {"outlived"} : mhist'[f] = mhist[f]

EditWrites(e)  == Checking(e) /\ Edited(e)
DreamWrites(j) == dream[j].pc \in {"save", "insert"} /\ Saves(j)

MemoryEffect ==
  \/ \E e \in Edit : BeginEdit(e) \/ EditWrites(e) \/ EditFindsNone(e) \/ EditConflicts(e)
  \/ \E s \in Said : OpenSaid(s) \/ CommitSaid(s)
  \/ \E j \in Dream : LoadDream(j) \/ AgentRewrites(j) \/ DreamFindsNone(j) \/ DreamWrites(j)
  \/ Quiet

LEMMA MemoryEffects == MemoryShape /\ [MemoryNext]_memoryVars => MemoryEffect
<1> SUFFICES ASSUME MemoryShape, [MemoryNext]_memoryVars PROVE MemoryEffect
    OBVIOUS
<1> USE DEF MemoryShape
<1>1. ASSUME NEW j \in Dream, NEW pc, pc \notin {"loaded", "save", "insert"}, Moves(j, pc)
      PROVE  \A i \in Dream : Running(i)' => dream'[i] = dream[i]
  BY <1>1 DEF Moves, Running
<1>2. ASSUME NEW j \in Dream, CheckCooldown(j) PROVE Quiet
  BY <1>1, <1>2 DEF CheckCooldown, Quiet
<1>3. ASSUME NEW j \in Dream, SetIfNone(j) PROVE Quiet
  BY <1>1, <1>3 DEF SetIfNone, TakesLock, Quiet
<1>4. ASSUME NEW j \in Dream, ReadStatus(j) \/ SeesRunning(j) \/ SeesStale(j) PROVE Quiet
  BY <1>1, <1>4 DEF ReadStatus, SeesRunning, SeesStale, Quiet
<1>5. ASSUME NEW j \in Dream, OverwriteStale(j) PROVE Quiet
  BY <1>1, <1>5 DEF OverwriteStale, Quiet
<1>6. ASSUME NEW j \in Dream, EnqueueDream(j) \/ DreamLost(j) \/ SetStatus(j) PROVE Quiet
  BY <1>1, <1>6 DEF EnqueueDream, DreamLost, SetStatus, Quiet
<1>7. ASSUME NEW j \in Dream, DreamFails(j) PROVE Quiet
  BY <1>7 DEF DreamFails, Running, Quiet
<1>8. ASSUME LockExpires PROVE Quiet
  <2>1. \A j \in Dream : dream'[j] = dream[j]
    BY <1>8 DEF LockExpires
  <2>2. \A f \in DOMAIN mhist \ {"outlived"} : mhist'[f] = mhist[f]
    BY <1>8 DEF LockExpires
  <2>3. DOMAIN mhist' = DOMAIN mhist
    BY <1>8 DEF LockExpires
  <2>4. UNCHANGED <<memory, editor, said, updated, now>>
    BY <1>8 DEF LockExpires
  <2> QED BY <2>1, <2>2, <2>3, <2>4 DEF Quiet, Running
<1>9. ASSUME CooldownExpires PROVE Quiet
  <2>1. \A j \in Dream : dream'[j] = dream[j]
    BY <1>9 DEF CooldownExpires
  <2>2. \A f \in DOMAIN mhist \ {"outlived"} : mhist'[f] = mhist[f]
    BY <1>9 DEF CooldownExpires
  <2>3. DOMAIN mhist' = DOMAIN mhist
    BY <1>9 DEF CooldownExpires
  <2>4. UNCHANGED <<memory, editor, said, updated, now>>
    BY <1>9 DEF CooldownExpires
  <2> QED BY <2>1, <2>2, <2>3, <2>4 DEF Quiet, Running
<1>10. ASSUME UNCHANGED memoryVars PROVE Quiet
  <2>1. \A j \in Dream : dream'[j] = dream[j]
    BY <1>10 DEF memoryVars
  <2>2. \A f \in DOMAIN mhist \ {"outlived"} : mhist'[f] = mhist[f]
    BY <1>10 DEF memoryVars
  <2>3. DOMAIN mhist' = DOMAIN mhist
    BY <1>10 DEF memoryVars
  <2>4. UNCHANGED <<memory, editor, said, updated, now>>
    BY <1>10 DEF memoryVars
  <2> QED BY <2>1, <2>2, <2>3, <2>4 DEF Quiet, Running
<1>11. ASSUME NEW e \in Edit, UpsertEdit(e) \/ InsertEdit(e) PROVE EditWrites(e)
  BY <1>11 DEF UpsertEdit, InsertEdit, EditWrites, Checking
<1>12. ASSUME NEW j \in Dream, UpsertDream(j) \/ InsertDream(j) PROVE DreamWrites(j)
  BY <1>12 DEF UpsertDream, InsertDream, DreamWrites
<1> QED
  BY <1>2, <1>3, <1>4, <1>5, <1>6, <1>7, <1>8, <1>9, <1>10, <1>11, <1>12
     DEF MemoryNext, MemoryEffect

LEMMA EmptyFits == Total([f \in Field |-> 0]) <= Budget
<1> DEFINE s == [k \in 0..Fields |-> 0]
<1>1. IsSum(s, [f \in Field |-> 0], Fields)
  <2>1. ASSUME NEW k \in 0..Fields
        PROVE  s[k] = IF k = 0 THEN 0 ELSE s[k - 1] + [f \in Field |-> 0][k]
    <3>1. CASE k # 0
      <4>1. k - 1 \in 0..Fields /\ k \in Field
        BY <3>1, MemoryConstants DEF Field
      <4> QED BY <3>1, <4>1
    <3> QED BY <3>1
  <2> QED BY <2>1 DEF IsSum
<1>2. s[Fields] = 0
  BY MemoryConstants
<1> HIDE DEF s
<1> QED BY <1>1, <1>2, TotalIsSum, MemoryConstants

LEMMA MemoryInitK == MemoryInit => KInv
<1> SUFFICES ASSUME MemoryInit PROVE KInv
    OBVIOUS
<1>1. /\ memory = [there |-> FALSE, ts |-> 0, len |-> [f \in Field |-> 0], by |-> [f \in Field |-> 0]]
      /\ editor = [e \in Edit |-> [pc |-> "fresh"]]
      /\ \A j \in Dream : dream[j].pc = "fresh"
      /\ said = [s \in Said |-> [pc |-> "none"]] /\ updated = [c \in Talk |-> 0] /\ now = 0
      /\ mhist = [typed |-> [f \in Field |-> 0], trampled |-> {}, overlapped |-> FALSE,
                  remembered |-> {}, late |-> {}, cut |-> {}, unstamped |-> {}, read |-> 0,
                  outlived |-> FALSE]
  BY DEF MemoryInit
<1>2. RowType /\ EditorType /\ DreamType
  BY <1>1 DEF RowType, EditorType, DreamType, Running, Checking
<1>3. HistoryType /\ EditsKnown /\ MessagesKnown
  BY <1>1 DEF HistoryType, EditsKnown, Knows, MessagesKnown, CoveredBy, Running
<1>4. LengthsFit
  BY <1>1, EmptyFits DEF LengthsFit, RowFits, Checking
<1> QED BY <1>2, <1>3, <1>4 DEF KInv

LEMMA RowTypeStep == MemoryShape /\ KInv /\ MemoryEffect => RowType'
<1> SUFFICES ASSUME MemoryShape, KInv, MemoryEffect PROVE RowType'
    OBVIOUS
<1> USE MemoryConstants DEF KInv, RowType, MemoryShape, Running, Checking, EditorType,
   DreamType
<1>1. ASSUME NEW e \in Edit, BeginEdit(e) PROVE RowType'
  BY <1>1 DEF BeginEdit
<1>2. ASSUME NEW e \in Edit, EditWrites(e) PROVE RowType'
  <2> DEFINE given == editor[e].given
             over(old, new) == [f \in Field |-> IF f \in given THEN new[f] ELSE old[f]]
  <2>1. memory' = [memory EXCEPT !.there = TRUE, !.len = over(memory.len, editor[e].len),
                                 !.by = over(memory.by, [f \in Field |-> e])]
    BY <1>2 DEF EditWrites, Edited
  <2>2. over(memory.len, editor[e].len) \in [Field -> Int]
    BY <1>2 DEF EditWrites
  <2>3. over(memory.by, [f \in Field |-> e]) \in [Field -> Nat]
    BY DEF Edit
  <2> HIDE DEF over
  <2>4. /\ memory' = [there |-> memory'.there, ts |-> memory'.ts, len |-> memory'.len, by |-> memory'.by]
        /\ memory'.ts = memory.ts /\ memory'.len = over(memory.len, editor[e].len)
        /\ memory'.by = over(memory.by, [f \in Field |-> e])
    BY <2>1
  <2> QED BY <2>2, <2>3, <2>4
<1>3. ASSUME NEW e \in Edit, EditFindsNone(e) PROVE RowType'
  BY <1>3 DEF EditFindsNone
<1>4. ASSUME NEW e \in Edit, EditConflicts(e) PROVE RowType'
  BY <1>4 DEF EditConflicts
<1>5. ASSUME NEW s \in Said, OpenSaid(s) PROVE RowType'
  BY <1>5 DEF OpenSaid
<1>6. ASSUME NEW s \in Said, CommitSaid(s) PROVE RowType'
  BY <1>6 DEF CommitSaid
<1>7. ASSUME NEW j \in Dream, LoadDream(j) PROVE RowType'
  BY <1>7 DEF LoadDream
<1>8. ASSUME NEW j \in Dream, AgentRewrites(j) PROVE RowType'
  BY <1>8 DEF AgentRewrites
<1>9. ASSUME NEW j \in Dream, DreamFindsNone(j) PROVE RowType'
  BY <1>9 DEF DreamFindsNone
<1>10. ASSUME NEW j \in Dream, DreamWrites(j) PROVE RowType'
  BY <1>10 DEF DreamWrites, Saves, Stamp
<1>11. CASE Quiet
  BY <1>11 DEF Quiet
<1> QED
  BY <1>1, <1>2, <1>3, <1>4, <1>5, <1>6, <1>7, <1>8, <1>9, <1>10, <1>11 DEF MemoryEffect

LEMMA EditorTypeStep == MemoryShape /\ KInv /\ MemoryEffect => EditorType'
<1> SUFFICES ASSUME MemoryShape, KInv, MemoryEffect PROVE EditorType'
    OBVIOUS
<1> USE MemoryConstants DEF KInv, EditorType, MemoryShape, Running, Checking, RowType
<1>1. ASSUME NEW e \in Edit, BeginEdit(e) PROVE EditorType'
  <2>1. PICK given \in SUBSET Field : \E len \in [given -> Length] :
          \/ editor' = [editor EXCEPT ![e] = [pc |-> "done"]]
          \/ editor' = [editor EXCEPT ![e] = [pc |-> "check", given |-> given, len |-> len]]
    BY <1>1 DEF BeginEdit
  <2>2. PICK len \in [given -> Length] :
          \/ editor' = [editor EXCEPT ![e] = [pc |-> "done"]]
          \/ editor' = [editor EXCEPT ![e] = [pc |-> "check", given |-> given, len |-> len]]
    BY <2>1
  <2>3. len \in [given -> Int]
    BY DEF Length
  <2>4. \A d \in Edit \ {e} : editor'[d] = editor[d]
    BY <2>2
  <2>5. editor' = [d \in Edit |-> editor'[d]]
    BY <2>2
  <2>6. \/ editor'[e] = [pc |-> "done"]
        \/ editor'[e] = [pc |-> "check", given |-> given, len |-> len]
    BY <2>2
  <2> QED BY <2>3, <2>4, <2>5, <2>6
<1>2. ASSUME NEW e \in Edit, EditWrites(e) PROVE EditorType'
  BY <1>2 DEF EditWrites, Edited
<1>3. ASSUME NEW e \in Edit, EditFindsNone(e) PROVE EditorType'
  BY <1>3 DEF EditFindsNone
<1>4. ASSUME NEW e \in Edit, EditConflicts(e) PROVE EditorType'
  BY <1>4 DEF EditConflicts
<1>5. ASSUME NEW s \in Said, OpenSaid(s) PROVE EditorType'
  BY <1>5 DEF OpenSaid
<1>6. ASSUME NEW s \in Said, CommitSaid(s) PROVE EditorType'
  BY <1>6 DEF CommitSaid
<1>7. ASSUME NEW j \in Dream, LoadDream(j) PROVE EditorType'
  BY <1>7 DEF LoadDream
<1>8. ASSUME NEW j \in Dream, AgentRewrites(j) PROVE EditorType'
  BY <1>8 DEF AgentRewrites
<1>9. ASSUME NEW j \in Dream, DreamFindsNone(j) PROVE EditorType'
  BY <1>9 DEF DreamFindsNone
<1>10. ASSUME NEW j \in Dream, DreamWrites(j) PROVE EditorType'
  BY <1>10 DEF DreamWrites, Saves, Stamp
<1>11. CASE Quiet
  BY <1>11 DEF Quiet
<1> QED
  BY <1>1, <1>2, <1>3, <1>4, <1>5, <1>6, <1>7, <1>8, <1>9, <1>10, <1>11 DEF MemoryEffect

LEMMA DreamTypeStep == MemoryShape /\ KInv /\ MemoryEffect => DreamType'
<1> SUFFICES ASSUME MemoryShape, KInv, MemoryEffect PROVE DreamType'
    OBVIOUS
<1> USE MemoryConstants DEF KInv, DreamType, MemoryShape, Running, Checking, RowType
<1>1. ASSUME NEW e \in Edit, BeginEdit(e) PROVE DreamType'
  BY <1>1 DEF BeginEdit
<1>2. ASSUME NEW e \in Edit, EditWrites(e) PROVE DreamType'
  BY <1>2 DEF EditWrites, Edited
<1>3. ASSUME NEW e \in Edit, EditFindsNone(e) PROVE DreamType'
  BY <1>3 DEF EditFindsNone
<1>4. ASSUME NEW e \in Edit, EditConflicts(e) PROVE DreamType'
  BY <1>4 DEF EditConflicts
<1>5. ASSUME NEW s \in Said, OpenSaid(s) PROVE DreamType'
  BY <1>5 DEF OpenSaid
<1>6. ASSUME NEW s \in Said, CommitSaid(s) PROVE DreamType'
  BY <1>6 DEF CommitSaid
<1>7. ASSUME NEW j \in Dream, LoadDream(j) PROVE DreamType'
  <2>1. /\ Excerpt \subseteq Said
        /\ \/ dream' = [dream EXCEPT ![j] = [pc |-> "report", status |-> "done"]]
           \/ dream' = [dream EXCEPT ![j] = [pc |-> "loaded", ts |-> now + 1, seen |-> Excerpt,
                                             old |-> memory]]
    BY <1>7 DEF LoadDream, Excerpt, Chosen, Lines
  <2>2. now + 1 \in Nat
    BY DEF HistoryType
  <2> QED BY <2>1, <2>2
<1>8. ASSUME NEW j \in Dream, AgentRewrites(j) PROVE DreamType'
  <2>1. PICK out \in [Field -> Output] :
          dream' = [dream EXCEPT ![j] = [pc |-> "save", ts |-> dream[j].ts, seen |-> dream[j].seen,
                                         new |-> OrOld(dream[j].old, out)]]
    BY <1>8 DEF AgentRewrites
  <2>2. OrOld(dream[j].old, out).by \in [Field -> Nat]
    BY <1>8 DEF AgentRewrites, OrOld
  <2>3. OrOld(dream[j].old, out).len \in [Field -> Int]
    <3>1. [f \in Field |-> IF out[f] = 0 THEN dream[j].old.len[f] ELSE out[f]] \in [Field -> Int]
      BY <1>8 DEF AgentRewrites, Output
    <3> QED BY <3>1, TrimFits DEF OrOld
  <2>4. dream[j].seen \subseteq Said /\ dream[j].ts \in Nat
    BY <1>8 DEF AgentRewrites
  <2> QED BY <2>1, <2>2, <2>3, <2>4
<1>9. ASSUME NEW j \in Dream, DreamFindsNone(j) PROVE DreamType'
  BY <1>9 DEF DreamFindsNone
<1>10. ASSUME NEW j \in Dream, DreamWrites(j) PROVE DreamType'
  BY <1>10 DEF DreamWrites, Saves, Stamp
<1>11. CASE Quiet
  BY <1>11 DEF Quiet
<1> QED
  BY <1>1, <1>2, <1>3, <1>4, <1>5, <1>6, <1>7, <1>8, <1>9, <1>10, <1>11 DEF MemoryEffect

LEMMA HistoryTypeStep == MemoryShape /\ KInv /\ MemoryEffect => HistoryType'
<1> SUFFICES ASSUME MemoryShape, KInv, MemoryEffect PROVE HistoryType'
    OBVIOUS
<1> USE MemoryConstants DEF KInv, HistoryType, MemoryShape, Running, Checking, DreamType,
        EditorType
<1>1. ASSUME NEW e \in Edit, BeginEdit(e) PROVE HistoryType'
  BY <1>1 DEF BeginEdit
<1>2. ASSUME NEW e \in Edit, EditWrites(e) PROVE HistoryType'
  <2> DEFINE typed == [f \in Field |-> IF f \in editor[e].given THEN e ELSE mhist.typed[f]]
  <2>1. \E trampled \in SUBSET Field, checking \in BOOLEAN :
          mhist' = [mhist EXCEPT !.typed = typed, !.trampled = trampled, !.overlapped = checking]
    <3>1. mhist.trampled \cup editor[e].given \subseteq Field
      BY <1>2 DEF EditWrites
    <3>2. typed = [f \in Field |-> IF f \in editor[e].given THEN [g \in Field |-> e][f]
                                                           ELSE mhist.typed[f]]
      OBVIOUS
    <3> QED BY <1>2, <3>1, <3>2 DEF EditWrites, Edited
  <2>2. typed \in [Field -> Nat]
    BY DEF Edit
  <2> QED BY <1>2, <2>1, <2>2 DEF EditWrites, Edited
<1>3. ASSUME NEW e \in Edit, EditFindsNone(e) PROVE HistoryType'
  BY <1>3 DEF EditFindsNone
<1>4. ASSUME NEW e \in Edit, EditConflicts(e) PROVE HistoryType'
  BY <1>4 DEF EditConflicts
<1>5. ASSUME NEW s \in Said, OpenSaid(s) PROVE HistoryType'
  BY <1>5 DEF OpenSaid
<1>6. ASSUME NEW s \in Said, CommitSaid(s) PROVE HistoryType'
  BY <1>6 DEF CommitSaid
<1>7. ASSUME NEW j \in Dream, LoadDream(j) PROVE HistoryType'
  BY <1>7 DEF LoadDream
<1>8. ASSUME NEW j \in Dream, AgentRewrites(j) PROVE HistoryType'
  BY <1>8 DEF AgentRewrites
<1>9. ASSUME NEW j \in Dream, DreamFindsNone(j) PROVE HistoryType'
  BY <1>9 DEF DreamFindsNone
<1>10. ASSUME NEW j \in Dream, DreamWrites(j) PROVE HistoryType'
  BY <1>10 DEF DreamWrites, Saves, Stamp
<1>11. CASE Quiet
  BY <1>11 DEF Quiet
<1> QED
  BY <1>1, <1>2, <1>3, <1>4, <1>5, <1>6, <1>7, <1>8, <1>9, <1>10, <1>11 DEF MemoryEffect

LEMMA EditsKnownStep == MemoryShape /\ KInv /\ MemoryEffect => EditsKnown'
<1> SUFFICES ASSUME MemoryShape, KInv, MemoryEffect PROVE EditsKnown'
    OBVIOUS
<1> USE MemoryConstants DEF KInv, EditsKnown, MemoryShape, Running, Checking, RowType,
        DreamType, EditorType, HistoryType, Knows
<1>1. ASSUME NEW e \in Edit, BeginEdit(e) PROVE EditsKnown'
  BY <1>1 DEF BeginEdit
<1>2. ASSUME NEW e \in Edit, EditWrites(e) PROVE EditsKnown'
  BY <1>2 DEF EditWrites, Edited
<1>3. ASSUME NEW e \in Edit, EditFindsNone(e) PROVE EditsKnown'
  BY <1>3 DEF EditFindsNone
<1>4. ASSUME NEW e \in Edit, EditConflicts(e) PROVE EditsKnown'
  BY <1>4 DEF EditConflicts
<1>5. ASSUME NEW s \in Said, OpenSaid(s) PROVE EditsKnown'
  BY <1>5 DEF OpenSaid
<1>6. ASSUME NEW s \in Said, CommitSaid(s) PROVE EditsKnown'
  BY <1>6 DEF CommitSaid
<1>7. ASSUME NEW j \in Dream, LoadDream(j) PROVE EditsKnown'
  BY <1>7 DEF LoadDream
<1>8. ASSUME NEW j \in Dream, AgentRewrites(j) PROVE EditsKnown'
  <2>1. PICK out \in [Field -> Output] :
          dream' = [dream EXCEPT ![j] = [pc |-> "save", ts |-> dream[j].ts, seen |-> dream[j].seen,
                                         new |-> OrOld(dream[j].old, out)]]
    BY <1>8 DEF AgentRewrites
  <2>2. OrOld(dream[j].old, out).by = dream[j].old.by
    BY DEF OrOld
  <2>3. Knows(dream[j].old.by)
    BY <1>8 DEF AgentRewrites
  <2> QED BY <1>8, <2>1, <2>2, <2>3 DEF AgentRewrites
<1>9. ASSUME NEW j \in Dream, DreamFindsNone(j) PROVE EditsKnown'
  BY <1>9 DEF DreamFindsNone
<1>10. ASSUME NEW j \in Dream, DreamWrites(j) PROVE EditsKnown'
  BY <1>10 DEF DreamWrites, Saves, Stamp
<1>11. CASE Quiet
  BY <1>11 DEF Quiet
<1> QED
  BY <1>1, <1>2, <1>3, <1>4, <1>5, <1>6, <1>7, <1>8, <1>9, <1>10, <1>11 DEF MemoryEffect

LEMMA MessagesKnownStep == MemoryShape /\ KInv /\ MemoryEffect => MessagesKnown'
<1> SUFFICES ASSUME MemoryShape, KInv, MemoryEffect PROVE MessagesKnown'
    OBVIOUS
<1> USE MemoryConstants DEF KInv, MessagesKnown, MemoryShape, Running, Checking, RowType,
        DreamType, HistoryType, CoveredBy, Excused, Stamp
<1>1. ASSUME NEW e \in Edit, BeginEdit(e) PROVE MessagesKnown'
  BY <1>1 DEF BeginEdit
<1>2. ASSUME NEW e \in Edit, EditWrites(e) PROVE MessagesKnown'
  BY <1>2 DEF EditWrites, Edited
<1>3. ASSUME NEW e \in Edit, EditFindsNone(e) PROVE MessagesKnown'
  BY <1>3 DEF EditFindsNone
<1>4. ASSUME NEW e \in Edit, EditConflicts(e) PROVE MessagesKnown'
  BY <1>4 DEF EditConflicts
<1>5. ASSUME NEW s \in Said, OpenSaid(s) PROVE MessagesKnown'
  BY <1>5 DEF OpenSaid
<1>6. ASSUME NEW s \in Said, CommitSaid(s) PROVE MessagesKnown'
  <2> DEFINE t == said[s].talk
  <2>1. /\ said[s].pc = "open" /\ t \in Talk /\ said[s].at \in Nat
        /\ said'[s].pc = "in" /\ said'[s].talk = t
        /\ \A r \in Said \ {s} : said'[r] = said[r]
        /\ UNCHANGED <<memory, dream, now>>
        /\ \A c \in Talk \ {t} : updated'[c] = updated[c]
        /\ mhist'.read = mhist.read /\ mhist'.remembered = mhist.remembered
        /\ mhist'.cut = mhist.cut /\ mhist.late \subseteq mhist'.late
    BY <1>6 DEF CommitSaid
  \* A message that moves its conversation stamps it after every reading, or too late.
  <2>2. ASSUME said[s].moves
        PROVE  \A r \in Said : said'[r].pc = "in" /\ said'[r].talk = t
                              => mhist.read < updated'[t] \/ r \in mhist'.late
    <3>1. updated'[t] = said[s].at
      BY <1>6, <2>1, <2>2 DEF CommitSaid
    <3>2. \A r \in Said : said'[r].pc = "in" /\ said'[r].talk = t => r \in Thread(s)
      BY <2>1 DEF Thread
    <3>3. mhist.read >= said[s].at => Thread(s) \subseteq mhist'.late
      BY <1>6, <2>2 DEF CommitSaid
    <3> QED BY <2>1, <3>1, <3>2, <3>3
  <2>3. \A r \in Said : said[s].moves /\ r \in mhist.unstamped /\ r \notin mhist'.unstamped
                          => r \in Thread(s)
    BY <1>6 DEF CommitSaid
  <2>4. ~said[s].moves => /\ s \in mhist'.unstamped /\ mhist.unstamped \subseteq mhist'.unstamped
                          /\ updated' = updated
    BY <1>6 DEF CommitSaid
  <2>5. \A r \in Thread(s) : said'[r].talk = t
    BY <2>1 DEF Thread
  <2>6. ASSUME NEW ts \in Nat, NEW seen, ts <= mhist.read, CoveredBy(ts, seen)
        PROVE  CoveredBy(ts, seen)'
    <3> SUFFICES ASSUME NEW r \in Said, said'[r].pc = "in", updated'[said'[r].talk] <= ts
                 PROVE  r \in seen \cup Excused'
      OBVIOUS
    <3>1. CASE said'[r].talk = t /\ said[s].moves
      <4>1. updated'[t] \in Nat
        BY <1>6, <2>1 DEF CommitSaid
      <4>2. ~(mhist.read < updated'[t])
        BY <2>1, <2>6, <3>1, <4>1
      <4> QED BY <2>2, <3>1, <4>2
    <3>2. CASE said'[r].talk # t
      <4>1. r # s /\ said[r] = said'[r] /\ updated[said[r].talk] <= ts
        BY <2>1, <3>2
      <4>2. r \in seen \cup Excused
        BY <2>6, <4>1
      <4> QED BY <2>1, <2>3, <2>4, <2>5, <3>2, <4>2
    <3>3. CASE ~said[s].moves
      BY <2>1, <2>4, <2>6, <3>3
    <3> QED BY <3>1, <3>2, <3>3
  <2> QED BY <2>1, <2>6
<1>7. ASSUME NEW j \in Dream, LoadDream(j) PROVE MessagesKnown'
  <2>1. /\ UNCHANGED <<memory, said, updated>> /\ now' = now + 1
        /\ \A i \in Dream \ {j} : dream'[i] = dream[i]
        /\ Running(j)' => dream'[j].ts = now + 1 /\ dream'[j].seen = Excerpt
        /\ mhist'.read = now + 1 /\ mhist'.cut = mhist.cut \cup (Lines \ Excerpt)
        /\ mhist'.remembered = mhist.remembered /\ mhist'.unstamped = mhist.unstamped
        /\ mhist'.late = mhist.late
    BY <1>7 DEF LoadDream
  <2>2. ASSUME NEW s \in Said, said[s].pc = "in", s \notin Lines
        PROVE  updated[said[s].talk] <= memory.ts
    <3>1. updated[said[s].talk] \in Nat /\ memory.ts \in Nat
      BY <2>2
    <3>2. ~(updated[said[s].talk] > memory.ts)
      BY <2>2 DEF Lines, Fresh
    <3> QED BY <3>1, <3>2
  <2>3. Excused \subseteq Excused' /\ Lines \ Excerpt \subseteq Excused'
    BY <2>1
  <2>4. CoveredBy(memory.ts, {})
    OBVIOUS
  <2> HIDE DEF Excused
  <2>5. \A s \in Said : said[s].pc = "in" => s \in Excerpt \cup Excused'
    BY <2>2, <2>3, <2>4
  <2> DEFINE Later(ts, seen) ==
        \A s \in Said : said'[s].pc = "in" /\ updated'[said'[s].talk] <= ts
                        => s \in seen \cup Excused'
  <2>6. Later(now + 1, Excerpt)
    BY <2>1, <2>5
  <2>7. \A ts, seen : CoveredBy(ts, seen) => Later(ts, seen)
    BY <2>1, <2>3
  <2>8. Later(memory'.ts, {}) /\ memory'.ts <= mhist'.read /\ mhist'.read <= now'
    <3>1. memory.ts \in Nat /\ memory.ts <= mhist.read /\ mhist.read <= now
      OBVIOUS
    <3>2. memory.ts <= now + 1 /\ memory' = memory /\ mhist'.read = now + 1 /\ now' = now + 1
      BY <2>1, <3>1
    <3> HIDE DEF Later, CoveredBy
    <3> QED BY <2>4, <2>7, <3>2
  <2>9. ASSUME NEW i \in Dream, Running(i)'
        PROVE  dream'[i].ts <= mhist'.read /\ Later(dream'[i].ts, dream'[i].seen)
    <3>1. CASE i = j
      <4>1. dream'[i].ts = now + 1 /\ dream'[i].seen = Excerpt
        BY <2>1, <2>9, <3>1
      <4> HIDE DEF Later
      <4> QED BY <2>1, <2>6, <4>1
    <3>2. CASE i # j
      <4>1. dream'[i] = dream[i] /\ Running(i)
        BY <2>1, <2>9, <3>2
      <4>2. dream[i].ts \in Nat /\ dream[i].ts <= mhist.read /\ CoveredBy(dream[i].ts, dream[i].seen)
        BY <4>1
      <4>3. dream[i].ts <= now + 1
        BY <4>2
      <4> HIDE DEF Later, CoveredBy
      <4> QED BY <2>1, <2>7, <4>1, <4>2, <4>3
    <3> QED BY <3>1, <3>2
  <2> QED BY <2>8, <2>9
<1>8. ASSUME NEW j \in Dream, AgentRewrites(j) PROVE MessagesKnown'
  BY <1>8 DEF AgentRewrites
<1>9. ASSUME NEW j \in Dream, DreamFindsNone(j) PROVE MessagesKnown'
  BY <1>9 DEF DreamFindsNone
<1>10. ASSUME NEW j \in Dream, DreamWrites(j) PROVE MessagesKnown'
  BY <1>10 DEF DreamWrites, Saves
<1>11. CASE Quiet
  BY <1>11 DEF Quiet
<1> QED
  BY <1>1, <1>2, <1>3, <1>4, <1>5, <1>6, <1>7, <1>8, <1>9, <1>10, <1>11 DEF MemoryEffect

LEMMA RowFitsKept == RowFits /\ UNCHANGED <<memory, editor, mhist>> => RowFits'
BY DEF RowFits, Checking, Merged

LEMMA LengthsFitStep == MemoryShape /\ KInv /\ MemoryEffect => LengthsFit'
<1> SUFFICES ASSUME MemoryShape, KInv, MemoryEffect PROVE LengthsFit'
    OBVIOUS
<1> USE MemoryConstants DEF KInv, LengthsFit, RowFits, MemoryShape, Running, Checking, RowType,
        DreamType, HistoryType, EditorType, Merged
<1>1. ASSUME NEW e \in Edit, BeginEdit(e) PROVE LengthsFit'
  <2>1. PICK given \in SUBSET Field : \E len \in [given -> Length] :
          editor' = [editor EXCEPT ![e] =
            IF Total([f \in Field |-> IF f \in given THEN len[f] ELSE memory.len[f]]) > Budget
            THEN [pc |-> "done"] ELSE [pc |-> "check", given |-> given, len |-> len]]
    BY <1>1 DEF BeginEdit
  <2>2. PICK len \in [given -> Length] :
          editor' = [editor EXCEPT ![e] =
            IF Total([f \in Field |-> IF f \in given THEN len[f] ELSE memory.len[f]]) > Budget
            THEN [pc |-> "done"] ELSE [pc |-> "check", given |-> given, len |-> len]]
    BY <2>1
  <2> DEFINE merged == [f \in Field |-> IF f \in given THEN len[f] ELSE memory.len[f]]
  <2>3. Total(merged) \in Int
    <3>1. merged \in [Field -> Int]
      BY DEF Length
    <3> HIDE DEF merged
    <3> QED BY <3>1, TotalType
  <2>4. UNCHANGED <<memory, dream, mhist>> /\ \A d \in Edit \ {e} : editor'[d] = editor[d]
    BY <1>1, <2>2 DEF BeginEdit
  <2>5. Checking(e)' => Merged(e)' = merged /\ Total(merged) <= Budget
    <3>1. Checking(e)' => editor'[e] = [pc |-> "check", given |-> given, len |-> len]
      BY <2>2
    <3>2. Checking(e)' => ~(Total(merged) > Budget)
      BY <2>2
    <3> HIDE DEF merged
    <3>3. Checking(e)' => Merged(e)' = merged
      BY <2>4, <3>1 DEF merged
    <3> QED BY <2>3, <3>2, <3>3
  <2> HIDE DEF merged
  <2>6. \A d \in Edit \ {e} : Checking(d)' => Checking(d) /\ Merged(d)' = Merged(d)
    BY <2>4
  <2>7. \/ mhist.overlapped
        \/ /\ Total(memory.len) <= Budget
           /\ \A d \in Edit : Checking(d)' => Total(Merged(d)') <= Budget
    <3> HIDE DEF Checking, Merged
    <3> QED BY <2>5, <2>6
  <2> QED BY <2>4, <2>7
<1>2. ASSUME NEW e \in Edit, EditWrites(e) PROVE LengthsFit'
  BY <1>2 DEF EditWrites, Edited
<1>3. ASSUME NEW e \in Edit, EditFindsNone(e) PROVE LengthsFit'
  BY <1>3 DEF EditFindsNone
<1>4. ASSUME NEW e \in Edit, EditConflicts(e) PROVE LengthsFit'
  BY <1>4 DEF EditConflicts
<1>5. ASSUME NEW s \in Said, OpenSaid(s) PROVE LengthsFit'
  BY <1>5 DEF OpenSaid
<1>6. ASSUME NEW s \in Said, CommitSaid(s) PROVE LengthsFit'
  BY <1>6 DEF CommitSaid
<1>7. ASSUME NEW j \in Dream, LoadDream(j) PROVE LengthsFit'
  BY <1>7 DEF LoadDream
<1>8. ASSUME NEW j \in Dream, AgentRewrites(j) PROVE LengthsFit'
  <2>1. PICK out \in [Field -> Output] :
          dream' = [dream EXCEPT ![j] = [pc |-> "save", ts |-> dream[j].ts, seen |-> dream[j].seen,
                                         new |-> OrOld(dream[j].old, out)]]
    BY <1>8 DEF AgentRewrites
  <2>2. Total(OrOld(dream[j].old, out).len) <= Budget
    <3>1. [f \in Field |-> IF out[f] = 0 THEN dream[j].old.len[f] ELSE out[f]] \in [Field -> Int]
      BY <1>8 DEF AgentRewrites, Output
    <3> QED BY <3>1, TrimFits DEF OrOld
  <2>3. \A i \in Dream \ {j} : dream'[i] = dream[i]
    BY <2>1
  <2>4. ASSUME NEW i \in Dream, dream'[i].pc \in {"save", "insert"}
        PROVE  Total(dream'[i].new.len) <= Budget
    <3>1. CASE i = j
      <4>1. dream'[i].new = OrOld(dream[j].old, out)
        BY <2>1, <3>1
      <4> QED BY <2>2, <4>1
    <3>2. CASE i # j
      BY <2>3, <2>4, <3>2
    <3> QED BY <3>1, <3>2
  <2>5. UNCHANGED <<memory, editor, mhist>>
    BY <1>8 DEF AgentRewrites
  <2>6. RowFits'
    BY <2>5, RowFitsKept
  <2> HIDE DEF RowFits
  <2> QED BY <2>4, <2>6
<1>9. ASSUME NEW j \in Dream, DreamFindsNone(j) PROVE LengthsFit'
  <2>1. RowFits'
    BY <1>9, RowFitsKept DEF DreamFindsNone
  <2>2. \A i \in Dream : dream'[i].pc \in {"save", "insert"} => Total(dream'[i].new.len) <= Budget
    BY <1>9 DEF DreamFindsNone
  <2> HIDE DEF RowFits
  <2> QED BY <2>1, <2>2
<1>10. ASSUME NEW j \in Dream, DreamWrites(j) PROVE LengthsFit'
  BY <1>10 DEF DreamWrites, Saves, Stamp
<1>11. CASE Quiet
  BY <1>11 DEF Quiet
<1> QED
  BY <1>1, <1>2, <1>3, <1>4, <1>5, <1>6, <1>7, <1>8, <1>9, <1>10, <1>11 DEF MemoryEffect

LEMMA KeptInvariant == MemorySpec => []KInv
<1>1. MemoryShape /\ KInv /\ [MemoryNext]_memoryVars => KInv'
  BY MemoryEffects, RowTypeStep, EditorTypeStep, DreamTypeStep, HistoryTypeStep,
     EditsKnownStep,
     MessagesKnownStep, LengthsFitStep DEF KInv
<1>2. MInv => MemoryShape
  BY DEF MInv
<1> QED
  BY MemoryInvariant, MemoryInitK, <1>1, <1>2, PTL DEF MemorySpec

\* What the user typed and said reaches the memory, and it stays within its budget,
\* whatever edits, messages and dreams do between one another's steps: the memory keeps
\* an edit unless a dream that had loaded the field saves after it; the next dream looks
\* at every message that none has read, but for those a full prompt left out, those that
\* have not moved their conversation and those of one stamped too late; and neither an
\* edit's check nor trim_memory_to_budget lets it outgrow the budget unless writes
\* overlapped.
THEOREM MemoryKeptHolds == MemorySpec => []MemoryKept
<1>1. KInv => MemoryKept
  BY DEF KInv, EditsKnown, Knows, MessagesKnown, CoveredBy, Excused, LengthsFit, RowFits, MemoryKept,
     EditKept,
         NothingForgotten, FitsBudget
<1> QED
  BY KeptInvariant, <1>1, PTL
=============================================================================
