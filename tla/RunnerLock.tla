----------------------------- MODULE RunnerLock -----------------------------
(***************************************************************************)
(* The singleton lock of the agent runner: a Redis key holding a random    *)
(* token, taken with SET NX EX when a runner starts, renewed by its        *)
(* heartbeat with GET and then EXPIRE, and released with a compare and     *)
(* delete after the shutdown has drained the tasks.  Time passes in ticks; *)
(* a runner is never slower than the constants below say.                  *)
(***************************************************************************)
EXTENDS Naturals, FiniteSets

CONSTANTS
  Runner,      \* processes that may be started as the runner
  Token,       \* lock tokens (uuid4)
  NoToken,     \* the key is absent, or the runner has no token
  TTL,         \* LOCK_TTL
  Gap,         \* HEARTBEAT_INTERVAL and the awaits of one heartbeat round
  Startup,     \* register_agents and ensure_group, before the heartbeat
  Drain,       \* asyncio.wait(..., timeout=60)
  MaxMisses,   \* bound: refreshes of a runner that fail in a row
  MaxCrashes,  \* bound: crashes and failing releases in a behaviour
  MaxBroken    \* bound: heartbeats that end by an exception

ASSUME TokenSupply == /\ IsFiniteSet(Runner) /\ IsFiniteSet(Token)
                      /\ Cardinality(Token) > Cardinality(Runner)
ASSUME NoTokenType == NoToken \notin Token
ASSUME TimesType   == /\ TTL \in Nat /\ Gap \in Nat /\ Startup \in Nat
                      /\ Drain \in Nat /\ MaxMisses \in Nat
                      /\ MaxCrashes \in Nat /\ MaxBroken \in Nat

\* The lease outlasts the start-up and every tolerated run of failing renewals.
ASSUME LeaseLasts == Startup + Gap * (MaxMisses + 1) < TTL

VARIABLES
  role,     \* [Runner -> ...]  where Runner.run stands
  token,    \* [Runner -> Token or NoToken]  self._lock_token
  lock,     \* value of hermes:runner:lock
  ttl,      \* its remaining time to live, 0 when it is absent or never expires
  age,      \* [Runner -> Nat]  time in the current phase or heartbeat round
  beating,  \* [Runner -> BOOLEAN]  the heartbeat task is running
  seen,     \* [Runner -> BOOLEAN]  GET of the refresh returned the own token
  misses,   \* [Runner -> Nat]  refreshes that failed in a row
  crashes,  \* crashes and failing releases so far
  broken    \* heartbeats that have ended by an exception so far

vars == <<role, token, lock, ttl, age, beating, seen, misses, crashes, broken>>

\* Runners whose main loop consumes the stream, and those with tasks.
Consuming == {"starting", "active", "stopping"}
Working   == Consuming \cup {"draining"}

TypeOK ==
  /\ role \in [Runner -> {"out", "launched"} \cup Working]
  /\ token \in [Runner -> Token \cup {NoToken}]
  /\ lock \in Token \cup {NoToken}
  /\ ttl \in 0..TTL
  /\ age \in [Runner -> Nat]
  /\ beating \in [Runner -> BOOLEAN]
  /\ seen \in [Runner -> BOOLEAN]
  /\ misses \in [Runner -> 0..MaxMisses]
  /\ crashes \in 0..MaxCrashes
  /\ broken \in 0..MaxBroken
  /\ lock = NoToken <=> ttl = 0       \* the key never stays for ever

Init ==
  /\ role = [r \in Runner |-> "out"]
  /\ token = [r \in Runner |-> NoToken]
  /\ lock = NoToken
  /\ ttl = 0
  /\ age = [r \in Runner |-> 0]
  /\ beating = [r \in Runner |-> FALSE]
  /\ seen = [r \in Runner |-> FALSE]
  /\ misses = [r \in Runner |-> 0]
  /\ crashes = 0
  /\ broken = 0

\* The process starts; uuid4 never repeats a token in use.
Launch(r) ==
  /\ role[r] = "out"
  /\ role' = [role EXCEPT ![r] = "launched"]
  /\ \E k \in Token \ {lock} :
       /\ \A s \in Runner : s # r => token[s] # k
       /\ token' = [token EXCEPT ![r] = k]
  /\ UNCHANGED <<lock, ttl, age, beating, seen, misses, crashes, broken>>

\* Mutant: SET NX without EX.
AcquireForever(r) ==
  /\ role[r] = "launched"
  /\ lock = NoToken
  /\ lock' = token[r]
  /\ ttl' = 0
  /\ role' = [role EXCEPT ![r] = "starting"]
  /\ age' = [age EXCEPT ![r] = 0]
  /\ UNCHANGED <<token, beating, seen, misses, crashes, broken>>

Acquire(r) ==
  /\ role[r] = "launched"
  /\ lock = NoToken
  /\ lock' = token[r]
  /\ ttl' = TTL
  /\ role' = [role EXCEPT ![r] = "starting"]
  /\ age' = [age EXCEPT ![r] = 0]
  /\ UNCHANGED <<token, beating, seen, misses, crashes, broken>>

\* "Another runner is active. Exiting."
Refused(r) ==
  /\ role[r] = "launched"
  /\ lock # NoToken
  /\ role' = [role EXCEPT ![r] = "out"]
  /\ UNCHANGED <<token, lock, ttl, age, beating, seen, misses, crashes, broken>>

\* The heartbeat and control tasks are created, the main loop begins.
Begin(r) ==
  /\ role[r] = "starting"
  /\ role' = [role EXCEPT ![r] = "active"]
  /\ age' = [age EXCEPT ![r] = 0]
  /\ beating' = [beating EXCEPT ![r] = TRUE]
  /\ UNCHANGED <<token, lock, ttl, seen, misses, crashes, broken>>

\* GET of _refresh_lock.  A runner that no longer owns the lock does nothing
\* about it and goes on.
RefreshGet(r) ==
  /\ beating[r] /\ ~seen[r]
  /\ IF lock = token[r]
       THEN seen' = [seen EXCEPT ![r] = TRUE] /\ UNCHANGED age
       ELSE age' = [age EXCEPT ![r] = 0] /\ UNCHANGED seen
  /\ UNCHANGED <<role, token, lock, ttl, beating, misses, crashes, broken>>

\* EXPIRE, whoever owns the lock by now.
RefreshExpire(r) ==
  /\ beating[r] /\ seen[r]
  /\ ttl' = IF lock = NoToken THEN 0 ELSE TTL
  /\ seen' = [seen EXCEPT ![r] = FALSE]
  /\ age' = [age EXCEPT ![r] = 0]
  /\ misses' = [misses EXCEPT ![r] = 0]
  /\ UNCHANGED <<role, token, lock, beating, crashes, broken>>

RefreshFails(r) ==
  /\ beating[r]
  /\ misses[r] < MaxMisses
  /\ misses' = [misses EXCEPT ![r] = @ + 1]
  /\ seen' = [seen EXCEPT ![r] = FALSE]
  /\ age' = [age EXCEPT ![r] = 0]
  /\ UNCHANGED <<role, token, lock, ttl, beating, crashes, broken>>

\* evict_idle, which the heartbeat calls after the refresh, stops a client whose
\* read loop has failed: the exception ends the heartbeat task, and nobody awaits
\* it before the shutdown.
HeartbeatDies(r) ==
  /\ beating[r] /\ ~seen[r]
  /\ broken < MaxBroken
  /\ broken' = broken + 1
  /\ beating' = [beating EXCEPT ![r] = FALSE]
  /\ UNCHANGED <<role, token, lock, ttl, age, seen, misses, crashes>>

Signal(r) ==
  /\ role[r] = "active"
  /\ role' = [role EXCEPT ![r] = "stopping"]
  /\ UNCHANGED <<token, lock, ttl, age, beating, seen, misses, crashes, broken>>

\* The main loop ends and cancels the heartbeat; the tasks still run.
LoopExits(r) ==
  /\ role[r] = "stopping" /\ beating[r]
  /\ role' = [role EXCEPT ![r] = "draining"]
  /\ age' = [age EXCEPT ![r] = 0]
  /\ beating' = [beating EXCEPT ![r] = FALSE]
  /\ seen' = [seen EXCEPT ![r] = FALSE]
  /\ UNCHANGED <<token, lock, ttl, misses, crashes, broken>>

Leave(r) ==
  /\ role' = [role EXCEPT ![r] = "out"]
  /\ beating' = [beating EXCEPT ![r] = FALSE]
  /\ seen' = [seen EXCEPT ![r] = FALSE]
  /\ misses' = [misses EXCEPT ![r] = 0]
  /\ age' = [age EXCEPT ![r] = 0]
  /\ UNCHANGED token

\* Awaiting the failed heartbeat raises its exception: the process exits without
\* draining its tasks or releasing the lock.
ExitRaises(r) ==
  /\ role[r] = "stopping" /\ ~beating[r]
  /\ Leave(r)
  /\ UNCHANGED <<lock, ttl, crashes, broken>>

\* Mutant: the key is deleted without comparing the token.
ReleaseAny(r) ==
  /\ role[r] = "draining"
  /\ Leave(r)
  /\ lock' = NoToken
  /\ ttl' = 0
  /\ UNCHANGED <<crashes, broken>>

\* The drain is over: compare and delete in one script, and the process exits.
Release(r) ==
  /\ role[r] = "draining"
  /\ Leave(r)
  /\ lock' = IF lock = token[r] THEN NoToken ELSE lock
  /\ ttl' = IF lock = token[r] THEN 0 ELSE ttl
  /\ UNCHANGED <<crashes, broken>>

\* A crash, or a release that fails: the key stays until it expires.
Crash(r) ==
  /\ role[r] # "out"
  /\ crashes < MaxCrashes
  /\ crashes' = crashes + 1
  /\ Leave(r)
  /\ UNCHANGED <<lock, ttl, broken>>

\* How long a runner may stay in a phase, or without a heartbeat.
Deadline(r) ==
  CASE role[r] = "starting" -> Startup
    [] role[r] = "draining" -> Drain
    [] OTHER                -> Gap

\* A runner without a heartbeat has no deadline at all.
Timed(r) == role[r] \in {"starting", "draining"} \/ beating[r]

\* A tick passes when it makes no runner late; Redis expires the key.
Tick ==
  /\ \A r \in Runner : Timed(r) => age[r] < Deadline(r)
  /\ age' = [r \in Runner |-> IF Timed(r) THEN age[r] + 1 ELSE age[r]]
  /\ ttl' = IF ttl > 0 THEN ttl - 1 ELSE 0
  /\ lock' = IF ttl = 1 THEN NoToken ELSE lock
  /\ UNCHANGED <<role, token, beating, seen, misses, crashes, broken>>

Step(r) == \/ Launch(r) \/ Acquire(r) \/ Refused(r) \/ Begin(r) \/ RefreshGet(r)
           \/ RefreshExpire(r) \/ RefreshFails(r) \/ HeartbeatDies(r) \/ Signal(r)
           \/ LoopExits(r) \/ ExitRaises(r) \/ Release(r) \/ Crash(r)

Next == Tick \/ \E r \in Runner : Step(r)

Spec == Init /\ [][Next]_vars

(***************************************************************************)
(* Fairness: time passes, started processes run, and somebody starts the   *)
(* runner again when it is down (the compose file has no restart policy).  *)
(***************************************************************************)
Fairness ==
  /\ WF_vars(Tick)
  /\ \A r \in Runner : /\ WF_vars(Launch(r))
                       /\ WF_vars(Acquire(r) \/ Refused(r))
                       /\ WF_vars(Begin(r))
                       /\ WF_vars(RefreshGet(r) \/ RefreshExpire(r))
                       /\ WF_vars(LoopExits(r) \/ ExitRaises(r))
                       /\ WF_vars(Release(r))

FairSpec == Spec /\ Fairness

-----------------------------------------------------------------------------
\* The heartbeat keeps the lease: no two runners consume the stream at once while
\* their heartbeats run, though a refresh is two steps and some of them fail.
Leased(r) == role[r] = "starting" \/ beating[r]
OneConsumer == \A r, s \in Runner : Leased(r) /\ Leased(s) => r = s

\* Singleton lock: only one runner consumes the stream at a time, with no condition
\* on its heartbeat.
OneRunner ==
  \A r, s \in Runner : role[r] \in Consuming /\ role[s] \in Consuming => r = s

\* A crashed runner does not block the next one for longer than its lease:
\* when every runner is down, one gets the lock in the end.
TakeOver == (\A r \in Runner : role[r] \notin Working)
               ~> (\E r \in Runner : role[r] \in Working)
=============================================================================
