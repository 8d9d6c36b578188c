--------------------------- MODULE MCRunnerTasks ---------------------------
(* The runner's lock and a round table that it runs.  The lock does not     *)
(* depend on the task, nor the task, once started, on the lock: one of the  *)
(* two moves in each behaviour, the one in focus.                           *)
EXTENDS RunnerLock, RoundTable

VARIABLE focus

RunnerInit == focus \in {"lock", "round"} /\ Init /\ RoundInit /\ (focus = "lock" => ~rtflag /\ absent = {})

RunnerNext ==
  /\ UNCHANGED focus
  /\ \/ focus = "lock" /\ Next /\ UNCHANGED roundVars
     \/ focus = "round" /\ RoundNext /\ UNCHANGED vars

(* The fairness of the component in focus. *)
RunnerFairness ==
  /\ WF_vars(focus = "lock" /\ Tick)
  /\ \A r \in Runner : /\ WF_vars(focus = "lock" /\ Launch(r))
                       /\ WF_vars(focus = "lock" /\ (Acquire(r) \/ Refused(r)))
                       /\ WF_vars(focus = "lock" /\ Begin(r))
                       /\ WF_vars(focus = "lock" /\ (RefreshGet(r) \/ RefreshExpire(r)))
                       /\ WF_vars(focus = "lock" /\ (LoopExits(r) \/ ExitRaises(r)))
                       /\ WF_vars(focus = "lock" /\ Release(r))
  /\ WF_roundVars(focus = "round" /\ RunsOn)

RunnerSpec == RunnerInit /\ [][RunnerNext]_<<focus, vars, roundVars>> /\ RunnerFairness

(* When no runner works, one eventually does (TakeOver of RunnerLock).      *)
LockTakenOver == focus = "lock" => TakeOver

(* The lock's state is well formed, and a round table adds up.              *)
RunnerConsistent == TypeOK /\ RoundResult
=============================================================================
