---------------------------- MODULE MCAgentLinks ----------------------------
(* The components that talk to an agent subprocess: its session, its        *)
(* questions, its control channel.  They share no state that the models     *)
(* keep, so that one of them moves in each behaviour, the one in focus.     *)
EXTENDS AgentSessions, ClarifyBridge, ControlChannel, TLC

VARIABLE focus
linkVars == <<focus, vars, clarifyVars, controlVars>>

LinksInit ==
  /\ focus \in {"session", "clarify", "control"}
  /\ Init /\ ClarifyInit /\ ControlInit
  /\ exists = Conv \/ (focus = "session" /\ exists = {Live})   \* any other is as good

LinksNext ==
  /\ UNCHANGED focus
  /\ \/ focus = "session" /\ Next /\ UNCHANGED <<clarifyVars, controlVars>>
     \/ focus = "clarify" /\ ClarifyNext /\ UNCHANGED <<vars, controlVars>>
     \/ focus = "control" /\ ControlNext /\ UNCHANGED <<vars, clarifyVars>>

LinksSpec == LinksInit /\ [][LinksNext]_linkVars

(* No action treats one answer differently from another. *)
ChoiceSymmetry == Permutations(Choice)
=============================================================================
