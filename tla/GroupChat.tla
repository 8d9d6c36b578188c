----------------------------- MODULE GroupChat -----------------------------
(***************************************************************************)
(* A team's group conversation: its members, the agents it lists as        *)
(* active, and the routing of a message by channel mode and mentions to    *)
(* nobody, to one agent or to a round table.                               *)
(***************************************************************************)
EXTENDS Naturals, FiniteSets, TLC

CONSTANTS
  Guest, Owner,      \* people; Owner creates the group
  Agent,             \* agents; DefaultAgent when none is named
  DefaultAgent,
  TeamAgents,        \* shared agents of the team (and default agents of its profiles)
  MaxGroupRequests   \* bound: requests

GroupRequest == 1..MaxGroupRequests
Mode         == {"off", "mention", "always"}
People       == Guest \cup {Owner}
Nobody       == "nobody"

ASSUME GroupConstants ==
  /\ Owner \notin Guest /\ DefaultAgent \in Agent /\ TeamAgents \subseteq Agent
  /\ People \cap Agent = {}
  /\ MaxGroupRequests \in Nat

VARIABLES
  group,  \* phase ("none", "alive", "deleted"), member (rows: set of [who, by]), active and
          \* primary (columns), mode, msgs (rows [turn, role, part]), queue (tasks)
  greq,   \* [GroupRequest -> what its handler has loaded]
  ghist   \* history: overlap (adds that overlapped another), failed (adds that failed), listed (the agents were set as a list)

groupVars == <<group, greq, ghist>>

Joined      == {r.who : r \in group.member}
AgentsIn    == Joined \cap Agent
InGroup     == group.phase = "alive"
At(i, op)   == greq[i].op = op
Done        == [op |-> "done"]
Adding(who) == {[who |-> x, by |-> 0] : x \in who}

Starts(i, q) ==
  /\ greq[i].op = "fresh" /\ \A j \in 1..(i - 1) : greq[j].op # "fresh"
  /\ greq' = [greq EXCEPT ![i] = q]

Steps(i, q, g, h) ==
  /\ greq' = [greq EXCEPT ![i] = q]
  /\ group' = g
  /\ ghist' = h

-----------------------------------------------------------------------------
(* Without lists the team's people and shared agents are taken.             *)
BeginCreateGroup(i) ==
  /\ group.phase = "none" /\ \A j \in GroupRequest : ~At(j, "create")
  /\ \E people \in {{}, Guest}, agents \in {TeamAgents, {DefaultAgent}}, m \in Mode :
       \E first \in IF agents = {} THEN {DefaultAgent} ELSE agents :
         Starts(i, [op |-> "create", people |-> people, mode |-> m, primary |-> first,
                    agents |-> IF agents = {} THEN {DefaultAgent} ELSE agents])
  /\ UNCHANGED <<group, ghist>>

CreateGroup(i) ==
  LET q == greq[i] IN
  /\ At(i, "create")
  /\ Steps(i, Done,
           [group EXCEPT !.phase = "alive", !.mode = q.mode, !.primary = q.primary,
                         !.active = q.agents, !.member = Adding({Owner} \cup q.people \cup q.agents)],
           ghist)

(* The existing row is looked up first, for an agent the list is read too.  *)
BeginAddMember(i) ==
  /\ InGroup
  /\ \E x \in Guest \cup Agent :
       Starts(i, IF x \in Joined THEN Done
                 ELSE [op |-> "add", who |-> x, active |-> group.active])
  /\ ghist' = [ghist EXCEPT !.overlap =
       IF greq'[i] # Done /\ \E j \in GroupRequest \ {i} : At(j, "add") \/ At(j, "agents")
         THEN @ \cup {i} \cup {j \in GroupRequest : At(j, "add")} ELSE @]
  /\ UNCHANGED group

MayJoin(i)  == InGroup /\ greq[i].who \notin Joined

(* An agent is added to the list that was read. *)
AddMember(i) ==
  LET q == greq[i] IN
  /\ At(i, "add") /\ MayJoin(i)
  /\ Steps(i, Done,
           [group EXCEPT !.member = @ \cup {[who |-> q.who, by |-> i]},
                         !.active = IF q.who \in Agent \ q.active THEN q.active \cup {q.who} ELSE @],
           ghist)

AddFails(i) ==
  /\ At(i, "add") /\ ~MayJoin(i)
  /\ Steps(i, Done, group, [ghist EXCEPT !.failed = IF InGroup THEN @ \cup {i} ELSE @])

(* The endpoint only takes people out.                                      *)
BeginRemovePerson(i) ==
  /\ InGroup
  /\ \E x \in People : Starts(i, [op |-> "remove", gone |-> {r \in group.member : r.who = x}])
  /\ UNCHANGED <<group, ghist>>

RemoveMember(i) ==
  /\ At(i, "remove")
  /\ Steps(i, Done, [group EXCEPT !.member = @ \ greq[i].gone], ghist)

(* set_agents works on any conversation.                                    *)
BeginSetGroupAgents(i) ==
  /\ InGroup
  /\ \E as \in SUBSET Agent \ {{}} : \E first \in as :
       Starts(i, [op |-> "agents", agents |-> as, primary |-> first])
  /\ UNCHANGED <<group, ghist>>

SetGroupAgents(i) ==
  /\ At(i, "agents")
  /\ IF InGroup
       THEN Steps(i, Done, [group EXCEPT !.active = greq[i].agents, !.primary = greq[i].primary],
                  [ghist EXCEPT !.listed = TRUE])
       ELSE Steps(i, Done, group, ghist)

DeleteGroup ==
  /\ InGroup
  /\ group' = [group EXCEPT !.phase = "deleted", !.member = {}, !.msgs = {}]
  /\ UNCHANGED <<greq, ghist>>

-----------------------------------------------------------------------------
(* A message.  Names are matched against the group's agents; "humans" and   *)
(* "agents" stand for the two broadcasts.                                   *)

Mentions == {"humans", "agents", "names"}

(* Who answers; {} only stores the message.                                 *)
Resolve(mention, names, mode, skip) ==
  LET resolved == CASE mention = "humans" -> {}
                    [] mention = "agents" -> AgentsIn
                    [] mention = "names"  -> names \cap AgentsIn IN
  IF mode = "off" \/ skip \/ mention = "humans" THEN {}
  ELSE IF mode = "always" /\ resolved = {} THEN AgentsIn
  ELSE resolved

BeginDispatchGroup(i) ==
  /\ InGroup
  /\ \E mention \in Mentions, names \in SUBSET Agent, skip \in BOOLEAN :
       /\ mention = "names" \/ names = {}
       /\ LET as == Resolve(mention, names, group.mode, skip) IN
            Starts(i, [op |-> "post", agents |-> as, primary |-> group.primary])
  /\ UNCHANGED <<group, ghist>>

StoresTurn(i, n, rows, q) ==
  /\ At(i, "post") /\ n /\ InGroup
  /\ Steps(i, q, [group EXCEPT !.msgs = @ \cup rows], ghist)

UserRow(i, p) == [turn |-> i, role |-> "user", part |-> p]

StoreOnly(i) == StoresTurn(i, greq[i].agents = {}, {UserRow(i, 1)}, Done)

DispatchSingle(i) ==
  StoresTurn(i, Cardinality(greq[i].agents) = 1, {UserRow(i, 1)}, [greq[i] EXCEPT !.op = "single"])

DispatchRoundtable(i) ==
  StoresTurn(i, Cardinality(greq[i].agents) > 1,
        {UserRow(i, 1), [turn |-> i, role |-> "roundtable", part |-> 1]},
        [greq[i] EXCEPT !.op = "enqueue"])

(* send_message with the user row of the first transaction: the agent is    *)
(* the conversation's primary agent.                                        *)
SendsSingle(i, rows) ==
  /\ At(i, "single") /\ InGroup
  /\ Steps(i, [op |-> "enqueue", agents |-> {greq[i].primary}],
           [group EXCEPT !.msgs = @ \cup rows \cup {[turn |-> i, role |-> "agent", part |-> 2]}], ghist)

SendOwnRow(i)     == SendsSingle(i, {UserRow(i, 2)})
SendExistingRow(i) == SendsSingle(i, {})

EnqueueGroupTask(i) ==
  /\ At(i, "enqueue")
  /\ Steps(i, Done, [group EXCEPT !.queue = @ \cup {[turn |-> i, agents |-> greq[i].agents]}], ghist)

GroupGone(i) ==
  /\ At(i, "post") \/ At(i, "single")
  /\ ~InGroup /\ Steps(i, Done, group, ghist)

-----------------------------------------------------------------------------
GroupInit ==
  /\ group = [phase |-> "none", member |-> {}, active |-> {}, primary |-> DefaultAgent,
              mode |-> "mention", msgs |-> {}, queue |-> {}]
  /\ greq = [i \in GroupRequest |-> [op |-> "fresh"]]
  /\ ghist = [overlap |-> {}, failed |-> {}, listed |-> FALSE]

GroupNext ==
  \/ \E i \in GroupRequest :
       \/ BeginCreateGroup(i) \/ CreateGroup(i) \/ BeginAddMember(i) \/ AddMember(i) \/ AddFails(i)
       \/ BeginRemovePerson(i) \/ RemoveMember(i) \/ BeginSetGroupAgents(i) \/ SetGroupAgents(i)
       \/ BeginDispatchGroup(i) \/ StoreOnly(i) \/ DispatchSingle(i) \/ DispatchRoundtable(i)
       \/ SendExistingRow(i) \/ EnqueueGroupTask(i) \/ GroupGone(i)
  \/ DeleteGroup

GroupSpec == GroupInit /\ [][GroupNext]_groupVars

-----------------------------------------------------------------------------
(* One row per member (unique constraints of migration 0018), and nothing   *)
(* is left of a group that was deleted.                                     *)
GroupTypeOK ==
  /\ Joined \subseteq People \cup Agent /\ group.primary \in Agent /\ group.mode \in Mode
  /\ \A r, s \in group.member : r.who = s.who => r = s
  /\ ~InGroup => group.member = {} /\ group.msgs = {}

(* A message to one agent is stored in two transactions and still has one   *)
(* user row ("a second user row for every group @single-agent message").    *)
OneUserRow ==
  \A r, s \in group.msgs : r.role = "user" /\ s.role = "user" /\ r.turn = s.turn => r = s

(* Adding a member fails on the database only when two adds overlap.        *)
AddFailsForAReason == ghist.failed \subseteq ghist.overlap

(* The agents of the group are those it lists as active, unless the list    *)
(* was set as a whole or two adds overlapped, one writing over the other.   *)
ActiveAreMembers ==
  InGroup => group.active = AgentsIn \/ ghist.listed \/ ghist.overlap # {}

(* Members, listed agents and messages of a group match, and only adds that  *)
(* overlapped fail.                                                         *)
GroupConsistent == GroupTypeOK /\ OneUserRow /\ AddFailsForAReason /\ ActiveAreMembers
=============================================================================
