------------------------- MODULE ConversationStore -------------------------
(***************************************************************************)
(* Personal conversations and their messages: the rows a send leaves       *)
(* behind and the task it queues, the cached list, the pages a reader      *)
(* scrolls through, and forks.  A handler loads in one step and commits in *)
(* another; created_at is the start of the inserting transaction.          *)
(***************************************************************************)
EXTENDS Naturals, FiniteSets, FiniteSetsExt, TLC

CONSTANTS
  PageSize,        \* the limit of a page (50 in the code)
  MaxStoreRequests \* bound: requests

StoreRequest == 1..MaxStoreRequests
NotCached    == {}      \* an empty list is not stored
AgentTitle   == MaxStoreRequests + 1

ASSUME StoreConstants == PageSize \in Nat \ {0} /\ MaxStoreRequests \in Nat

VARIABLES
  store, \* conv: id (number of the creating request, 0 the first) -> [title (the request that
         \* set it, 0: the default, or AgentTitle), agents (how many are active), session,
         \* shared]; rows: messages
         \* [conv, role, at, turn (request that sent it)]; queue: tasks; cache: ids of the
         \* cached list; now
  sreq,  \* [StoreRequest -> what its handler has loaded]
  page,  \* what a reader has on screen: [conv, shown, seen (rows there when it opened), end]
  shist  \* history: renamed (last rename of a conversation), raced (renamed under a send that
         \* had loaded the default title), lost (sends whose enqueue failed), unannounced
         \* (the list changed behind the cache)

storeVars == <<store, sreq, page, shist>>

Conv        == DOMAIN store.conv
RowsOf(c)   == {m \in store.rows : m.conv = c}
Default     == [title |-> 0, agents |-> 1, session |-> FALSE, shared |-> FALSE]

With(f, x, v) == [y \in DOMAIN f \cup {x} |-> IF y = x THEN v ELSE f[y]]

(* order_by(created_at.desc(), role.asc()), reversed: user before agent.    *)
Rank       == [user |-> 0, agent |-> 1, roundtable |-> 1]
Older(l, m) == l.at < m.at \/ (l.at = m.at /\ Rank[l.role] < Rank[m.role])

-----------------------------------------------------------------------------
LoadsAt(i, q, at) ==
  /\ sreq[i].op = "fresh" /\ \A j \in 1..(i - 1) : sreq[j].op # "fresh"
  /\ sreq' = [sreq EXCEPT ![i] = q]
  /\ store' = [store EXCEPT !.now = at]
  /\ UNCHANGED <<page, shist>>

LoadsConv(i, q) == LoadsAt(i, q, store.now + 1)
Ends(i)      == sreq' = [sreq EXCEPT ![i] = [op |-> "done"]]
Goes(i, q)   == sreq' = [sreq EXCEPT ![i] = q]
Under(i, op) == sreq[i].op = op

(* Sending: the rows are committed first, the task is queued after.         *)

SendOf(c, kind, at) == [op |-> "send", conv |-> c, row |-> store.conv[c], kind |-> kind, at |-> at]

BeginSend(i) ==
  \E c \in Conv, skip \in BOOLEAN :
    LoadsConv(i, SendOf(c, IF skip THEN "user_only"
                           ELSE IF store.conv[c].agents > 1 THEN "roundtable" ELSE "agent",
                        store.now + 1))

Task(i, followUp) ==
  [turn |-> i, conv |-> sreq[i].conv,
   clarify |-> sreq[i].kind = "agent" /\ ~sreq[i].row.session,
   anti |-> sreq[i].kind = "agent" /\ followUp]

Posts(i, kind, roles, titles) ==
  LET q == sreq[i] IN
  /\ Under(i, "send") /\ q.kind = kind /\ q.conv \in Conv
  /\ store' = [store EXCEPT
       !.rows = @ \cup {[conv |-> q.conv, role |-> r, at |-> q.at, turn |-> i] : r \in roles},
       !.conv[q.conv].title = IF titles THEN i ELSE @]
  /\ Goes(i, IF kind = "user_only" THEN [op |-> "done"] ELSE [q EXCEPT !.op = "enqueue"])
  /\ UNCHANGED <<page, shist>>

Enqueues(i, from, task, q) ==
  /\ Under(i, from) /\ Goes(i, q)
  /\ store' = [store EXCEPT !.queue = @ \cup {task}]
  /\ UNCHANGED <<page, shist>>

SendUserOnly(i)       == Posts(i, "user_only", {"user"}, sreq[i].row.title = 0)
SendAlwaysTitles(i)   == Posts(i, "agent", {"user", "agent"}, TRUE)
SendMessage(i)        == Posts(i, "agent", {"user", "agent"}, sreq[i].row.title = 0)
SendRoundtable(i)     == Posts(i, "roundtable", {"user", "roundtable"}, sreq[i].row.title = 0)

Queues(i, followUp)   == Enqueues(i, "enqueue", Task(i, followUp), [op |-> "done"])
QueuesDirectiveOfNow(i) == Queues(i, sreq[i].conv \in Conv /\ store.conv[sreq[i].conv].session)
EnqueueTask(i)        == Queues(i, sreq[i].row.session)

EnqueueFails(i) ==
  /\ Under(i, "enqueue") /\ Ends(i)
  /\ shist' = [shist EXCEPT !.lost = @ \cup {i}]
  /\ UNCHANGED <<store, page>>

(* The runner has a turn of one agent in the conversation.                  *)
Prompted(c) ==
  \E t \in store.queue, m \in RowsOf(c) : t.conv = c /\ m.turn = t.turn /\ m.role = "agent"

(* It stores the session of the first one.                                  *)
RunnerBinds ==
  \E c \in Conv :
    /\ ~store.conv[c].session /\ Prompted(c)
    /\ store' = [store EXCEPT !.conv[c].session = TRUE]
    /\ UNCHANGED <<sreq, page, shist>>

(* The agent names the conversation, whatever its name is; the update is a  *)
(* task of its own, which may end after the turn.                           *)
RunnerTitles ==
  \E c \in Conv :
    /\ Prompted(c)
    /\ store' = [store EXCEPT !.conv[c].title = AgentTitle]
    /\ UNCHANGED <<sreq, page, shist>>

-----------------------------------------------------------------------------
(* Creating, deleting, and the cached list.                                 *)

(* A change of the list behind the cache. *)
Unannounced(cache) == shist' = [shist EXCEPT !.unannounced = @ \/ cache # NotCached]

BeginCreate(i) == \E first \in BOOLEAN : LoadsConv(i, [op |-> "create", first |-> first])

CreatesThen(i, q) ==
  /\ Under(i, "create")
  /\ store' = [store EXCEPT !.conv = With(@, i, Default), !.now = @ + 1]
  /\ Goes(i, q)
  /\ UNCHANGED <<page, shist>>

InvalidateThen(i) ==
  [op |-> "invalidate",
   next |-> IF sreq[i].first
              THEN [op |-> "send", conv |-> i, row |-> Default, kind |-> "agent", at |-> store.now + 1]
              ELSE [op |-> "done"]]

CreateOnly(i)         == CreatesThen(i, InvalidateThen(i).next)
CreateConversation(i) == CreatesThen(i, InvalidateThen(i))

InvalidateCache(i) ==
  /\ Under(i, "invalidate")
  /\ store' = [store EXCEPT !.cache = NotCached]
  /\ shist' = [shist EXCEPT !.unannounced = FALSE]
  /\ Goes(i, sreq[i].next)
  /\ UNCHANGED page

BeginDelete(i)     == \E c \in Conv : LoadsConv(i, [op |-> "delete", gone |-> {c}])
BeginBulkDelete(i) == \E cs \in SUBSET Conv : LoadsConv(i, [op |-> "bulk_delete", gone |-> cs])

(* The rows of a conversation go with it. *)
Deletes(i) ==
  store' = [store EXCEPT !.conv = [c \in DOMAIN @ \ sreq[i].gone |-> @[c]],
                         !.rows = {m \in @ : m.conv \notin sreq[i].gone}]

(* A second delete of the same rows is only a warning. *)
DeleteConversation(i) ==
  /\ Under(i, "delete") /\ Deletes(i)
  /\ Goes(i, [op |-> "invalidate", next |-> [op |-> "done"]])
  /\ UNCHANGED <<page, shist>>

BulkDelete(i) ==
  /\ Under(i, "bulk_delete") /\ Deletes(i) /\ Ends(i)
  /\ Unannounced(store.cache) /\ UNCHANGED page

(* A hit answers the cached ids, a miss the rows, which it then caches.     *)
ListHit(i)  == store.cache # NotCached /\ LoadsAt(i, [op |-> "done"], store.now)
ListMiss(i) == store.cache = NotCached /\ LoadsAt(i, [op |-> "fill", ids |-> Conv], store.now)

FillCache(i) ==
  /\ Under(i, "fill") /\ Ends(i)
  /\ store' = [store EXCEPT !.cache = IF sreq[i].ids = {} THEN @ ELSE sreq[i].ids]
  /\ shist' = [shist EXCEPT !.unannounced = IF sreq[i].ids = {} THEN @ ELSE sreq[i].ids # Conv]
  /\ UNCHANGED page

CacheExpires ==
  /\ store.cache # NotCached
  /\ store' = [store EXCEPT !.cache = NotCached]
  /\ shist' = [shist EXCEPT !.unannounced = FALSE]
  /\ UNCHANGED <<sreq, page>>

-----------------------------------------------------------------------------
(* Columns of a conversation.                                               *)

Edits(i, field, value) ==
  \E c \in Conv : LoadsConv(i, [op |-> "column", conv |-> c, field |-> field, value |-> value])

BeginUpdate(i)    == Edits(i, "title", i)
BeginShare(i)     == Edits(i, "shared", TRUE)
BeginSetAgents(i) == \E n \in 1..2 : Edits(i, "agents", n)

UpdateColumn(i) ==
  LET q == sreq[i] IN
  /\ Under(i, "column") /\ q.conv \in Conv /\ Ends(i)
  /\ store' = [store EXCEPT !.conv[q.conv][q.field] = q.value]
  /\ shist' = IF q.field # "title" THEN shist ELSE
       [shist EXCEPT !.renamed = With(@, q.conv, i),
                     !.raced = IF \E j \in StoreRequest :
                                      \/ Under(j, "invalidate") /\ j = q.conv
                                      \/ /\ Under(j, "send")
                                         /\ sreq[j].conv = q.conv /\ sreq[j].row.title = 0
                                 THEN @ \cup {q.conv} ELSE @]
  /\ UNCHANGED page

(* StaleDataError, or the foreign key of a message: nothing is written.     *)
StoreRollBack(i) ==
  /\ Under(i, "send") \/ Under(i, "column")
  /\ sreq[i].conv \notin Conv /\ Ends(i) /\ UNCHANGED <<store, page, shist>>

-----------------------------------------------------------------------------
(* Forks: of the messages, or of the agent's session.                       *)

(* The prefix up to a message; messages the order does not tell from it may *)
(* come on either side.                                                     *)
BeginFork(i) ==
  \E c \in Conv :
    LET rows == RowsOf(c) IN
    \/ rows = {} /\ LoadsConv(i, [op |-> "fork", rows |-> {}, agents |-> 1, at |-> store.now + 1])
    \/ \E m \in rows, ties \in SUBSET rows :
         /\ m \in ties /\ \A l \in ties : ~Older(l, m) /\ ~Older(m, l)
         /\ LoadsConv(i, [op |-> "fork", rows |-> ties \cup {l \in rows : Older(l, m)},
                          agents |-> 1, at |-> store.now + 1])

BeginForkSession(i) ==
  \E c \in Conv :
    /\ store.conv[c].session
    /\ LoadsConv(i, [op |-> "fork", rows |-> {}, agents |-> store.conv[c].agents, at |-> store.now + 1])

(* Without an answer of the runner the new conversation has no session.     *)
ForkConversation(i) ==
  LET q == sreq[i] IN
  /\ Under(i, "fork") /\ Ends(i)
  /\ \E session \in {FALSE, q.rows = {}} :
       store' = [store EXCEPT
         !.conv = With(@, i, [Default EXCEPT !.title = i, !.agents = q.agents, !.session = session]),
         !.rows = @ \cup {[m EXCEPT !.conv = i, !.at = q.at] : m \in q.rows}]
  /\ Unannounced(store.cache) /\ UNCHANGED page

-----------------------------------------------------------------------------
(* A reader opens a conversation and scrolls up.                            *)

Latest(rows) ==
  {p \in SUBSET rows : /\ Cardinality(p) = Min({PageSize, Cardinality(rows)})
                       /\ \A m \in p, l \in rows \ p : ~Older(m, l)}
Earliest(rows) ==
  {p \in SUBSET rows : /\ Cardinality(p) = Min({PageSize, Cardinality(rows)})
                       /\ \A m \in p, l \in rows \ p : ~Older(l, m)}

(* Bound: one conversation is opened, once. *)
Shows(c, p, end) ==
  /\ page.shown = {}
  /\ page' = [conv |-> c, shown |-> p, seen |-> RowsOf(c), end |-> end]
  /\ UNCHANGED <<store, sreq, shist>>

OpenEarliest == \E c \in Conv : \E p \in Earliest(RowsOf(c)) : Shows(c, p, FALSE)
OpenConversation == \E c \in Conv : \E p \in Latest(RowsOf(c)) : Shows(c, p, FALSE)
OpenShared == \E c \in Conv : store.conv[c].shared /\ Shows(c, RowsOf(c), TRUE)

(* The cursor is the first message on screen; a page that is not full ends. *)
ScrollUp ==
  /\ page.shown # {} /\ ~page.end /\ page.conv \in Conv
  /\ \E cursor \in page.shown :
       /\ \A m \in page.shown : ~Older(m, cursor)
       /\ \E p \in Latest({m \in RowsOf(page.conv) : m.at < cursor.at}) :
            page' = [page EXCEPT !.shown = @ \cup p, !.end = Cardinality(p) < PageSize]
  /\ UNCHANGED <<store, sreq, shist>>

-----------------------------------------------------------------------------
StoreInit ==
  /\ store = [conv |-> [c \in {0} |-> Default], rows |-> {}, queue |-> {}, cache |-> NotCached, now |-> 0]
  /\ sreq = [i \in StoreRequest |-> [op |-> "fresh"]]
  /\ page = [conv |-> 0, shown |-> {}, seen |-> {}, end |-> FALSE]
  /\ shist = [renamed |-> <<>>, raced |-> {}, lost |-> {}, unannounced |-> FALSE]

StoreNext ==
  \/ \E i \in StoreRequest :
       \/ BeginSend(i) \/ SendUserOnly(i) \/ SendMessage(i) \/ SendRoundtable(i)
       \/ EnqueueTask(i) \/ EnqueueFails(i)
       \/ BeginCreate(i) \/ CreateConversation(i) \/ InvalidateCache(i)
       \/ BeginDelete(i) \/ DeleteConversation(i) \/ BeginBulkDelete(i) \/ BulkDelete(i)
       \/ ListHit(i) \/ ListMiss(i) \/ FillCache(i)
       \/ BeginUpdate(i) \/ BeginShare(i) \/ BeginSetAgents(i) \/ UpdateColumn(i) \/ StoreRollBack(i)
       \/ BeginFork(i) \/ BeginForkSession(i) \/ ForkConversation(i)
  \/ RunnerBinds \/ RunnerTitles \/ CacheExpires \/ OpenConversation \/ OpenShared \/ ScrollUp

StoreSpec == StoreInit /\ [][StoreNext]_storeVars

-----------------------------------------------------------------------------
(* A message has its conversation, and a turn at most two rows in it.       *)
StoreTypeOK ==
  /\ \A m \in store.rows : m.conv \in Conv /\ m.at <= store.now
  /\ \A l, m \in store.rows : l.conv = m.conv /\ l.turn = m.turn /\ l # m => l.role # m.role
  /\ store.cache = NotCached \/ store.cache \subseteq 0..MaxStoreRequests

(* A cached list differs from the user's conversations only while an        *)
(* invalidation is under way, after a change that announces none, or when   *)
(* it was stored by a list that had read before a change.                   *)
ListStaleForAReason ==
  store.cache \in {NotCached, Conv} \/ shist.unannounced
    \/ \E i \in StoreRequest : Under(i, "invalidate")

(* A name the user gave is replaced by nothing but a name the agent sends,  *)
(* unless a send that had read the default name before the rename puts the   *)
(* first words of its message there.                                        *)
RenameKept ==
  \A c \in Conv \cap DOMAIN shist.renamed :
    store.conv[c].title \in {shist.renamed[c], AgentTitle} \/ c \in shist.raced

(* A queued task has its committed rows, unless the conversation was        *)
(* deleted since, and an agent row waits for a task, unless the send is     *)
(* about to queue it or failed to.                                          *)
QueuedHasRows ==
  /\ \A t \in store.queue : t.conv \in Conv => \E m \in RowsOf(t.conv) : m.turn = t.turn
  /\ \A m \in store.rows : m.role # "user" =>
       m.turn \in {t.turn : t \in store.queue} \cup shist.lost \/ Under(m.turn, "enqueue")

(* A prompt never carries both the order to ask first and the order not to  *)
(* (conversation_service.py: both "used to hand the model contradictory     *)
(* instructions"), also when the session is bound while it is built.        *)
OneDirective == \A t \in store.queue : ~(t.clarify /\ t.anti)

(* A reader who scrolled to the top misses no message that was there on     *)
(* opening, except those of the same transaction as a message shown.        *)
PagesLoseOnlyTies ==
  page.end => \A m \in (page.seen \cap store.rows) \ page.shown :
                \E l \in page.shown : l.at = m.at

(* Rows, conversations and queued tasks match, however requests interleave.  *)
StoreConsistent == StoreTypeOK /\ QueuedHasRows /\ OneDirective
=============================================================================
