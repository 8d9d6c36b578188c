-------------------------- MODULE WorkspaceProofs --------------------------
(***************************************************************************)
(* What is proved of what a conversation holds: its rows and lists, its    *)
(* group, its files, its place in the file browser, whatever the bounds on *)
(* requests, pages, people, versions and folders.                          *)
(***************************************************************************)
EXTENDS MCWorkspace, FiniteSetTheorems, SequenceTheorems, TLAPS

-----------------------------------------------------------------------------
(* Conversations and their messages.                                        *)

ConvId  == 0..MaxStoreRequests
Title   == ConvId \cup {AgentTitle}
Row     == [title : Title, agents : Nat, session : BOOLEAN, shared : BOOLEAN]
Message == [conv : ConvId, role : {"user", "agent", "roundtable"}, at : Nat, turn : StoreRequest]
StoreOp == {"fresh", "done", "send", "enqueue", "create", "invalidate", "delete", "bulk_delete",
            "fill", "column", "fork"}

(* Ids no request is still to create.                                       *)
Born    == {0} \cup {i \in StoreRequest : sreq[i].op \notin {"fresh", "create", "fork"}}
Sent(j) == sreq[j].op \in {"enqueue", "done"}

StoreShape ==
  /\ store = [conv |-> store.conv, rows |-> store.rows, queue |-> store.queue,
              cache |-> store.cache, now |-> store.now]
  /\ store.conv \in [Conv -> Row] /\ Conv \subseteq Born
  /\ store.now \in Nat /\ store.cache \subseteq ConvId
  /\ store.rows \subseteq Message /\ IsFiniteSet(store.rows)
  /\ shist = [renamed |-> shist.renamed, raced |-> shist.raced, lost |-> shist.lost,
              unannounced |-> shist.unannounced]

SendFits(q, at) ==
  /\ q = [op |-> q.op, conv |-> q.conv, row |-> q.row, kind |-> q.kind, at |-> q.at]
  /\ q.row \in Row /\ q.kind \in {"user_only", "roundtable", "agent"}
  /\ q.at \in Nat /\ q.at <= at

(* What a handler has loaded. *)
Fits(i, q, born, at) ==
  /\ q.op \in StoreOp
  /\ q.op \in {"send", "enqueue"} => SendFits(q, at) /\ q.conv \in born
  /\ q.op = "invalidate" =>
       \/ q.next = [op |-> "done"]
       \/ /\ SendFits(q.next, at) /\ q.next.op = "send"
          /\ q.next.conv = i /\ q.next.row = Default
  /\ q.op = "fork" =>
       /\ q.rows \subseteq Message /\ IsFiniteSet(q.rows)
       /\ q.agents \in Nat /\ q.at \in Nat /\ q.at <= at
  /\ q.op = "column" =>
       \/ q.field = "title" /\ q.value = i
       \/ q.field = "agents" /\ q.value \in Nat
       \/ q.field = "shared" /\ q.value = TRUE
  /\ q.op = "fill" => q.ids \subseteq ConvId

RequestShape ==
  /\ sreq = [i \in StoreRequest |-> sreq[i]]
  /\ \A i \in StoreRequest : Fits(i, sreq[i], Born, store.now)

TwoRows(rows) ==
  \A l, m \in rows : l.conv = m.conv /\ l.turn = m.turn /\ l # m => l.role # m.role

RowFacts ==
  /\ \A m \in store.rows : m.conv \in Conv /\ m.at <= store.now /\ Sent(m.turn)
  /\ TwoRows(store.rows)
  /\ \A i \in StoreRequest : Under(i, "fork") =>
       /\ \A m \in sreq[i].rows : Sent(m.turn)
       /\ \A l, m \in sreq[i].rows : l.conv = m.conv
       /\ TwoRows(sreq[i].rows)

Awaited(m) ==
  m.role # "user" => m.turn \in {t.turn : t \in store.queue} \cup shist.lost \/ Under(m.turn, "enqueue")

QueueFacts ==
  /\ \A t \in store.queue : t.conv \in Born /\ ~(t.clarify /\ t.anti)
  /\ \A t \in store.queue : t.conv \in Conv => \E m \in store.rows : m.conv = t.conv /\ m.turn = t.turn
  /\ \A i \in StoreRequest : Under(i, "enqueue") /\ sreq[i].conv \in Conv =>
       \E m \in store.rows : m.conv = sreq[i].conv /\ m.turn = i
  /\ \A m \in store.rows : Awaited(m)
  /\ \A i \in StoreRequest : Under(i, "fork") => \A m \in sreq[i].rows : Awaited(m)

RenameFacts ==
  /\ DOMAIN shist.renamed \subseteq Born
  /\ \A c \in DOMAIN shist.renamed : shist.renamed[c] # 0
  /\ \A i \in StoreRequest :
       Under(i, "send") /\ sreq[i].row.title = 0 /\ sreq[i].conv \in DOMAIN shist.renamed =>
         sreq[i].conv \in shist.raced
  /\ \A i \in StoreRequest :
       Under(i, "invalidate") /\ sreq[i].next.op = "send" /\ i \in DOMAIN shist.renamed =>
         i \in shist.raced
  /\ RenameKept

(* What the screen lacks is of one moment with a message shown, or older    *)
(* than all of them and still to come.                                      *)
PageFacts ==
  /\ page = [conv |-> page.conv, shown |-> page.shown, seen |-> page.seen, end |-> page.end]
  /\ page.conv \in Born /\ page.shown \subseteq Message /\ page.seen \subseteq Message
  /\ page.conv \in Conv => page.seen \subseteq RowsOf(page.conv)
  /\ \A m \in page.seen : m.conv = page.conv
  /\ \A m \in (page.seen \cap store.rows) \ page.shown :
       \/ \E l \in page.shown : l.at = m.at
       \/ ~page.end /\ \A l \in page.shown : m.at <= l.at

StoreInv == StoreShape /\ RequestShape /\ RowFacts /\ QueueFacts /\ RenameFacts /\ PageFacts

LEMMA StoreIds ==
  /\ StoreRequest \subseteq Nat \ {0} /\ StoreRequest \subseteq ConvId /\ 0 \in ConvId
  /\ Born \subseteq ConvId /\ 0 \in Born
  /\ \A i \in StoreRequest : i \in Born <=> sreq[i].op \notin {"fresh", "create", "fork"}
  /\ AgentTitle # 0 /\ ConvId \subseteq Title
BY StoreConstants DEF StoreRequest, ConvId, Born, AgentTitle, Title

LEMMA StoreInitially == StoreInit => StoreInv
<1> SUFFICES ASSUME StoreInit PROVE StoreInv
  OBVIOUS
<1>1. /\ store.rows = {} /\ store.queue = {} /\ store.now = 0 /\ store.cache = {}
      /\ store.conv = [c \in {0} |-> Default] /\ Conv = {0}
      /\ shist.renamed = <<>> /\ shist.raced = {} /\ shist.lost = {}
  BY DEF StoreInit, NotCached, Conv
<1>2. sreq = [i \in StoreRequest |-> sreq[i]] /\ \A i \in StoreRequest : sreq[i].op = "fresh"
  BY DEF StoreInit
<1>3. Default \in Row /\ Conv \subseteq Born
  BY <1>1, StoreIds DEF Default, Row
<1>4. StoreShape
  BY <1>1, <1>3, FS_EmptySet DEF StoreShape, StoreInit, Conv
<1>5. RequestShape
  BY <1>1, <1>2 DEF RequestShape, Fits, StoreOp
<1>6. RowFacts /\ QueueFacts
  BY <1>1, <1>2 DEF RowFacts, QueueFacts, TwoRows, Under
<1>7. RenameFacts
  BY <1>1, <1>2 DEF RenameFacts, Under, RenameKept
<1>8. PageFacts
  BY <1>1, StoreIds DEF PageFacts, StoreInit, RowsOf
<1> QED BY <1>4, <1>5, <1>6, <1>7, <1>8 DEF StoreInv

(* A request that goes on, among the others that stay.                       *)
LEMMA RequestGoes ==
  ASSUME RequestShape, NEW i \in StoreRequest, NEW q, Goes(i, q)
  PROVE  /\ sreq' = [j \in StoreRequest |-> sreq'[j]] /\ sreq'[i] = q
         /\ \A j \in StoreRequest \ {i} : sreq'[j] = sreq[j]
BY DEF RequestShape, Goes

LEMMA RequestFits ==
  ASSUME RequestShape, NEW i \in StoreRequest, NEW q, Goes(i, q),
         sreq[i].op = "fresh" \/ q.op \notin {"fresh", "create", "fork"},
         store'.now \in Nat, store.now \in Nat, store.now <= store'.now,
         Fits(i, q, Born', store'.now)
  PROVE  RequestShape' /\ Born \subseteq Born'
<1>1. /\ sreq' = [j \in StoreRequest |-> sreq'[j]] /\ sreq'[i] = q
      /\ \A j \in StoreRequest \ {i} : sreq'[j] = sreq[j]
  BY RequestGoes
<1>2. Born \subseteq Born'
  BY <1>1 DEF Born
<1>3. ASSUME NEW j \in StoreRequest \ {i} PROVE Fits(j, sreq'[j], Born', store'.now)
  <2>1. Fits(j, sreq[j], Born, store.now) /\ sreq'[j] = sreq[j]
    BY <1>1 DEF RequestShape
  <2>2. \A r : SendFits(r, store.now) => SendFits(r, store'.now)
    BY DEF SendFits
  <2> HIDE DEF SendFits
  <2>3. Fits(j, sreq[j], Born', store'.now)
    BY <1>2, <2>1, <2>2 DEF Fits
  <2> QED BY <2>1, <2>3
<1> QED BY <1>1, <1>2, <1>3 DEF RequestShape

-----------------------------------------------------------------------------
(* Begins.  A request loads rows of conversations that are there.            *)
Loadable(i, q, at) ==
  /\ at \in {store.now, store.now + 1} /\ Fits(i, q, Born, at)
  /\ q.op \notin {"fresh", "enqueue", "invalidate"}
  /\ q.op = "send" /\ q.row.title = 0 /\ q.conv \in DOMAIN shist.renamed => q.conv \in shist.raced
  /\ q.op = "fork" => q.rows \subseteq store.rows /\ \A l, m \in q.rows : l.conv = m.conv

LEMMA LoadsKeeps ==
  ASSUME StoreInv, NEW i \in StoreRequest, NEW q, NEW at, LoadsAt(i, q, at), Loadable(i, q, at)
  PROVE  StoreInv'
<1>1. /\ sreq[i].op = "fresh" /\ Goes(i, q) /\ page' = page /\ shist' = shist
      /\ store' = [store EXCEPT !.now = at]
  BY DEF LoadsAt, Goes
<1>2. /\ store' = [conv |-> store.conv, rows |-> store.rows, queue |-> store.queue,
                   cache |-> store.cache, now |-> at]
  BY <1>1 DEF StoreInv, StoreShape
<1>3. at \in Nat /\ store.now \in Nat /\ store.now <= at
  BY DEF Loadable, StoreInv, StoreShape
<1>4. /\ sreq' = [j \in StoreRequest |-> sreq'[j]] /\ sreq'[i] = q
      /\ \A j \in StoreRequest \ {i} : sreq'[j] = sreq[j]
  BY <1>1, RequestGoes DEF StoreInv
<1>5. Born \subseteq Born'
  BY <1>1, <1>4 DEF Born
<1>6. Fits(i, q, Born', store'.now)
  BY <1>2, <1>5 DEF Loadable, Fits
<1>7. RequestShape'
  BY <1>1, <1>2, <1>3, <1>6, RequestFits DEF StoreInv
<1>8. Conv' = Conv
  BY <1>2 DEF Conv
<1>9. StoreShape'
  BY <1>1, <1>2, <1>3, <1>5, <1>8 DEF StoreInv, StoreShape
<1>10. \A j \in StoreRequest : Sent(j) => Sent(j)'
  BY <1>1, <1>4 DEF Sent
<1>11. store.rows \subseteq Message /\ \A m \in Message : m.turn \in StoreRequest /\ m.at \in Nat
  BY DEF StoreInv, StoreShape, Message
<1>12. RowFacts'
  <2>1. ASSUME NEW j \in StoreRequest, Under(j, "fork")'
        PROVE  /\ \A m \in sreq'[j].rows : m.turn \in StoreRequest /\ Sent(m.turn)
               /\ \A l, m \in sreq'[j].rows : l.conv = m.conv
               /\ TwoRows(sreq'[j].rows)
    <3>1. CASE j = i
      BY <2>1, <3>1, <1>4, <1>11 DEF Under, Loadable, StoreInv, RowFacts, TwoRows
    <3>2. CASE j # i
      <4>1. sreq'[j] = sreq[j] /\ sreq[j].op = "fork"
        BY <2>1, <3>2, <1>4 DEF Under
      <4>2. sreq[j].rows \subseteq Message
        BY <4>1 DEF StoreInv, RequestShape, Fits
      <4> QED BY <4>1, <4>2, <1>11 DEF Under, StoreInv, RowFacts
    <3> QED BY <3>1, <3>2
  <2>2. \A m \in store.rows : m.conv \in Conv /\ m.at <= at /\ Sent(m.turn)'
    BY <1>3, <1>10, <1>11 DEF StoreInv, RowFacts
  <2> QED BY <1>2, <1>8, <1>10, <2>1, <2>2 DEF RowFacts, StoreInv, TwoRows, Sent
<1>13. QueueFacts'
  <2>1. \A j \in StoreRequest : Under(j, "enqueue")' <=> Under(j, "enqueue")
    BY <1>1, <1>4 DEF Under, Loadable
  <2>2. \A m \in Message : Awaited(m) => Awaited(m)'
    BY <1>1, <1>2, <1>11, <2>1 DEF Awaited
  <2>3. ASSUME NEW j \in StoreRequest, Under(j, "fork")' PROVE \A m \in sreq'[j].rows : Awaited(m)'
    <3>1. CASE j = i
      BY <2>1, <2>2, <2>3, <3>1, <1>4, <1>11 DEF Under, Loadable, StoreInv, QueueFacts
    <3>2. CASE j # i
      <4>1. sreq'[j] = sreq[j] /\ sreq[j].op = "fork"
        BY <2>3, <3>2, <1>4 DEF Under
      <4>2. sreq[j].rows \subseteq Message
        BY <4>1 DEF StoreInv, RequestShape, Fits
      <4> QED BY <4>1, <4>2, <2>2 DEF Under, StoreInv, QueueFacts
    <3> QED BY <3>1, <3>2
  <2>4. \A j \in StoreRequest : Under(j, "enqueue") => sreq'[j] = sreq[j]
    BY <1>1, <1>4 DEF Under
  <2> QED BY <1>2, <1>5, <1>8, <1>11, <2>1, <2>2, <2>3, <2>4 DEF QueueFacts, StoreInv
<1>14. RenameFacts'
  <2>1. ASSUME NEW j \in StoreRequest
        PROVE  /\ Under(j, "send")' /\ sreq'[j].row.title = 0 /\ sreq'[j].conv \in DOMAIN shist.renamed
                    => sreq'[j].conv \in shist.raced
               /\ Under(j, "invalidate")' /\ sreq'[j].next.op = "send" /\ j \in DOMAIN shist.renamed
                    => j \in shist.raced
    BY <1>4 DEF Under, Loadable, StoreInv, RenameFacts
  <2>2. RenameKept'
    BY <1>1, <1>2, <1>8 DEF RenameKept, StoreInv, RenameFacts
  <2> QED BY <1>1, <1>5, <2>1, <2>2 DEF RenameFacts, StoreInv
<1>15. PageFacts'
  BY <1>1, <1>2, <1>5, <1>8 DEF PageFacts, StoreInv, RowsOf
<1> QED BY <1>7, <1>9, <1>12, <1>13, <1>14, <1>15 DEF StoreInv

StoreBegins(i) ==
  \/ BeginSend(i) \/ BeginCreate(i) \/ BeginDelete(i) \/ BeginBulkDelete(i) \/ ListHit(i) \/ ListMiss(i)
  \/ BeginUpdate(i) \/ BeginShare(i) \/ BeginSetAgents(i) \/ BeginFork(i) \/ BeginForkSession(i)

LEMMA StoreBegun ==
  ASSUME StoreInv, NEW i \in StoreRequest, StoreBegins(i)
  PROVE  \E q, at : LoadsAt(i, q, at) /\ Loadable(i, q, at)
<1>1. /\ store.now \in Nat /\ store.conv \in [Conv -> Row] /\ Conv \subseteq Born /\ Conv \subseteq ConvId
      /\ store.rows \subseteq Message /\ IsFiniteSet(store.rows)
  BY StoreIds DEF StoreInv, StoreShape
<1>2. CASE BeginSend(i)
  <2>1. PICK c \in Conv, skip \in BOOLEAN :
          LoadsConv(i, SendOf(c, IF skip THEN "user_only"
                                 ELSE IF store.conv[c].agents > 1 THEN "roundtable" ELSE "agent",
                              store.now + 1))
    BY <1>2 DEF BeginSend
  <2>2. PICK kind \in {"user_only", "roundtable", "agent"} : LoadsConv(i, SendOf(c, kind, store.now + 1))
    BY <2>1
  <2> DEFINE q == SendOf(c, kind, store.now + 1)
  <2>3. /\ q = [op |-> "send", conv |-> c, row |-> store.conv[c], kind |-> kind, at |-> store.now + 1]
        /\ q.op = "send" /\ q.conv = c /\ q.row = store.conv[c] /\ q.kind = kind
        /\ q.at = store.now + 1
    BY DEF SendOf
  <2>4. store.conv[c] \in Row
    BY <1>1
  <2> HIDE DEF q
  <2>5. SendFits(q, store.now + 1)
    BY <1>1, <2>3, <2>4 DEF SendFits
  <2>6. Fits(i, q, Born, store.now + 1)
    BY <1>1, <2>3, <2>5 DEF Fits, StoreOp
  <2>7. q.row.title = 0 /\ c \in DOMAIN shist.renamed => c \in shist.raced
    BY <2>3, StoreIds DEF StoreInv, RenameFacts, RenameKept
  <2>8. Loadable(i, q, store.now + 1)
    BY <2>3, <2>6, <2>7 DEF Loadable
  <2>9. LoadsAt(i, q, store.now + 1)
    BY <2>2 DEF LoadsConv, q
  <2> QED BY <2>8, <2>9
<1>3. CASE BeginCreate(i)
  <2>1. PICK first \in BOOLEAN : LoadsAt(i, [op |-> "create", first |-> first], store.now + 1)
    BY <1>3 DEF BeginCreate, LoadsConv
  <2>2. Loadable(i, [op |-> "create", first |-> first], store.now + 1)
    BY DEF Loadable, Fits, StoreOp
  <2> QED BY <2>1, <2>2
<1>4. CASE BeginDelete(i)
  <2>1. PICK c \in Conv : LoadsAt(i, [op |-> "delete", gone |-> {c}], store.now + 1)
    BY <1>4 DEF BeginDelete, LoadsConv
  <2>2. Loadable(i, [op |-> "delete", gone |-> {c}], store.now + 1)
    BY DEF Loadable, Fits, StoreOp
  <2> QED BY <2>1, <2>2
<1>5. CASE BeginBulkDelete(i)
  <2>1. PICK cs \in SUBSET Conv : LoadsAt(i, [op |-> "bulk_delete", gone |-> cs], store.now + 1)
    BY <1>5 DEF BeginBulkDelete, LoadsConv
  <2>2. Loadable(i, [op |-> "bulk_delete", gone |-> cs], store.now + 1)
    BY DEF Loadable, Fits, StoreOp
  <2> QED BY <2>1, <2>2
<1>6. CASE ListHit(i)
  <2>1. LoadsAt(i, [op |-> "done"], store.now)
    BY <1>6 DEF ListHit
  <2>2. Loadable(i, [op |-> "done"], store.now)
    BY DEF Loadable, Fits, StoreOp
  <2> QED BY <2>1, <2>2
<1>7. CASE ListMiss(i)
  <2>1. LoadsAt(i, [op |-> "fill", ids |-> Conv], store.now)
    BY <1>7 DEF ListMiss
  <2>2. Loadable(i, [op |-> "fill", ids |-> Conv], store.now)
    BY <1>1 DEF Loadable, Fits, StoreOp
  <2> QED BY <2>1, <2>2
<1>8. CASE BeginUpdate(i) \/ BeginShare(i) \/ BeginSetAgents(i)
  <2>1. PICK q :
          /\ LoadsAt(i, q, store.now + 1) /\ q.op = "column"
          /\ \/ q.field = "title" /\ q.value = i
             \/ q.field = "agents" /\ q.value \in Nat
             \/ q.field = "shared" /\ q.value = TRUE
    <3>1. PICK c \in Conv, n \in 1..2 :
            \/ LoadsAt(i, [op |-> "column", conv |-> c, field |-> "title", value |-> i], store.now + 1)
            \/ LoadsAt(i, [op |-> "column", conv |-> c, field |-> "shared", value |-> TRUE], store.now + 1)
            \/ LoadsAt(i, [op |-> "column", conv |-> c, field |-> "agents", value |-> n], store.now + 1)
      BY <1>8 DEF BeginUpdate, BeginShare, BeginSetAgents, Edits, LoadsConv
    <3> HIDE DEF LoadsAt
    <3> QED BY <3>1
  <2>2. Loadable(i, q, store.now + 1)
    BY <1>1, <2>1 DEF Loadable, Fits, StoreOp
  <2> QED BY <2>1, <2>2
<1>9. CASE BeginFork(i) \/ BeginForkSession(i)
  <2>1. PICK rows \in SUBSET store.rows, agents \in Nat :
          /\ LoadsAt(i, [op |-> "fork", rows |-> rows, agents |-> agents, at |-> store.now + 1], store.now + 1)
          /\ \A l, m \in rows : l.conv = m.conv
    <3>1. CASE BeginFork(i)
      <4>1. PICK c \in Conv, rows \in SUBSET store.rows :
              /\ LoadsAt(i, [op |-> "fork", rows |-> rows, agents |-> 1, at |-> store.now + 1],
                         store.now + 1)
              /\ rows \subseteq RowsOf(c)
        BY <3>1 DEF BeginFork, LoadsConv, RowsOf
      <4>2. rows \in SUBSET store.rows /\ \A l, m \in rows : l.conv = m.conv
        BY <4>1 DEF RowsOf
      <4> QED BY <4>1, <4>2
    <3>2. CASE BeginForkSession(i)
      <4>1. PICK c \in Conv :
              LoadsAt(i, [op |-> "fork", rows |-> {}, agents |-> store.conv[c].agents,
                          at |-> store.now + 1], store.now + 1)
        BY <3>2 DEF BeginForkSession, LoadsConv
      <4>2. store.conv[c].agents \in Nat
        BY <1>1 DEF Row
      <4>3. PICK n \in Nat : n = store.conv[c].agents
        BY <4>2
      <4>4. LoadsAt(i, [op |-> "fork", rows |-> {}, agents |-> n, at |-> store.now + 1], store.now + 1)
        BY <4>1, <4>3
      <4>5. {} \in SUBSET store.rows /\ \A l, m \in {} : l.conv = m.conv
        OBVIOUS
      <4> QED BY <4>4, <4>5
    <3> QED BY <1>9, <3>1, <3>2
  <2>2. IsFiniteSet(rows)
    BY <1>1, FS_Subset
  <2>3. Loadable(i, [op |-> "fork", rows |-> rows, agents |-> agents, at |-> store.now + 1], store.now + 1)
    BY <1>1, <2>1, <2>2 DEF Loadable, Fits, StoreOp
  <2> QED BY <2>1, <2>3
<1> QED BY <1>2, <1>3, <1>4, <1>5, <1>6, <1>7, <1>8, <1>9 DEF StoreBegins

LEMMA StoreBeginsKeep ==
  ASSUME StoreInv, NEW i \in StoreRequest, StoreBegins(i)
  PROVE  StoreInv'
<1>1. \E q, at : LoadsAt(i, q, at) /\ Loadable(i, q, at)
  BY StoreBegun
<1> HIDE DEF StoreInv
<1> QED BY <1>1, LoadsKeeps

-----------------------------------------------------------------------------
(* What a commit leaves alone.  No commit makes a request a fork.            *)
ForksStay == \A j \in StoreRequest : sreq'[j].op = "fork" => sreq'[j] = sreq[j]
SameRows  == store'.rows = store.rows /\ Conv' = Conv /\ Born \subseteq Born' /\ ForksStay

LEMMA MessageFields ==
  ASSUME StoreInv
  PROVE  /\ \A m \in store.rows : m \in Message
         /\ \A i \in StoreRequest : sreq[i].op = "fork" => \A m \in sreq[i].rows : m \in Message
         /\ \A m \in Message : m.turn \in StoreRequest /\ m.at \in Nat /\ m.conv \in ConvId
BY DEF StoreInv, StoreShape, RequestShape, Fits, Message

LEMMA PageStays ==
  ASSUME StoreInv, page' = page, SameRows
  PROVE  PageFacts'
BY DEF SameRows, StoreInv, PageFacts, RowsOf

LEMMA RowsStay ==
  ASSUME StoreInv, SameRows, store'.now \in Nat, store.now <= store'.now,
         \A j \in StoreRequest : Sent(j) => Sent(j)'
  PROVE  RowFacts'
<1>1. store.now \in Nat
  BY DEF StoreInv, StoreShape
<1>2. \A m \in store.rows : m.conv \in Conv /\ m.at <= store'.now /\ Sent(m.turn)'
  BY <1>1, MessageFields DEF StoreInv, RowFacts
<1>3. TwoRows(store.rows)
  BY DEF StoreInv, RowFacts
<1>4. ASSUME NEW j \in StoreRequest, Under(j, "fork")'
      PROVE  /\ \A m \in sreq'[j].rows : Sent(m.turn)'
             /\ \A l, m \in sreq'[j].rows : l.conv = m.conv
             /\ TwoRows(sreq'[j].rows)
  <2>1. sreq'[j] = sreq[j] /\ Under(j, "fork")
    BY <1>4 DEF SameRows, ForksStay, Under
  <2>2. \A m \in sreq[j].rows : m.turn \in StoreRequest
    BY <2>1, MessageFields DEF Under
  <2> QED BY <2>1, <2>2 DEF StoreInv, RowFacts
<1> QED BY <1>2, <1>3, <1>4 DEF SameRows, RowFacts, TwoRows

LEMMA QueueStays ==
  ASSUME StoreInv, SameRows, \A m \in Message : Awaited(m) => Awaited(m)',
         \A j \in StoreRequest : sreq'[j].op = "enqueue" => sreq'[j] = sreq[j],
         \A t \in store'.queue \ store.queue :
           /\ t.conv \in Born /\ ~(t.clarify /\ t.anti)
           /\ t.conv \in Conv => \E m \in store.rows : m.conv = t.conv /\ m.turn = t.turn
  PROVE  QueueFacts'
<1>1. \A m \in store.rows : Awaited(m)'
  BY MessageFields DEF StoreInv, QueueFacts
<1>2. ASSUME NEW j \in StoreRequest, Under(j, "fork")' PROVE \A m \in sreq'[j].rows : Awaited(m)'
  <2>1. sreq'[j] = sreq[j] /\ Under(j, "fork")
    BY <1>2 DEF SameRows, ForksStay, Under
  <2>2. \A m \in sreq[j].rows : m \in Message /\ Awaited(m)
    BY <2>1, MessageFields DEF Under, StoreInv, QueueFacts
  <2> QED BY <2>1, <2>2
<1>3. \A t \in store'.queue : t.conv \in Born' /\ ~(t.clarify /\ t.anti)
  BY DEF SameRows, StoreInv, QueueFacts
<1>4. \A t \in store'.queue : t.conv \in Conv => \E m \in store.rows : m.conv = t.conv /\ m.turn = t.turn
  BY DEF StoreInv, QueueFacts
<1>5. \A j \in StoreRequest : Under(j, "enqueue")' /\ sreq'[j].conv \in Conv =>
        \E m \in store.rows : m.conv = sreq'[j].conv /\ m.turn = j
  BY DEF StoreInv, QueueFacts, Under
<1> QED BY <1>1, <1>2, <1>3, <1>4, <1>5 DEF SameRows, QueueFacts

LEMMA RenamesStay ==
  ASSUME StoreInv, Conv' \subseteq Conv,
         \A c \in Conv' : store'.conv[c].title \in {store.conv[c].title, AgentTitle},
         Born \subseteq Born',
         shist'.renamed = shist.renamed /\ shist'.raced = shist.raced,
         \A j \in StoreRequest :
           /\ sreq'[j].op = "send" =>
                \/ sreq'[j] = sreq[j]
                \/ sreq[j].op = "invalidate" /\ sreq'[j] = sreq[j].next /\ sreq[j].next.op = "send"
           /\ sreq'[j].op = "invalidate" => sreq'[j] = sreq[j] \/ sreq'[j].next.op # "send"
  PROVE  RenameFacts'
<1>1. RenameKept'
  BY DEF StoreInv, RenameFacts, RenameKept
<1>2. ASSUME NEW j \in StoreRequest, Under(j, "send")', sreq'[j].row.title = 0,
             sreq'[j].conv \in DOMAIN shist.renamed
      PROVE  sreq'[j].conv \in shist.raced
  <2>1. CASE sreq'[j] = sreq[j]
    BY <1>2, <2>1 DEF Under, StoreInv, RenameFacts
  <2>2. CASE sreq[j].op = "invalidate" /\ sreq'[j] = sreq[j].next /\ sreq[j].next.op = "send"
    <3>1. sreq[j].next.conv = j
      BY <2>2 DEF StoreInv, RequestShape, Fits
    <3> QED BY <1>2, <2>2, <3>1 DEF Under, StoreInv, RenameFacts
  <2> QED BY <1>2, <2>1, <2>2 DEF Under
<1>3. ASSUME NEW j \in StoreRequest, Under(j, "invalidate")', sreq'[j].next.op = "send",
             j \in DOMAIN shist.renamed
      PROVE  j \in shist.raced
  <2>1. sreq'[j] = sreq[j]
    BY <1>3 DEF Under
  <2> QED BY <1>3, <2>1 DEF Under, StoreInv, RenameFacts
<1>4. DOMAIN shist.renamed \subseteq Born' /\ \A c \in DOMAIN shist.renamed : shist.renamed[c] # 0
  BY DEF StoreInv, RenameFacts
<1> QED BY <1>1, <1>2, <1>3, <1>4 DEF RenameFacts

LEMMA StoreMoves ==
  ASSUME StoreInv, NEW i \in StoreRequest, NEW q, Goes(i, q), sreq[i].op \notin {"fresh", "done"},
         q.op \notin {"fresh", "create", "fork"}, sreq[i].op = "enqueue" => q.op = "done"
  PROVE  /\ sreq' = [j \in StoreRequest |-> sreq'[j]] /\ sreq'[i] = q
         /\ \A j \in StoreRequest \ {i} : sreq'[j] = sreq[j]
         /\ ForksStay /\ Born \subseteq Born' /\ \A j \in StoreRequest : Sent(j) => Sent(j)'
         /\ i \in Born'
<1>1. /\ sreq' = [j \in StoreRequest |-> sreq'[j]] /\ sreq'[i] = q
      /\ \A j \in StoreRequest \ {i} : sreq'[j] = sreq[j]
  BY RequestGoes DEF StoreInv
<1>2. ForksStay
  BY <1>1 DEF ForksStay
<1>3. Born \subseteq Born' /\ i \in Born'
  BY <1>1 DEF Born
<1>4. \A j \in StoreRequest : Sent(j) => Sent(j)'
  BY <1>1 DEF Sent
<1> QED BY <1>1, <1>2, <1>3, <1>4

LEMMA DoneFits == \A i \in StoreRequest : \A born, at : Fits(i, [op |-> "done"], born, at)
BY DEF Fits, StoreOp

LEMMA EnqueueKeeps ==
  ASSUME StoreInv, NEW i \in StoreRequest, EnqueueTask(i) \/ EnqueueFails(i)
  PROVE  StoreInv'
<1>1. /\ sreq[i].op = "enqueue" /\ Goes(i, [op |-> "done"]) /\ page' = page
      /\ \/ shist' = shist /\ store' = [store EXCEPT !.queue = @ \cup {Task(i, sreq[i].row.session)}]
         \/ shist' = [shist EXCEPT !.lost = @ \cup {i}] /\ store' = store
  BY DEF EnqueueTask, EnqueueFails, Queues, Enqueues, Under, Ends, Goes
<1>2. /\ store'.conv = store.conv /\ store'.rows = store.rows /\ store'.cache = store.cache
      /\ store'.now = store.now
      /\ store' = [conv |-> store'.conv, rows |-> store'.rows, queue |-> store'.queue,
                   cache |-> store'.cache, now |-> store'.now]
      /\ shist'.renamed = shist.renamed /\ shist'.raced = shist.raced
      /\ shist' = [renamed |-> shist'.renamed, raced |-> shist'.raced, lost |-> shist'.lost,
                   unannounced |-> shist'.unannounced]
      /\ store.queue \subseteq store'.queue /\ shist.lost \subseteq shist'.lost
      /\ i \in shist'.lost \/ Task(i, sreq[i].row.session) \in store'.queue
      /\ store'.queue \subseteq store.queue \cup {Task(i, sreq[i].row.session)}
  BY <1>1 DEF StoreInv, StoreShape
<1>3. /\ sreq' = [j \in StoreRequest |-> sreq'[j]] /\ sreq'[i] = [op |-> "done"]
      /\ \A j \in StoreRequest \ {i} : sreq'[j] = sreq[j]
      /\ ForksStay /\ Born \subseteq Born' /\ \A j \in StoreRequest : Sent(j) => Sent(j)'
  BY <1>1, StoreMoves
<1>4. SameRows
  BY <1>2, <1>3 DEF SameRows, Conv
<1>5. store.now \in Nat /\ store'.now \in Nat /\ store.now <= store'.now
  BY <1>2 DEF StoreInv, StoreShape
<1>6. RequestShape'
  BY <1>1, <1>5, DoneFits, RequestFits DEF StoreInv
<1>7. StoreShape'
  BY <1>2, <1>4, <1>5 DEF StoreInv, StoreShape, SameRows
<1>8. RowFacts' /\ PageFacts'
  BY <1>1, <1>3, <1>4, <1>5, RowsStay, PageStays
<1>9. RenameFacts'
  BY <1>2, <1>3, <1>4, RenamesStay DEF SameRows
<1>10. QueueFacts'
  <2> DEFINE task == Task(i, sreq[i].row.session)
  <2>1. /\ task.turn = i /\ task.conv = sreq[i].conv /\ ~(task.clarify /\ task.anti)
    BY DEF Task
  <2> HIDE DEF task
  <2>2. \A m \in Message : Awaited(m) => Awaited(m)'
    BY <1>2, <1>3, <2>1, MessageFields DEF Awaited, Under, task
  <2>3. /\ task.conv \in Born
        /\ task.conv \in Conv => \E m \in store.rows : m.conv = task.conv /\ m.turn = task.turn
    BY <1>1, <2>1 DEF StoreInv, QueueFacts, RequestShape, Fits, Under
  <2>4. \A j \in StoreRequest : sreq'[j].op = "enqueue" => sreq'[j] = sreq[j]
    BY <1>3
  <2>5. \A t \in store'.queue \ store.queue : t = task
    BY <1>2 DEF task
  <2> QED BY <1>4, <2>1, <2>2, <2>3, <2>4, <2>5, QueueStays
<1> QED BY <1>6, <1>7, <1>8, <1>9, <1>10 DEF StoreInv

(* The cache, the runner's columns, a request that gives up: no row, task   *)
(* or title of the user changes.                                            *)
LEMMA NothingSentKeeps ==
  ASSUME StoreInv, StoreShape', RequestShape', SameRows, page' = page,
         store'.queue = store.queue, store'.now = store.now, shist'.lost = shist.lost,
         shist'.renamed = shist.renamed, shist'.raced = shist.raced,
         \A c \in Conv : store'.conv[c].title \in {store.conv[c].title, AgentTitle},
         \A j \in StoreRequest :
           \/ sreq'[j] = sreq[j]
           \/ sreq[j].op = "invalidate" /\ sreq'[j] = sreq[j].next
           \/ sreq[j].op \in {"send", "column", "fill"} /\ sreq'[j] = [op |-> "done"]
  PROVE  StoreInv'
<1>1. store'.now \in Nat /\ store.now <= store'.now
  BY DEF StoreInv, StoreShape
<1>2. ASSUME NEW j \in StoreRequest, sreq[j].op = "invalidate"
      PROVE  sreq[j].next.op \in {"done", "send"}
  BY <1>2 DEF StoreInv, RequestShape, Fits
<1>3. ASSUME NEW j \in StoreRequest
      PROVE  /\ Sent(j) => Sent(j)'
             /\ sreq'[j].op = "enqueue" <=> sreq[j].op = "enqueue"
             /\ sreq'[j].op = "enqueue" => sreq'[j] = sreq[j]
             /\ sreq'[j].op = "invalidate" => sreq'[j] = sreq[j]
             /\ sreq'[j].op = "send" =>
                  \/ sreq'[j] = sreq[j]
                  \/ sreq[j].op = "invalidate" /\ sreq'[j] = sreq[j].next /\ sreq[j].next.op = "send"
  BY <1>2 DEF Sent
<1>4. RowFacts' /\ PageFacts'
  BY <1>1, <1>3, RowsStay, PageStays
<1>5. RenameFacts'
  BY <1>3, RenamesStay DEF SameRows
<1>6. \A m \in Message : Awaited(m) => Awaited(m)'
  BY <1>3, MessageFields DEF Awaited, Under
<1>7. QueueFacts'
  BY <1>3, <1>6, QueueStays
<1> QED BY <1>4, <1>5, <1>7 DEF StoreInv

LEMMA CacheKeeps ==
  ASSUME StoreInv, NEW i \in StoreRequest, InvalidateCache(i) \/ FillCache(i) \/ StoreRollBack(i)
  PROVE  StoreInv'
<1>1. PICK q :
        /\ Goes(i, q) /\ page' = page
        /\ \/ sreq[i].op = "invalidate" /\ q = sreq[i].next
           \/ sreq[i].op \in {"send", "column", "fill"} /\ q = [op |-> "done"]
  <2>1. CASE InvalidateCache(i)
    BY <2>1 DEF InvalidateCache, Under
  <2>2. CASE FillCache(i) \/ StoreRollBack(i)
    <3>1. Goes(i, [op |-> "done"]) /\ page' = page /\ sreq[i].op \in {"send", "column", "fill"}
      BY <2>2 DEF FillCache, StoreRollBack, Under, Ends, Goes
    <3> QED BY <3>1
  <2> QED BY <2>1, <2>2
<1>2. /\ store' = [conv |-> store.conv, rows |-> store.rows, queue |-> store.queue,
                   cache |-> store'.cache, now |-> store.now]
      /\ store'.cache \in {{}, store.cache} \/ (sreq[i].op = "fill" /\ store'.cache = sreq[i].ids)
      /\ shist' = [renamed |-> shist.renamed, raced |-> shist.raced, lost |-> shist.lost,
                   unannounced |-> shist'.unannounced]
  BY DEF InvalidateCache, FillCache, StoreRollBack, Under, NotCached, StoreInv, StoreShape
<1>3. q.op \in {"done", "send"} /\ (q.op = "send" => sreq[i].op = "invalidate" /\ q = sreq[i].next)
  BY <1>1 DEF StoreInv, RequestShape, Fits
<1>4. /\ sreq' = [j \in StoreRequest |-> sreq'[j]] /\ sreq'[i] = q
      /\ \A j \in StoreRequest \ {i} : sreq'[j] = sreq[j]
      /\ ForksStay /\ Born \subseteq Born' /\ i \in Born'
  BY <1>1, <1>3, StoreMoves
<1>5. SameRows
  BY <1>2, <1>4 DEF SameRows, Conv
<1>6. Fits(i, q, Born', store'.now)
  <2>1. CASE q.op = "send"
    BY <1>2, <1>3, <1>4, <2>1 DEF StoreInv, RequestShape, Fits, StoreOp
  <2>2. CASE q.op = "done"
    BY <2>2 DEF Fits, StoreOp
  <2> QED BY <1>3, <2>1, <2>2
<1>7. store.now \in Nat /\ store'.now \in Nat /\ store.now <= store'.now
  BY <1>2 DEF StoreInv, StoreShape
<1>8. RequestShape'
  BY <1>1, <1>3, <1>6, <1>7, RequestFits DEF StoreInv
<1>9. store'.cache \subseteq ConvId
  BY <1>2 DEF StoreInv, StoreShape, RequestShape, Fits
<1>10. StoreShape'
  BY <1>2, <1>4, <1>5, <1>7, <1>9 DEF StoreInv, StoreShape, SameRows
<1>11. \A j \in StoreRequest :
           \/ sreq'[j] = sreq[j]
           \/ sreq[j].op = "invalidate" /\ sreq'[j] = sreq[j].next
           \/ sreq[j].op \in {"send", "column", "fill"} /\ sreq'[j] = [op |-> "done"]
  BY <1>1, <1>4
<1> QED BY <1>1, <1>2, <1>5, <1>8, <1>10, <1>11, NothingSentKeeps

LEMMA BindKeeps ==
  ASSUME StoreInv, RunnerBinds \/ RunnerTitles \/ CacheExpires
  PROVE  StoreInv'
<1>1. PICK conv \in [Conv -> Row], cache \in {{}, store.cache} :
        /\ sreq' = sreq /\ page' = page
        /\ store' = [conv |-> conv, rows |-> store.rows, queue |-> store.queue, cache |-> cache,
                     now |-> store.now]
        /\ \A c \in Conv : conv[c].title \in {store.conv[c].title, AgentTitle}
        /\ shist' = [renamed |-> shist.renamed, raced |-> shist.raced, lost |-> shist.lost,
                     unannounced |-> shist'.unannounced]
  <2>1. CASE CacheExpires
    BY <2>1 DEF CacheExpires, NotCached, StoreInv, StoreShape
  <2>2. CASE RunnerBinds
    <3>1. PICK c \in Conv : store' = [store EXCEPT !.conv[c].session = TRUE]
      BY <2>2 DEF RunnerBinds
    <3> DEFINE conv == [store.conv EXCEPT ![c].session = TRUE]
    <3>2. /\ store' = [conv |-> conv, rows |-> store.rows, queue |-> store.queue,
                       cache |-> store.cache, now |-> store.now]
          /\ sreq' = sreq /\ page' = page /\ shist' = shist
      BY <2>2, <3>1 DEF RunnerBinds, StoreInv, StoreShape
    <3>3. store.conv[c] \in Row /\ store.conv \in [Conv -> Row]
      BY DEF StoreInv, StoreShape
    <3>4. conv \in [Conv -> Row] /\ \A d \in Conv : conv[d].title = store.conv[d].title
      BY <3>3 DEF Row
    <3> HIDE DEF conv
    <3> QED BY <3>2, <3>4 DEF StoreInv, StoreShape
  <2>3. CASE RunnerTitles
    <3>1. PICK c \in Conv : store' = [store EXCEPT !.conv[c].title = AgentTitle]
      BY <2>3 DEF RunnerTitles
    <3> DEFINE conv == [store.conv EXCEPT ![c].title = AgentTitle]
    <3>2. /\ store' = [conv |-> conv, rows |-> store.rows, queue |-> store.queue,
                       cache |-> store.cache, now |-> store.now]
          /\ sreq' = sreq /\ page' = page /\ shist' = shist
      BY <2>3, <3>1 DEF RunnerTitles, StoreInv, StoreShape
    <3>3. store.conv[c] \in Row /\ store.conv \in [Conv -> Row]
      BY DEF StoreInv, StoreShape
    <3>4. /\ conv \in [Conv -> Row]
          /\ \A d \in Conv : conv[d].title \in {store.conv[d].title, AgentTitle}
      BY <3>3 DEF Row, Title
    <3> HIDE DEF conv
    <3> QED BY <3>2, <3>4 DEF StoreInv, StoreShape
  <2> QED BY <2>1, <2>2, <2>3
<1>2. Conv' = Conv /\ Born' = Born /\ ForksStay /\ SameRows
  BY <1>1 DEF Conv, Born, ForksStay, SameRows
<1>3. store'.now = store.now
  BY <1>1
<1>4. RequestShape'
  BY <1>1, <1>2, <1>3 DEF StoreInv, RequestShape
<1>5. StoreShape'
  BY <1>1, <1>2 DEF StoreInv, StoreShape
<1> QED BY <1>1, <1>2, <1>4, <1>5, NothingSentKeeps

(* A rename, the sharing flag or the list of agents.                         *)
LEMMA UpdateColumnKeeps ==
  ASSUME StoreInv, NEW i \in StoreRequest, UpdateColumn(i)
  PROVE  StoreInv'
<1> DEFINE q    == sreq[i]
           conv == [store.conv EXCEPT ![q.conv][q.field] = q.value]
<1>1. /\ q.op = "column" /\ q.conv \in Conv /\ Goes(i, [op |-> "done"]) /\ page' = page
      /\ store' = [conv |-> conv, rows |-> store.rows, queue |-> store.queue,
                   cache |-> store.cache, now |-> store.now]
  BY DEF UpdateColumn, Under, Ends, Goes, StoreInv, StoreShape
<1>2. store.conv \in [Conv -> Row] /\ store.conv[q.conv] \in Row
  BY <1>1 DEF StoreInv, StoreShape
<1>3. \/ q.field = "title" /\ q.value = i /\ i \in ConvId
      \/ q.field = "agents" /\ q.value \in Nat
      \/ q.field = "shared" /\ q.value = TRUE
  BY <1>1, StoreIds DEF StoreInv, RequestShape, Fits
<1>4. /\ conv \in [Conv -> Row]
      /\ \A c \in Conv : conv[c].title = IF c = q.conv /\ q.field = "title" THEN i ELSE store.conv[c].title
  <2>1. CASE q.field = "title" /\ q.value = i /\ i \in ConvId
    BY <1>1, <1>2, <2>1 DEF Row, Title
  <2>2. CASE q.field = "agents" /\ q.value \in Nat
    BY <1>1, <1>2, <2>2 DEF Row
  <2>3. CASE q.field = "shared" /\ q.value = TRUE
    BY <1>1, <1>2, <2>3 DEF Row
  <2> QED BY <1>3, <2>1, <2>2, <2>3
<1> HIDE DEF conv
<1>5. /\ sreq' = [j \in StoreRequest |-> sreq'[j]] /\ sreq'[i] = [op |-> "done"]
      /\ \A j \in StoreRequest \ {i} : sreq'[j] = sreq[j]
      /\ ForksStay /\ Born \subseteq Born'
  BY <1>1, StoreMoves
<1>6. Conv' = Conv /\ SameRows
  BY <1>1, <1>4, <1>5 DEF SameRows, Conv
<1>7. store.now \in Nat /\ store'.now \in Nat /\ store.now <= store'.now
  BY <1>1 DEF StoreInv, StoreShape
<1>8. RequestShape'
  BY <1>1, <1>7, DoneFits, RequestFits DEF StoreInv
<1>9. /\ shist' = [renamed |-> shist'.renamed, raced |-> shist'.raced, lost |-> shist.lost,
                   unannounced |-> shist.unannounced]
      /\ q.field # "title" => shist'.renamed = shist.renamed /\ shist'.raced = shist.raced
      /\ q.field = "title" =>
           /\ shist'.renamed = With(shist.renamed, q.conv, i)
           /\ shist'.raced = IF \E j \in StoreRequest :
                                      \/ Under(j, "invalidate") /\ j = q.conv
                                      \/ /\ Under(j, "send")
                                         /\ sreq[j].conv = q.conv /\ sreq[j].row.title = 0
                                 THEN shist.raced \cup {q.conv} ELSE shist.raced
  BY DEF UpdateColumn, StoreInv, StoreShape
<1>10. StoreShape'
  BY <1>1, <1>4, <1>5, <1>6, <1>7, <1>9 DEF StoreInv, StoreShape, SameRows
<1>11. CASE q.field # "title"
  BY <1>1, <1>4, <1>5, <1>6, <1>8, <1>9, <1>10, <1>11, NothingSentKeeps
<1>12. CASE q.field = "title"
  <2>1. ASSUME NEW j \in StoreRequest
        PROVE  Sent(j) => Sent(j)'
    BY <1>1, <1>5 DEF Sent
  <2>2. RowFacts' /\ PageFacts'
    BY <1>1, <1>6, <1>7, <2>1, RowsStay, PageStays
  <2>3. \A m \in Message : Awaited(m) => Awaited(m)'
    BY <1>1, <1>5, <1>9, MessageFields DEF Awaited, Under
  <2>4. QueueFacts'
    BY <1>1, <1>5, <1>6, <2>3, QueueStays
  <2>5. RenameFacts'
    <3> DEFINE r == shist'.renamed
    <3>1. /\ DOMAIN r = DOMAIN shist.renamed \cup {q.conv} /\ r[q.conv] = i
          /\ \A c \in DOMAIN shist.renamed \ {q.conv} : r[c] = shist.renamed[c]
      BY <1>9, <1>12 DEF With
    <3> HIDE DEF r
    <3>2. shist.raced \subseteq shist'.raced
      BY <1>9, <1>12
    <3>3. DOMAIN r \subseteq Born' /\ \A c \in DOMAIN r : r[c] # 0
      BY <1>1, <1>5, <3>1, StoreIds DEF StoreInv, StoreShape, RenameFacts
    <3>4. ASSUME NEW c \in Conv, c \in DOMAIN r
          PROVE  conv[c].title \in {r[c], AgentTitle} \/ c \in shist'.raced
      BY <1>4, <1>12, <3>1, <3>2, <3>4 DEF StoreInv, RenameFacts, RenameKept
    <3>5. RenameKept'
      BY <1>1, <1>6, <3>4 DEF RenameKept, r
    <3>6. ASSUME NEW j \in StoreRequest, Under(j, "send")', sreq'[j].row.title = 0, sreq'[j].conv \in DOMAIN r
          PROVE  sreq'[j].conv \in shist'.raced
      <4>1. sreq'[j] = sreq[j] /\ Under(j, "send")
        BY <1>5, <3>6 DEF Under
      <4> QED BY <1>9, <1>12, <3>1, <3>2, <3>6, <4>1 DEF StoreInv, RenameFacts
    <3>7. ASSUME NEW j \in StoreRequest, Under(j, "invalidate")', sreq'[j].next.op = "send", j \in DOMAIN r
          PROVE  j \in shist'.raced
      <4>1. sreq'[j] = sreq[j] /\ Under(j, "invalidate")
        BY <1>5, <3>7 DEF Under
      <4> QED BY <1>9, <1>12, <3>1, <3>2, <3>7, <4>1 DEF StoreInv, RenameFacts
    <3> QED BY <3>3, <3>5, <3>6, <3>7 DEF RenameFacts, r
  <2> QED BY <1>8, <1>10, <2>2, <2>4, <2>5 DEF StoreInv
<1> QED BY <1>11, <1>12

-----------------------------------------------------------------------------
(* Rows come and go: a message, a new conversation, a deleted one.           *)
LEMMA ThreeFinite == \A a, b, c : IsFiniteSet({a, b, c})
<1> SUFFICES ASSUME NEW a, NEW b, NEW c PROVE IsFiniteSet({a, b, c})
  OBVIOUS
<1>1. IsFiniteSet({a}) /\ IsFiniteSet({b}) /\ IsFiniteSet({c})
  BY FS_Singleton
<1>2. IsFiniteSet({a} \cup {b} \cup {c})
  BY <1>1, FS_Union
<1>3. {a, b, c} = {a} \cup {b} \cup {c}
  OBVIOUS
<1> QED BY <1>2, <1>3

LEMMA PostKeeps ==
  ASSUME StoreInv, NEW i \in StoreRequest, NEW kind, NEW roles,
         roles \subseteq {"user", "agent", "roundtable"}, "user" \in roles,
         kind = "user_only" => roles = {"user"},
         Posts(i, kind, roles, sreq[i].row.title = 0)
  PROVE  StoreInv'
<1> DEFINE q   == sreq[i]
           to  == IF kind = "user_only" THEN [op |-> "done"] ELSE [q EXCEPT !.op = "enqueue"]
           new == {[conv |-> q.conv, role |-> r, at |-> q.at, turn |-> i] : r \in roles}
           conv == [store.conv EXCEPT ![q.conv].title = IF q.row.title = 0 THEN i ELSE @]
<1>1. /\ q.op = "send" /\ q.conv \in Conv /\ Goes(i, to) /\ page' = page /\ shist' = shist
      /\ store' = [conv |-> conv, rows |-> store.rows \cup new, queue |-> store.queue,
                   cache |-> store.cache, now |-> store.now]
  BY DEF Posts, Under, StoreInv, StoreShape
<1>2. SendFits(q, store.now) /\ q.conv \in Born
  BY <1>1 DEF StoreInv, RequestShape, Fits
<1>3. to.op \in {"done", "enqueue"} /\ (to.op = "enqueue" => SendFits(to, store.now) /\ to.conv = q.conv)
      /\ (kind # "user_only" => to.op = "enqueue")
  BY <1>2 DEF SendFits
<1> HIDE DEF to
<1>4. /\ sreq' = [j \in StoreRequest |-> sreq'[j]] /\ sreq'[i] = to
      /\ \A j \in StoreRequest \ {i} : sreq'[j] = sreq[j]
      /\ ForksStay /\ Born \subseteq Born' /\ \A j \in StoreRequest : Sent(j) => Sent(j)'
  BY <1>1, <1>3, StoreMoves
<1>5. store.now \in Nat /\ store'.now = store.now /\ store.conv \in [Conv -> Row]
  BY <1>1 DEF StoreInv, StoreShape
<1>6. Fits(i, to, Born', store'.now)
  BY <1>2, <1>3, <1>4, <1>5 DEF Fits, StoreOp
<1>7. RequestShape'
  BY <1>1, <1>3, <1>5, <1>6, RequestFits DEF StoreInv
<1>8. /\ conv \in [Conv -> Row]
      /\ \A c \in Conv : conv[c].title = IF c = q.conv /\ q.row.title = 0 THEN i ELSE store.conv[c].title
  <2>1. store.conv[q.conv] \in Row /\ i \in ConvId
    BY <1>1, <1>5, StoreIds
  <2> QED BY <1>1, <1>5, <2>1 DEF Row, Title
<1>9. /\ new \subseteq Message
      /\ \A m \in new : m.conv = q.conv /\ m.at = q.at /\ m.turn = i
      /\ \A m \in new : m.role # "user" => kind # "user_only"
      /\ \A l, m \in new : l # m => l.role # m.role
      /\ \E m \in new : m.conv = q.conv /\ m.turn = i
  <2> DEFINE Of(r) == [conv |-> q.conv, role |-> r, at |-> q.at, turn |-> i]
  <2>1. q.conv \in ConvId /\ q.at \in Nat
    BY <1>2, StoreIds DEF SendFits
  <2>2. \A r \in roles : /\ Of(r).conv = q.conv /\ Of(r).at = q.at /\ Of(r).turn = i
                         /\ Of(r).role = r /\ Of(r) \in Message
    BY <2>1 DEF Message
  <2>3. new = {Of(r) : r \in roles}
    OBVIOUS
  <2> HIDE DEF Of, new
  <2> QED BY <2>2, <2>3
<1>10. IsFiniteSet(new)
  <2> DEFINE Of(r) == [conv |-> q.conv, role |-> r, at |-> q.at, turn |-> i]
  <2>1. new \subseteq {Of("user"), Of("agent"), Of("roundtable")}
    OBVIOUS
  <2> HIDE DEF Of, new
  <2> QED BY <2>1, ThreeFinite, FS_Subset
<1>11. IsFiniteSet(store.rows \cup new)
  BY <1>10, FS_Union DEF StoreInv, StoreShape
<1> HIDE DEF new, conv
<1>12. Conv' = Conv
  BY <1>1, <1>8 DEF Conv
<1>13. StoreShape'
  BY <1>1, <1>4, <1>5, <1>8, <1>9, <1>11, <1>12 DEF StoreInv, StoreShape
<1>14. RowFacts'
  <2>1. ASSUME NEW m \in store.rows \cup new PROVE m.conv \in Conv /\ m.at <= store.now /\ Sent(m.turn)'
    <3>1. CASE m \in store.rows
      BY <1>4, <3>1, MessageFields DEF StoreInv, RowFacts
    <3>2. CASE m \in new
      BY <1>1, <1>2, <1>3, <1>4, <1>9, <3>2 DEF Sent, SendFits
    <3> QED BY <3>1, <3>2
  <2>2. TwoRows(store.rows \cup new)
    <3>1. \A m \in store.rows : m.turn # i
      BY <1>1 DEF StoreInv, RowFacts, Sent
    <3> QED BY <1>9, <3>1 DEF TwoRows, StoreInv, RowFacts
  <2>3. ASSUME NEW j \in StoreRequest, Under(j, "fork")'
        PROVE  /\ \A m \in sreq'[j].rows : Sent(m.turn)'
               /\ \A l, m \in sreq'[j].rows : l.conv = m.conv
               /\ TwoRows(sreq'[j].rows)
    <3>1. sreq'[j] = sreq[j] /\ Under(j, "fork")
      BY <1>4, <2>3 DEF ForksStay, Under
    <3> QED BY <1>4, <3>1, MessageFields DEF StoreInv, RowFacts, Under
  <2> QED BY <1>1, <1>12, <2>1, <2>2, <2>3 DEF RowFacts, TwoRows
<1>15. QueueFacts'
  <2>1. \A m \in Message : Awaited(m) => Awaited(m)'
    BY <1>1, <1>4, MessageFields DEF Awaited, Under
  <2>2. \A m \in new : Awaited(m)'
    BY <1>3, <1>4, <1>9 DEF Awaited, Under
  <2>3. \A m \in store.rows \cup new : Awaited(m)'
    BY <2>1, <2>2, MessageFields DEF StoreInv, QueueFacts
  <2>4. ASSUME NEW j \in StoreRequest, Under(j, "fork")' PROVE \A m \in sreq'[j].rows : Awaited(m)'
    <3>1. sreq'[j] = sreq[j] /\ Under(j, "fork")
      BY <1>4, <2>4 DEF ForksStay, Under
    <3> QED BY <2>1, <3>1, MessageFields DEF StoreInv, QueueFacts, Under
  <2>5. \A j \in StoreRequest : Under(j, "enqueue")' /\ sreq'[j].conv \in Conv =>
          \E m \in store.rows \cup new : m.conv = sreq'[j].conv /\ m.turn = j
    BY <1>3, <1>4, <1>9 DEF StoreInv, QueueFacts, Under
  <2>6. \A t \in store.queue :
          /\ t.conv \in Born' /\ ~(t.clarify /\ t.anti)
          /\ t.conv \in Conv => \E m \in store.rows \cup new : m.conv = t.conv /\ m.turn = t.turn
    BY <1>4 DEF StoreInv, QueueFacts
  <2> QED BY <1>1, <1>12, <2>3, <2>4, <2>5, <2>6 DEF QueueFacts
<1>16. RenameFacts'
  <2>1. RenameKept'
    <3>1. q.row.title = 0 /\ q.conv \in DOMAIN shist.renamed => q.conv \in shist.raced
      BY <1>1 DEF StoreInv, RenameFacts, Under
    <3> QED BY <1>1, <1>8, <1>12, <3>1 DEF StoreInv, RenameFacts, RenameKept
  <2>2. \A j \in StoreRequest : sreq'[j].op \in {"send", "invalidate"} => sreq'[j] = sreq[j]
    BY <1>3, <1>4
  <2> QED BY <1>1, <1>4, <2>1, <2>2 DEF StoreInv, RenameFacts, Under
<1>17. PageFacts'
  <2>1. page.seen \cap (store.rows \cup new) \subseteq store.rows
    BY <1>1, <1>9 DEF StoreInv, PageFacts, RowsOf
  <2> QED BY <1>1, <1>4, <1>12, <2>1 DEF StoreInv, PageFacts, RowsOf
<1> QED BY <1>7, <1>13, <1>14, <1>15, <1>16, <1>17 DEF StoreInv

LEMMA DeleteKeeps ==
  ASSUME StoreInv, NEW i \in StoreRequest, DeleteConversation(i) \/ BulkDelete(i)
  PROVE  StoreInv'
<1> DEFINE gone == sreq[i].gone
           conv == [c \in DOMAIN store.conv \ gone |-> store.conv[c]]
           rows == {m \in store.rows : m.conv \notin gone}
<1>1. PICK q \in {[op |-> "done"], [op |-> "invalidate", next |-> [op |-> "done"]]} :
        /\ Goes(i, q) /\ page' = page /\ sreq[i].op \in {"delete", "bulk_delete"}
        /\ store' = [conv |-> conv, rows |-> rows, queue |-> store.queue,
                     cache |-> store.cache, now |-> store.now]
        /\ shist' = [renamed |-> shist.renamed, raced |-> shist.raced, lost |-> shist.lost,
                     unannounced |-> shist'.unannounced]
  <2>1. store' = [conv |-> conv, rows |-> rows, queue |-> store.queue,
                  cache |-> store.cache, now |-> store.now]
    BY DEF DeleteConversation, BulkDelete, Deletes, StoreInv, StoreShape
  <2>2. CASE DeleteConversation(i)
    BY <2>1, <2>2 DEF DeleteConversation, Under, StoreInv, StoreShape
  <2>3. CASE BulkDelete(i)
    BY <2>1, <2>3 DEF BulkDelete, Under, Ends, Goes, Unannounced, StoreInv, StoreShape
  <2> QED BY <2>2, <2>3
<1>2. q.op \in {"done", "invalidate"} /\ (q.op = "invalidate" => q.next = [op |-> "done"])
  OBVIOUS
<1>3. /\ sreq' = [j \in StoreRequest |-> sreq'[j]] /\ sreq'[i] = q
      /\ \A j \in StoreRequest \ {i} : sreq'[j] = sreq[j]
      /\ ForksStay /\ Born \subseteq Born' /\ \A j \in StoreRequest : Sent(j) => Sent(j)'
  BY <1>1, <1>2, StoreMoves
<1>4. store.now \in Nat /\ store'.now = store.now /\ store.conv \in [Conv -> Row]
  BY <1>1 DEF StoreInv, StoreShape
<1>5. Fits(i, q, Born', store'.now)
  BY <1>2 DEF Fits, StoreOp
<1>6. RequestShape'
  BY <1>1, <1>2, <1>4, <1>5, RequestFits DEF StoreInv
<1>7. Conv' = Conv \ gone /\ conv \in [Conv \ gone -> Row] /\ \A c \in Conv \ gone : conv[c] = store.conv[c]
  BY <1>1, <1>4 DEF Conv
<1>8. rows \subseteq store.rows /\ IsFiniteSet(rows) /\ \A m \in store.rows : m \in rows <=> m.conv \notin gone
  BY FS_Subset DEF StoreInv, StoreShape
<1> HIDE DEF conv, rows, gone
<1>9. StoreShape'
  BY <1>1, <1>3, <1>4, <1>7, <1>8 DEF StoreInv, StoreShape
<1>10. RowFacts'
  <2>1. \A m \in rows : m.conv \in Conv \ gone /\ m.at <= store.now /\ Sent(m.turn)'
    BY <1>3, <1>8, MessageFields DEF StoreInv, RowFacts
  <2>2. TwoRows(rows)
    BY <1>8 DEF StoreInv, RowFacts, TwoRows
  <2>3. ASSUME NEW j \in StoreRequest, Under(j, "fork")'
        PROVE  /\ \A m \in sreq'[j].rows : Sent(m.turn)'
               /\ \A l, m \in sreq'[j].rows : l.conv = m.conv
               /\ TwoRows(sreq'[j].rows)
    <3>1. sreq'[j] = sreq[j] /\ Under(j, "fork")
      BY <1>3, <2>3 DEF ForksStay, Under
    <3> QED BY <1>3, <3>1, MessageFields DEF StoreInv, RowFacts, Under
  <2> QED BY <1>1, <1>7, <2>1, <2>2, <2>3 DEF RowFacts, TwoRows
<1>11. QueueFacts'
  <2>1. \A m \in Message : Awaited(m) => Awaited(m)'
    BY <1>1, <1>3, MessageFields DEF Awaited, Under
  <2>2. \A m \in rows : Awaited(m)'
    BY <1>8, <2>1, MessageFields DEF StoreInv, QueueFacts
  <2>3. ASSUME NEW j \in StoreRequest, Under(j, "fork")' PROVE \A m \in sreq'[j].rows : Awaited(m)'
    <3>1. sreq'[j] = sreq[j] /\ Under(j, "fork")
      BY <1>3, <2>3 DEF ForksStay, Under
    <3> QED BY <2>1, <3>1, MessageFields DEF StoreInv, QueueFacts, Under
  <2>4. \A j \in StoreRequest : sreq'[j].op = "enqueue" => sreq'[j] = sreq[j]
    BY <1>2, <1>3
  <2>5. \A j \in StoreRequest : Under(j, "enqueue")' /\ sreq'[j].conv \in Conv \ gone =>
          \E m \in rows : m.conv = sreq'[j].conv /\ m.turn = j
    BY <1>8, <2>4 DEF StoreInv, QueueFacts, Under
  <2>6. \A t \in store.queue :
          /\ t.conv \in Born' /\ ~(t.clarify /\ t.anti)
          /\ t.conv \in Conv \ gone => \E m \in rows : m.conv = t.conv /\ m.turn = t.turn
    BY <1>3, <1>8 DEF StoreInv, QueueFacts
  <2> QED BY <1>1, <1>7, <2>2, <2>3, <2>5, <2>6 DEF QueueFacts
<1>12. RenameFacts'
  <2>1. \A c \in Conv' : store'.conv[c].title = store.conv[c].title
    BY <1>1, <1>7
  <2>2. \A j \in StoreRequest :
           /\ sreq'[j].op = "send" => sreq'[j] = sreq[j]
           /\ sreq'[j].op = "invalidate" => sreq'[j] = sreq[j] \/ sreq'[j].next.op # "send"
    BY <1>2, <1>3
  <2> QED BY <1>1, <1>3, <1>7, <2>1, <2>2, RenamesStay
<1>13. PageFacts'
  BY <1>1, <1>3, <1>7, <1>8 DEF StoreInv, PageFacts, RowsOf
<1> QED BY <1>6, <1>9, <1>10, <1>11, <1>12, <1>13 DEF StoreInv

LEMMA ImageFinite ==
  ASSUME NEW S, IsFiniteSet(S), NEW f, f = [x \in S |-> f[x]]
  PROVE  IsFiniteSet({f[x] : x \in S})
<1> DEFINE T == {f[x] : x \in S}
<1>1. f \in [S -> T] /\ \A t \in T : \E s \in S : f[s] = t
  OBVIOUS
<1> HIDE DEF T
<1>2. f \in Surjection(S, T)
  BY <1>1 DEF Surjection
<1>3. IsFiniteSet(T)
  BY <1>2, FS_Surjection
<1> QED BY <1>3 DEF T

(* A conversation nobody else has the id of, with its first rows.            *)
LEMMA GrowKeeps ==
  ASSUME StoreInv, NEW i \in StoreRequest, NEW q, NEW row \in Row, NEW new, NEW at \in Nat,
         sreq[i].op \in {"create", "fork"}, Goes(i, q), q.op \in {"done", "invalidate"},
         store' = [conv |-> With(store.conv, i, row), rows |-> store.rows \cup new,
                   queue |-> store.queue, cache |-> store.cache, now |-> at],
         store.now <= at, Fits(i, q, Born', at), page' = page,
         shist' = [renamed |-> shist.renamed, raced |-> shist.raced, lost |-> shist.lost,
                   unannounced |-> shist'.unannounced],
         new \subseteq Message, IsFiniteSet(new), TwoRows(new),
         \A m \in new : m.conv = i /\ m.at <= at /\ Sent(m.turn) /\ Awaited(m)
  PROVE  StoreInv'
<1>1. i \notin Born /\ i \in ConvId
  BY StoreIds
<1>2. /\ sreq' = [j \in StoreRequest |-> sreq'[j]] /\ sreq'[i] = q
      /\ \A j \in StoreRequest \ {i} : sreq'[j] = sreq[j]
      /\ ForksStay /\ Born \subseteq Born' /\ \A j \in StoreRequest : Sent(j) => Sent(j)'
      /\ i \in Born'
  BY StoreMoves
<1> DEFINE conv == With(store.conv, i, row)
<1>3. store.now \in Nat /\ store'.now = at /\ store.conv \in [Conv -> Row] /\ Conv \subseteq Born
  BY DEF StoreInv, StoreShape
<1>4. /\ DOMAIN conv = Conv \cup {i} /\ conv \in [Conv \cup {i} -> Row]
      /\ \A c \in Conv : conv[c] = store.conv[c]
  BY <1>1, <1>3 DEF With, Conv
<1> HIDE DEF conv
<1>5. /\ Conv' = Conv \cup {i} /\ store'.rows = store.rows \cup new /\ store'.conv = conv
      /\ store'.queue = store.queue /\ store'.cache = store.cache
  BY <1>4 DEF Conv, conv
<1>6. RequestShape'
  BY <1>2, <1>3, RequestFits DEF StoreInv
<1>7. IsFiniteSet(store.rows \cup new)
  BY FS_Union DEF StoreInv, StoreShape
<1>8. StoreShape'
  BY <1>2, <1>3, <1>4, <1>5, <1>7 DEF StoreInv, StoreShape
<1>9. RowFacts'
  <2>1. ASSUME NEW m \in store.rows \cup new PROVE m.conv \in Conv \cup {i} /\ m.at <= at /\ Sent(m.turn)'
    <3>1. CASE m \in store.rows
      BY <1>2, <1>3, <3>1, MessageFields DEF StoreInv, RowFacts
    <3>2. CASE m \in new
      BY <1>2, <3>2, MessageFields
    <3> QED BY <3>1, <3>2
  <2>2. TwoRows(store.rows \cup new)
    <3>1. \A m \in store.rows : m.conv # i
      BY <1>1, <1>3 DEF StoreInv, RowFacts
    <3> QED BY <3>1 DEF TwoRows, StoreInv, RowFacts
  <2>3. ASSUME NEW j \in StoreRequest, Under(j, "fork")'
        PROVE  /\ \A m \in sreq'[j].rows : Sent(m.turn)'
               /\ \A l, m \in sreq'[j].rows : l.conv = m.conv
               /\ TwoRows(sreq'[j].rows)
    <3>1. sreq'[j] = sreq[j] /\ Under(j, "fork")
      BY <1>2, <2>3 DEF ForksStay, Under
    <3> QED BY <1>2, <3>1, MessageFields DEF StoreInv, RowFacts, Under
  <2> QED BY <1>3, <1>5, <2>1, <2>2, <2>3 DEF RowFacts, TwoRows
<1>10. QueueFacts'
  <2>1. \A m \in Message : Awaited(m) => Awaited(m)'
    BY <1>2, <1>5, MessageFields DEF Awaited, Under
  <2>2. \A m \in store.rows \cup new : Awaited(m)'
    BY <2>1, MessageFields DEF StoreInv, QueueFacts
  <2>3. ASSUME NEW j \in StoreRequest, Under(j, "fork")' PROVE \A m \in sreq'[j].rows : Awaited(m)'
    <3>1. sreq'[j] = sreq[j] /\ Under(j, "fork")
      BY <1>2, <2>3 DEF ForksStay, Under
    <3> QED BY <2>1, <3>1, MessageFields DEF StoreInv, QueueFacts, Under
  <2>4. \A j \in StoreRequest : sreq'[j].op = "enqueue" => sreq'[j] = sreq[j]
    BY <1>2
  <2>5. ASSUME NEW j \in StoreRequest, Under(j, "enqueue")', sreq'[j].conv \in Conv \cup {i}
        PROVE  \E m \in store.rows \cup new : m.conv = sreq'[j].conv /\ m.turn = j
    <3>1. sreq'[j] = sreq[j] /\ sreq[j].op = "enqueue"
      BY <2>4, <2>5 DEF Under
    <3>2. sreq[j].conv \in Born
      BY <3>1 DEF StoreInv, RequestShape, Fits
    <3> QED BY <1>1, <2>5, <3>1, <3>2 DEF StoreInv, QueueFacts, Under
  <2>6. \A t \in store.queue :
          /\ t.conv \in Born' /\ ~(t.clarify /\ t.anti)
          /\ t.conv \in Conv \cup {i} => \E m \in store.rows \cup new : m.conv = t.conv /\ m.turn = t.turn
    BY <1>1, <1>2 DEF StoreInv, QueueFacts
  <2> QED BY <1>5, <2>2, <2>3, <2>5, <2>6 DEF QueueFacts
<1>11. RenameFacts'
  <2>1. i \notin DOMAIN shist.renamed
    BY <1>1 DEF StoreInv, RenameFacts
  <2>2. RenameKept'
    BY <1>4, <1>5, <2>1 DEF RenameKept, StoreInv, RenameFacts
  <2>3. \A j \in StoreRequest :
          /\ sreq'[j].op = "send" => sreq'[j] = sreq[j]
          /\ sreq'[j].op = "invalidate" => sreq'[j] = sreq[j] \/ j = i
    BY <1>2
  <2> QED BY <1>2, <2>1, <2>2, <2>3 DEF RenameFacts, StoreInv, Under
<1>12. PageFacts'
  <2>1. page.conv # i /\ \A m \in page.seen : m.conv = page.conv
    BY <1>1 DEF StoreInv, PageFacts
  <2>2. page.seen \cap (store.rows \cup new) \subseteq store.rows
    BY <2>1
  <2> QED BY <1>2, <1>5, <2>1, <2>2 DEF StoreInv, PageFacts, RowsOf
<1> QED BY <1>6, <1>8, <1>9, <1>10, <1>11, <1>12 DEF StoreInv

LEMMA CreateKeeps ==
  ASSUME StoreInv, NEW i \in StoreRequest, CreateConversation(i)
  PROVE  StoreInv'
<1> DEFINE next == IF sreq[i].first
                     THEN [op |-> "send", conv |-> i, row |-> Default, kind |-> "agent",
                           at |-> store.now + 1]
                     ELSE [op |-> "done"]
           q    == [op |-> "invalidate", next |-> next]
           none == {}
<1>1. /\ sreq[i].op = "create" /\ Goes(i, q) /\ page' = page /\ shist' = shist
      /\ store' = [conv |-> With(store.conv, i, Default), rows |-> store.rows \cup none,
                   queue |-> store.queue, cache |-> store.cache, now |-> store.now + 1]
  BY DEF CreateConversation, CreatesThen, InvalidateThen, Under, StoreInv, StoreShape
<1>2. store.now \in Nat /\ store.now + 1 \in Nat /\ store.now <= store.now + 1
  BY DEF StoreInv, StoreShape
<1>3. Default \in Row
  BY StoreIds DEF Default, Row
<1>4. \/ next = [op |-> "done"]
      \/ /\ SendFits(next, store.now + 1) /\ next.op = "send"
         /\ next.conv = i /\ next.row = Default
  BY <1>2, <1>3 DEF SendFits
<1> HIDE DEF next
<1>5. Fits(i, q, Born', store.now + 1) /\ q.op = "invalidate"
  BY <1>4 DEF Fits, StoreOp
<1> HIDE DEF q
<1>6. none \subseteq Message /\ IsFiniteSet(none) /\ TwoRows(none)
      /\ \A m \in none : m.conv = i /\ m.at <= store.now + 1 /\ Sent(m.turn) /\ Awaited(m)
  BY FS_EmptySet DEF TwoRows
<1>7. shist' = [renamed |-> shist.renamed, raced |-> shist.raced, lost |-> shist.lost,
                unannounced |-> shist'.unannounced]
  BY <1>1 DEF StoreInv, StoreShape
<1> HIDE DEF none
<1> QED BY <1>1, <1>2, <1>3, <1>5, <1>6, <1>7, GrowKeeps

LEMMA ForkKeeps ==
  ASSUME StoreInv, NEW i \in StoreRequest, ForkConversation(i)
  PROVE  StoreInv'
<1> DEFINE q  == sreq[i]
           f  == [m \in q.rows |-> [m EXCEPT !.conv = i, !.at = q.at]]
           new == {f[m] : m \in q.rows}
<1>1. PICK session \in {FALSE, q.rows = {}} :
        /\ q.op = "fork" /\ Goes(i, [op |-> "done"]) /\ page' = page
        /\ store' = [conv |-> With(store.conv, i, [Default EXCEPT !.title = i, !.agents = q.agents,
                                                                  !.session = session]),
                     rows |-> store.rows \cup {[m EXCEPT !.conv = i, !.at = q.at] : m \in q.rows},
                     queue |-> store.queue, cache |-> store.cache, now |-> store.now]
        /\ shist' = [renamed |-> shist.renamed, raced |-> shist.raced, lost |-> shist.lost,
                     unannounced |-> shist'.unannounced]
  BY DEF ForkConversation, Under, Ends, Goes, Unannounced, StoreInv, StoreShape
<1> DEFINE row == [Default EXCEPT !.title = i, !.agents = q.agents, !.session = session]
<1>2. /\ q.rows \subseteq Message /\ IsFiniteSet(q.rows)
      /\ q.agents \in Nat /\ q.at \in Nat /\ q.at <= store.now
  BY <1>1 DEF StoreInv, RequestShape, Fits
<1>3. row \in Row
  BY <1>2, StoreIds DEF Default, Row
<1>4. {[m EXCEPT !.conv = i, !.at = q.at] : m \in q.rows} = new
  OBVIOUS
<1>5. \A m \in q.rows : /\ f[m] \in Message /\ f[m].conv = i /\ f[m].at = q.at
                        /\ f[m].turn = m.turn /\ f[m].role = m.role
  BY <1>2, StoreIds DEF Message
<1>6. f = [m \in q.rows |-> f[m]]
  OBVIOUS
<1> HIDE DEF f
<1>7. IsFiniteSet(new)
  BY <1>2, <1>6, ImageFinite
<1>8. \A m \in q.rows : Sent(m.turn) /\ Awaited(m)
  BY <1>1 DEF StoreInv, RowFacts, QueueFacts, Under
<1>9. \A m \in new : m.conv = i /\ m.at <= store.now /\ Sent(m.turn) /\ Awaited(m)
  BY <1>2, <1>5, <1>8 DEF Awaited
<1>10. TwoRows(new)
  <2>1. \A l, m \in q.rows : l.turn = m.turn /\ l # m => l.role # m.role
    BY <1>1 DEF StoreInv, RowFacts, TwoRows, Under
  <2> QED BY <1>5, <2>1 DEF TwoRows
<1>11. new \subseteq Message
  BY <1>5
<1>12. store.now \in Nat /\ store.now <= store.now
  BY DEF StoreInv, StoreShape
<1>13. store' = [conv |-> With(store.conv, i, row), rows |-> store.rows \cup new,
                 queue |-> store.queue, cache |-> store.cache, now |-> store.now]
  BY <1>1, <1>4
<1>14. Fits(i, [op |-> "done"], Born', store.now)
  BY DEF Fits, StoreOp
<1> HIDE DEF new, row
<1>15. \E q2 : Goes(i, q2) /\ q2.op \in {"done", "invalidate"} /\ Fits(i, q2, Born', store.now)
  BY <1>1, <1>14
<1> QED BY <1>1, <1>3, <1>7, <1>9, <1>10, <1>11, <1>12, <1>13, <1>15, GrowKeeps

-----------------------------------------------------------------------------
(* A reader.                                                                *)
LEMMA SmallPage ==
  ASSUME NEW rows, IsFiniteSet(rows), NEW p \in SUBSET rows,
         Cardinality(p) = Min({PageSize, Cardinality(rows)}), Cardinality(p) < PageSize
  PROVE  p = rows
<1>1. Cardinality(rows) \in Nat /\ PageSize \in Nat
  BY FS_CardinalityType, StoreConstants
<1>2. Cardinality(p) = Cardinality(rows)
  BY <1>1 DEF Min
<1> QED BY <1>2, FS_Subset

LEMMA StoreSame ==
  ASSUME StoreInv, store' = store, sreq' = sreq, shist' = shist
  PROVE  /\ Born' = Born /\ Conv' = Conv
         /\ StoreShape' /\ RequestShape' /\ RowFacts' /\ QueueFacts' /\ RenameFacts'
<1>1. Born' = Born /\ Conv' = Conv
  BY DEF Born, Conv
<1>2. StoreShape' /\ RequestShape'
  BY <1>1 DEF StoreInv, StoreShape, RequestShape
<1>3. \A j \in StoreRequest : sreq'[j] = sreq[j]
  OBVIOUS
<1>4. RowFacts'
  BY <1>1 DEF StoreInv, RowFacts, Sent, Under
<1>5. QueueFacts'
  BY <1>1 DEF StoreInv, QueueFacts, Awaited, Under
<1>6. RenameFacts'
  BY <1>1 DEF StoreInv, RenameFacts, RenameKept, Under
<1> QED BY <1>1, <1>2, <1>4, <1>5, <1>6

LEMMA ReadKeeps ==
  ASSUME StoreInv, OpenConversation \/ OpenShared \/ ScrollUp
  PROVE  StoreInv'
<1>1. store' = store /\ sreq' = sreq /\ shist' = shist
  BY DEF OpenConversation, OpenShared, ScrollUp, Shows
<1>2. StoreShape' /\ RequestShape' /\ RowFacts' /\ QueueFacts' /\ RenameFacts'
  BY <1>1, StoreSame
<1>3. Born' = Born /\ Conv' = Conv
  BY <1>1, StoreSame
<1>4. Conv \subseteq Born /\ store.rows \subseteq Message /\ IsFiniteSet(store.rows)
  BY DEF StoreInv, StoreShape
<1>5. PageFacts'
  <2>1. CASE OpenConversation
    <3>1. PICK c \in Conv, p \in SUBSET store.rows : p \in Latest(RowsOf(c)) /\ Shows(c, p, FALSE)
      BY <2>1 DEF OpenConversation, Latest, RowsOf
    <3>2. p \subseteq RowsOf(c) /\ \A m \in RowsOf(c) \ p, l \in p : m.at <= l.at
      <4>1. p \subseteq RowsOf(c) /\ \A m \in p, l \in RowsOf(c) \ p : ~(m.at < l.at)
        BY <3>1 DEF Latest, Older
      <4>2. \A m \in RowsOf(c) : m.at \in Nat
        BY MessageFields DEF RowsOf
      <4> QED BY <4>1, <4>2
    <3>3. page' = [conv |-> c, shown |-> p, seen |-> RowsOf(c), end |-> FALSE]
      BY <3>1 DEF Shows
    <3>4. \A m \in RowsOf(c) : m.conv = c /\ m \in store.rows
      BY DEF RowsOf
    <3>5. page'.conv = c /\ page'.shown = p /\ page'.seen = RowsOf(c) /\ page'.end = FALSE
      BY <3>3
    <3> QED BY <1>1, <1>3, <1>4, <3>2, <3>3, <3>4, <3>5 DEF PageFacts, RowsOf
  <2>2. CASE OpenShared
    <3>1. PICK c \in Conv : Shows(c, RowsOf(c), TRUE)
      BY <2>2 DEF OpenShared
    <3>2. page' = [conv |-> c, shown |-> RowsOf(c), seen |-> RowsOf(c), end |-> TRUE]
      BY <3>1 DEF Shows
    <3>3. \A m \in RowsOf(c) : m.conv = c /\ m \in store.rows
      BY DEF RowsOf
    <3>4. page'.conv = c /\ page'.shown = RowsOf(c) /\ page'.seen = RowsOf(c)
      BY <3>2
    <3> QED BY <1>1, <1>3, <1>4, <3>2, <3>3, <3>4 DEF PageFacts, RowsOf
  <2>3. CASE ScrollUp
    <3>1. PICK cursor \in page.shown :
            /\ ~page.end /\ page.conv \in Conv /\ \A m \in page.shown : ~Older(m, cursor)
            /\ \E p \in Latest({m \in RowsOf(page.conv) : m.at < cursor.at}) :
                 page' = [page EXCEPT !.shown = @ \cup p, !.end = Cardinality(p) < PageSize]
      BY <2>3 DEF ScrollUp
    <3> DEFINE above == {m \in RowsOf(page.conv) : m.at < cursor.at}
    <3>2. PICK p \in Latest(above) :
            page' = [page EXCEPT !.shown = @ \cup p, !.end = Cardinality(p) < PageSize]
      BY <3>1
    <3>3. /\ page = [conv |-> page.conv, shown |-> page.shown, seen |-> page.seen, end |-> page.end]
          /\ page.conv \in Born /\ page.shown \subseteq Message /\ page.seen \subseteq Message
          /\ page.seen \subseteq RowsOf(page.conv) /\ \A m \in page.seen : m.conv = page.conv
      BY <3>1 DEF StoreInv, PageFacts
    <3>4. page' = [conv |-> page.conv, shown |-> page.shown \cup p, seen |-> page.seen,
                   end |-> Cardinality(p) < PageSize]
      BY <3>2, <3>3
    <3>5. /\ page'.conv = page.conv /\ page'.shown = page.shown \cup p /\ page'.seen = page.seen
          /\ page'.end = (Cardinality(p) < PageSize)
      BY <3>4
    <3>6. /\ p \subseteq above /\ Cardinality(p) = Min({PageSize, Cardinality(above)})
          /\ \A m \in p, l \in above \ p : ~Older(m, l)
      BY <3>2 DEF Latest
    <3>7. above \subseteq store.rows /\ IsFiniteSet(above)
      BY <1>4, FS_Subset DEF RowsOf
    <3>8. page'.end => p = above
      BY <3>5, <3>6, <3>7, SmallPage
    <3>9. \A l \in page.shown : l.at \in Nat /\ cursor.at \in Nat /\ cursor.at <= l.at
      BY <3>1, <3>3, MessageFields DEF Older
    <3>10. \A l \in above \ p, m \in p : l.at \in Nat /\ m.at \in Nat /\ l.at <= m.at
      BY <1>4, <3>6, <3>7, MessageFields DEF Older
    <3>11. ASSUME NEW m \in (page.seen \cap store.rows) \ (page.shown \cup p)
           PROVE  \/ \E l \in page.shown \cup p : l.at = m.at
                  \/ ~page'.end /\ \A l \in page.shown \cup p : m.at <= l.at
      <4>1. m.at \in Nat /\ m \in RowsOf(page.conv)
        BY <3>3, <3>11, MessageFields
      <4>2. \/ \E l \in page.shown : l.at = m.at
            \/ \A l \in page.shown : m.at <= l.at
        BY <3>11 DEF StoreInv, PageFacts
      <4>3. CASE \A l \in page.shown : m.at <= l.at
        <5>1. m.at = cursor.at \/ m \in above \ p
          BY <3>9, <3>11, <4>1, <4>3
        <5> HIDE DEF above
        <5>2. CASE m \in above \ p
          BY <3>8, <3>10, <4>3, <5>2
        <5> QED BY <5>1, <5>2
      <4> QED BY <4>2, <4>3
    <3>12. p \subseteq Message
      BY <1>4, <3>6, <3>7
    <3> HIDE DEF above
    <3> QED BY <1>1, <1>3, <3>3, <3>4, <3>5, <3>11, <3>12 DEF PageFacts, RowsOf
  <2> QED BY <2>1, <2>2, <2>3
<1> QED BY <1>2, <1>5 DEF StoreInv

-----------------------------------------------------------------------------
LEMMA StoreStep == StoreInv /\ [StoreNext]_storeVars => StoreInv'
<1> SUFFICES ASSUME StoreInv, [StoreNext]_storeVars PROVE StoreInv'
  OBVIOUS
<1>1. ASSUME NEW i \in StoreRequest, StoreBegins(i) PROVE StoreInv'
  BY <1>1, StoreBeginsKeep
<1>2. ASSUME NEW i \in StoreRequest, SendUserOnly(i) \/ SendMessage(i) \/ SendRoundtable(i)
      PROVE  StoreInv'
  <2>1. CASE SendUserOnly(i)
    <3>1. Posts(i, "user_only", {"user"}, sreq[i].row.title = 0)
      BY <2>1 DEF SendUserOnly
    <3> QED BY <3>1, PostKeeps
  <2>2. CASE SendMessage(i)
    <3>1. Posts(i, "agent", {"user", "agent"}, sreq[i].row.title = 0)
      BY <2>2 DEF SendMessage
    <3> QED BY <3>1, PostKeeps
  <2>3. CASE SendRoundtable(i)
    <3>1. Posts(i, "roundtable", {"user", "roundtable"}, sreq[i].row.title = 0)
      BY <2>3 DEF SendRoundtable
    <3> QED BY <3>1, PostKeeps
  <2> QED BY <1>2, <2>1, <2>2, <2>3
<1>3. ASSUME NEW i \in StoreRequest, EnqueueTask(i) \/ EnqueueFails(i) PROVE StoreInv'
  BY <1>3, EnqueueKeeps
<1>4. ASSUME NEW i \in StoreRequest, CreateConversation(i) PROVE StoreInv'
  BY <1>4, CreateKeeps
<1>5. ASSUME NEW i \in StoreRequest, InvalidateCache(i) \/ FillCache(i) \/ StoreRollBack(i) PROVE StoreInv'
  BY <1>5, CacheKeeps
<1>6. ASSUME NEW i \in StoreRequest, DeleteConversation(i) \/ BulkDelete(i) PROVE StoreInv'
  BY <1>6, DeleteKeeps
<1>7. ASSUME NEW i \in StoreRequest, UpdateColumn(i) PROVE StoreInv'
  BY <1>7, UpdateColumnKeeps
<1>8. ASSUME NEW i \in StoreRequest, ForkConversation(i) PROVE StoreInv'
  BY <1>8, ForkKeeps
<1>9. CASE RunnerBinds \/ RunnerTitles \/ CacheExpires
  BY <1>9, BindKeeps
<1>10. CASE OpenConversation \/ OpenShared \/ ScrollUp
  BY <1>10, ReadKeeps
<1>11. CASE UNCHANGED storeVars
  <2>1. store' = store /\ sreq' = sreq /\ page' = page /\ shist' = shist
    BY <1>11 DEF storeVars
  <2>2. PageFacts'
    BY <2>1, StoreSame DEF StoreInv, PageFacts, RowsOf
  <2> QED BY <2>1, <2>2, StoreSame DEF StoreInv
<1> QED
  BY <1>1, <1>2, <1>3, <1>4, <1>5, <1>6, <1>7, <1>8, <1>9, <1>10, <1>11 DEF StoreNext,
     StoreBegins

LEMMA StoreInvariant == StoreSpec => []StoreInv
BY StoreInitially, StoreStep, PTL DEF StoreSpec

(* Rows, conversations and queued tasks match, however requests interleave   *)
(* (conversation_service.py): a message has its conversation, a turn at most *)
(* two rows in it, a queued task its committed rows, an agent row its task.  *)
THEOREM StoreConsistentHolds == StoreSpec => []StoreConsistent
<1>1. StoreInv => StoreConsistent
  <2> SUFFICES ASSUME StoreInv PROVE StoreConsistent
    OBVIOUS
  <2>1. StoreTypeOK
    BY DEF StoreInv, StoreShape, RowFacts, TwoRows, StoreTypeOK, ConvId
  <2>2. QueuedHasRows
    BY DEF StoreInv, QueueFacts, QueuedHasRows, Awaited, RowsOf
  <2>3. OneDirective
    BY DEF StoreInv, QueueFacts, OneDirective
  <2> QED BY <2>1, <2>2, <2>3 DEF StoreConsistent
<1> QED BY <1>1, StoreInvariant, PTL

(* A name the user gave a conversation survives every send that had not read *)
(* it before (conversation_service.py, send_message), until the agent sends a *)
(* name of its own (runner.py, _update_conv_title).                          *)
THEOREM RenameKeptHolds == StoreSpec => []RenameKept
<1>1. StoreInv => RenameKept
  BY DEF StoreInv, RenameFacts
<1> QED BY <1>1, StoreInvariant, PTL

(* Scrolling up by the time of the first message on screen loses only        *)
(* messages of the same moment (conversations.py, get_messages).             *)
THEOREM PagesLoseOnlyTiesHolds == StoreSpec => []PagesLoseOnlyTies
<1>1. StoreInv => PagesLoseOnlyTies
  BY DEF StoreInv, PageFacts, PagesLoseOnlyTies
<1> QED BY <1>1, StoreInvariant, PTL

(* The list goes stale only where a change is about to announce itself, or   *)
(* announces nothing, or filled the cache late.                              *)
LEMMA ListStays ==
  ASSUME StoreInv, ListStaleForAReason, store'.cache = store.cache, Conv' = Conv,
         shist'.unannounced = shist.unannounced,
         \A j \in StoreRequest : sreq[j].op = "invalidate" => sreq'[j].op = "invalidate"
  PROVE  ListStaleForAReason'
BY DEF ListStaleForAReason, Under

LEMMA ListSent ==
  ASSUME StoreInv, NEW i \in StoreRequest, NEW kind, NEW roles, NEW titles,
         Posts(i, kind, roles, titles)
  PROVE  /\ store'.cache = store.cache /\ Conv' = Conv /\ shist' = shist
         /\ \A j \in StoreRequest : sreq[j].op = "invalidate" => sreq'[j].op = "invalidate"
<1>1. /\ sreq[i].op = "send" /\ shist' = shist
      /\ \E q : Goes(i, q)
      /\ store' = [store EXCEPT
           !.rows = @ \cup {[conv |-> sreq[i].conv, role |-> r, at |-> sreq[i].at, turn |-> i] : r \in roles},
           !.conv[sreq[i].conv].title = IF titles THEN i ELSE @]
  BY DEF Posts, Under
<1>2. \A j \in StoreRequest \ {i} : sreq'[j] = sreq[j]
  BY <1>1, RequestGoes DEF StoreInv
<1>3. store'.cache = store.cache /\ DOMAIN store'.conv = DOMAIN store.conv
  BY <1>1 DEF StoreInv, StoreShape
<1> QED BY <1>1, <1>2, <1>3 DEF Conv

LEMMA ListStep == StoreInv /\ ListStaleForAReason /\ [StoreNext]_storeVars => ListStaleForAReason'
<1> SUFFICES ASSUME StoreInv, ListStaleForAReason, [StoreNext]_storeVars PROVE ListStaleForAReason'
  OBVIOUS
<1> DEFINE Record == store = [conv |-> store.conv, rows |-> store.rows, queue |-> store.queue,
                              cache |-> store.cache, now |-> store.now]
<1>1. Record
  BY DEF StoreInv, StoreShape
<1>2. ASSUME NEW i \in StoreRequest, StoreBegins(i) PROVE ListStaleForAReason'
  <2>1. PICK q, at : LoadsAt(i, q, at)
    BY <1>2, StoreBegun
  <2>2. /\ sreq[i].op = "fresh" /\ Goes(i, q) /\ shist' = shist
        /\ store' = [store EXCEPT !.now = at]
    BY <2>1 DEF LoadsAt, Goes
  <2>3. \A j \in StoreRequest \ {i} : sreq'[j] = sreq[j]
    BY <2>2, RequestGoes DEF StoreInv
  <2>4. store'.cache = store.cache /\ store'.conv = store.conv
    BY <1>1, <2>2
  <2> QED BY <2>2, <2>3, <2>4, ListStays DEF Conv
<1>3. ASSUME NEW i \in StoreRequest, SendUserOnly(i) \/ SendMessage(i) \/ SendRoundtable(i)
      PROVE  ListStaleForAReason'
  <2>1. PICK kind, roles, titles : Posts(i, kind, roles, titles)
    BY <1>3 DEF SendUserOnly, SendMessage, SendRoundtable
  <2> QED BY <2>1, ListSent, ListStays
<1>4. ASSUME NEW i \in StoreRequest, EnqueueTask(i) \/ EnqueueFails(i) \/ StoreRollBack(i)
      PROVE  ListStaleForAReason'
  <2>1. /\ sreq[i].op # "invalidate" /\ Goes(i, [op |-> "done"])
        /\ \/ shist' = shist /\ \E t : store' = [store EXCEPT !.queue = @ \cup {t}]
           \/ shist' = [shist EXCEPT !.lost = @ \cup {i}] /\ store' = store
           \/ shist' = shist /\ store' = store
    BY <1>4 DEF EnqueueTask, EnqueueFails, StoreRollBack, Queues, Enqueues, Under, Ends, Goes
  <2>2. \A j \in StoreRequest \ {i} : sreq'[j] = sreq[j]
    BY <2>1, RequestGoes DEF StoreInv
  <2>3. store'.cache = store.cache /\ store'.conv = store.conv
    BY <1>1, <2>1
  <2>4. shist'.unannounced = shist.unannounced
    BY <2>1 DEF StoreInv, StoreShape
  <2> QED BY <2>1, <2>2, <2>3, <2>4, ListStays DEF Conv
<1>5. ASSUME NEW i \in StoreRequest, UpdateColumn(i) PROVE ListStaleForAReason'
  <2>1. /\ sreq[i].op = "column" /\ Goes(i, [op |-> "done"])
        /\ store' = [store EXCEPT !.conv[sreq[i].conv][sreq[i].field] = sreq[i].value]
    BY <1>5 DEF UpdateColumn, Under, Ends, Goes
  <2>2. \A j \in StoreRequest \ {i} : sreq'[j] = sreq[j]
    BY <2>1, RequestGoes DEF StoreInv
  <2>3. store'.cache = store.cache /\ DOMAIN store'.conv = DOMAIN store.conv
    BY <1>1, <2>1
  <2>4. shist'.unannounced = shist.unannounced
    BY <1>5 DEF UpdateColumn, StoreInv, StoreShape
  <2> QED BY <2>1, <2>2, <2>3, <2>4, ListStays DEF Conv
<1>6. ASSUME NEW i \in StoreRequest, CreateConversation(i) \/ DeleteConversation(i)
      PROVE  ListStaleForAReason'
  <2>1. PICK next : Goes(i, [op |-> "invalidate", next |-> next])
    BY <1>6 DEF CreateConversation, CreatesThen, InvalidateThen, DeleteConversation
  <2>2. sreq'[i] = [op |-> "invalidate", next |-> next]
    BY <2>1, RequestGoes DEF StoreInv
  <2> QED BY <2>2 DEF ListStaleForAReason, Under
<1>7. ASSUME NEW i \in StoreRequest, BulkDelete(i) \/ ForkConversation(i) PROVE ListStaleForAReason'
  <2>1. store'.cache = store.cache
    BY <1>1, <1>7 DEF BulkDelete, ForkConversation, Deletes
  <2>2. shist' = [shist EXCEPT !.unannounced = @ \/ store.cache # NotCached]
    BY <1>7 DEF BulkDelete, ForkConversation, Unannounced
  <2>3. shist'.unannounced = (shist.unannounced \/ store.cache # NotCached)
    BY <2>2 DEF StoreInv, StoreShape
  <2> QED BY <2>1, <2>3, Zenon DEF ListStaleForAReason
<1>8. ASSUME NEW i \in StoreRequest, InvalidateCache(i) PROVE ListStaleForAReason'
  <2>1. store'.cache = NotCached
    BY <1>1, <1>8 DEF InvalidateCache
  <2> QED BY <2>1 DEF ListStaleForAReason
<1>9. ASSUME NEW i \in StoreRequest, FillCache(i) PROVE ListStaleForAReason'
  <2>1. sreq[i].op = "fill" /\ Goes(i, [op |-> "done"])
    BY <1>9 DEF FillCache, Under, Ends, Goes
  <2>2. \A j \in StoreRequest : sreq[j].op = "invalidate" => sreq'[j].op = "invalidate"
    BY <2>1, RequestGoes DEF StoreInv
  <2>3. store'.conv = store.conv
    BY <1>1, <1>9 DEF FillCache
  <2>4. CASE sreq[i].ids = {}
    <3>1. store'.cache = store.cache
      BY <1>1, <1>9, <2>4 DEF FillCache
    <3>2. shist'.unannounced = shist.unannounced
      BY <1>9, <2>4 DEF FillCache, StoreInv, StoreShape
    <3> QED BY <2>2, <2>3, <3>1, <3>2, ListStays DEF Conv
  <2>5. CASE sreq[i].ids # {}
    <3>1. store'.cache = sreq[i].ids
      BY <1>1, <1>9, <2>5 DEF FillCache
    <3>2. shist'.unannounced = (sreq[i].ids # Conv)
      BY <1>9, <2>5 DEF FillCache, StoreInv, StoreShape
    <3>3. Conv' = Conv
      BY <2>3 DEF Conv
    <3> QED BY <3>1, <3>2, <3>3, Zenon DEF ListStaleForAReason
  <2> QED BY <2>4, <2>5
<1>10. CASE CacheExpires
  <2>1. store'.cache = NotCached
    BY <1>1, <1>10 DEF CacheExpires
  <2> QED BY <2>1 DEF ListStaleForAReason
<1>11. CASE RunnerBinds \/ RunnerTitles
  <2>1. PICK c : \/ store' = [store EXCEPT !.conv[c].session = TRUE]
                 \/ store' = [store EXCEPT !.conv[c].title = AgentTitle]
    BY <1>11 DEF RunnerBinds, RunnerTitles
  <2>2. store'.cache = store.cache /\ DOMAIN store'.conv = DOMAIN store.conv
    BY <1>1, <2>1
  <2>3. sreq' = sreq /\ shist' = shist
    BY <1>11 DEF RunnerBinds, RunnerTitles
  <2> QED BY <2>2, <2>3, ListStays DEF Conv
<1>12. CASE OpenConversation \/ OpenShared \/ ScrollUp
  <2>1. store' = store /\ sreq' = sreq /\ shist' = shist
    BY <1>12 DEF OpenConversation, OpenShared, ScrollUp, Shows
  <2> QED BY <2>1, ListStays DEF Conv
<1>13. CASE UNCHANGED storeVars
  BY <1>13, ListStays DEF storeVars, Conv
<1> QED
  BY <1>2, <1>3, <1>4, <1>5, <1>6, <1>7, <1>8, <1>9, <1>10, <1>11, <1>12, <1>13
     DEF StoreNext, StoreBegins

(* The cached list differs from the user's conversations only while a change *)
(* is being announced, after one that announces none, or when a list that    *)
(* had read before a change stored it late (cache_service.py).               *)
THEOREM ListStaleHolds == StoreSpec => []ListStaleForAReason
<1>1. StoreInit => ListStaleForAReason
  BY DEF StoreInit, ListStaleForAReason
<1> QED BY <1>1, StoreInvariant, ListStep, PTL DEF StoreSpec
-----------------------------------------------------------------------------
(* A group: its members, the agents it lists, its messages.                  *)

GroupShape ==
  /\ group = [phase |-> group.phase, member |-> group.member, active |-> group.active,
              primary |-> group.primary, mode |-> group.mode, msgs |-> group.msgs,
              queue |-> group.queue]
  /\ group.phase \in {"none", "alive", "deleted"} /\ group.active \subseteq Agent
  /\ \A r \in group.msgs : r.role = "user" => r = UserRow(r.turn, 1)
  /\ ghist = [overlap |-> ghist.overlap, failed |-> ghist.failed, listed |-> ghist.listed]

(* What a handler of group g has loaded.                                     *)
Loads(q, g) ==
  /\ q.op \in {"fresh", "done", "create", "add", "remove", "agents", "post", "single", "enqueue"}
  /\ q.op = "create" => /\ g.phase = "none" /\ q.people \subseteq Guest /\ q.agents \subseteq Agent
                        /\ q.mode \in Mode /\ q.primary \in Agent
  /\ q.op \notin {"fresh", "done", "create"} => g.phase # "none"
  /\ q.op = "add" => q.who \in Guest \cup Agent /\ q.active \subseteq Agent
  /\ q.op = "remove" => \A r \in q.gone : r.who \in People
  /\ q.op = "agents" => q.agents \subseteq Agent /\ q.primary \in Agent
  /\ q.op = "post" => q = [op |-> "post", agents |-> q.agents, primary |-> q.primary]

GroupRequests ==
  /\ greq = [i \in GroupRequest |-> greq[i]]
  /\ \A i \in GroupRequest : Loads(greq[i], group)
  /\ \A i, j \in GroupRequest : At(i, "create") /\ At(j, "create") => i = j

(* Adds that meet know of it; one that is alone has read the current list.   *)
AddsMeet ==
  /\ \A i, j \in GroupRequest : At(i, "add") /\ At(j, "add") /\ i # j => i \in ghist.overlap
  /\ \A i \in GroupRequest : At(i, "add") /\ InGroup /\ greq[i].who \in Joined => i \in ghist.overlap
  /\ \A i \in GroupRequest : At(i, "add") /\ InGroup =>
       greq[i].active = group.active \/ ghist.listed \/ ghist.overlap # {}

GroupInv == GroupShape /\ GroupRequests /\ AddsMeet /\ GroupConsistent

LEMMA GroupInitially == GroupInit => GroupInv
<1> SUFFICES ASSUME GroupInit PROVE GroupInv
  OBVIOUS
<1>1. /\ group.phase = "none" /\ group.member = {} /\ group.active = {} /\ group.msgs = {}
      /\ group.primary = DefaultAgent /\ group.mode = "mention"
      /\ ghist.overlap = {} /\ ghist.failed = {}
      /\ \A i \in GroupRequest : greq[i].op = "fresh"
  BY DEF GroupInit
<1>2. GroupShape /\ GroupRequests /\ AddsMeet
  BY <1>1 DEF GroupInit, GroupShape, GroupRequests, Loads, AddsMeet, At
<1>3. Joined = {} /\ ~InGroup
  BY <1>1 DEF Joined, InGroup
<1>4. GroupConsistent
  BY <1>1, <1>3, GroupConstants DEF GroupConsistent, GroupTypeOK, OneUserRow,
     AddFailsForAReason,
                                    ActiveAreMembers, Mode
<1> QED BY <1>2, <1>4 DEF GroupInv

LEMMA GroupGoes ==
  ASSUME GroupInv, NEW i \in GroupRequest, NEW q, greq' = [greq EXCEPT ![i] = q]
  PROVE  /\ greq' = [j \in GroupRequest |-> greq'[j]] /\ greq'[i] = q
         /\ \A j \in GroupRequest \ {i} : greq'[j] = greq[j]
BY DEF GroupInv, GroupRequests

(* A handler that has loaded an agents' list, a member or a message, or ends *)
LEMMA GroupRequestsKept ==
  ASSUME GroupInv, NEW i \in GroupRequest, NEW q, greq' = [greq EXCEPT ![i] = q],
         Loads(q, group'), group'.phase = "none" => group.phase = "none",
         group.phase = "none" => group'.phase = "none" \/ greq[i].op = "create",
         q.op = "create" => \A j \in GroupRequest \ {i} : ~At(j, "create")
  PROVE  GroupRequests'
<1>1. /\ greq' = [j \in GroupRequest |-> greq'[j]] /\ greq'[i] = q
      /\ \A j \in GroupRequest \ {i} : greq'[j] = greq[j]
  BY GroupGoes
<1>2. ASSUME NEW j \in GroupRequest \ {i} PROVE Loads(greq'[j], group')
  <2>1. Loads(greq[j], group) /\ greq'[j] = greq[j]
    BY <1>1 DEF GroupInv, GroupRequests
  <2>2. greq[j].op = "create" => greq[i].op # "create" /\ group.phase = "none"
    BY <2>1 DEF GroupInv, GroupRequests, At, Loads
  <2>3. greq[j].op = "create" => group'.phase = "none"
    BY <2>2
  <2> QED BY <2>1, <2>3 DEF Loads
<1>3. \A j, k \in GroupRequest : At(j, "create")' /\ At(k, "create")' => j = k
  BY <1>1 DEF At, GroupInv, GroupRequests
<1> QED BY <1>1, <1>2, <1>3 DEF GroupRequests

(* Nothing but the requests moves. *)
LEMMA GroupBegins ==
  ASSUME GroupInv, NEW i \in GroupRequest, NEW q, Starts(i, q), group' = group, ghist' = ghist,
         Loads(q, group), q.op # "add",
         q.op = "create" => \A j \in GroupRequest : ~At(j, "create")
  PROVE  GroupInv'
<1>1. greq[i].op = "fresh" /\ greq' = [greq EXCEPT ![i] = q]
  BY DEF Starts
<1>2. /\ greq' = [j \in GroupRequest |-> greq'[j]] /\ greq'[i] = q
      /\ \A j \in GroupRequest \ {i} : greq'[j] = greq[j]
  BY <1>1, GroupGoes
<1>3. GroupRequests'
  BY <1>1, GroupRequestsKept
<1>4. \A j \in GroupRequest : At(j, "add")' => At(j, "add") /\ greq'[j] = greq[j]
  BY <1>2 DEF At
<1>5. Joined' = Joined /\ InGroup' = InGroup /\ AgentsIn' = AgentsIn
  BY DEF Joined, InGroup, AgentsIn
<1>6. AddsMeet'
  BY <1>4, <1>5 DEF GroupInv, AddsMeet
<1>7. GroupShape' /\ GroupConsistent'
  BY <1>5 DEF GroupInv, GroupShape, GroupConsistent, GroupTypeOK, OneUserRow,
     AddFailsForAReason,
              ActiveAreMembers
<1> QED BY <1>3, <1>6, <1>7 DEF GroupInv

LEMMA OthersBegin ==
  ASSUME GroupInv, NEW i \in GroupRequest,
         BeginCreateGroup(i) \/ BeginRemovePerson(i) \/ BeginSetGroupAgents(i) \/ BeginDispatchGroup(i)
  PROVE  GroupInv'
<1>0. group.primary \in Agent
  BY DEF GroupInv, GroupConsistent, GroupTypeOK
<1>1. CASE BeginCreateGroup(i)
  <2>1. PICK people \in {{}, Guest}, agents \in {TeamAgents, {DefaultAgent}}, m \in Mode :
          \E first \in IF agents = {} THEN {DefaultAgent} ELSE agents :
            Starts(i, [op |-> "create", people |-> people, mode |-> m, primary |-> first,
                       agents |-> IF agents = {} THEN {DefaultAgent} ELSE agents])
    BY <1>1 DEF BeginCreateGroup
  <2> DEFINE as == IF agents = {} THEN {DefaultAgent} ELSE agents
  <2>2. PICK first \in as :
          Starts(i, [op |-> "create", people |-> people, mode |-> m, primary |-> first, agents |-> as])
    BY <2>1
  <2>3. as \subseteq Agent
    BY GroupConstants
  <2> HIDE DEF as
  <2>4. group.phase = "none" /\ \A j \in GroupRequest : ~At(j, "create")
    BY <1>1 DEF BeginCreateGroup
  <2> DEFINE q == [op |-> "create", people |-> people, mode |-> m, primary |-> first, agents |-> as]
  <2>5. Loads(q, group) /\ q.op = "create"
    BY <2>3, <2>4 DEF Loads
  <2>6. group' = group /\ ghist' = ghist
    BY <1>1 DEF BeginCreateGroup
  <2> HIDE DEF q
  <2> QED BY <2>2, <2>4, <2>5, <2>6, GroupBegins DEF q
<1>2. CASE BeginRemovePerson(i)
  <2>1. PICK x \in People : Starts(i, [op |-> "remove", gone |-> {r \in group.member : r.who = x}])
    BY <1>2 DEF BeginRemovePerson
  <2> DEFINE q == [op |-> "remove", gone |-> {r \in group.member : r.who = x}]
  <2>2. Loads(q, group) /\ q.op = "remove"
    BY <1>2 DEF Loads, BeginRemovePerson, InGroup
  <2>3. group' = group /\ ghist' = ghist
    BY <1>2 DEF BeginRemovePerson
  <2>4. Starts(i, q)
    BY <2>1
  <2> HIDE DEF q
  <2> QED BY <2>2, <2>3, <2>4, GroupBegins
<1>3. CASE BeginSetGroupAgents(i)
  <2>1. PICK as \in SUBSET Agent \ {{}} : \E first \in as :
          Starts(i, [op |-> "agents", agents |-> as, primary |-> first])
    BY <1>3 DEF BeginSetGroupAgents
  <2>2. PICK first \in as : Starts(i, [op |-> "agents", agents |-> as, primary |-> first])
    BY <2>1
  <2> DEFINE q == [op |-> "agents", agents |-> as, primary |-> first]
  <2>3. Loads(q, group) /\ q.op = "agents"
    BY <1>3 DEF Loads, BeginSetGroupAgents, InGroup
  <2>4. group' = group /\ ghist' = ghist
    BY <1>3 DEF BeginSetGroupAgents
  <2>5. Starts(i, q)
    BY <2>2
  <2> HIDE DEF q
  <2> QED BY <2>3, <2>4, <2>5, GroupBegins
<1>4. CASE BeginDispatchGroup(i)
  <2>1. PICK as : Starts(i, [op |-> "post", agents |-> as, primary |-> group.primary])
    BY <1>4 DEF BeginDispatchGroup
  <2> DEFINE q == [op |-> "post", agents |-> as, primary |-> group.primary]
  <2>2. Loads(q, group) /\ q.op = "post"
    BY <1>4 DEF Loads, BeginDispatchGroup, InGroup
  <2>3. group' = group /\ ghist' = ghist
    BY <1>4 DEF BeginDispatchGroup
  <2>4. Starts(i, q)
    BY <2>1
  <2> HIDE DEF q
  <2> QED BY <2>2, <2>3, <2>4, GroupBegins
<1> QED BY <1>1, <1>2, <1>3, <1>4

(* An add marks itself and the adds it meets. *)
LEMMA AddBegins ==
  ASSUME GroupInv, NEW i \in GroupRequest, BeginAddMember(i)
  PROVE  GroupInv'
<1>1. PICK x \in Guest \cup Agent :
        Starts(i, IF x \in Joined THEN Done ELSE [op |-> "add", who |-> x, active |-> group.active])
  BY DEF BeginAddMember
<1> DEFINE q == IF x \in Joined THEN Done ELSE [op |-> "add", who |-> x, active |-> group.active]
<1>2. greq[i].op = "fresh" /\ greq' = [greq EXCEPT ![i] = q] /\ group' = group /\ InGroup
  BY <1>1 DEF Starts, BeginAddMember
<1>3. /\ q.op \in {"add", "done"} /\ (q.op = "done" => q = Done)
      /\ q.op = "add" => q # Done /\ q.who = x /\ x \notin Joined /\ q.active = group.active
  BY DEF Done
<1> HIDE DEF q
<1>4. /\ greq' = [j \in GroupRequest |-> greq'[j]] /\ greq'[i] = q
      /\ \A j \in GroupRequest \ {i} : greq'[j] = greq[j]
  BY <1>2, GroupGoes
<1>5. group.active \subseteq Agent /\ group.phase # "none"
  BY <1>2 DEF GroupInv, GroupShape, InGroup
<1>6. Loads(q, group)
  BY <1>3, <1>5 DEF Loads
<1>7. GroupRequests'
  BY <1>2, <1>3, <1>6, GroupRequestsKept
<1>8. /\ ghist' = [overlap |-> ghist'.overlap, failed |-> ghist.failed, listed |-> ghist.listed]
      /\ ghist'.overlap =
           IF greq'[i] # Done /\ \E j \in GroupRequest \ {i} : At(j, "add") \/ At(j, "agents")
             THEN ghist.overlap \cup {i} \cup {j \in GroupRequest : At(j, "add")} ELSE ghist.overlap
  BY DEF BeginAddMember, GroupInv, GroupShape
<1>9. ghist.overlap \subseteq ghist'.overlap /\ ghist'.failed = ghist.failed
      /\ ghist'.listed = ghist.listed
  BY <1>8
<1>10. Joined' = Joined /\ InGroup' = InGroup /\ AgentsIn' = AgentsIn
  BY <1>2 DEF Joined, InGroup, AgentsIn
<1>11. AddsMeet'
  <2>1. ASSUME NEW j \in GroupRequest \ {i}, At(j, "add")', At(i, "add")'
        PROVE  i \in ghist'.overlap /\ j \in ghist'.overlap
    <3>1. At(j, "add") /\ greq'[i] # Done
      BY <1>3, <1>4, <2>1 DEF At
    <3> QED BY <1>8, <3>1
  <2>2. ASSUME NEW j \in GroupRequest, NEW k \in GroupRequest, At(j, "add")', At(k, "add")', j # k
        PROVE  j \in ghist'.overlap
    BY <1>4, <1>9, <2>1, <2>2 DEF At, GroupInv, AddsMeet
  <2>3. ASSUME NEW j \in GroupRequest, At(j, "add")', greq'[j].who \in Joined PROVE j \in ghist'.overlap
    BY <1>2, <1>3, <1>4, <1>9, <2>3 DEF At, GroupInv, AddsMeet
  <2>4. ASSUME NEW j \in GroupRequest, At(j, "add")'
        PROVE  greq'[j].active = group.active \/ ghist.listed \/ ghist'.overlap # {}
    BY <1>2, <1>3, <1>4, <1>9, <2>4 DEF At, GroupInv, AddsMeet
  <2> QED BY <1>2, <1>9, <1>10, <2>2, <2>3, <2>4 DEF AddsMeet
<1>12. GroupShape'
  BY <1>2, <1>8 DEF GroupInv, GroupShape
<1>13. GroupConsistent'
  BY <1>2, <1>9, <1>10 DEF GroupInv, GroupConsistent, GroupTypeOK, OneUserRow,
     AddFailsForAReason,
                           ActiveAreMembers
<1> QED BY <1>7, <1>11, <1>12, <1>13 DEF GroupInv

-----------------------------------------------------------------------------
(* A step that ends an add, or none, and leaves members and lists alone.     *)
LEMMA GroupStays ==
  ASSUME GroupInv, GroupShape', GroupRequests',
         group'.phase = group.phase, group'.member = group.member, group'.active = group.active,
         group'.primary = group.primary, group'.mode = group.mode, ghist' = ghist, OneUserRow',
         group'.phase # "alive" => group'.msgs = {},
         \A j \in GroupRequest : At(j, "add")' => greq'[j] = greq[j]
  PROVE  GroupInv'
<1>1. Joined' = Joined /\ InGroup' = InGroup /\ AgentsIn' = AgentsIn
  BY DEF Joined, InGroup, AgentsIn
<1>2. AddsMeet'
  BY <1>1 DEF GroupInv, AddsMeet, At
<1>3. GroupConsistent'
  BY <1>1 DEF GroupInv, GroupConsistent, GroupTypeOK, AddFailsForAReason, ActiveAreMembers,
     InGroup
<1> QED BY <1>2, <1>3 DEF GroupInv

(* One row for each of them. *)
LEMMA AddedMembers ==
  ASSUME NEW who
  PROVE  /\ {r.who : r \in Adding(who)} = who
         /\ \A r, s \in Adding(who) : r.who = s.who => r = s
<1> DEFINE Of(x) == [who |-> x, by |-> 0]
<1>1. Adding(who) = {Of(x) : x \in who} /\ \A x : Of(x).who = x
  BY DEF Adding
<1> HIDE DEF Of
<1>2. \A y : y \in {r.who : r \in Adding(who)} <=> y \in who
  BY <1>1
<1>3. \A r, s \in Adding(who) : r.who = s.who => r = s
  BY <1>1
<1> QED BY <1>2, <1>3

LEMMA CreateGroupKeeps ==
  ASSUME GroupInv, NEW i \in GroupRequest, CreateGroup(i)
  PROVE  GroupInv'
<1> DEFINE q   == greq[i]
           new == Adding({Owner} \cup q.people \cup q.agents)
<1>1. /\ q.op = "create" /\ greq' = [greq EXCEPT ![i] = Done] /\ ghist' = ghist
      /\ group' = [phase |-> "alive", member |-> new, active |-> q.agents, primary |-> q.primary,
                   mode |-> q.mode, msgs |-> group.msgs, queue |-> group.queue]
  BY DEF CreateGroup, Steps, At, GroupInv, GroupShape
<1>2. /\ group.phase = "none" /\ q.people \subseteq Guest /\ q.agents \subseteq Agent
      /\ q.mode \in Mode /\ q.primary \in Agent
  BY <1>1 DEF GroupInv, GroupRequests, Loads
<1>3. /\ greq' = [j \in GroupRequest |-> greq'[j]] /\ greq'[i] = Done
      /\ \A j \in GroupRequest \ {i} : greq'[j] = greq[j]
  BY <1>1, GroupGoes
<1>4. GroupRequests'
  BY <1>1, <1>2, GroupRequestsKept DEF Loads, Done
<1>5. \A j \in GroupRequest : ~At(j, "add")'
  BY <1>2, <1>3 DEF GroupInv, GroupRequests, Loads, At, Done
<1>6. AddsMeet'
  BY <1>5 DEF AddsMeet
<1>7. GroupShape'
  BY <1>1, <1>2 DEF GroupInv, GroupShape
<1>8. /\ {r.who : r \in new} = {Owner} \cup q.people \cup q.agents
      /\ \A r, s \in new : r.who = s.who => r = s
  BY AddedMembers
<1> HIDE DEF new
<1>9. Joined' = {Owner} \cup q.people \cup q.agents /\ AgentsIn' = q.agents
  BY <1>1, <1>2, <1>8, GroupConstants DEF Joined, AgentsIn, People
<1>10. GroupTypeOK'
  BY <1>1, <1>2, <1>8, <1>9 DEF GroupTypeOK, InGroup, People
<1>11. OneUserRow' /\ AddFailsForAReason' /\ ActiveAreMembers'
  BY <1>1, <1>9 DEF GroupInv, GroupConsistent, OneUserRow, AddFailsForAReason, ActiveAreMembers
<1> QED BY <1>4, <1>6, <1>7, <1>10, <1>11 DEF GroupInv, GroupConsistent

(* The one place where a list that was read is written back.                 *)
LEMMA AddMemberKeeps ==
  ASSUME GroupInv, NEW i \in GroupRequest, AddMember(i)
  PROVE  GroupInv'
<1> DEFINE q      == greq[i]
           row    == [who |-> q.who, by |-> i]
           active == IF q.who \in Agent \ q.active THEN q.active \cup {q.who} ELSE group.active
<1>1. /\ q.op = "add" /\ InGroup /\ q.who \notin Joined /\ greq' = [greq EXCEPT ![i] = Done]
      /\ ghist' = ghist
      /\ group' = [phase |-> group.phase, member |-> group.member \cup {row}, active |-> active,
                   primary |-> group.primary, mode |-> group.mode, msgs |-> group.msgs,
                   queue |-> group.queue]
  BY DEF AddMember, MayJoin, Steps, At, GroupInv, GroupShape
<1>2. q.who \in Guest \cup Agent /\ q.active \subseteq Agent
  BY <1>1 DEF GroupInv, GroupRequests, Loads
<1>3. /\ greq' = [j \in GroupRequest |-> greq'[j]] /\ greq'[i] = Done
      /\ \A j \in GroupRequest \ {i} : greq'[j] = greq[j]
  BY <1>1, GroupGoes
<1>4. GroupRequests'
  BY <1>1, GroupRequestsKept DEF Loads, Done
<1>5. row.who = q.who
  OBVIOUS
<1> HIDE DEF row
<1>6. Joined' = Joined \cup {q.who} /\ InGroup' = InGroup
      /\ AgentsIn' = AgentsIn \cup ({q.who} \cap Agent)
  BY <1>1, <1>5 DEF Joined, InGroup, AgentsIn
<1>7. active \subseteq Agent
  BY <1>2 DEF GroupInv, GroupShape
<1>8. GroupShape'
  BY <1>1, <1>7 DEF GroupInv, GroupShape
<1>9. ASSUME NEW j \in GroupRequest, At(j, "add")' PROVE j \in ghist.overlap
  BY <1>1, <1>3, <1>9 DEF GroupInv, AddsMeet, At, Done
<1>10. AddsMeet'
  BY <1>1, <1>9 DEF AddsMeet
<1>11. ActiveAreMembers'
  <2> SUFFICES ASSUME ~ghist.listed, ghist.overlap = {} PROVE active = AgentsIn'
    BY <1>1 DEF ActiveAreMembers
  <2>1. q.active = group.active /\ group.active = AgentsIn
    BY <1>1 DEF GroupInv, AddsMeet, GroupConsistent, ActiveAreMembers, At
  <2> QED BY <1>1, <1>6, <2>1 DEF AgentsIn
<1>12. GroupTypeOK'
  <2>1. \A r, s \in group.member \cup {row} : r.who = s.who => r = s
    BY <1>1, <1>5 DEF GroupInv, GroupConsistent, GroupTypeOK, Joined
  <2> QED BY <1>1, <1>2, <1>6, <2>1 DEF GroupInv, GroupConsistent, GroupTypeOK, People
<1>13. OneUserRow' /\ AddFailsForAReason'
  BY <1>1 DEF GroupInv, GroupConsistent, OneUserRow, AddFailsForAReason
<1> QED BY <1>4, <1>8, <1>10, <1>11, <1>12, <1>13 DEF GroupInv, GroupConsistent

LEMMA AddFailsKeeps ==
  ASSUME GroupInv, NEW i \in GroupRequest, AddFails(i)
  PROVE  GroupInv'
<1>1. /\ greq[i].op = "add" /\ greq' = [greq EXCEPT ![i] = Done] /\ group' = group
      /\ InGroup => greq[i].who \in Joined
      /\ ghist' = [overlap |-> ghist.overlap, listed |-> ghist.listed,
                   failed |-> IF InGroup THEN ghist.failed \cup {i} ELSE ghist.failed]
  BY DEF AddFails, MayJoin, Steps, At, GroupInv, GroupShape
<1>2. /\ greq' = [j \in GroupRequest |-> greq'[j]] /\ greq'[i] = Done
      /\ \A j \in GroupRequest \ {i} : greq'[j] = greq[j]
  BY <1>1, GroupGoes
<1>3. GroupRequests'
  BY <1>1, GroupRequestsKept DEF Loads, Done
<1>4. GroupShape'
  BY <1>1 DEF GroupInv, GroupShape
<1>5. Joined' = Joined /\ InGroup' = InGroup /\ AgentsIn' = AgentsIn
  BY <1>1 DEF Joined, InGroup, AgentsIn
<1>6. \A j \in GroupRequest : At(j, "add")' => At(j, "add") /\ greq'[j] = greq[j]
  BY <1>2 DEF At, Done
<1>7. ghist'.overlap = ghist.overlap /\ ghist'.listed = ghist.listed
  BY <1>1
<1>8. AddsMeet'
  BY <1>1, <1>5, <1>6, <1>7 DEF GroupInv, AddsMeet
<1>9. AddFailsForAReason'
  BY <1>1 DEF GroupInv, AddsMeet, GroupConsistent, AddFailsForAReason, At
<1>10. GroupTypeOK' /\ OneUserRow' /\ ActiveAreMembers'
  BY <1>1, <1>5, <1>7 DEF GroupInv, GroupConsistent, GroupTypeOK, OneUserRow, ActiveAreMembers
<1> QED BY <1>3, <1>4, <1>8, <1>9, <1>10 DEF GroupInv, GroupConsistent

(* Only people are taken out.                                                *)
LEMMA RemoveMemberKeeps ==
  ASSUME GroupInv, NEW i \in GroupRequest, RemoveMember(i)
  PROVE  GroupInv'
<1> DEFINE gone == greq[i].gone
<1>1. /\ greq[i].op = "remove" /\ greq' = [greq EXCEPT ![i] = Done] /\ ghist' = ghist
      /\ group' = [phase |-> group.phase, member |-> group.member \ gone, active |-> group.active,
                   primary |-> group.primary, mode |-> group.mode, msgs |-> group.msgs,
                   queue |-> group.queue]
  BY DEF RemoveMember, Steps, At, GroupInv, GroupShape
<1>2. \A r \in gone : r.who \in People
  BY <1>1 DEF GroupInv, GroupRequests, Loads
<1>3. /\ greq' = [j \in GroupRequest |-> greq'[j]] /\ greq'[i] = Done
      /\ \A j \in GroupRequest \ {i} : greq'[j] = greq[j]
  BY <1>1, GroupGoes
<1>4. GroupRequests'
  BY <1>1, GroupRequestsKept DEF Loads, Done
<1>5. GroupShape'
  BY <1>1 DEF GroupInv, GroupShape
<1>6. Joined' \subseteq Joined /\ InGroup' = InGroup /\ AgentsIn' = AgentsIn
  BY <1>1, <1>2, GroupConstants DEF Joined, InGroup, AgentsIn
<1>7. \A j \in GroupRequest : At(j, "add")' => At(j, "add") /\ greq'[j] = greq[j]
  BY <1>3 DEF At, Done
<1>8. AddsMeet'
  BY <1>1, <1>6, <1>7 DEF GroupInv, AddsMeet
<1>9. GroupConsistent'
  BY <1>1, <1>6 DEF GroupInv, GroupConsistent, GroupTypeOK, OneUserRow, AddFailsForAReason,
                    ActiveAreMembers
<1> QED BY <1>4, <1>5, <1>8, <1>9 DEF GroupInv

LEMMA SetGroupAgentsKeeps ==
  ASSUME GroupInv, NEW i \in GroupRequest, SetGroupAgents(i)
  PROVE  GroupInv'
<1>1. greq[i].op = "agents" /\ greq' = [greq EXCEPT ![i] = Done]
  BY DEF SetGroupAgents, Steps, At
<1>2. greq[i].agents \subseteq Agent /\ greq[i].primary \in Agent
  BY <1>1 DEF GroupInv, GroupRequests, Loads
<1>3. /\ greq' = [j \in GroupRequest |-> greq'[j]] /\ greq'[i] = Done
      /\ \A j \in GroupRequest \ {i} : greq'[j] = greq[j]
  BY <1>1, GroupGoes
<1>4. CASE ~InGroup
  <2>1. group' = group /\ ghist' = ghist
    BY <1>4 DEF SetGroupAgents, Steps
  <2>2. GroupRequests'
    BY <1>1, <2>1, GroupRequestsKept DEF Loads, Done
  <2>3. GroupShape' /\ OneUserRow'
    BY <2>1 DEF GroupInv, GroupShape, GroupConsistent, OneUserRow
  <2>4. group.msgs = {}
    BY <1>4 DEF GroupInv, GroupConsistent, GroupTypeOK
  <2> QED BY <1>3, <2>1, <2>2, <2>3, <2>4, GroupStays DEF At, Done
<1>5. CASE InGroup
  <2>1. /\ group' = [phase |-> group.phase, member |-> group.member, active |-> greq[i].agents,
                     primary |-> greq[i].primary, mode |-> group.mode, msgs |-> group.msgs,
                     queue |-> group.queue]
        /\ ghist' = [overlap |-> ghist.overlap, failed |-> ghist.failed, listed |-> TRUE]
    BY <1>5 DEF SetGroupAgents, Steps, GroupInv, GroupShape
  <2>2. GroupRequests'
    BY <1>1, <2>1, GroupRequestsKept DEF Loads, Done
  <2>3. GroupShape'
    BY <1>2, <2>1 DEF GroupInv, GroupShape
  <2>4. Joined' = Joined /\ InGroup' = InGroup /\ ghist'.overlap = ghist.overlap
        /\ ghist'.failed = ghist.failed /\ ghist'.listed
    BY <2>1 DEF Joined, InGroup
  <2>5. AddsMeet'
    BY <1>3, <2>4 DEF GroupInv, AddsMeet, At, Done
  <2>6. GroupConsistent'
    BY <1>2, <2>1, <2>4 DEF GroupInv, GroupConsistent, GroupTypeOK, OneUserRow,
       AddFailsForAReason,
                            ActiveAreMembers
  <2> QED BY <2>2, <2>3, <2>5, <2>6 DEF GroupInv
<1> QED BY <1>4, <1>5

LEMMA DeleteGroupKeeps ==
  ASSUME GroupInv, DeleteGroup
  PROVE  GroupInv'
<1>1. /\ group.phase = "alive" /\ greq' = greq /\ ghist' = ghist
      /\ group' = [phase |-> "deleted", member |-> {}, active |-> group.active,
                   primary |-> group.primary, mode |-> group.mode, msgs |-> {}, queue |-> group.queue]
  BY DEF DeleteGroup, InGroup, GroupInv, GroupShape
<1>2. GroupShape'
  BY <1>1 DEF GroupInv, GroupShape
<1>3. GroupRequests'
  BY <1>1 DEF GroupInv, GroupRequests, Loads, At
<1>4. ~InGroup' /\ Joined' = {}
  BY <1>1 DEF InGroup, Joined
<1>5. AddsMeet'
  BY <1>1, <1>4 DEF GroupInv, AddsMeet, At
<1>6. GroupConsistent'
  BY <1>1, <1>4 DEF GroupInv, GroupConsistent, GroupTypeOK, OneUserRow, AddFailsForAReason,
                    ActiveAreMembers
<1> QED BY <1>2, <1>3, <1>5, <1>6 DEF GroupInv

(* A message leaves members and lists alone; its rows hold one of the user.  *)
Answers(i, q) == greq' = [greq EXCEPT ![i] = q]

OfOneUser(rows) == \A r \in rows : r.role = "user" => r = UserRow(r.turn, 1)

Grown(rows) ==
  /\ group' = [phase |-> group.phase, member |-> group.member, active |-> group.active,
               primary |-> group.primary, mode |-> group.mode, msgs |-> group'.msgs,
               queue |-> group'.queue]
  /\ group'.msgs = group.msgs \cup rows

LEMMA MessageStays ==
  ASSUME GroupInv, NEW i \in GroupRequest, NEW q, NEW rows,
         greq[i].op \in {"post", "single", "enqueue"}, Answers(i, q),
         q.op \in {"done", "single", "enqueue"}, ghist' = ghist,
         Grown(rows),
         rows # {} => InGroup,
         OfOneUser(rows)
  PROVE  GroupInv'
<1>1. /\ group'.phase = group.phase /\ group'.member = group.member /\ group'.active = group.active
      /\ group'.primary = group.primary /\ group'.mode = group.mode
      /\ group'.msgs = group.msgs \cup rows
      /\ group' = [phase |-> group'.phase, member |-> group'.member, active |-> group'.active,
                   primary |-> group'.primary, mode |-> group'.mode, msgs |-> group'.msgs,
                   queue |-> group'.queue]
  BY DEF Grown
<1>2. /\ greq' = [j \in GroupRequest |-> greq'[j]] /\ greq'[i] = q
      /\ \A j \in GroupRequest \ {i} : greq'[j] = greq[j]
  BY GroupGoes DEF Answers
<1>3. group.phase # "none"
  BY DEF GroupInv, GroupRequests, Loads
<1>4. Loads(q, group')
  BY <1>1, <1>3 DEF Loads
<1>5. GroupRequests'
  BY <1>1, <1>3, <1>4, GroupRequestsKept DEF Answers
<1>6. \A r \in group'.msgs : r.role = "user" => r = UserRow(r.turn, 1)
  BY <1>1 DEF GroupInv, GroupShape, OfOneUser
<1>7. GroupShape'
  BY <1>1, <1>6 DEF GroupInv, GroupShape
<1>8. OneUserRow'
  BY <1>1, <1>6 DEF OneUserRow
<1>9. group'.phase # "alive" => group'.msgs = {}
  BY <1>1 DEF GroupInv, GroupConsistent, GroupTypeOK, InGroup
<1>10. \A j \in GroupRequest : At(j, "add")' => greq'[j] = greq[j]
  BY <1>2 DEF At
<1> QED BY <1>1, <1>5, <1>7, <1>8, <1>9, <1>10, GroupStays

(* The first transaction of a message. *)
LEMMA TurnStored ==
  ASSUME GroupInv, NEW i \in GroupRequest, NEW rows, NEW q, StoresTurn(i, TRUE, rows, q),
         q.op \in {"done", "single", "enqueue"},
         OfOneUser(rows)
  PROVE  GroupInv'
<1>1. /\ greq[i].op = "post" /\ InGroup /\ Answers(i, q) /\ ghist' = ghist
      /\ Grown(rows)
  BY DEF StoresTurn, Steps, At, Answers, Grown, GroupInv, GroupShape
<1> QED BY <1>1, MessageStays

LEMMA MessageKeeps ==
  ASSUME GroupInv, NEW i \in GroupRequest,
         \/ StoreOnly(i) \/ DispatchSingle(i) \/ DispatchRoundtable(i)
         \/ SendExistingRow(i) \/ EnqueueGroupTask(i) \/ GroupGone(i)
  PROVE  GroupInv'
<1> DEFINE user == {UserRow(i, 1)}
           none == {}
<1>1. OfOneUser(user) /\ OfOneUser(none) /\ Done.op = "done" /\ none = {}
  BY DEF OfOneUser, UserRow, Done
<1>2. CASE StoreOnly(i)
  <2>1. StoresTurn(i, TRUE, user, Done)
    BY <1>2 DEF StoreOnly, StoresTurn
  <2> HIDE DEF user
  <2> QED BY <1>1, <2>1, TurnStored
<1>3. CASE DispatchSingle(i)
  <2> DEFINE q == [greq[i] EXCEPT !.op = "single"]
  <2>1. StoresTurn(i, TRUE, user, q)
    BY <1>3 DEF DispatchSingle, StoresTurn
  <2>2. greq[i] = [op |-> "post", agents |-> greq[i].agents, primary |-> greq[i].primary]
    BY <2>1 DEF StoresTurn, At, GroupInv, GroupRequests, Loads
  <2>3. q.op = "single"
    BY <2>2
  <2> HIDE DEF user, q
  <2> QED BY <1>1, <2>1, <2>3, TurnStored
<1>4. CASE DispatchRoundtable(i)
  <2> DEFINE q    == [greq[i] EXCEPT !.op = "enqueue"]
             rows == {UserRow(i, 1), [turn |-> i, role |-> "roundtable", part |-> 1]}
  <2>1. StoresTurn(i, TRUE, rows, q)
    BY <1>4 DEF DispatchRoundtable, StoresTurn
  <2>2. greq[i] = [op |-> "post", agents |-> greq[i].agents, primary |-> greq[i].primary]
    BY <2>1 DEF StoresTurn, At, GroupInv, GroupRequests, Loads
  <2>3. q.op = "enqueue"
    BY <2>2
  <2>4. OfOneUser(rows)
    BY DEF OfOneUser, UserRow
  <2> HIDE DEF rows, q
  <2> QED BY <2>1, <2>3, <2>4, TurnStored
<1>5. CASE SendExistingRow(i)
  <2> DEFINE rows == {[turn |-> i, role |-> "agent", part |-> 2]}
             q    == [op |-> "enqueue", agents |-> {greq[i].primary}]
  <2>1. /\ greq[i].op = "single" /\ InGroup /\ Answers(i, q) /\ ghist' = ghist
        /\ Grown(rows)
    BY <1>5 DEF SendExistingRow, SendsSingle, Steps, At, Answers, Grown, GroupInv, GroupShape
  <2>2. q.op = "enqueue" /\ OfOneUser(rows)
    BY DEF OfOneUser
  <2> HIDE DEF q, rows, none
  <2> QED BY <2>1, <2>2, MessageStays
<1>6. CASE EnqueueGroupTask(i)
  <2>1. /\ greq[i].op = "enqueue" /\ Answers(i, Done) /\ ghist' = ghist
        /\ Grown(none)
    BY <1>6 DEF EnqueueGroupTask, Steps, At, Answers, Grown, GroupInv, GroupShape
  <2> HIDE DEF none
  <2> QED BY <1>1, <2>1, MessageStays
<1>7. CASE GroupGone(i)
  <2>1. /\ greq[i].op \in {"post", "single"} /\ Answers(i, Done) /\ ghist' = ghist
        /\ Grown(none)
    BY <1>7 DEF GroupGone, Steps, At, Answers, Grown, GroupInv, GroupShape
  <2> HIDE DEF none
  <2> QED BY <1>1, <2>1, MessageStays
<1> QED BY <1>2, <1>3, <1>4, <1>5, <1>6, <1>7

-----------------------------------------------------------------------------
LEMMA GroupStep == GroupInv /\ [GroupNext]_groupVars => GroupInv'
<1> SUFFICES ASSUME GroupInv, [GroupNext]_groupVars PROVE GroupInv'
  OBVIOUS
<1>1. ASSUME NEW i \in GroupRequest,
             BeginCreateGroup(i) \/ BeginRemovePerson(i) \/ BeginSetGroupAgents(i) \/ BeginDispatchGroup(i)
      PROVE  GroupInv'
  BY <1>1, OthersBegin
<1>2. ASSUME NEW i \in GroupRequest, BeginAddMember(i) PROVE GroupInv'
  BY <1>2, AddBegins
<1>3. ASSUME NEW i \in GroupRequest, CreateGroup(i) PROVE GroupInv'
  BY <1>3, CreateGroupKeeps
<1>4. ASSUME NEW i \in GroupRequest, AddMember(i) PROVE GroupInv'
  BY <1>4, AddMemberKeeps
<1>5. ASSUME NEW i \in GroupRequest, AddFails(i) PROVE GroupInv'
  BY <1>5, AddFailsKeeps
<1>6. ASSUME NEW i \in GroupRequest, RemoveMember(i) PROVE GroupInv'
  BY <1>6, RemoveMemberKeeps
<1>7. ASSUME NEW i \in GroupRequest, SetGroupAgents(i) PROVE GroupInv'
  BY <1>7, SetGroupAgentsKeeps
<1>8. ASSUME NEW i \in GroupRequest,
             \/ StoreOnly(i) \/ DispatchSingle(i) \/ DispatchRoundtable(i)
             \/ SendExistingRow(i) \/ EnqueueGroupTask(i) \/ GroupGone(i)
      PROVE  GroupInv'
  BY <1>8, MessageKeeps
<1>9. CASE DeleteGroup
  BY <1>9, DeleteGroupKeeps
<1>10. CASE UNCHANGED groupVars
  BY <1>10 DEF groupVars, GroupInv, GroupShape, GroupRequests, Loads, AddsMeet, GroupConsistent,
               GroupTypeOK, OneUserRow, AddFailsForAReason, ActiveAreMembers, Joined, InGroup,
               AgentsIn, At
<1> QED
  BY <1>1, <1>2, <1>3, <1>4, <1>5, <1>6, <1>7, <1>8, <1>9, <1>10 DEF GroupNext

(* Members, listed agents and messages of a group match; an add fails on the *)
(* database, and the list forgets an agent, only where adds overlapped or    *)
(* the list was set as a whole (team_service.py, conversation_service.py).   *)
THEOREM GroupConsistentHolds == GroupSpec => []GroupConsistent
<1>1. GroupInv => GroupConsistent
  BY DEF GroupInv
<1> QED BY <1>1, GroupInitially, GroupStep, PTL DEF GroupSpec

-----------------------------------------------------------------------------
(* The rows of a file name, their archived versions, the object.            *)

TextId  == 0..MaxFileRequests
Content == 0..Offloaded
FileRow == [content : Content, key : BOOLEAN, version : Nat]
Version == [of : FileRequest, num : Nat, content : TextId, by : FileRequest]
InDb    == file.backend = "db"

FileShape ==
  /\ file = [backend |-> file.backend, rows |-> file.rows, object |-> file.object,
             vers |-> file.vers]
  /\ file.rows \in [RowIds -> FileRow] /\ RowIds \subseteq FileRequest
  /\ file.object \in TextId /\ file.vers \subseteq Version /\ IsFiniteSet(file.vers)
  /\ fhist = [was |-> fhist.was, pruned |-> fhist.pruned, overlap |-> fhist.overlap]
  /\ fhist.overlap \in BOOLEAN
  /\ \A r \in RowIds : freq[r].op # "fresh"

(* What a handler has loaded.                                               *)
Holds(q, db) ==
  /\ q.op \in {"fresh", "done", "put", "look_up", "insert", "change", "unlink", "delete"}
  /\ q.op \in {"put", "look_up", "insert"} => q = [op |-> q.op, text |-> q.text] /\ q.text \in TextId
  /\ q.op = "put" => ~db
  /\ q.op = "change" =>
       /\ q = [op |-> "change", of |-> q.of, text |-> q.text, inline |-> q.inline, row |-> q.row,
               old |-> q.old]
       /\ q.of \in FileRequest /\ q.text \in TextId /\ q.inline \in BOOLEAN
       /\ q.row \in FileRow /\ q.old \in TextId
       /\ db => q.inline /\ q.old = q.row.content
  /\ q.op \in {"unlink", "delete"} =>
       /\ q = [op |-> q.op, of |-> q.of, key |-> q.key] /\ q.of \in FileRequest
       /\ db => ~q.key

FileRequests ==
  /\ freq = [i \in FileRequest |-> freq[i]]
  /\ \A i \in FileRequest : Holds(freq[i], InDb)
  /\ \A i \in FileRequest : freq[i].op \in {"put", "look_up", "insert"} => i \notin RowIds

(* In the database a row holds its text; a version is older than its row.   *)
RowsOfFile ==
  /\ InDb => \A r \in RowIds : file.rows[r].content \in TextId /\ ~file.rows[r].key
  /\ \A v \in file.vers : v.of \in RowIds
  /\ fhist.overlap \/ \A v \in file.vers : v.num < file.rows[v.of].version

FileInv == FileShape /\ FileRequests /\ RowsOfFile /\ FileHistory

LEMMA FileIds ==
  /\ FileRequest \subseteq TextId /\ TextId \subseteq Content /\ Offloaded \in Content /\ Empty \in TextId
  /\ Offloaded \notin TextId /\ \A c \in Content : c = Offloaded \/ c \in TextId
  /\ \A i \in FileRequest : i # Empty
BY FileConstants DEF FileRequest, TextId, Content, Offloaded, Empty

(* What can be read of a row: in the database, what it holds.               *)
LEMMA TextRead ==
  ASSUME FileInv, NEW r \in RowIds
  PROVE  /\ file.rows[r] \in FileRow /\ Text(r) \in TextId
         /\ InDb => Text(r) = file.rows[r].content
<1>1. file.rows[r] \in FileRow /\ file.rows[r].content \in Content /\ file.object \in TextId
  BY DEF FileInv, FileShape, FileRow
<1>2. InDb => file.rows[r].content \in TextId
  BY DEF FileInv, RowsOfFile
<1> QED BY <1>1, <1>2, FileIds DEF Text

LEMMA FileInitially == FileInit => FileInv
<1> SUFFICES ASSUME FileInit PROVE FileInv
  OBVIOUS
<1>1. PICK b \in Backend : file = [backend |-> b, rows |-> <<>>, object |-> Empty, vers |-> {}]
  BY DEF FileInit
<1>2. RowIds = {} /\ file.vers = {} /\ file.object = Empty /\ file.rows = <<>>
  BY <1>1 DEF RowIds
<1>3. file.rows \in [RowIds -> FileRow]
  BY <1>2
<1>4. \A i \in FileRequest : freq[i].op = "fresh"
  BY DEF FileInit
<1>5. /\ freq = [i \in FileRequest |-> freq[i]]
      /\ fhist = [was |-> fhist.was, pruned |-> fhist.pruned, overlap |-> fhist.overlap]
      /\ fhist.was = {} /\ fhist.overlap = FALSE
  BY DEF FileInit
<1>6. FileShape
  BY <1>1, <1>2, <1>3, <1>5, FileIds, FS_EmptySet DEF FileShape
<1>7. FileRequests /\ RowsOfFile
  BY <1>2, <1>4, <1>5 DEF FileRequests, Holds, RowsOfFile
<1>8. FileHistory
  BY <1>2, <1>5 DEF FileHistory, VersionsDistinct, VersionsBounded, HistoryKept, OldTextsKept
<1> QED BY <1>6, <1>7, <1>8 DEF FileInv

LEMMA FileGoes ==
  ASSUME FileInv, NEW i \in FileRequest, NEW q, Then(i, q)
  PROVE  /\ freq' = [j \in FileRequest |-> freq'[j]] /\ freq'[i] = q
         /\ \A j \in FileRequest \ {i} : freq'[j] = freq[j]
BY DEF FileInv, FileRequests, Then

LEMMA FileRequestsKept ==
  ASSUME FileInv, NEW i \in FileRequest, NEW q, Then(i, q), Holds(q, InDb), q.op # "fresh",
         file'.backend = file.backend, RowIds' \subseteq RowIds \cup {i},
         q.op \in {"put", "look_up", "insert"} => i \notin RowIds'
  PROVE  FileRequests' /\ \A r \in RowIds' : freq'[r].op # "fresh"
<1>1. /\ freq' = [j \in FileRequest |-> freq'[j]] /\ freq'[i] = q
      /\ \A j \in FileRequest \ {i} : freq'[j] = freq[j]
  BY FileGoes
<1>2. InDb' = InDb
  BY DEF InDb
<1>3. \A j \in FileRequest : Holds(freq'[j], InDb)
  BY <1>1 DEF FileInv, FileRequests
<1>4. \A j \in FileRequest : Holds(freq'[j], InDb')
  BY <1>2, <1>3
<1>5. \A j \in FileRequest : freq'[j].op \in {"put", "look_up", "insert"} => j \notin RowIds'
  BY <1>1 DEF FileInv, FileRequests
<1>6. \A r \in RowIds' : freq'[r].op # "fresh"
  BY <1>1 DEF FileInv, FileShape
<1> QED BY <1>1, <1>4, <1>5, <1>6 DEF FileRequests

LEMMA FileStays ==
  ASSUME FileInv, NEW i \in FileRequest, NEW q, Then(i, q), Holds(q, InDb), q.op # "fresh",
         file' = file, fhist' = fhist,
         q.op \in {"put", "look_up", "insert"} => i \notin RowIds
  PROVE  FileInv'
<1>1. RowIds' = RowIds /\ file'.backend = file.backend
  BY DEF RowIds
<1>2. FileRequests' /\ \A r \in RowIds' : freq'[r].op # "fresh"
  BY <1>1, FileRequestsKept
<1>3. FileShape'
  BY <1>1, <1>2 DEF FileInv, FileShape
<1>4. RowsOfFile'
  BY <1>1 DEF FileInv, RowsOfFile, InDb
<1>5. Texts' = Texts
  BY <1>1 DEF Texts, Text
<1>6. FileHistory'
  BY <1>1, <1>5 DEF FileInv, FileHistory, VersionsDistinct, VersionsBounded, HistoryKept,
     OldTextsKept,
                    Archived
<1> QED BY <1>2, <1>3, <1>4, <1>6 DEF FileInv

(* What a change of row r has loaded.                                       *)
LEMMA ChangeFits ==
  ASSUME FileInv, NEW r \in RowIds, NEW text \in TextId, NEW inline \in BOOLEAN, InDb => inline
  PROVE  Holds(Change(r, text, inline), InDb) /\ Change(r, text, inline).op = "change"
<1>1. /\ file.rows[r] \in FileRow /\ Text(r) \in TextId /\ r \in FileRequest
      /\ InDb => Text(r) = file.rows[r].content
  BY TextRead DEF FileInv, FileShape
<1> QED BY <1>1 DEF Holds, Change

LEMMA HandlersBegin ==
  ASSUME FileInv, NEW i \in FileRequest,
         BeginSave(i) \/ LookUp(i) \/ BeginPatch(i) \/ BeginRestore(i) \/ WriteGone(i) \/ BeginDeleteFile(i)
  PROVE  FileInv'
<1>1. Holds(Served, InDb) /\ Served.op = "done"
  BY DEF Holds, Served
<1>2. freq[i].op = "fresh" => i \notin RowIds
  BY DEF FileInv, FileShape
<1>3. CASE BeginSave(i)
  <2>1. PICK text \in {Empty, i} :
          Takes(i, IF text = Empty /\ RowIds # {} THEN Served
                   ELSE [op |-> IF file.backend = "minio" THEN "put" ELSE "look_up", text |-> text])
    BY <1>3 DEF BeginSave
  <2> DEFINE q == IF text = Empty /\ RowIds # {} THEN Served
                  ELSE [op |-> IF file.backend = "minio" THEN "put" ELSE "look_up", text |-> text]
  <2>2. text \in TextId
    BY FileIds
  <2>3. Holds(q, InDb) /\ q.op # "fresh"
    <3>1. CASE text = Empty /\ RowIds # {}
      BY <1>1, <3>1
    <3>2. CASE ~(text = Empty /\ RowIds # {})
      <4> DEFINE op == IF file.backend = "minio" THEN "put" ELSE "look_up"
      <4>1. q = [op |-> op, text |-> text] /\ op \in {"put", "look_up"} /\ (op = "put" => ~InDb)
        BY <3>2 DEF InDb
      <4> HIDE DEF q, op
      <4> QED BY <2>2, <4>1 DEF Holds
    <3> QED BY <3>1, <3>2
  <2> HIDE DEF q
  <2>4. freq[i].op = "fresh" /\ Then(i, q) /\ file' = file /\ fhist' = fhist
    BY <2>1 DEF Takes, Then, q
  <2> QED BY <1>2, <2>3, <2>4, FileStays
<1>4. CASE LookUp(i)
  <2>1. freq[i].op = "look_up" /\ file' = file /\ fhist' = fhist
    BY <1>4 DEF LookUp, In
  <2>2. freq[i] = [op |-> "look_up", text |-> freq[i].text] /\ freq[i].text \in TextId /\ i \notin RowIds
    BY <2>1 DEF FileInv, FileRequests, Holds
  <2>3. CASE RowIds = {}
    <3> DEFINE q == [freq[i] EXCEPT !.op = "insert"]
    <3>1. q = [op |-> "insert", text |-> freq[i].text]
      BY <2>2
    <3>2. Then(i, q)
      BY <1>4, <2>3 DEF LookUp
    <3> HIDE DEF q
    <3>3. Holds(q, InDb) /\ q.op = "insert"
      BY <2>2, <3>1 DEF Holds
    <3> QED BY <2>1, <2>2, <3>2, <3>3, FileStays
  <2>4. CASE RowIds # {} /\ Cardinality(RowIds) > 1
    <3>1. Then(i, Served)
      BY <1>4, <2>4 DEF LookUp
    <3> QED BY <1>1, <2>1, <3>1, FileStays
  <2>5. CASE RowIds # {} /\ ~(Cardinality(RowIds) > 1)
    <3>1. PICK r \in RowIds : Then(i, Change(r, freq[i].text, InDb))
      BY <1>4, <2>5 DEF LookUp, InDb
    <3>2. Holds(Change(r, freq[i].text, InDb), InDb) /\ Change(r, freq[i].text, InDb).op = "change"
      BY <2>2, ChangeFits DEF InDb
    <3> QED BY <2>1, <3>1, <3>2, FileStays
  <2> QED BY <2>3, <2>4, <2>5
<1>5. CASE BeginPatch(i)
  <2>1. PICK r \in RowIds, text \in {Empty, i} : Takes(i, Change(r, text, TRUE))
    BY <1>5 DEF BeginPatch
  <2>2. text \in TextId
    BY FileIds
  <2>3. Holds(Change(r, text, TRUE), InDb) /\ Change(r, text, TRUE).op = "change"
    BY <2>2, ChangeFits
  <2> QED BY <2>1, <2>3, FileStays DEF Takes, Then
<1>6. CASE BeginRestore(i)
  <2>1. PICK r \in RowIds, n \in {v.num : v \in file.vers} :
          LET found == {v \in file.vers : v.of = r /\ v.num = n} IN
          Takes(i, IF Cardinality(found) # 1 THEN Served
                   ELSE Change(r, (CHOOSE v \in found : TRUE).content, TRUE))
    BY <1>6 DEF BeginRestore
  <2> DEFINE found == {v \in file.vers : v.of = r /\ v.num = n}
             v     == CHOOSE v \in found : TRUE
             q     == IF Cardinality(found) # 1 THEN Served ELSE Change(r, v.content, TRUE)
  <2>2. Takes(i, q)
    BY <2>1
  <2>3. Cardinality(found) = 1 => found # {}
    BY FS_EmptySet
  <2>4. Cardinality(found) = 1 => v \in file.vers
    BY <2>3
  <2>5. Cardinality(found) = 1 => v.content \in TextId
    BY <2>4 DEF FileInv, FileShape, Version
  <2>6. Holds(q, InDb) /\ q.op \in {"done", "change"}
    <3> HIDE DEF v, found
    <3> QED BY <1>1, <2>5, ChangeFits
  <2> HIDE DEF q
  <2> QED BY <2>2, <2>6, FileStays DEF Takes, Then
<1>7. CASE WriteGone(i)
  BY <1>1, <1>7, FileStays DEF WriteGone
<1>8. CASE BeginDeleteFile(i)
  <2>1. PICK r \in RowIds : Takes(i, [op |-> "unlink", of |-> r, key |-> file.rows[r].key])
    BY <1>8 DEF BeginDeleteFile
  <2> DEFINE q == [op |-> "unlink", of |-> r, key |-> file.rows[r].key]
  <2>2. r \in FileRequest /\ (InDb => ~file.rows[r].key)
    BY DEF FileInv, FileShape, RowsOfFile
  <2>3. Holds(q, InDb) /\ q.op = "unlink"
    BY <2>2 DEF Holds
  <2>4. Takes(i, q)
    BY <2>1
  <2> HIDE DEF q
  <2> QED BY <2>3, <2>4, FileStays DEF Takes, Then
<1> QED BY <1>3, <1>4, <1>5, <1>6, <1>7, <1>8

(* A text goes to the object store, which the database does not use.        *)
LEMMA PutKeeps ==
  ASSUME FileInv, NEW i \in FileRequest, PutObject(i)
  PROVE  FileInv'
<1>1. freq[i].op = "put"
  BY DEF PutObject, In
<1> DEFINE q == [freq[i] EXCEPT !.op = "look_up"]
<1>2. /\ freq[i] = [op |-> "put", text |-> freq[i].text] /\ freq[i].text \in TextId
      /\ i \notin RowIds /\ ~InDb
  BY <1>1 DEF FileInv, FileRequests, Holds
<1>3. q = [op |-> "look_up", text |-> freq[i].text] /\ Then(i, q) /\ fhist' = fhist
  BY <1>2 DEF PutObject
<1> HIDE DEF q
<1>4. file' = [backend |-> file.backend, rows |-> file.rows, object |-> freq[i].text,
               vers |-> file.vers]
  BY DEF PutObject, FileInv, FileShape
<1>5. RowIds' = RowIds /\ ~InDb'
  BY <1>2, <1>4 DEF RowIds, InDb
<1>6. Holds(q, InDb) /\ q.op = "look_up"
  BY <1>2, <1>3 DEF Holds
<1>7. FileRequests' /\ \A r \in RowIds' : freq'[r].op # "fresh"
  BY <1>2, <1>3, <1>4, <1>5, <1>6, FileRequestsKept
<1>8. FileShape'
  BY <1>2, <1>3, <1>4, <1>5, <1>7 DEF FileInv, FileShape
<1>9. RowsOfFile'
  BY <1>3, <1>4, <1>5 DEF FileInv, RowsOfFile
<1>10. FileHistory'
  BY <1>3, <1>4, <1>5 DEF FileInv, FileHistory, VersionsDistinct, VersionsBounded,
     HistoryKept, InDb
<1> QED BY <1>7, <1>8, <1>9, <1>10 DEF FileInv

(* A new row of a new id.                                                   *)
LEMMA InsertKeeps ==
  ASSUME FileInv, NEW i \in FileRequest, NEW q, Then(i, q), Holds(q, InDb), q.op = "done",
         i \notin RowIds, NEW text \in TextId, NEW inline \in BOOLEAN, InDb => inline,
         Inserts(i, text, inline), fhist' = [fhist EXCEPT !.was = @ \cup {text}]
  PROVE  FileInv'
<1> DEFINE row  == [content |-> IF inline THEN text ELSE Offloaded, key |-> ~inline, version |-> 1]
           rows == [x \in RowIds \cup {i} |-> IF x # i THEN file.rows[x] ELSE row]
<1>1. file' = [backend |-> file.backend, rows |-> rows, object |-> file.object, vers |-> file.vers]
  BY DEF Inserts, FileInv, FileShape
<1>2. row \in FileRow /\ (InDb => row.content = text /\ ~row.key)
  BY FileIds DEF FileRow
<1> HIDE DEF row
<1>3. /\ rows \in [RowIds \cup {i} -> FileRow] /\ DOMAIN rows = RowIds \cup {i} /\ rows[i] = row
      /\ \A x \in RowIds : rows[x] = file.rows[x]
  BY <1>2 DEF FileInv, FileShape
<1> HIDE DEF rows
<1>4. RowIds' = RowIds \cup {i} /\ InDb' = InDb /\ file'.rows = rows /\ file'.vers = file.vers
      /\ file'.object = file.object
  BY <1>1, <1>3 DEF RowIds, InDb
<1>5. fhist' = [was |-> fhist.was \cup {text}, pruned |-> fhist.pruned, overlap |-> fhist.overlap]
  BY DEF FileInv, FileShape
<1>6. FileRequests' /\ \A r \in RowIds' : freq'[r].op # "fresh"
  BY <1>1, <1>4, FileRequestsKept
<1>7. FileShape'
  BY <1>1, <1>3, <1>4, <1>5, <1>6 DEF FileInv, FileShape
<1>8. \A v \in file.vers : v.of \in RowIds
  BY DEF FileInv, RowsOfFile
<1>9. RowsOfFile'
  BY <1>2, <1>3, <1>4, <1>5, <1>8 DEF FileInv, RowsOfFile
<1>10. VersionsDistinct' /\ Archived' = Archived
  BY <1>4, <1>5 DEF FileInv, FileHistory, VersionsDistinct, Archived
<1>11. VersionsBounded'
  <2>1. {v \in file.vers : v.of = i} = {}
    BY <1>8
  <2>2. Cardinality({v \in file.vers : v.of = i}) = 0
    BY <2>1, FS_EmptySet
  <2>3. 0 <= Kept
    BY FileConstants
  <2> QED BY <1>4, <1>5, <2>2, <2>3 DEF FileInv, FileHistory, VersionsBounded
<1>12. HistoryKept'
  <2> SUFFICES ASSUME InDb, ~fhist.overlap
               PROVE  (fhist.was \cup {text}) \ {Empty} \subseteq Texts' \cup Archived' \cup fhist.pruned
    BY <1>4, <1>5 DEF HistoryKept, OldTextsKept, InDb
  <2>1. \A r \in RowIds : Text(r)' = Text(r)
    BY <1>3, <1>4 DEF Text
  <2>2. Text(i)' = text
    BY <1>2, <1>3, <1>4, FileIds DEF Text
  <2>3. Texts' = Texts \cup {text}
    BY <1>4, <2>1, <2>2 DEF Texts
  <2> QED BY <1>10, <2>3 DEF FileInv, FileHistory, HistoryKept, OldTextsKept, InDb
<1> QED BY <1>6, <1>7, <1>9, <1>10, <1>11, <1>12 DEF FileInv, FileHistory

LEMMA InsertsKeep ==
  ASSUME FileInv, NEW i \in FileRequest, InsertFile(i) \/ Upload(i)
  PROVE  FileInv'
<1>1. InDb \in BOOLEAN
  BY DEF InDb
<1>2. CASE InsertFile(i)
  <2> DEFINE q == [op |-> "done", text |-> freq[i].text]
  <2>1. /\ freq[i].op = "insert" /\ Then(i, q) /\ Inserts(i, freq[i].text, InDb)
        /\ fhist' = [fhist EXCEPT !.was = @ \cup {freq[i].text}]
    BY <1>2 DEF InsertFile, In, InDb
  <2>2. freq[i].text \in TextId /\ i \notin RowIds
    BY <2>1 DEF FileInv, FileRequests, Holds
  <2>3. Holds(q, InDb) /\ q.op = "done"
    BY DEF Holds
  <2> HIDE DEF q
  <2> QED BY <1>1, <2>1, <2>2, <2>3, InsertKeeps
<1>3. CASE Upload(i)
  <2> DEFINE q == [op |-> "done", text |-> i]
  <2>1. Then(i, q) /\ Inserts(i, i, TRUE) /\ fhist' = [fhist EXCEPT !.was = @ \cup {i}]
    BY <1>3 DEF Upload
  <2>2. i \in TextId /\ i \notin RowIds
    BY <1>3, FileIds DEF Upload, FileInv, FileShape
  <2>3. Holds(q, InDb) /\ q.op = "done"
    BY DEF Holds
  <2> HIDE DEF q
  <2> QED BY <2>1, <2>2, <2>3, InsertKeeps
<1> QED BY <1>2, <1>3

(* What a row keeps besides a new version: fewer than Kept versions, the    *)
(* numbers being distinct.  A version is told by how many are newer.        *)
LEMMA FewKept ==
  ASSUME NEW vers, IsFiniteSet(vers), \A v \in vers : v.num \in Nat, NEW r, NEW n \in Nat,
         \A v, w \in vers : v.of = w.of /\ v.num = w.num => v = w
  PROVE  LET newer(v) == {w \in vers : w.of = r /\ w.num > v.num}
             left     == {v \in vers : v.of = r /\ ~(Cardinality(newer(v)) >= n)}
         IN  IsFiniteSet(left) /\ Cardinality(left) <= n
<1> DEFINE newer(v) == {w \in vers : w.of = r /\ w.num > v.num}
           left     == {v \in vers : v.of = r /\ ~(Cardinality(newer(v)) >= n)}
           f        == [v \in left |-> Cardinality(newer(v))]
<1>1. \A v : IsFiniteSet(newer(v)) /\ Cardinality(newer(v)) \in Nat
  BY FS_Subset, FS_CardinalityType
<1>2. ASSUME NEW v \in left, NEW w \in left, v.num < w.num
      PROVE  Cardinality(newer(w)) < Cardinality(newer(v))
  <2>1. newer(w) \subseteq newer(v) /\ w \in newer(v) /\ w \notin newer(w)
    BY <1>2
  <2> HIDE DEF newer
  <2>2. newer(w) # newer(v)
    BY <2>1
  <2> QED BY <1>1, <2>1, <2>2, FS_Subset
<1>3. \A v \in left : v \in vers /\ v.of = r /\ v.num \in Nat /\ ~(Cardinality(newer(v)) >= n)
  OBVIOUS
<1>4. \A v, w \in left : v # w => v.num < w.num \/ w.num < v.num
  BY <1>3
<1> HIDE DEF newer, left
<1>5. \A v \in left : Cardinality(newer(v)) \in 0..(n - 1)
  BY <1>1, <1>3
<1>6. \A v, w \in left : v # w => Cardinality(newer(v)) # Cardinality(newer(w))
  BY <1>1, <1>2, <1>4
<1>7. f \in Injection(left, 0..(n - 1))
  BY <1>5, <1>6 DEF Injection, IsInjective
<1>8. IsFiniteSet(0..(n - 1)) /\ Cardinality(0..(n - 1)) = n
  <2>1. n - 1 \in Int /\ (0 > n - 1 => n = 0) /\ (n - 1) - 0 + 1 = n
    OBVIOUS
  <2> QED BY <2>1, FS_Interval
<1> HIDE DEF f
<1>9. IsFiniteSet(left) /\ Cardinality(left) <= n
  BY <1>7, <1>8, FS_Injection
<1> QED BY <1>9 DEF newer, left

(* A change archives what it loaded, drops the oldest and writes.           *)
LEMMA WriteKeeps ==
  ASSUME FileInv, NEW i \in FileRequest, WriteFile(i)
  PROVE  FileInv'
<1> DEFINE q    == freq[i]
           r    == q.of
           one  == [of |-> r, num |-> q.row.version, content |-> q.old, by |-> i]
           new  == IF q.old = Empty THEN {} ELSE {one}
           dead == IF q.old = Empty /\ ~q.inline THEN {} ELSE OldestBut(r, Kept - 1)
           row  == [content |-> IF q.inline THEN q.text ELSE Offloaded,
                    key |-> file.rows[r].key \/ ~q.inline, version |-> q.row.version + 1]
           vers == (file.vers \ dead) \cup new
           over == fhist.overlap \/ file.rows[r] # q.row
           rows == [file.rows EXCEPT ![r] = row]
<1>1. /\ q.op = "change" /\ r \in RowIds /\ Then(i, Served)
      /\ file' = [backend |-> file.backend, rows |-> rows, object |-> file.object, vers |-> vers]
      /\ fhist' = [was |-> fhist.was \cup {q.text},
                   pruned |-> fhist.pruned \cup {v.content : v \in dead}, overlap |-> over]
  BY DEF WriteFile, Writes, In, FileInv, FileShape
<1>2. /\ r \in FileRequest /\ q.text \in TextId /\ q.inline \in BOOLEAN /\ q.row \in FileRow
      /\ q.old \in TextId /\ (InDb => q.inline /\ q.old = q.row.content)
  BY <1>1 DEF FileInv, FileRequests, Holds
<1>3. /\ file.rows[r] \in FileRow /\ file.rows[r].key \in BOOLEAN /\ q.row.version \in Nat
      /\ InDb => ~file.rows[r].key
  BY <1>1, <1>2 DEF FileInv, FileShape, RowsOfFile, FileRow
<1>4. row \in FileRow /\ row.version = q.row.version + 1 /\ (InDb => row.content = q.text /\ ~row.key)
  BY <1>2, <1>3, FileIds DEF FileRow
<1>5. one \in Version /\ one.of = r /\ one.num = q.row.version /\ one.content = q.old
  BY <1>2, <1>3 DEF Version
<1>6. Kept - 1 \in Nat
  BY FileConstants
<1>7. dead \subseteq file.vers /\ \A v \in dead : v.of = r
  BY DEF OldestBut
<1> HIDE DEF row, one, dead
<1>8. new \subseteq {one} /\ IsFiniteSet(new) /\ (q.old # Empty => one \in new)
  BY FS_EmptySet, FS_Singleton
<1>9. /\ rows \in [RowIds -> FileRow] /\ DOMAIN rows = RowIds /\ rows[r] = row
      /\ \A x \in RowIds \ {r} : rows[x] = file.rows[x]
  BY <1>1, <1>4 DEF FileInv, FileShape
<1> HIDE DEF rows, new
<1>10. /\ RowIds' = RowIds /\ InDb' = InDb /\ file'.rows = rows /\ file'.vers = vers
       /\ file'.object = file.object /\ fhist'.overlap = over
  BY <1>1, <1>9 DEF RowIds, InDb
<1>11. Holds(Served, InDb) /\ Served.op = "done"
  BY DEF Holds, Served
<1>12. FileRequests' /\ \A x \in RowIds' : freq'[x].op # "fresh"
  BY <1>1, <1>10, <1>11, FileRequestsKept
<1>13. IsFiniteSet(file.vers \ dead)
  BY FS_Difference DEF FileInv, FileShape
<1>14. vers \subseteq Version /\ IsFiniteSet(vers)
  BY <1>5, <1>8, <1>13, FS_Union DEF FileInv, FileShape
<1>15. FileShape'
  BY <1>1, <1>9, <1>10, <1>12, <1>14 DEF FileInv, FileShape
<1>16. \A v \in file.vers : v.of \in RowIds /\ v.num \in Nat
  BY DEF FileInv, FileShape, RowsOfFile, Version
<1>17. ~over => ~fhist.overlap /\ file.rows[r] = q.row
  OBVIOUS
<1>18. ASSUME ~over, NEW v \in vers PROVE v.of \in RowIds /\ v.num < rows[v.of].version
  <2>1. CASE v \in file.vers
    <3>1. v.num < file.rows[v.of].version
      BY <1>17, <1>18, <2>1 DEF FileInv, RowsOfFile
    <3> QED BY <1>3, <1>4, <1>9, <1>16, <1>17, <1>18, <2>1, <3>1
  <2>2. CASE v = one
    BY <1>1, <1>3, <1>4, <1>5, <1>9, <2>2
  <2> QED BY <1>8, <2>1, <2>2
<1>19. RowsOfFile'
  <2>1. InDb => \A x \in RowIds : rows[x].content \in TextId /\ ~rows[x].key
    BY <1>2, <1>4, <1>9 DEF FileInv, RowsOfFile
  <2>2. \A v \in vers : v.of \in RowIds
    BY <1>1, <1>5, <1>8, <1>16
  <2> QED BY <1>10, <1>18, <2>1, <2>2 DEF RowsOfFile
<1>20. VersionsDistinct'
  <2>1. ASSUME ~over, NEW v \in file.vers, v.of = r PROVE v.num < q.row.version
    BY <1>17, <2>1 DEF FileInv, RowsOfFile
  <2>2. ASSUME ~over, NEW v \in vers, NEW w \in vers, v.of = w.of, v.num = w.num PROVE v = w
    BY <1>3, <1>5, <1>8, <1>16, <1>17, <2>1, <2>2 DEF FileInv, FileHistory, VersionsDistinct
  <2> QED BY <1>10, <2>2 DEF VersionsDistinct
<1>21. VersionsBounded'
  <2> SUFFICES ASSUME ~over, NEW x \in RowIds PROVE Cardinality({v \in vers : v.of = x}) <= Kept
    BY <1>10 DEF VersionsBounded
  <2>1. Cardinality({v \in file.vers : v.of = x}) <= Kept
    BY <1>17 DEF FileInv, FileHistory, VersionsBounded
  <2>2. CASE x # r \/ (dead = {} /\ new = {})
    <3>1. {v \in vers : v.of = x} = {v \in file.vers : v.of = x}
      BY <1>5, <1>7, <1>8, <2>2
    <3> QED BY <2>1, <3>1
  <2>3. CASE x = r /\ dead = OldestBut(r, Kept - 1)
    <3> DEFINE newer(v) == {w \in file.vers : w.of = r /\ w.num > v.num}
               left     == {v \in file.vers : v.of = r /\ ~(Cardinality(newer(v)) >= Kept - 1)}
    <3>1. \A v, w \in file.vers : v.of = w.of /\ v.num = w.num => v = w
      BY <1>17 DEF FileInv, FileHistory, VersionsDistinct
    <3>2. IsFiniteSet(left) /\ Cardinality(left) <= Kept - 1
      BY <1>6, <1>16, <3>1, FewKept DEF FileInv, FileShape
    <3>3. left = {v \in file.vers \ dead : v.of = r}
      BY <2>3 DEF OldestBut
    <3> HIDE DEF left
    <3>4. {v \in vers : v.of = x} \subseteq left \cup {one}
      BY <1>8, <2>3, <3>3
    <3>5. IsFiniteSet(left \cup {one}) /\ Cardinality(left \cup {one}) <= Cardinality(left) + 1
      <4>1. Cardinality(left) \in Nat
        BY <3>2, FS_CardinalityType
      <4>2. IsFiniteSet(left \cup {one})
            /\ Cardinality(left \cup {one}) \in {Cardinality(left), Cardinality(left) + 1}
        BY <3>2, FS_AddElement
      <4> QED BY <4>1, <4>2
    <3>6. Cardinality({v \in vers : v.of = x}) <= Cardinality(left \cup {one})
      BY <3>4, <3>5, FS_Subset
    <3>7. Cardinality({v \in vers : v.of = x}) \in Nat /\ Cardinality(left) \in Nat
          /\ Cardinality(left \cup {one}) \in Nat
      BY <3>2, <3>4, <3>5, FS_Subset, FS_CardinalityType
    <3> QED BY FileConstants, <3>2, <3>5, <3>6, <3>7
  <2>4. (dead = {} /\ new = {}) \/ dead = OldestBut(r, Kept - 1)
    BY DEF dead, new
  <2> QED BY <2>2, <2>3, <2>4
<1>22. HistoryKept'
  <2> SUFFICES ASSUME InDb, ~over
               PROVE  (fhist.was \cup {q.text}) \ {Empty}
                        \subseteq Texts' \cup Archived' \cup (fhist.pruned \cup {v.content : v \in dead})
    BY <1>1, <1>10 DEF HistoryKept, OldTextsKept, InDb
  <2>1. fhist.was \ {Empty} \subseteq Texts \cup Archived \cup fhist.pruned
    BY <1>17 DEF FileInv, FileHistory, HistoryKept, OldTextsKept, InDb
  <2>2. \A x \in RowIds \ {r} : Text(x)' = Text(x)
    BY <1>9, <1>10 DEF Text
  <2>3. Text(r) = q.old /\ \A x \in RowIds : x = r => Text(x)' = q.text
    <3>1. Text(r) = q.old
      BY <1>1, <1>2, <1>17, TextRead
    <3>2. rows[r].content = q.text /\ q.text # Offloaded
      BY <1>2, <1>4, <1>9, FileIds
    <3> QED BY <1>10, <3>1, <3>2 DEF Text
  <2>4. q.text \in Texts' /\ Texts \subseteq Texts' \cup {q.old}
    BY <1>1, <1>10, <2>2, <2>3 DEF Texts
  <2>5. q.old # Empty => q.old \in Archived'
    BY <1>5, <1>8, <1>10 DEF Archived
  <2>6. Archived \subseteq Archived' \cup {v.content : v \in dead}
    BY <1>10 DEF Archived
  <2> QED BY <2>1, <2>4, <2>5, <2>6
<1> QED BY <1>12, <1>15, <1>19, <1>20, <1>21, <1>22 DEF FileInv, FileHistory

(* Without an object store nothing is deleted from it.                      *)
LEMMA UnlinkKeeps ==
  ASSUME FileInv, NEW i \in FileRequest, DeleteObject(i)
  PROVE  FileInv'
<1> DEFINE key    == freq[i].key
           q      == [freq[i] EXCEPT !.op = "delete"]
           object == IF key THEN Empty ELSE file.object
           pruned == IF key THEN fhist.pruned \cup {file.object} ELSE fhist.pruned
<1>1. freq[i].op = "unlink" /\ Then(i, q)
  BY DEF DeleteObject, In
<1>2. /\ freq[i] = [op |-> "unlink", of |-> freq[i].of, key |-> key] /\ freq[i].of \in FileRequest
      /\ InDb => ~key
  BY <1>1 DEF FileInv, FileRequests, Holds
<1>3. q = [op |-> "delete", of |-> freq[i].of, key |-> key]
  BY <1>2
<1> HIDE DEF q
<1>4. Holds(q, InDb) /\ q.op = "delete"
  BY <1>2, <1>3 DEF Holds
<1>5. /\ file' = [backend |-> file.backend, rows |-> file.rows, object |-> object, vers |-> file.vers]
      /\ fhist' = [was |-> fhist.was, pruned |-> pruned, overlap |-> fhist.overlap]
  BY DEF DeleteObject, FileInv, FileShape
<1>6. object \in TextId /\ (InDb => object = file.object)
  BY <1>2, FileIds DEF FileInv, FileShape
<1>7. fhist.pruned \subseteq pruned
  OBVIOUS
<1> HIDE DEF object, pruned
<1>8. RowIds' = RowIds /\ InDb' = InDb
  BY <1>5 DEF RowIds, InDb
<1>9. FileRequests' /\ \A r \in RowIds' : freq'[r].op # "fresh"
  BY <1>1, <1>4, <1>5, <1>8, FileRequestsKept
<1>10. FileShape'
  BY <1>5, <1>6, <1>8, <1>9 DEF FileInv, FileShape
<1>11. RowsOfFile'
  BY <1>5, <1>8 DEF FileInv, RowsOfFile
<1>12. InDb => Texts' = Texts
  BY <1>5, <1>6, <1>8 DEF Texts, Text
<1>13. HistoryKept'
  BY <1>5, <1>7, <1>8, <1>12 DEF FileInv, FileHistory, HistoryKept, OldTextsKept, Archived, InDb
<1>14. VersionsDistinct' /\ VersionsBounded'
  BY <1>5, <1>8 DEF FileInv, FileHistory, VersionsDistinct, VersionsBounded
<1> QED BY <1>9, <1>10, <1>11, <1>13, <1>14 DEF FileInv, FileHistory

(* A row goes with its versions.                                            *)
LEMMA DeleteFileKeeps ==
  ASSUME FileInv, NEW i \in FileRequest, DeleteFile(i)
  PROVE  FileInv'
<1> DEFINE r      == freq[i].of
           rows   == [x \in RowIds \ {r} |-> file.rows[x]]
           gone   == {v \in file.vers : v.of = r}
           vers   == {v \in file.vers : v.of # r}
           pruned == fhist.pruned \cup {v.content : v \in gone}
                                  \cup (IF r \in RowIds THEN {Text(r)} ELSE {})
<1>1. /\ freq[i].op = "delete" /\ Then(i, Served)
      /\ file' = [backend |-> file.backend, rows |-> rows, object |-> file.object, vers |-> vers]
      /\ fhist' = [was |-> fhist.was, pruned |-> pruned, overlap |-> fhist.overlap]
  BY DEF DeleteFile, In, FileInv, FileShape
<1>2. /\ rows \in [RowIds \ {r} -> FileRow] /\ DOMAIN rows = RowIds \ {r}
      /\ \A x \in RowIds \ {r} : rows[x] = file.rows[x]
  BY DEF FileInv, FileShape
<1>3. vers \subseteq file.vers /\ IsFiniteSet(vers) /\ \A v \in vers : v.of # r
  BY FS_Subset DEF FileInv, FileShape
<1>4. \A v \in file.vers \ vers : v.content \in pruned
  OBVIOUS
<1>5. fhist.pruned \subseteq pruned /\ (r \in RowIds => Text(r) \in pruned)
  OBVIOUS
<1>6. \A x : x # r => {v \in vers : v.of = x} = {v \in file.vers : v.of = x}
  OBVIOUS
<1> HIDE DEF rows, vers, pruned
<1>7. /\ RowIds' = RowIds \ {r} /\ InDb' = InDb /\ file'.rows = rows /\ file'.vers = vers
      /\ file'.object = file.object
  BY <1>1, <1>2 DEF RowIds, InDb
<1>8. Holds(Served, InDb) /\ Served.op = "done"
  BY DEF Holds, Served
<1>9. FileRequests' /\ \A x \in RowIds' : freq'[x].op # "fresh"
  BY <1>1, <1>7, <1>8, FileRequestsKept
<1>10. FileShape'
  BY <1>1, <1>2, <1>3, <1>7, <1>9 DEF FileInv, FileShape
<1>11. RowsOfFile'
  BY <1>1, <1>2, <1>3, <1>7 DEF FileInv, RowsOfFile
<1>12. VersionsDistinct'
  BY <1>1, <1>3 DEF FileInv, FileHistory, VersionsDistinct
<1>13. VersionsBounded'
  BY <1>1, <1>6, <1>7 DEF FileInv, FileHistory, VersionsBounded
<1>14. \A x \in RowIds \ {r} : Text(x)' = Text(x)
  BY <1>2, <1>7 DEF Text
<1>15. Texts \subseteq Texts' \cup pruned /\ Archived \subseteq Archived' \cup pruned
  BY <1>4, <1>5, <1>7, <1>14 DEF Texts, Archived
<1>16. HistoryKept'
  <2> SUFFICES ASSUME InDb, ~fhist.overlap
               PROVE  fhist.was \ {Empty} \subseteq Texts' \cup Archived' \cup pruned
    BY <1>1, <1>7 DEF HistoryKept, OldTextsKept, InDb
  <2>1. fhist.was \ {Empty} \subseteq Texts \cup Archived \cup fhist.pruned
    BY DEF FileInv, FileHistory, HistoryKept, OldTextsKept, InDb
  <2> QED BY <1>5, <1>15, <2>1
<1> QED BY <1>9, <1>10, <1>11, <1>12, <1>13, <1>16 DEF FileInv, FileHistory

LEMMA FileStep == FileInv /\ [FileNext]_fileVars => FileInv'
<1> SUFFICES ASSUME FileInv, [FileNext]_fileVars PROVE FileInv'
  OBVIOUS
<1>1. ASSUME NEW i \in FileRequest,
             \/ BeginSave(i) \/ LookUp(i) \/ BeginPatch(i) \/ BeginRestore(i) \/ WriteGone(i)
             \/ BeginDeleteFile(i)
      PROVE  FileInv'
  BY <1>1, HandlersBegin
<1>2. ASSUME NEW i \in FileRequest, PutObject(i) PROVE FileInv'
  BY <1>2, PutKeeps
<1>3. ASSUME NEW i \in FileRequest, InsertFile(i) \/ Upload(i) PROVE FileInv'
  BY <1>3, InsertsKeep
<1>4. ASSUME NEW i \in FileRequest, WriteFile(i) PROVE FileInv'
  BY <1>4, WriteKeeps
<1>5. ASSUME NEW i \in FileRequest, DeleteObject(i) PROVE FileInv'
  BY <1>5, UnlinkKeeps
<1>6. ASSUME NEW i \in FileRequest, DeleteFile(i) PROVE FileInv'
  BY <1>6, DeleteFileKeeps
<1>7. CASE UNCHANGED fileVars
  <2>1. file' = file /\ freq' = freq /\ fhist' = fhist
    BY <1>7 DEF fileVars
  <2>2. RowIds' = RowIds /\ InDb' = InDb /\ Texts' = Texts /\ Archived' = Archived
    BY <2>1 DEF RowIds, InDb, Texts, Text, Archived
  <2> QED BY <2>1, <2>2 DEF FileInv, FileShape, FileRequests, RowsOfFile, FileHistory,
                            VersionsDistinct, VersionsBounded, HistoryKept, OldTextsKept
<1> QED BY <1>1, <1>2, <1>3, <1>4, <1>5, <1>6, <1>7 DEF FileNext

(* A file's archived versions have distinct numbers, are at most as many as  *)
(* are kept, and no text that was in the file is lost, unless two changes    *)
(* overlapped (conversation_service.py update_file_content, storage.py).     *)
THEOREM FileHistoryHolds == FileSpec => []FileHistory
<1>1. FileInv => FileHistory
  BY DEF FileInv
<1> QED BY <1>1, FileInitially, FileStep, PTL DEF FileSpec

-----------------------------------------------------------------------------
(* A user's drive: its spaces, files and folders.                           *)

Entry == [space : Nat, folder : Seq(Segment), dir : BOOLEAN, name : Segment \cup {"file"}]
IsDir(x) == drive.entry[x].dir

DriveShape ==
  /\ drive = [spaces |-> drive.spaces, entry |-> drive.entry]
  /\ drive.entry \in [Entries -> Entry] /\ drive.spaces \subseteq BrowseRequest
  /\ \A s \in drive.spaces : breq[s].op = "done"
  /\ \A x \in Entries : IsDir(x) => drive.entry[x].space \in drive.spaces /\ drive.entry[x].name \in Segment
  /\ \A x \in Entries \cap BrowseRequest : breq[x].op = "done"
  /\ bhist = [overlap |-> bhist.overlap] /\ bhist.overlap \in BOOLEAN

(* What a handler has loaded.                                               *)
Asked(q) ==
  /\ q.op \in {"fresh", "done", "upload", "folder", "move", "delete"}
  /\ q.op \in {"upload", "folder"} => q.space \in BrowseRequest
  /\ q.op \in {"upload", "folder", "move"} => q.folder \in Seq(Segment)
  /\ q.op = "folder" =>
       /\ q = [op |-> "folder", space |-> q.space, folder |-> q.folder, name |-> q.name]
       /\ q.name \in Segment

BrowseRequests ==
  /\ breq = [i \in BrowseRequest |-> breq[i]]
  /\ \A i \in BrowseRequest : Asked(breq[i])
  /\ \A i \in BrowseRequest : breq[i].op = "folder" => breq[breq[i].space].op = "done"
  /\ \A i \in BrowseRequest : breq[i].op = "move" =>
       /\ breq[i].of \in Entries => ~IsDir(breq[i].of)
       /\ breq[i].of \in BrowseRequest => breq[breq[i].of].op = "done"

(* A request that is to make a space, or this folder.                       *)
Founds(i)        == breq[i].op = "upload" /\ breq[i].space = i
SameFolder(q, e) == e.dir /\ e.space = q.space /\ e.folder = q.folder /\ e.name = q.name

Alone ==
  /\ \A i, j \in BrowseRequest : Founds(i) /\ Founds(j) => i = j
  /\ \A i \in BrowseRequest : Founds(i) => drive.spaces = {}
  /\ \A i \in BrowseRequest : breq[i].op = "folder" =>
       /\ \A x \in Entries : ~SameFolder(breq[i], drive.entry[x])
       /\ \A j \in BrowseRequest : breq[j] = breq[i] => i = j

BrowseInv == DriveShape /\ BrowseRequests /\ (bhist.overlap \/ Alone) /\ OneSpace

(* A folder above another shows the one between.                            *)
LEMMA NextShown ==
  ASSUME NEW p \in Seq(Segment), NEW k \in 0..(Len(p) - 1)
  PROVE  /\ StartsWith(p, SubSeq(p, 1, k))
         /\ ShownThrough(p, SubSeq(p, 1, k)) = SubSeq(p, 1, k + 1)
<1> DEFINE above == SubSeq(p, 1, k)
           rest  == SubSeq(p, k + 1, Len(p))
<1>1. k \in Nat /\ Len(p) \in Nat /\ k < Len(p)
  OBVIOUS
<1>2. above \in Seq(Segment) /\ Len(above) = k /\ \A i \in 1..k : above[i] = p[i]
  BY <1>1, SubSeqProperties
<1>3. rest \in Seq(Segment) /\ Len(rest) = Len(p) - k /\ rest[1] = p[k + 1]
  BY <1>1, SubSeqProperties
<1>4. k > 0 => p[k] = above[k]
  BY <1>1, <1>2
<1>5. StartsWith(p, above)
  <2>1. CASE k = 0
    BY <1>1, <1>2, <2>1 DEF StartsWith
  <2>2. CASE k > 0
    <3>1. SubSeq(above, 1, k - 1) = SubSeq(p, 1, k - 1)
      BY <1>1, <2>2, SubSeqOfSubSeq
    <3>2. p # above
      BY <1>1, <1>2
    <3> HIDE DEF above
    <3> QED BY <1>1, <1>2, <1>4, <2>2, <3>1, <3>2 DEF StartsWith
  <2> QED BY <1>1, <2>1, <2>2
<1>6. ShownThrough(p, above) = IF Len(rest) > 1 THEN Append(above, Head(rest)) ELSE p
  <2>1. k = 0 \/ p[k] = above[k]
    BY <1>1, <1>4
  <2> HIDE DEF above
  <2> QED BY <1>2, <2>1 DEF ShownThrough
<1>7. SubSeq(p, 1, k + 1) = SubSeq(p, 1, k) \o <<p[k + 1]>>
  BY <1>1, SubSeqRecursiveSecond
<1>8. CASE Len(rest) > 1
  <2>1. Head(rest) = p[k + 1]
    BY <1>3
  <2>2. Append(above, p[k + 1]) = above \o <<p[k + 1]>>
    BY <1>1, <1>2, AppendIsConcat, ElementOfSeq
  <2> QED BY <1>5, <1>6, <1>7, <1>8, <2>1, <2>2
<1>9. CASE ~(Len(rest) > 1)
  <2>1. k + 1 = Len(p)
    BY <1>1, <1>3, <1>9
  <2>2. SubSeq(p, 1, k + 1) = p
    BY <2>1, SubSeqFull
  <2> QED BY <1>5, <1>6, <1>9, <2>2
<1> QED BY <1>8, <1>9

LEMMA AllReached == DriveShape => FilesReached
<1> SUFFICES ASSUME DriveShape, NEW s \in drive.spaces, NEW p \in Paths(s), NEW k \in 0..(Len(p) - 1)
             PROVE  SubSeq(p, 1, k + 1) \in Subfolders(s, SubSeq(p, 1, k))
  BY DEF FilesReached
<1>1. p \in Seq(Segment)
  BY DEF Paths, Inside, DriveShape, Entry
<1>2. StartsWith(p, SubSeq(p, 1, k)) /\ ShownThrough(p, SubSeq(p, 1, k)) = SubSeq(p, 1, k + 1)
  BY <1>1, NextShown
<1> DEFINE above == SubSeq(p, 1, k)
           next  == SubSeq(p, 1, k + 1)
<1> HIDE DEF above, next
<1>3. StartsWith(p, above) /\ ShownThrough(p, above) = next
  BY <1>2 DEF above, next
<1>4. next \in Subfolders(s, above)
  BY <1>3 DEF Subfolders, SubfoldersBy
<1> QED BY <1>4 DEF above, next

LEMMA BrowseInitially == BrowseInit => BrowseInv
<1> SUFFICES ASSUME BrowseInit PROVE BrowseInv
  OBVIOUS
<1> DEFINE first == MaxBrowseRequests + 1
           e     == [space |-> AgentSpace, folder |-> <<>>, dir |-> FALSE, name |-> "file"]
<1>1. /\ drive = [spaces |-> {}, entry |-> [x \in {first} |-> e]]
      /\ breq = [i \in BrowseRequest |-> breq[i]] /\ \A i \in BrowseRequest : breq[i].op = "fresh"
      /\ bhist = [overlap |-> FALSE]
  BY DEF BrowseInit
<1>2. Entries = {first} /\ drive.spaces = {} /\ drive.entry[first] = e
  BY <1>1 DEF Entries
<1>3. e \in Entry /\ ~e.dir
  BY DEF Entry, AgentSpace
<1>4. first \notin BrowseRequest
  BY BrowserConstants DEF BrowseRequest
<1> HIDE DEF e, first
<1>5. drive.entry \in [Entries -> Entry]
  BY <1>1, <1>2, <1>3
<1>6. DriveShape
  BY <1>1, <1>2, <1>3, <1>4, <1>5 DEF DriveShape, IsDir
<1>7. BrowseRequests /\ Alone
  BY <1>1, <1>2 DEF BrowseRequests, Alone, Asked, Founds
<1>8. OneSpace
  BY <1>2, <1>3 DEF OneSpace
<1> QED BY <1>6, <1>7, <1>8 DEF BrowseInv

LEMMA BrowseGoes ==
  ASSUME BrowseInv, NEW i \in BrowseRequest, NEW q, breq' = [breq EXCEPT ![i] = q]
  PROVE  /\ breq' = [j \in BrowseRequest |-> breq'[j]] /\ breq'[i] = q
         /\ \A j \in BrowseRequest \ {i} : breq'[j] = breq[j]
BY DEF BrowseInv, BrowseRequests

(* A handler has loaded what it needs.                                      *)
LEMMA BrowseBegins ==
  ASSUME BrowseInv, NEW i \in BrowseRequest, NEW q, Asks(i, q), Asked(q), q.op # "fresh",
         q.op = "move" => q.of \in Entries /\ ~IsDir(q.of),
         q.op = "folder" => q.space \in drive.spaces,
         bhist' = [overlap |-> bhist'.overlap], bhist'.overlap \in BOOLEAN,
         bhist.overlap => bhist'.overlap,
         ~bhist'.overlap =>
           /\ q.op = "upload" /\ q.space = i => /\ drive.spaces = {}
                                                /\ \A j \in BrowseRequest : ~Founds(j)
           /\ q.op = "folder" => /\ \A x \in Entries : ~SameFolder(q, drive.entry[x])
                                 /\ \A j \in BrowseRequest : breq[j] # q
  PROVE  BrowseInv'
<1>1. breq[i].op = "fresh" /\ breq' = [breq EXCEPT ![i] = q] /\ drive' = drive
  BY DEF Asks
<1>2. /\ breq' = [j \in BrowseRequest |-> breq'[j]] /\ breq'[i] = q
      /\ \A j \in BrowseRequest \ {i} : breq'[j] = breq[j]
  BY <1>1, BrowseGoes
<1>3. Entries' = Entries /\ \A x : IsDir(x)' = IsDir(x)
  BY <1>1 DEF Entries, IsDir
<1>4. \A j \in BrowseRequest : breq[j].op = "done" => breq'[j].op = "done"
  BY <1>1, <1>2
<1>5. DriveShape'
  BY <1>1, <1>3, <1>4 DEF BrowseInv, DriveShape
<1>6. BrowseRequests'
  <2>1. \A j \in BrowseRequest : Asked(breq'[j])
    BY <1>2 DEF BrowseInv, BrowseRequests
  <2>2. ASSUME NEW j \in BrowseRequest, breq'[j].op = "folder" PROVE breq'[breq'[j].space].op = "done"
    <3>1. CASE j = i
      BY <1>2, <1>4, <2>2, <3>1 DEF BrowseInv, DriveShape
    <3>2. CASE j # i
      <4>1. breq[j].space \in BrowseRequest /\ breq[breq[j].space].op = "done" /\ breq'[j] = breq[j]
        BY <1>2, <2>2, <3>2 DEF BrowseInv, BrowseRequests, Asked
      <4> QED BY <1>4, <4>1
    <3> QED BY <3>1, <3>2
  <2>3. ASSUME NEW j \in BrowseRequest, breq'[j].op = "move"
        PROVE  /\ breq'[j].of \in Entries => ~IsDir(breq'[j].of)
               /\ breq'[j].of \in BrowseRequest => breq'[breq'[j].of].op = "done"
    BY <1>2, <1>4, <2>3 DEF BrowseInv, BrowseRequests, DriveShape
  <2> QED BY <1>2, <1>3, <2>1, <2>2, <2>3 DEF BrowseRequests
<1>7. ASSUME ~bhist'.overlap PROVE Alone'
  <2>1. Alone
    BY <1>7 DEF BrowseInv
  <2>2. \A j \in BrowseRequest : Founds(j)' => (j = i /\ q.op = "upload" /\ q.space = i) \/ (j # i /\ Founds(j))
    BY <1>2 DEF Founds
  <2>3. \A j, k \in BrowseRequest : Founds(j)' /\ Founds(k)' => j = k
    BY <1>7, <2>1, <2>2 DEF Alone
  <2>4. \A j \in BrowseRequest : Founds(j)' => drive.spaces = {}
    BY <1>7, <2>1, <2>2 DEF Alone
  <2>5. ASSUME NEW j \in BrowseRequest, breq'[j].op = "folder"
        PROVE  /\ \A x \in Entries : ~SameFolder(breq'[j], drive.entry[x])
               /\ \A k \in BrowseRequest : breq'[k] = breq'[j] => j = k
    <3>1. CASE j = i
      BY <1>2, <1>7, <2>5, <3>1
    <3>2. CASE j # i
      BY <1>2, <1>7, <2>1, <2>5, <3>2 DEF Alone
    <3> QED BY <3>1, <3>2
  <2> QED BY <1>1, <1>3, <2>3, <2>4, <2>5 DEF Alone
<1>8. OneSpace'
  BY <1>1, <1>3 DEF BrowseInv, OneSpace
<1> QED BY <1>5, <1>6, <1>7, <1>8 DEF BrowseInv

LEMMA AsksBegin ==
  ASSUME BrowseInv, NEW i \in BrowseRequest,
         BeginUploadStandalone(i) \/ BeginCreateFolder(i) \/ BeginMoveFile(i) \/ BeginDeleteEntry(i)
  PROVE  BrowseInv'
<1>1. Asked(Answered) /\ Answered.op = "done"
  BY DEF Asked, Answered
<1>2. bhist = [overlap |-> bhist.overlap] /\ bhist.overlap \in BOOLEAN
  BY DEF BrowseInv, DriveShape
<1>3. FolderPath \subseteq Seq(Segment) /\ drive.spaces \subseteq BrowseRequest
  BY BrowserConstants DEF BrowseInv, DriveShape
<1>4. CASE BeginUploadStandalone(i)
  <2>1. PICK f \in FolderPath, s \in IF drive.spaces = {} THEN {i} ELSE drive.spaces :
          Asks(i, [op |-> "upload", space |-> s, folder |-> f])
    BY <1>4 DEF BeginUploadStandalone
  <2> DEFINE q == [op |-> "upload", space |-> s, folder |-> f]
  <2>2. Asked(q) /\ q.op = "upload" /\ q.space = s
    BY <1>3 DEF Asked
  <2>3. Asks(i, q)
    BY <2>1
  <2> HIDE DEF q
  <2>4. CASE drive.spaces # {}
    <3>1. bhist' = bhist /\ breq[s].op = "done" /\ s \in drive.spaces
      BY <1>4, <2>4 DEF BeginUploadStandalone, BrowseInv, DriveShape
    <3>2. s # i
      BY <2>3, <3>1 DEF Asks
    <3> QED BY <1>2, <2>2, <2>3, <3>1, <3>2, BrowseBegins
  <2>5. CASE drive.spaces = {}
    <3> DEFINE over == bhist.overlap \/ \E j \in BrowseRequest : breq[j].op = "upload" /\ breq[j].space = j
    <3>1. bhist' = [overlap |-> over]
      BY <1>2, <1>4, <2>5 DEF BeginUploadStandalone
    <3>2. over \in BOOLEAN /\ (bhist.overlap => over) /\ (~over => \A j \in BrowseRequest : ~Founds(j))
      BY <1>2 DEF Founds
    <3> HIDE DEF over
    <3> QED BY <2>2, <2>3, <2>5, <3>1, <3>2, BrowseBegins
  <2> QED BY <2>4, <2>5
<1>5. CASE BeginCreateFolder(i)
  <2>1. PICK f \in FolderPath, n \in Segment :
          IF drive.spaces = {} THEN Asks(i, Answered) /\ UNCHANGED bhist
          ELSE \E s \in drive.spaces :
            /\ Asks(i, IF \E x \in FoldersIn(s, f) : drive.entry[x].name = n THEN Answered
                       ELSE [op |-> "folder", space |-> s, folder |-> f, name |-> n])
            /\ bhist' = [bhist EXCEPT !.overlap = @ \/ \E j \in BrowseRequest :
                 breq[j].op = "folder" /\ breq[j] = breq'[i]]
    BY <1>5 DEF BeginCreateFolder
  <2>2. CASE drive.spaces = {}
    <3>1. Asks(i, Answered) /\ bhist' = bhist
      BY <2>1, <2>2
    <3> QED BY <1>1, <1>2, <3>1, BrowseBegins
  <2>3. CASE drive.spaces # {}
    <3>1. PICK s \in drive.spaces :
            /\ Asks(i, IF \E x \in FoldersIn(s, f) : drive.entry[x].name = n THEN Answered
                       ELSE [op |-> "folder", space |-> s, folder |-> f, name |-> n])
            /\ bhist' = [bhist EXCEPT !.overlap = @ \/ \E j \in BrowseRequest :
                 breq[j].op = "folder" /\ breq[j] = breq'[i]]
      BY <2>1, <2>3
    <3> DEFINE over == bhist.overlap \/ \E j \in BrowseRequest : breq[j].op = "folder" /\ breq[j] = breq'[i]
               q    == [op |-> "folder", space |-> s, folder |-> f, name |-> n]
    <3>2. bhist' = [overlap |-> over] /\ over \in BOOLEAN /\ (bhist.overlap => over)
      BY <1>2, <3>1
    <3>3. CASE \E x \in FoldersIn(s, f) : drive.entry[x].name = n
      <4>1. Asks(i, Answered)
        BY <3>1, <3>3
      <4> HIDE DEF over
      <4> QED BY <1>1, <3>2, <4>1, BrowseBegins
    <3>4. CASE ~\E x \in FoldersIn(s, f) : drive.entry[x].name = n
      <4>1. Asks(i, q)
        BY <3>1, <3>4
      <4>2. /\ q.op = "folder" /\ q.space = s /\ Asked(q)
            /\ \A x \in Entries : ~SameFolder(q, drive.entry[x])
        BY <1>3, <3>4 DEF Asked, FoldersIn, Inside, SameFolder
      <4> HIDE DEF q
      <4>3. breq'[i] = q
        BY <4>1, BrowseGoes DEF Asks
      <4>4. ~over => \A j \in BrowseRequest : breq[j] # q
        BY <4>2, <4>3
      <4> HIDE DEF over
      <4> QED BY <3>2, <4>1, <4>2, <4>4, BrowseBegins
    <3> QED BY <3>3, <3>4
  <2> QED BY <2>2, <2>3
<1>6. CASE BeginMoveFile(i)
  <2>0. PICK x \in Entries, s \in drive.spaces :
          /\ ~drive.entry[x].dir /\ bhist' = bhist
          /\ \E f \in Targets(s) : Asks(i, [op |-> "move", of |-> x, folder |-> f])
    BY <1>6 DEF BeginMoveFile
  <2>1. PICK f \in Targets(s) : Asks(i, [op |-> "move", of |-> x, folder |-> f])
    BY <2>0
  <2> DEFINE q == [op |-> "move", of |-> x, folder |-> f]
  <2>2. f \in Seq(Segment)
    <3>1. \A y \in Inside(s) : /\ drive.entry[y].folder \in Seq(Segment)
                               /\ drive.entry[y].dir => drive.entry[y].name \in Segment
      BY DEF BrowseInv, DriveShape, Inside, Entry, IsDir
    <3>2. \A y \in Inside(s) : drive.entry[y].dir =>
            Append(drive.entry[y].folder, drive.entry[y].name) \in Seq(Segment)
      BY <3>1, AppendProperties
    <3>3. <<>> \in Seq(Segment)
      OBVIOUS
    <3>4. \/ f = <<>> \/ \E y \in Inside(s) : f = drive.entry[y].folder
          \/ \E y \in Inside(s) :
               drive.entry[y].dir /\ f = Append(drive.entry[y].folder, drive.entry[y].name)
      BY DEF Targets, Paths
    <3> QED BY <3>1, <3>2, <3>3, <3>4
  <2>3. Asked(q) /\ q.op = "move" /\ q.of \in Entries /\ ~IsDir(q.of)
    BY <2>0, <2>2 DEF Asked, IsDir
  <2>4. Asks(i, q) /\ bhist' = bhist
    BY <2>0, <2>1
  <2> HIDE DEF q
  <2> QED BY <1>2, <2>3, <2>4, BrowseBegins
<1>7. CASE BeginDeleteEntry(i)
  <2>1. PICK x \in Entries : Asks(i, [op |-> "delete", gone |-> {x}]) /\ bhist' = bhist
    BY <1>7 DEF BeginDeleteEntry
  <2> DEFINE q == [op |-> "delete", gone |-> {x}]
  <2>2. Asked(q) /\ q.op = "delete" /\ Asks(i, q) /\ bhist' = bhist
    BY <2>1 DEF Asked
  <2> HIDE DEF q
  <2> QED BY <1>2, <2>2, BrowseBegins
<1> QED BY <1>4, <1>5, <1>6, <1>7

(* A request ends and the drive changes: no folder is new but that of i, no  *)
(* space but that of i.                                                     *)
LEMMA BrowseEnds ==
  ASSUME BrowseInv, NEW i \in BrowseRequest, NEW spaces, NEW entry, Replies(i), bhist' = bhist,
         breq[i].op \notin {"fresh", "done"}, DOMAIN entry \subseteq Entries \cup {i},
         drive' = [spaces |-> spaces, entry |-> entry], entry \in [DOMAIN entry -> Entry],
         spaces \subseteq BrowseRequest,
         \A s \in spaces : s \in drive.spaces \/ (s = i /\ Founds(i)),
         \A x \in DOMAIN entry : entry[x].dir =>
           /\ entry[x].space \in spaces /\ entry[x].name \in Segment
           /\ \/ x \in Entries /\ IsDir(x) /\ entry[x] = drive.entry[x]
              \/ x = i /\ breq[i].op = "folder" /\ SameFolder(breq[i], entry[i])
  PROVE  BrowseInv'
<1>1. breq' = [breq EXCEPT ![i] = Answered] /\ Answered.op = "done" /\ Asked(Answered)
  BY DEF Replies, Answered, Asked
<1>2. /\ breq' = [j \in BrowseRequest |-> breq'[j]] /\ breq'[i] = Answered
      /\ \A j \in BrowseRequest \ {i} : breq'[j] = breq[j]
  BY <1>1, BrowseGoes
<1>3. /\ Entries' = DOMAIN entry /\ drive'.spaces = spaces /\ drive'.entry = entry
      /\ \A x \in DOMAIN entry : IsDir(x)' = entry[x].dir
  BY DEF Entries, IsDir
<1>4. \A j \in BrowseRequest : (breq[j].op = "done" \/ j = i) => breq'[j].op = "done"
  BY <1>1, <1>2
<1>5. DriveShape'
  BY <1>3, <1>4 DEF BrowseInv, DriveShape
<1>6. BrowseRequests'
  <2>1. \A j \in BrowseRequest : Asked(breq'[j])
    BY <1>1, <1>2 DEF BrowseInv, BrowseRequests
  <2>2. ASSUME NEW j \in BrowseRequest, breq'[j].op = "folder" PROVE breq'[breq'[j].space].op = "done"
    <3>1. /\ breq'[j] = breq[j] /\ breq[j].space \in BrowseRequest
          /\ breq[breq[j].space].op = "done"
      BY <1>1, <1>2, <2>2 DEF BrowseInv, BrowseRequests, Asked
    <3> QED BY <1>4, <3>1
  <2>3. ASSUME NEW j \in BrowseRequest, breq'[j].op = "move"
        PROVE  /\ breq'[j].of \in DOMAIN entry => ~entry[breq'[j].of].dir
               /\ breq'[j].of \in BrowseRequest => breq'[breq'[j].of].op = "done"
    <3>1. j # i /\ breq'[j] = breq[j]
      BY <1>1, <1>2, <2>3
    <3>2. /\ breq[j].of \in Entries => ~IsDir(breq[j].of)
          /\ breq[j].of \in BrowseRequest => breq[breq[j].of].op = "done"
      BY <2>3, <3>1 DEF BrowseInv, BrowseRequests
    <3>3. breq[j].of # i
      BY <3>2
    <3>4. breq[j].of \in DOMAIN entry => ~entry[breq[j].of].dir
      BY <3>2, <3>3
    <3> QED BY <1>4, <3>1, <3>2, <3>4
  <2> QED BY <1>2, <1>3, <2>1, <2>2, <2>3 DEF BrowseRequests, IsDir
<1>7. ASSUME ~bhist.overlap PROVE Alone'
  <2>1. Alone
    BY <1>7 DEF BrowseInv
  <2>2. \A j \in BrowseRequest : Founds(j)' => j # i /\ Founds(j)
    BY <1>1, <1>2 DEF Founds
  <2>3. \A j, k \in BrowseRequest : Founds(j)' /\ Founds(k)' => j = k
    BY <2>1, <2>2 DEF Alone
  <2>4. \A j \in BrowseRequest : Founds(j)' => spaces = {}
    BY <2>1, <2>2 DEF Alone
  <2>5. ASSUME NEW j \in BrowseRequest, breq'[j].op = "folder"
        PROVE  /\ \A x \in DOMAIN entry : ~SameFolder(breq'[j], entry[x])
               /\ \A k \in BrowseRequest : breq'[k] = breq'[j] => j = k
    <3>1. j # i /\ breq'[j] = breq[j]
      BY <1>1, <1>2, <2>5
    <3>2. /\ \A x \in Entries : ~SameFolder(breq[j], drive.entry[x])
          /\ \A k \in BrowseRequest : breq[k] = breq[j] => j = k
      BY <2>1, <2>5, <3>1 DEF Alone
    <3>3. ASSUME breq[i].op = "folder", SameFolder(breq[i], entry[i]), SameFolder(breq[j], entry[i])
          PROVE  FALSE
      <4>1. breq[i] = [op |-> "folder", space |-> entry[i].space, folder |-> entry[i].folder,
                       name |-> entry[i].name]
        BY <3>3 DEF BrowseInv, BrowseRequests, Asked, SameFolder
      <4>2. breq[j] = [op |-> "folder", space |-> entry[i].space, folder |-> entry[i].folder,
                       name |-> entry[i].name]
        BY <2>5, <3>1, <3>3 DEF BrowseInv, BrowseRequests, Asked, SameFolder
      <4> QED BY <3>1, <3>2, <4>1, <4>2
    <3>4. ASSUME NEW x \in DOMAIN entry, SameFolder(breq[j], entry[x]) PROVE FALSE
      BY <3>2, <3>3, <3>4 DEF SameFolder
    <3> QED BY <1>1, <1>2, <2>5, <3>1, <3>2, <3>4
  <2> QED BY <1>3, <2>3, <2>4, <2>5 DEF Alone
<1>8. OneSpace'
  <2> SUFFICES ASSUME ~bhist.overlap
               PROVE  /\ \A s, t \in spaces : s = t
                      /\ \A x, y \in DOMAIN entry : entry[x].dir /\ entry[y].dir /\ x # y =>
                           <<entry[x].folder, entry[x].name>> # <<entry[y].folder, entry[y].name>>
    BY <1>3 DEF OneSpace
  <2>1. /\ Alone /\ \A s, t \in drive.spaces : s = t
        /\ \A x, y \in Entries : IsDir(x) /\ IsDir(y) /\ x # y =>
             drive.entry[x].folder # drive.entry[y].folder \/ drive.entry[x].name # drive.entry[y].name
    BY DEF BrowseInv, OneSpace, IsDir
  <2>2. \A s, t \in spaces : s = t
    BY <2>1 DEF Alone
  <2>3. ASSUME NEW y \in Entries, IsDir(y), i \in DOMAIN entry, breq[i].op = "folder",
               SameFolder(breq[i], entry[i])
        PROVE  entry[i].folder # drive.entry[y].folder \/ entry[i].name # drive.entry[y].name
    <3>1. entry[i].space \in drive.spaces /\ drive.entry[y].space \in drive.spaces
      BY <2>3 DEF SameFolder, Founds, BrowseInv, DriveShape
    <3>2. entry[i].space = drive.entry[y].space
      BY <2>1, <3>1
    <3>3. ~SameFolder(breq[i], drive.entry[y])
      BY <2>1, <2>3 DEF Alone
    <3> QED BY <2>3, <3>2, <3>3 DEF SameFolder, IsDir
  <2>4. ASSUME NEW x \in DOMAIN entry, NEW y \in DOMAIN entry, entry[x].dir, entry[y].dir, x # y
        PROVE  entry[x].folder # entry[y].folder \/ entry[x].name # entry[y].name
    BY <2>1, <2>3, <2>4
  <2> QED BY <2>2, <2>4
<1> QED BY <1>5, <1>6, <1>7, <1>8 DEF BrowseInv

(* An upload or a new folder; nothing is written into a space that is gone. *)
LEMMA AddsKeep ==
  ASSUME BrowseInv, NEW i \in BrowseRequest, UploadStandalone(i) \/ CreateFolder(i)
  PROVE  BrowseInv'
<1> DEFINE q == breq[i]
<1>1. PICK dir \in BOOLEAN, name \in Segment \cup {"file"} :
        /\ q.op = (IF dir THEN "folder" ELSE "upload") /\ Replies(i) /\ bhist' = bhist
        /\ dir => name = q.name /\ name \in Segment
        /\ drive' = IF q.space # i /\ q.space \notin drive.spaces THEN drive ELSE
             [spaces |-> drive.spaces \cup {q.space},
              entry  |-> [x \in Entries \cup {i} |->
                IF x # i THEN drive.entry[x]
                ELSE [space |-> q.space, folder |-> q.folder, dir |-> dir, name |-> name]]]
  <2>1. CASE UploadStandalone(i)
    BY <2>1 DEF UploadStandalone, Adds
  <2>2. CASE CreateFolder(i)
    <3>1. q.op = "folder"
      BY <2>2 DEF CreateFolder, Adds
    <3>2. q.name \in Segment
      BY <3>1 DEF BrowseInv, BrowseRequests, Asked
    <3> QED BY <2>2, <3>1, <3>2 DEF CreateFolder, Adds
  <2> QED BY <2>1, <2>2
<1>2. q.space \in BrowseRequest /\ q.folder \in Seq(Segment)
  BY <1>1 DEF BrowseInv, BrowseRequests, Asked
<1>3. i \notin Entries
  BY <1>1 DEF BrowseInv, DriveShape
<1>4. /\ drive = [spaces |-> drive.spaces, entry |-> drive.entry]
      /\ drive.entry \in [Entries -> Entry] /\ drive.spaces \subseteq BrowseRequest
      /\ \A x \in Entries : drive.entry[x].dir =>
           /\ drive.entry[x].space \in drive.spaces /\ drive.entry[x].name \in Segment /\ IsDir(x)
  BY DEF BrowseInv, DriveShape, IsDir
<1>5. CASE q.space # i /\ q.space \notin drive.spaces
  <2>1. drive' = [spaces |-> drive.spaces, entry |-> drive.entry]
    BY <1>1, <1>4, <1>5
  <2> QED BY <1>1, <1>4, <2>1, BrowseEnds
<1>6. CASE q.space = i \/ q.space \in drive.spaces
  <2> DEFINE e      == [space |-> q.space, folder |-> q.folder, dir |-> dir, name |-> name]
             spaces == drive.spaces \cup {q.space}
             entry  == [x \in Entries \cup {i} |-> IF x # i THEN drive.entry[x] ELSE e]
  <2>1. e \in Entry /\ e.dir = dir /\ e.space = q.space /\ e.folder = q.folder /\ e.name = name
    BY <1>1, <1>2, BrowserConstants DEF Entry, BrowseRequest
  <2>2. drive' = [spaces |-> spaces, entry |-> entry]
    BY <1>1, <1>6
  <2> HIDE DEF e
  <2>3. /\ DOMAIN entry = Entries \cup {i} /\ entry[i] = e /\ entry \in [DOMAIN entry -> Entry]
        /\ \A x \in Entries : entry[x] = drive.entry[x]
    BY <1>3, <1>4, <2>1
  <2> HIDE DEF entry
  <2>4. q.op = "folder" => q.space # i
    BY DEF BrowseInv, BrowseRequests
  <2>5. \A s \in spaces : s \in drive.spaces \/ (s = i /\ Founds(i))
    BY <1>1, <1>6, <2>4 DEF Founds
  <2>6. spaces \subseteq BrowseRequest
    BY <1>2, <1>4
  <2>7. ASSUME NEW x \in DOMAIN entry, entry[x].dir
        PROVE  /\ entry[x].space \in spaces /\ entry[x].name \in Segment
               /\ \/ x \in Entries /\ IsDir(x) /\ entry[x] = drive.entry[x]
                  \/ x = i /\ breq[i].op = "folder" /\ SameFolder(breq[i], entry[i])
    <3>1. CASE x \in Entries
      BY <1>4, <2>3, <2>7, <3>1
    <3>2. CASE x = i
      BY <1>1, <2>1, <2>3, <2>7, <3>2 DEF SameFolder
    <3> QED BY <2>3, <3>1, <3>2
  <2> HIDE DEF spaces
  <2> QED BY <1>1, <2>2, <2>3, <2>5, <2>6, <2>7, BrowseEnds
<1> QED BY <1>5, <1>6

(* A file changes its folder.                                               *)
LEMMA MoveKeeps ==
  ASSUME BrowseInv, NEW i \in BrowseRequest, MoveFile(i)
  PROVE  BrowseInv'
<1> DEFINE q == breq[i]
<1>1. /\ q.op = "move" /\ Replies(i) /\ bhist' = bhist
      /\ drive' = IF q.of \in Entries THEN [drive EXCEPT !.entry[q.of].folder = q.folder] ELSE drive
  BY DEF MoveFile
<1>2. q.folder \in Seq(Segment) /\ (q.of \in Entries => ~IsDir(q.of))
  BY <1>1 DEF BrowseInv, BrowseRequests, Asked
<1>3. /\ drive = [spaces |-> drive.spaces, entry |-> drive.entry]
      /\ drive.entry \in [Entries -> Entry] /\ drive.spaces \subseteq BrowseRequest
      /\ \A x \in Entries : drive.entry[x].dir =>
           /\ drive.entry[x].space \in drive.spaces /\ drive.entry[x].name \in Segment /\ IsDir(x)
  BY DEF BrowseInv, DriveShape, IsDir
<1>4. CASE q.of \notin Entries
  <2>1. drive' = [spaces |-> drive.spaces, entry |-> drive.entry]
    BY <1>1, <1>3, <1>4
  <2> QED BY <1>1, <1>3, <2>1, BrowseEnds
<1>5. CASE q.of \in Entries
  <2> DEFINE e     == [drive.entry[q.of] EXCEPT !.folder = q.folder]
             entry == [drive.entry EXCEPT ![q.of] = e]
  <2>1. e \in Entry /\ ~e.dir
    BY <1>2, <1>3, <1>5 DEF Entry, IsDir
  <2>2. drive' = [spaces |-> drive.spaces, entry |-> entry]
    BY <1>1, <1>3, <1>5
  <2> HIDE DEF e
  <2>3. /\ DOMAIN entry = Entries /\ entry \in [DOMAIN entry -> Entry] /\ entry[q.of] = e
        /\ \A x \in Entries \ {q.of} : entry[x] = drive.entry[x]
    BY <1>3, <1>5, <2>1
  <2> HIDE DEF entry
  <2>4. \A x \in DOMAIN entry : entry[x].dir =>
          /\ entry[x].space \in drive.spaces /\ entry[x].name \in Segment
          /\ x \in Entries /\ IsDir(x) /\ entry[x] = drive.entry[x]
    BY <1>3, <2>1, <2>3
  <2> QED BY <1>1, <1>3, <2>2, <2>3, <2>4, BrowseEnds
<1> QED BY <1>4, <1>5

LEMMA DeletesKeep ==
  ASSUME BrowseInv, NEW i \in BrowseRequest, DeleteEntry(i)
  PROVE  BrowseInv'
<1> DEFINE entry == [x \in Entries \ breq[i].gone |-> drive.entry[x]]
<1>1. /\ drive = [spaces |-> drive.spaces, entry |-> drive.entry]
      /\ drive.entry \in [Entries -> Entry] /\ drive.spaces \subseteq BrowseRequest
      /\ \A x \in Entries : drive.entry[x].dir =>
           /\ drive.entry[x].space \in drive.spaces /\ drive.entry[x].name \in Segment /\ IsDir(x)
  BY DEF BrowseInv, DriveShape, IsDir
<1>2. /\ breq[i].op = "delete" /\ Replies(i) /\ bhist' = bhist
      /\ drive' = [spaces |-> drive.spaces, entry |-> entry]
  BY <1>1 DEF DeleteEntry
<1>3. /\ DOMAIN entry \subseteq Entries /\ entry \in [DOMAIN entry -> Entry]
      /\ \A x \in DOMAIN entry : entry[x] = drive.entry[x]
  BY <1>1
<1> HIDE DEF entry
<1> QED BY <1>1, <1>2, <1>3, BrowseEnds

(* A space goes with all that is in it.                                     *)
LEMMA DeleteSpaceKeeps ==
  ASSUME BrowseInv, DeleteSpace
  PROVE  BrowseInv'
<1>1. PICK s \in drive.spaces :
        drive' = [spaces |-> drive.spaces \ {s}, entry |-> [x \in Entries \ Inside(s) |-> drive.entry[x]]]
  BY DEF DeleteSpace
<1>2. breq' = breq /\ bhist' = bhist
  BY DEF DeleteSpace
<1>3. /\ Entries' = Entries \ Inside(s) /\ drive'.spaces = drive.spaces \ {s}
      /\ \A x \in Entries' : drive'.entry[x] = drive.entry[x]
      /\ drive'.entry = [x \in Entries' |-> drive'.entry[x]]
  BY <1>1 DEF Entries
<1>4. \A x \in Entries' : x \in Entries /\ drive.entry[x].space # s
  BY <1>3 DEF Inside
<1>5. drive' = [spaces |-> drive'.spaces, entry |-> drive'.entry]
  BY <1>1
<1>6. DriveShape'
  BY <1>2, <1>3, <1>4, <1>5 DEF BrowseInv, DriveShape, IsDir
<1>7. BrowseRequests'
  BY <1>2, <1>3, <1>4 DEF BrowseInv, BrowseRequests, IsDir
<1>8. ~bhist.overlap => Alone'
  BY <1>2, <1>3, <1>4 DEF BrowseInv, Alone, Founds
<1>9. OneSpace'
  BY <1>2, <1>3, <1>4 DEF BrowseInv, OneSpace
<1> QED BY <1>2, <1>6, <1>7, <1>8, <1>9 DEF BrowseInv

LEMMA BrowseStep == BrowseInv /\ [BrowseNext]_browseVars => BrowseInv'
<1> SUFFICES ASSUME BrowseInv, [BrowseNext]_browseVars PROVE BrowseInv'
  OBVIOUS
<1>1. ASSUME NEW i \in BrowseRequest,
             BeginUploadStandalone(i) \/ BeginCreateFolder(i) \/ BeginMoveFile(i) \/ BeginDeleteEntry(i)
      PROVE  BrowseInv'
  BY <1>1, AsksBegin
<1>2. ASSUME NEW i \in BrowseRequest, UploadStandalone(i) \/ CreateFolder(i) PROVE BrowseInv'
  BY <1>2, AddsKeep
<1>3. ASSUME NEW i \in BrowseRequest, MoveFile(i) PROVE BrowseInv'
  BY <1>3, MoveKeeps
<1>4. ASSUME NEW i \in BrowseRequest, DeleteEntry(i) PROVE BrowseInv'
  BY <1>4, DeletesKeep
<1>5. CASE DeleteSpace
  BY <1>5, DeleteSpaceKeeps
<1>6. CASE UNCHANGED browseVars
  BY <1>6 DEF browseVars, BrowseInv, DriveShape, BrowseRequests, Alone, OneSpace, Entries,
     IsDir, Founds
<1> QED BY <1>1, <1>2, <1>3, <1>4, <1>5, <1>6 DEF BrowseNext

(* Unless two first uploads or two creations of a folder overlapped, all     *)
(* standalone files are in one space and a folder is there once; every file  *)
(* is reached from the root, folder by folder (files_browser.py).            *)
THEOREM DriveReachedHolds == BrowseSpec => []DriveReached
<1>1. BrowseInv => DriveReached
  BY AllReached DEF BrowseInv, DriveReached
<1> QED BY <1>1, BrowseInitially, BrowseStep, PTL DEF BrowseSpec
============================================================================
