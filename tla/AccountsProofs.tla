---------------------------- MODULE AccountsProofs ----------------------------
(***************************************************************************)
(* Proofs about who may do what: the tenant's settings and limits, teams,  *)
(* accounts, and the sessions of a browser.                                *)
(***************************************************************************)
EXTENDS MCAccounts, FiniteSetTheorems, TLAPS

-----------------------------------------------------------------------------
(* The tenant's settings and limits.                                        *)

Acting == {"insert", "put", "toggle", "add", "delete", "propagate"}
AtGate == {"incr", "expire", "monthly"}

(* The limit of a payload, if it has one.                                    *)
Carried == {{}} \cup {{l} : l \in Limit}

AdmShape ==
  /\ adm = [i \in AdminRequest |-> adm[i]]
  /\ \A i \in AdminRequest :
       /\ adm[i].op \in Acting \cup {"fresh", "done"}
       /\ Busy(i) => adm[i] = [op |-> adm[i].op, then |-> adm[i].then, what |-> adm[i].what,
                               data |-> adm[i].data]
       /\ adm[i].op = "insert" => adm[i].then \in {"put", "toggle", "add", "delete"}
       /\ adm[i].op \in {"put", "propagate"} \/ (adm[i].op = "insert" /\ adm[i].then = "put") =>
            adm[i].what \in Carried

GatedShape ==
  /\ gated = [c \in LimitedCall |-> gated[c]]
  /\ \A c \in LimitedCall :
       /\ gated[c].op \in AtGate \cup {"fresh", "done"}
       /\ gated[c].op \in AtGate =>
            /\ gated[c] = [op |-> gated[c].op, gate |-> gated[c].gate, limit |-> gated[c].limit]
            /\ gated[c].gate \in Gate /\ gated[c].limit \in Nat \ {0}
       /\ gated[c].op = "monthly" => gated[c].gate = "send"

(* An admin at work is alone, or it is known that they overlapped.          *)
OneAdmin ==
  ~tenhist.raced =>
    /\ \A i, j \in AdminRequest : Busy(i) /\ Busy(j) => i = j
    /\ \A i \in AdminRequest : Busy(i) /\ adm[i].op # "propagate" => adm[i].data = tenant.row
    /\ \A i \in AdminRequest : adm[i].op = "propagate" =>
         adm[i].what = tenant.row.limit /\ adm[i].what \in {{}, tenhist.chosen}

(* What the settings show was chosen last, or is nothing; and until somebody *)
(* is about to change it the live limit is what was chosen.                  *)
LiveIsChosen ==
  \/ \E l \in tenhist.chosen : tenant.live = AtLeastOne(l)
  \/ tenhist.chosen = {} /\ tenant.live = 0
ShownIsChosen ==
  ~tenhist.raced =>
    /\ tenant.row.limit \in {{}, tenhist.chosen} \/ (tenhist.chosen = {} /\ tenant.row.limit = {ShownLimit})
    /\ (\A i \in AdminRequest : adm[i].op = "propagate" => adm[i].what = {}) => LiveIsChosen

(* What a window let through, the counter has counted.                      *)
PassedIsCounted ==
  \A g \in Gate : tenhist.passed[g] <= tenant.count[g].n /\ tenhist.passed[g] <= tenhist.top[g]

Owed == {c \in LimitedCall : gated[c].op = "monthly" \/ (gated[c].op = "expire" /\ gated[c].gate = "send")}

Counter   == [n : Nat, ttl : BOOLEAN]
ShowsAll(r) == r = [limit |-> r.limit, granted |-> r.granted, servers |-> r.servers]

TenantShape ==
  /\ tenant = [exists |-> tenant.exists, row |-> tenant.row, live |-> tenant.live,
               monthly |-> tenant.monthly, windows |-> tenant.windows, count |-> tenant.count]
  /\ ShowsAll(tenant.row) /\ tenant.live \in Nat
  /\ tenant.count \in [Gate -> Counter] /\ tenant.monthly \in Nat
  /\ tenhist = [raced |-> tenhist.raced, chosen |-> tenhist.chosen, passed |-> tenhist.passed,
                top |-> tenhist.top, leaked |-> tenhist.leaked, sends |-> tenhist.sends]
  /\ tenhist.raced \in BOOLEAN /\ tenhist.sends \in Int
  /\ tenhist.passed \in [Gate -> Nat] /\ tenhist.top \in [Gate -> Nat]

DataShape == \A i \in AdminRequest : Busy(i) => ShowsAll(adm[i].data)

TenantInv ==
  /\ TenantShape /\ AdmShape /\ DataShape /\ GatedShape
  /\ OneAdmin /\ ShownIsChosen
  /\ PassedIsCounted /\ CounterExpires /\ MonthCountsSends

LEMMA TenantInitially == TenantInit => TenantInv
<1> SUFFICES ASSUME TenantInit PROVE TenantInv
  OBVIOUS
<1> USE TenantConstants DEF TenantInit
<1>1. TenantShape
  <2>1. /\ tenant.row = DefaultRow /\ tenant.live = 0 /\ tenant.monthly = 0
        /\ tenant.count = [g \in Gate |-> [n |-> 0, ttl |-> FALSE]]
        /\ tenhist.raced = FALSE /\ tenhist.sends = 0
        /\ tenhist.passed = [g \in Gate |-> 0] /\ tenhist.top = [g \in Gate |-> 0]
    OBVIOUS
  <2>2. [n |-> 0, ttl |-> FALSE] \in Counter
    BY DEF Counter
  <2>3. tenant.count \in [Gate -> Counter]
    BY <2>1, <2>2
  <2>4. ShowsAll(DefaultRow)
    BY DEF ShowsAll, DefaultRow
  <2> QED BY <2>1, <2>3, <2>4 DEF TenantShape
<1>2. AdmShape /\ DataShape /\ OneAdmin
  BY DEF AdmShape, DataShape, OneAdmin, Busy
<1>3. GatedShape
  BY DEF GatedShape, AtGate
<1>4. ShownIsChosen /\ CounterExpires
  BY DEF ShownIsChosen, LiveIsChosen, CounterExpires, DefaultRow
<1>5. PassedIsCounted
  BY DEF PassedIsCounted
<1>6. MonthCountsSends
  <2>1. Owed = {}
    BY DEF Owed
  <2>2. tenant.monthly = 0 /\ tenhist.sends = 0
    OBVIOUS
  <2>3. Cardinality(Owed) = 0
    BY <2>1, FS_EmptySet
  <2> QED BY <2>2, <2>3 DEF MonthCountsSends, Owed
<1> QED BY <1>1, <1>2, <1>3, <1>4, <1>5, <1>6 DEF TenantInv

-----------------------------------------------------------------------------
(* Steps of an administrator and steps at a gate share no part of the state. *)

AdminActs(i) ==
  \/ PutSettings(i) \/ TogglePermission(i) \/ AddMcpServer(i) \/ DeleteMcpServer(i)
  \/ InsertDefaults(i) \/ FirstReadLoses(i) \/ StoreSettings(i) \/ StorePermission(i)
  \/ StoreServer(i) \/ DropServer(i) \/ SetRateLimit(i)

GateActs(c) ==
  AllowSend(c) \/ LoginGuard(c) \/ Incr(c) \/ Expire(c) \/ ExpireLost(c) \/ IncrMonthly(c)

GateView == <<gated, tenant.count, tenant.monthly, tenhist.passed, tenhist.top, tenhist.leaked,
              tenhist.sends>>
AdminView == <<adm, tenant.exists, tenant.row, tenant.live, tenhist.raced,
              tenhist.chosen>>

LEMMA AdminLeavesGates ==
  ASSUME TenantShape, NEW i \in AdminRequest, AdminActs(i)
  PROVE  GateView' = GateView
<1> USE DEF TenantShape, GateView, GetsSettings, Stores
<1>1. CASE PutSettings(i) \/ TogglePermission(i) \/ AddMcpServer(i) \/ DeleteMcpServer(i)
  BY <1>1 DEF PutSettings, TogglePermission, AddMcpServer, DeleteMcpServer
<1>2. CASE InsertDefaults(i) \/ FirstReadLoses(i)
  BY <1>2 DEF InsertDefaults, FirstReadLoses
<1>3. CASE StoreSettings(i) \/ StorePermission(i) \/ StoreServer(i) \/ DropServer(i)
  BY <1>3 DEF StoreSettings, StorePermission, StoreServer, DropServer
<1>4. CASE SetRateLimit(i)
  BY <1>4 DEF SetRateLimit
<1> QED BY <1>1, <1>2, <1>3, <1>4 DEF AdminActs

LEMMA GateLeavesAdmins ==
  ASSUME TenantShape, NEW c \in LimitedCall, GateActs(c)
  PROVE  AdminView' = AdminView
<1> USE DEF TenantShape, AdminView
<1>1. CASE AllowSend(c) \/ LoginGuard(c)
  BY <1>1 DEF AllowSend, LoginGuard, Reads
<1>2. CASE Incr(c)
  BY <1>2 DEF Incr, Increments, Verdict
<1>3. CASE Expire(c) \/ ExpireLost(c) \/ IncrMonthly(c)
  BY <1>3 DEF Expire, ExpireLost, IncrMonthly
<1> QED BY <1>1, <1>2, <1>3 DEF GateActs

LEMMA WindowLeavesAdmins ==
  ASSUME TenantShape, NEW g \in Gate, WindowEnds(g)
  PROVE  AdminView' = AdminView
  BY DEF TenantShape, AdminView, WindowEnds

-----------------------------------------------------------------------------
(* The settings row and the live limit.                                     *)

AdminInv == AdmShape /\ DataShape /\ OneAdmin /\ ShownIsChosen

LEMMA SettingsRead ==
  ASSUME TenantInv, NEW i \in AdminRequest, NEW op \in {"put", "toggle", "add", "delete"},
         NEW what, op = "put" => what \in Carried, GetsSettings(i, op, what)
  PROVE  AdminInv'
<1> DEFINE q == [op |-> IF tenant.exists THEN op ELSE "insert", then |-> op,
                 what |-> what, data |-> tenant.row]
<1>1. /\ adm[i].op = "fresh" /\ adm' = [adm EXCEPT ![i] = q] /\ tenant' = tenant
      /\ tenhist'.raced = (tenhist.raced \/ \E j \in AdminRequest : Busy(j))
      /\ tenhist'.chosen = tenhist.chosen
  BY DEF GetsSettings, TenantInv, TenantShape
<1>2. /\ adm' = [j \in AdminRequest |-> adm'[j]] /\ adm'[i] = q
      /\ \A j \in AdminRequest \ {i} : adm'[j] = adm[j]
  BY <1>1 DEF TenantInv, AdmShape
<1>3. q.op \in {op, "insert"} /\ q.then = op /\ q.what = what /\ q.data = tenant.row
  OBVIOUS
<1>4. q = [op |-> q.op, then |-> q.then, what |-> q.what, data |-> q.data]
  OBVIOUS
<1> HIDE DEF q
<1>5. AdmShape'
  BY <1>2, <1>3, <1>4 DEF TenantInv, AdmShape, Busy, Acting
<1>6. DataShape'
  BY <1>1, <1>2, <1>3 DEF TenantInv, TenantShape, DataShape, Busy
<1>7. OneAdmin'
  BY <1>1, <1>2, <1>3 DEF TenantInv, OneAdmin, Busy
<1>8. ShownIsChosen'
  <2>1. \A j \in AdminRequest : adm[j].op = "propagate" => j # i /\ adm'[j] = adm[j]
    BY <1>1, <1>2
  <2> QED BY <1>1, <2>1 DEF TenantInv, ShownIsChosen, LiveIsChosen
<1> QED BY <1>5, <1>6, <1>7, <1>8 DEF AdminInv

(* A step that changes the op of the one request.                           *)
LEMMA AdminMoves ==
  ASSUME AdmShape, DataShape, NEW i \in AdminRequest, Busy(i), NEW op \in Acting \cup {"done"},
         adm' = [adm EXCEPT ![i].op = op], op # "insert",
         op \in {"put", "propagate"} => adm[i].what \in Carried
  PROVE  /\ AdmShape' /\ DataShape'
         /\ adm'[i].op = op /\ adm'[i].data = adm[i].data /\ adm'[i].what = adm[i].what
         /\ \A j \in AdminRequest \ {i} : adm'[j] = adm[j]
<1>1. adm[i] = [op |-> adm[i].op, then |-> adm[i].then, what |-> adm[i].what, data |-> adm[i].data]
  BY DEF AdmShape
<1>2. adm' = [j \in AdminRequest |-> adm'[j]] /\ \A j \in AdminRequest \ {i} : adm'[j] = adm[j]
  BY DEF AdmShape
<1>3. adm'[i] = [adm[i] EXCEPT !.op = op]
  BY DEF AdmShape
<1>4. adm'[i] = [op |-> op, then |-> adm[i].then, what |-> adm[i].what, data |-> adm[i].data]
  BY <1>1, <1>3
<1>5. AdmShape'
  BY <1>2, <1>4 DEF AdmShape, Busy
<1>6. DataShape'
  BY <1>2, <1>4 DEF DataShape, Busy
<1> QED BY <1>2, <1>4, <1>5, <1>6

LEMMA SettingsMoved ==
  ASSUME TenantInv, NEW i \in AdminRequest, NEW op \in Acting \cup {"done"}, Busy(i),
         adm' = [adm EXCEPT ![i].op = op], op \notin {"insert", "propagate"},
         adm[i].op # "propagate", op = "put" => adm[i].what \in Carried,
         tenant'.row = tenant.row, tenant'.live = tenant.live, tenhist'.raced = tenhist.raced,
         tenhist'.chosen = tenhist.chosen
  PROVE  AdminInv'
<1>1. /\ AdmShape' /\ DataShape'
      /\ adm'[i].op = op /\ adm'[i].data = adm[i].data /\ adm'[i].what = adm[i].what
      /\ \A j \in AdminRequest \ {i} : adm'[j] = adm[j]
  BY AdminMoves DEF TenantInv
<1>2. OneAdmin'
  BY <1>1 DEF TenantInv, OneAdmin, Busy
<1>3. ShownIsChosen'
  <2>1. \A j \in AdminRequest : adm[j].op = "propagate" => adm'[j] = adm[j]
    BY <1>1
  <2> QED BY <2>1 DEF TenantInv, ShownIsChosen, LiveIsChosen
<1> QED BY <1>1, <1>2, <1>3 DEF AdminInv

(* A copy of the row with another grant or server keeps the limit.          *)
LEMMA SettingsCopied ==
  ASSUME TenantInv, NEW i \in AdminRequest, NEW op \in {"toggle", "add", "delete"}, NEW data,
         data.limit = adm[i].data.limit, Stores(i, op, data, "done")
  PROVE  AdminInv'
<1>1. /\ adm[i].op = op /\ adm' = [adm EXCEPT ![i].op = "done"] /\ tenant'.row = data
      /\ tenant'.live = tenant.live /\ tenhist'.raced = tenhist.raced
      /\ tenhist'.chosen = tenhist.chosen /\ Busy(i)
  BY DEF Stores, TenantInv, TenantShape, Busy
<1>2. /\ AdmShape' /\ DataShape' /\ adm'[i].op = "done"
      /\ \A j \in AdminRequest \ {i} : adm'[j] = adm[j]
  BY <1>1, AdminMoves DEF TenantInv
<1>3. ~tenhist.raced => data.limit = tenant.row.limit /\ \A j \in AdminRequest : Busy(j) => j = i
  BY <1>1 DEF TenantInv, OneAdmin
<1>4. OneAdmin'
  BY <1>1, <1>2, <1>3 DEF OneAdmin, Busy
<1>5. ShownIsChosen'
  <2>1. \A j \in AdminRequest : adm[j].op = "propagate" => adm'[j] = adm[j]
    BY <1>1, <1>2
  <2> QED BY <1>1, <1>3, <2>1 DEF TenantInv, ShownIsChosen, LiveIsChosen
<1> QED BY <1>2, <1>4, <1>5 DEF AdminInv

LEMMA AdminStep ==
  ASSUME TenantInv, NEW i \in AdminRequest, AdminActs(i)
  PROVE  AdminInv'
<1>1. CASE PutSettings(i)
  <2>1. PICK ls \in Carried : GetsSettings(i, "put", ls)
    BY <1>1 DEF PutSettings, Carried
  <2> QED BY <2>1, SettingsRead
<1>2. CASE TogglePermission(i)
  BY <1>2, SettingsRead DEF TogglePermission
<1>3. CASE AddMcpServer(i)
  BY <1>3, SettingsRead DEF AddMcpServer
<1>4. CASE DeleteMcpServer(i)
  BY <1>4, SettingsRead DEF DeleteMcpServer
<1>5. CASE InsertDefaults(i)
  <2>1. adm[i].then \in {"put", "toggle", "add", "delete"} /\ Busy(i)
        /\ (adm[i].then = "put" => adm[i].what \in Carried) /\ adm[i].op = "insert"
    BY <1>5 DEF InsertDefaults, TenantInv, AdmShape, Busy
  <2>2. /\ adm' = [adm EXCEPT ![i].op = adm[i].then]
        /\ tenant'.row = tenant.row /\ tenant'.live = tenant.live /\ tenhist' = tenhist
    BY <1>5 DEF InsertDefaults, TenantInv, TenantShape
  <2> QED BY <2>1, <2>2, SettingsMoved DEF Acting
<1>6. CASE FirstReadLoses(i)
  <2>1. /\ adm[i].op = "insert" /\ adm' = [adm EXCEPT ![i].op = "done"] /\ Busy(i)
        /\ tenant' = tenant /\ tenhist' = tenhist
    BY <1>6 DEF FirstReadLoses, Busy
  <2>2. tenant'.row = tenant.row /\ tenant'.live = tenant.live /\ tenhist'.raced = tenhist.raced
        /\ tenhist'.chosen = tenhist.chosen
    BY <2>1
  <2>3. "done" \in Acting \cup {"done"} /\ "done" \notin {"insert", "propagate", "put"}
        /\ adm[i].op # "propagate"
    BY <2>1
  <2> QED BY <2>1, <2>2, <2>3, SettingsMoved
<1>7. CASE StoreSettings(i)
  <2>1. /\ adm[i].op = "put" /\ adm' = [adm EXCEPT ![i].op = "propagate"]
        /\ tenant'.row.limit = adm[i].what
        /\ tenant'.live = tenant.live /\ tenhist'.raced = tenhist.raced /\ Busy(i)
        /\ tenhist'.chosen = IF adm[i].what = {} THEN tenhist.chosen ELSE adm[i].what
    BY <1>7 DEF StoreSettings, Stores, Sent, TenantInv, TenantShape, Busy
  <2>2. /\ AdmShape' /\ DataShape' /\ adm'[i].op = "propagate" /\ adm'[i].what = adm[i].what
        /\ \A j \in AdminRequest \ {i} : adm'[j] = adm[j]
    <3>1. adm[i].what \in Carried
      BY <2>1 DEF TenantInv, AdmShape
    <3> QED BY <2>1, <3>1, AdminMoves DEF TenantInv, Acting
  <2>3. OneAdmin'
    BY <2>1, <2>2 DEF TenantInv, OneAdmin, Busy
  <2>4. ShownIsChosen'
    <3>1. \A j \in AdminRequest : adm[j].op = "propagate" => adm'[j] = adm[j]
      BY <2>1, <2>2
    <3>2. ~tenhist.raced => \A j \in AdminRequest : adm[j].op # "propagate"
      BY <2>1 DEF TenantInv, OneAdmin, Busy
    <3> QED BY <2>1, <2>2, <3>1, <3>2 DEF TenantInv, ShownIsChosen, LiveIsChosen
  <2> QED BY <2>2, <2>3, <2>4 DEF AdminInv
<1>8. CASE StorePermission(i)
  <2>1. adm[i].op = "toggle"
    BY <1>8 DEF StorePermission, Stores
  <2>2. ShowsAll(adm[i].data)
    BY <2>1 DEF TenantInv, DataShape, Busy
  <2>3. [adm[i].data EXCEPT !.granted =
           IF adm[i].what THEN @ \cup {"given"} ELSE @ \ {"given"}].limit = adm[i].data.limit
    BY <2>2 DEF ShowsAll
  <2> QED BY <1>8, <2>3, SettingsCopied DEF StorePermission
<1>9. CASE StoreServer(i) \/ DropServer(i)
  <2>1. Busy(i)
    BY <1>9 DEF StoreServer, DropServer, Stores, Busy
  <2>2. ShowsAll(adm[i].data)
    BY <2>1 DEF TenantInv, DataShape
  <2>3. /\ [adm[i].data EXCEPT !.servers = @ \cup {adm[i].what}].limit = adm[i].data.limit
        /\ [adm[i].data EXCEPT !.servers = @ \ {adm[i].what}].limit = adm[i].data.limit
    BY <2>2 DEF ShowsAll
  <2> QED BY <1>9, <2>3, SettingsCopied DEF StoreServer, DropServer
<1>10. CASE SetRateLimit(i)
  <2>1. /\ adm[i].op = "propagate" /\ adm' = [adm EXCEPT ![i].op = "done"]
        /\ tenant'.row = tenant.row /\ Busy(i)
        /\ tenhist'.chosen = tenhist.chosen
        /\ \/ /\ tenhist'.raced = tenhist.raced
              /\ \/ \E l \in adm[i].what : tenant'.live = AtLeastOne(l)
                 \/ adm[i].what = {} /\ tenant'.live = tenant.live
           \/ tenhist'.raced = TRUE
    BY <1>10 DEF SetRateLimit, TenantInv, TenantShape, Busy
  <2>2. /\ AdmShape' /\ DataShape' /\ adm'[i].op = "done"
        /\ \A j \in AdminRequest \ {i} : adm'[j] = adm[j]
    BY <2>1, AdminMoves DEF TenantInv
  <2>3. OneAdmin'
    BY <2>1, <2>2 DEF TenantInv, OneAdmin, Busy
  <2>4. ShownIsChosen'
    <3> SUFFICES ASSUME ~tenhist'.raced PROVE ShownIsChosen'
      BY DEF ShownIsChosen
    <3>1. ~tenhist.raced
      BY <1>10 DEF SetRateLimit, TenantInv, TenantShape
    <3>2. /\ \A j \in AdminRequest : adm[j].op = "propagate" => j = i
          /\ adm[i].what \in {{}, tenhist.chosen}
      BY <2>1, <3>1 DEF TenantInv, OneAdmin, Busy
    <3>3. LiveIsChosen'
      <4>1. CASE adm[i].what = {}
        BY <2>1, <3>1, <3>2, <4>1 DEF TenantInv, ShownIsChosen, LiveIsChosen
      <4>2. CASE adm[i].what # {}
        BY <2>1, <3>2, <4>2 DEF LiveIsChosen
      <4> QED BY <4>1, <4>2
    <3> QED BY <2>1, <3>1, <3>3 DEF TenantInv, ShownIsChosen
  <2> QED BY <2>2, <2>3, <2>4 DEF AdminInv
<1> QED BY <1>1, <1>2, <1>3, <1>4, <1>5, <1>6, <1>7, <1>8, <1>9, <1>10 DEF AdminActs

LEMMA AdminKept ==
  ASSUME AdminInv, AdminView' = AdminView
  PROVE  AdminInv'
<1>1. /\ adm' = adm /\ tenant'.row = tenant.row /\ tenant'.live = tenant.live
      /\ tenhist'.raced = tenhist.raced /\ tenhist'.chosen = tenhist.chosen
  BY DEF AdminView
<1>2. \A i \in AdminRequest : Busy(i)' = Busy(i)
  BY <1>1 DEF Busy
<1>3. AdmShape' /\ DataShape'
  BY <1>1, <1>2 DEF AdminInv, AdmShape, DataShape
<1>4. OneAdmin'
  BY <1>1, <1>2 DEF AdminInv, OneAdmin
<1>5. ShownIsChosen'
  BY <1>1 DEF AdminInv, ShownIsChosen, LiveIsChosen
<1> QED BY <1>3, <1>4, <1>5 DEF AdminInv

-----------------------------------------------------------------------------
(* The counters.                                                            *)

GateInv == GatedShape /\ PassedIsCounted /\ CounterExpires /\ MonthCountsSends

CountShape ==
  /\ tenant.count \in [Gate -> Counter] /\ tenant.monthly \in Nat
  /\ tenhist.sends \in Int
  /\ tenhist.passed \in [Gate -> Nat] /\ tenhist.top \in [Gate -> Nat]

LEMMA GatesKept ==
  ASSUME GateInv, GateView' = GateView
  PROVE  GateInv'
<1>1. /\ gated' = gated /\ tenant'.count = tenant.count /\ tenant'.monthly = tenant.monthly
      /\ tenhist'.passed = tenhist.passed /\ tenhist'.top = tenhist.top
      /\ tenhist'.leaked = tenhist.leaked /\ tenhist'.sends = tenhist.sends
  BY DEF GateView
<1> QED BY <1>1 DEF GateInv, GatedShape, PassedIsCounted, CounterExpires, MonthCountsSends

(* One more or one less of the calls that owe the month's counter.          *)
LEMMA OwedFinite == IsFiniteSet(Owed) /\ Cardinality(Owed) \in Nat
<1>1. IsFiniteSet(LimitedCall)
  BY TenantConstants, FS_Interval DEF LimitedCall
<1>2. Owed \subseteq LimitedCall
  BY DEF Owed
<1> QED BY <1>1, <1>2, FS_Subset, FS_CardinalityType

LEMMA OwedGrows ==
  ASSUME NEW c, c \notin Owed, Owed' = Owed \cup {c}
  PROVE  Cardinality(Owed') = Cardinality(Owed) + 1
  BY OwedFinite, FS_AddElement

LEMMA OwedShrinks ==
  ASSUME NEW c \in Owed, Owed' = Owed \ {c}
  PROVE  Cardinality(Owed') = Cardinality(Owed) - 1
  BY OwedFinite, FS_RemoveElement

(* A step of one call.                                                      *)
LEMMA GateMoves ==
  ASSUME GatedShape, NEW c \in LimitedCall, gated[c].op \in AtGate,
         NEW op \in {"expire", "monthly", "done"}, gated' = [gated EXCEPT ![c].op = op],
         op = "monthly" => gated[c].gate = "send"
  PROVE  /\ GatedShape'
         /\ gated'[c].op = op /\ gated'[c].gate = gated[c].gate
         /\ \A d \in LimitedCall \ {c} : gated'[d] = gated[d]
<1>1. gated[c] = [op |-> gated[c].op, gate |-> gated[c].gate, limit |-> gated[c].limit]
  BY DEF GatedShape
<1>2. /\ gated' = [d \in LimitedCall |-> gated'[d]]
      /\ \A d \in LimitedCall \ {c} : gated'[d] = gated[d]
      /\ gated'[c] = [gated[c] EXCEPT !.op = op]
  BY DEF GatedShape
<1>3. gated'[c] = [op |-> op, gate |-> gated[c].gate, limit |-> gated[c].limit]
  BY <1>1, <1>2
<1> QED BY <1>2, <1>3 DEF GatedShape, AtGate

LEMMA CallReads ==
  ASSUME TenantInv, NEW c \in LimitedCall, NEW g \in Gate, NEW l \in Nat \ {0}, Reads(c, g, l)
  PROVE  GateInv'
<1>1. /\ gated[c].op = "fresh" /\ gated' = [gated EXCEPT ![c] = [op |-> "incr", gate |-> g,
                                                                 limit |-> l]]
      /\ tenant' = tenant /\ tenhist' = tenhist
  BY DEF Reads
<1>2. /\ gated' = [d \in LimitedCall |-> gated'[d]]
      /\ gated'[c] = [op |-> "incr", gate |-> g, limit |-> l]
      /\ \A d \in LimitedCall \ {c} : gated'[d] = gated[d]
  BY <1>1 DEF TenantInv, GatedShape
<1>3. GatedShape'
  BY <1>2 DEF TenantInv, GatedShape, AtGate
<1>4. Owed' = Owed
  BY <1>1, <1>2 DEF Owed
<1>5. MonthCountsSends'
  BY <1>1, <1>4 DEF TenantInv, MonthCountsSends, Owed
<1>6. PassedIsCounted'
  BY <1>1 DEF TenantInv, PassedIsCounted
<1>7. CounterExpires'
  BY <1>1, <1>2 DEF TenantInv, CounterExpires
<1> QED BY <1>3, <1>5, <1>6, <1>7 DEF GateInv

LEMMA CallCounted ==
  ASSUME TenantInv, NEW c \in LimitedCall, Incr(c)
  PROVE  GateInv'
<1> DEFINE g   == gated[c].gate
           l   == gated[c].limit
           cur == tenant.count[g].n + 1
           op  == IF cur = 1 THEN "expire"
                  ELSE IF cur <= l THEN IF g = "send" THEN "monthly" ELSE "done" ELSE "done"
<1>1. gated[c].op = "incr" /\ g \in Gate /\ l \in Nat \ {0}
  BY DEF Incr, Increments, TenantInv, GatedShape, AtGate
<1>2. tenant.count[g] \in Counter /\ tenant.count[g].n \in Nat /\ cur \in Nat \ {0}
  <2>1. tenant.count[g] \in Counter
    BY <1>1 DEF TenantInv, TenantShape
  <2> QED BY <2>1 DEF Counter
<1>3. gated' = [gated EXCEPT ![c].op = op]
  BY DEF Incr, Increments, After, Counted, Lets, Passed
<1>4. op \in {"expire", "monthly", "done"} /\ (op = "monthly" => g = "send")
  OBVIOUS
<1>5. /\ GatedShape' /\ gated'[c].op = op /\ gated'[c].gate = g
      /\ \A d \in LimitedCall \ {c} : gated'[d] = gated[d]
  <2> HIDE DEF op
  <2> QED BY <1>1, <1>3, <1>4, GateMoves DEF TenantInv, AtGate
<1>6. /\ tenant'.count = [tenant.count EXCEPT ![g].n = cur]
      /\ tenant'.monthly = tenant.monthly
  BY DEF Incr, Increments, Counted, TenantInv, TenantShape
<1>7. /\ tenant'.count[g].n = cur /\ tenant'.count[g].ttl = tenant.count[g].ttl
      /\ \A h \in Gate \ {g} : tenant'.count[h] = tenant.count[h]
  BY <1>1, <1>2, <1>6 DEF TenantInv, TenantShape, Counter
<1>8. /\ tenhist'.passed = [tenhist.passed EXCEPT ![g] = IF cur <= l THEN @ + 1 ELSE @]
      /\ tenhist'.top = [tenhist.top EXCEPT ![g] = IF @ < l THEN l ELSE @]
      /\ tenhist'.sends = IF cur <= l /\ g = "send" THEN tenhist.sends + 1 ELSE tenhist.sends
      /\ tenhist'.leaked = tenhist.leaked
  BY DEF Incr, Increments, Verdict, Counted, Lets, TenantInv, TenantShape
<1>9. tenhist.passed[g] \in Nat /\ tenhist.top[g] \in Nat
  BY <1>1 DEF TenantInv, TenantShape
<1> HIDE DEF cur, l, g
<1>10. PassedIsCounted'
  <2>1. tenhist'.passed[g] = IF cur <= l THEN tenhist.passed[g] + 1 ELSE tenhist.passed[g]
    BY <1>1, <1>8 DEF TenantInv, TenantShape
  <2>2. tenhist'.top[g] = IF tenhist.top[g] < l THEN l ELSE tenhist.top[g]
    BY <1>1, <1>8 DEF TenantInv, TenantShape
  <2>3. tenhist.passed[g] <= tenant.count[g].n /\ tenhist.passed[g] <= tenhist.top[g]
    BY <1>1 DEF TenantInv, PassedIsCounted
  <2>4. cur = tenant.count[g].n + 1
    BY DEF cur
  <2>5. tenhist'.passed[g] <= cur /\ tenhist'.passed[g] <= tenhist'.top[g]
    BY <1>1, <1>2, <1>9, <2>1, <2>2, <2>3, <2>4
  <2>6. \A h \in Gate \ {g} :
          tenhist'.passed[h] = tenhist.passed[h] /\ tenhist'.top[h] = tenhist.top[h]
    BY <1>1, <1>8 DEF TenantInv, TenantShape
  <2> QED BY <1>7, <2>5, <2>6 DEF TenantInv, PassedIsCounted
<1>11. CounterExpires'
  <2> SUFFICES ASSUME NEW h \in Gate, tenant'.count[h].n > 0, ~tenant'.count[h].ttl
               PROVE  \/ h \in tenhist'.leaked
                      \/ \E d \in LimitedCall : gated'[d].op = "expire" /\ gated'[d].gate = h
    BY DEF CounterExpires
  <2>1. CASE h # g
    BY <1>1, <1>5, <1>7, <1>8, <2>1 DEF TenantInv, CounterExpires
  <2>2. CASE h = g /\ cur = 1
    BY <1>5, <2>2
  <2>3. CASE h = g /\ cur # 1
    <3>1. tenant.count[g].n > 0
      BY <1>2, <2>3 DEF cur
    <3>2. \/ g \in tenhist.leaked
          \/ \E d \in LimitedCall : gated[d].op = "expire" /\ gated[d].gate = g
      BY <1>1, <1>7, <2>3, <3>1 DEF TenantInv, CounterExpires
    <3> QED BY <1>1, <1>5, <1>8, <2>3, <3>2
  <2> QED BY <2>1, <2>2, <2>3
<1>12. MonthCountsSends'
  <2>0. c \notin Owed
    BY <1>1 DEF Owed
  <2>1. cur = 1 => cur <= l
    BY <1>1, <1>2
  <2>2. CASE cur <= l /\ g = "send"
    <3>1. op \in {"expire", "monthly"}
      BY <2>2
    <3>2. Owed' = Owed \cup {c}
      BY <1>5, <2>2, <3>1 DEF Owed
    <3>3. Cardinality(Owed') = Cardinality(Owed) + 1
      BY <2>0, <3>2, OwedGrows
    <3> QED BY <1>6, <1>8, <2>2, <3>3, OwedFinite DEF TenantInv, TenantShape,
       MonthCountsSends, Owed
  <2>3. CASE ~(cur <= l /\ g = "send")
    <3>1. ~(op = "monthly" \/ (op = "expire" /\ g = "send"))
      BY <2>1, <2>3
    <3>2. Owed' = Owed
      BY <1>1, <1>5, <3>1 DEF Owed
    <3> QED BY <1>6, <1>8, <2>3, <3>2 DEF TenantInv, TenantShape, MonthCountsSends, Owed
  <2> QED BY <2>2, <2>3
<1> QED BY <1>5, <1>10, <1>11, <1>12 DEF GateInv

LEMMA ExpirySet ==
  ASSUME TenantInv, NEW c \in LimitedCall, Expire(c)
  PROVE  GateInv'
<1> DEFINE g  == gated[c].gate
           op == IF g = "send" THEN "monthly" ELSE "done"
<1>1. gated[c].op = "expire" /\ g \in Gate
  BY DEF Expire, TenantInv, GatedShape, AtGate
<1>2. tenant.count[g] \in Counter /\ tenant.count \in [Gate -> Counter]
  BY <1>1 DEF TenantInv, TenantShape
<1>3. gated' = [gated EXCEPT ![c].op = op]
  BY DEF Expire, Passed
<1>4. /\ GatedShape' /\ gated'[c].op = op /\ gated'[c].gate = g
      /\ \A d \in LimitedCall \ {c} : gated'[d] = gated[d]
  <2>1. op \in {"expire", "monthly", "done"} /\ (op = "monthly" => g = "send")
    OBVIOUS
  <2> HIDE DEF op
  <2> QED BY <1>1, <1>3, <2>1, GateMoves DEF TenantInv, AtGate
<1>5. /\ tenant'.count = [tenant.count EXCEPT ![g].ttl = tenant.count[g].n > 0]
      /\ tenant'.monthly = tenant.monthly /\ tenhist' = tenhist
  BY DEF Expire, TenantInv, TenantShape
<1>6. /\ tenant'.count[g].n = tenant.count[g].n
      /\ (tenant.count[g].n > 0 => tenant'.count[g].ttl)
      /\ \A h \in Gate \ {g} : tenant'.count[h] = tenant.count[h]
  <2>1. tenant'.count[g] = [tenant.count[g] EXCEPT !.ttl = tenant.count[g].n > 0]
        /\ \A h \in Gate \ {g} : tenant'.count[h] = tenant.count[h]
    BY <1>1, <1>2, <1>5
  <2>2. CASE tenant.count[g].n > 0
    BY <1>2, <2>1, <2>2 DEF Counter
  <2>3. CASE ~(tenant.count[g].n > 0)
    BY <1>2, <2>1, <2>3 DEF Counter
  <2> QED BY <2>1, <2>2, <2>3
<1>7. Owed' = Owed
  BY <1>1, <1>4 DEF Owed
<1> HIDE DEF g
<1>8. PassedIsCounted'
  <2>1. \A h \in Gate : tenant'.count[h].n = tenant.count[h].n
    BY <1>6
  <2> QED BY <1>5, <2>1 DEF TenantInv, PassedIsCounted
<1>9. CounterExpires'
  <2> SUFFICES ASSUME NEW h \in Gate, tenant'.count[h].n > 0, ~tenant'.count[h].ttl
               PROVE  \/ h \in tenhist'.leaked
                      \/ \E d \in LimitedCall : gated'[d].op = "expire" /\ gated'[d].gate = h
    BY DEF CounterExpires
  <2>1. h # g /\ tenant'.count[h] = tenant.count[h]
    BY <1>6
  <2>2. \/ h \in tenhist.leaked
        \/ \E d \in LimitedCall : gated[d].op = "expire" /\ gated[d].gate = h
    BY <2>1 DEF TenantInv, CounterExpires
  <2> QED BY <1>4, <1>5, <2>1, <2>2 DEF g
<1>10. MonthCountsSends'
  BY <1>5, <1>7 DEF TenantInv, MonthCountsSends, Owed
<1> QED BY <1>4, <1>8, <1>9, <1>10 DEF GateInv

LEMMA ExpiryLost ==
  ASSUME TenantInv, NEW c \in LimitedCall, ExpireLost(c)
  PROVE  GateInv'
<1> DEFINE g == gated[c].gate
<1>1. gated[c].op = "expire" /\ g \in Gate /\ gated' = [gated EXCEPT ![c].op = "done"]
  BY DEF ExpireLost, TenantInv, GatedShape, AtGate
<1>2. /\ GatedShape' /\ gated'[c].op = "done"
      /\ \A d \in LimitedCall \ {c} : gated'[d] = gated[d]
  BY <1>1, GateMoves DEF TenantInv, AtGate
<1>3. /\ tenant' = tenant /\ tenhist'.leaked = tenhist.leaked \cup {g}
      /\ tenhist'.sends = IF g = "send" THEN tenhist.sends - 1 ELSE tenhist.sends
      /\ tenhist'.passed = tenhist.passed /\ tenhist'.top = tenhist.top
  BY DEF ExpireLost, TenantInv, TenantShape
<1>4. PassedIsCounted' /\ CounterExpires'
  BY <1>1, <1>2, <1>3 DEF TenantInv, PassedIsCounted, CounterExpires
<1>5. MonthCountsSends'
  <2>1. CASE g = "send"
    <3>1. c \in Owed /\ Owed' = Owed \ {c}
      BY <1>1, <1>2, <2>1 DEF Owed
    <3>2. Cardinality(Owed') = Cardinality(Owed) - 1
      BY <3>1, OwedShrinks
    <3> QED BY <1>3, <2>1, <3>2, OwedFinite DEF TenantInv, TenantShape, MonthCountsSends, Owed
  <2>2. CASE g # "send"
    <3>1. Owed' = Owed
      BY <1>1, <1>2, <2>2 DEF Owed
    <3> QED BY <1>3, <2>2, <3>1 DEF TenantInv, MonthCountsSends, Owed
  <2> QED BY <2>1, <2>2
<1> QED BY <1>2, <1>4, <1>5 DEF GateInv

LEMMA MonthCounted ==
  ASSUME TenantInv, NEW c \in LimitedCall, IncrMonthly(c)
  PROVE  GateInv'
<1>1. gated[c].op = "monthly" /\ gated' = [gated EXCEPT ![c].op = "done"]
  BY DEF IncrMonthly
<1>2. /\ GatedShape' /\ gated'[c].op = "done"
      /\ \A d \in LimitedCall \ {c} : gated'[d] = gated[d]
  BY <1>1, GateMoves DEF TenantInv, AtGate
<1>3. /\ tenant'.monthly = tenant.monthly + 1 /\ tenant'.count = tenant.count
      /\ tenhist' = tenhist
  BY DEF IncrMonthly, TenantInv, TenantShape
<1>4. PassedIsCounted' /\ CounterExpires'
  BY <1>1, <1>2, <1>3 DEF TenantInv, PassedIsCounted, CounterExpires
<1>5. MonthCountsSends'
  <2>1. c \in Owed /\ Owed' = Owed \ {c}
    BY <1>1, <1>2 DEF Owed
  <2>2. Cardinality(Owed') = Cardinality(Owed) - 1
    BY <2>1, OwedShrinks
  <2> QED BY <1>3, <2>2, OwedFinite DEF TenantInv, TenantShape, MonthCountsSends, Owed
<1> QED BY <1>2, <1>4, <1>5 DEF GateInv

LEMMA WindowOver ==
  ASSUME TenantInv, NEW g \in Gate, WindowEnds(g)
  PROVE  GateInv'
<1>1. /\ tenant'.count = [tenant.count EXCEPT ![g] = [n |-> 0, ttl |-> FALSE]]
      /\ tenant'.monthly = tenant.monthly /\ gated' = gated
      /\ tenhist'.passed = [tenhist.passed EXCEPT ![g] = 0]
      /\ tenhist'.top = [tenhist.top EXCEPT ![g] = 0]
      /\ tenhist'.leaked = tenhist.leaked /\ tenhist'.sends = tenhist.sends
  BY DEF WindowEnds, TenantInv, TenantShape
<1>2. /\ tenant'.count[g].n = 0 /\ tenhist'.passed[g] = 0 /\ tenhist'.top[g] = 0
      /\ \A h \in Gate \ {g} : /\ tenant'.count[h] = tenant.count[h]
                               /\ tenhist'.passed[h] = tenhist.passed[h]
                               /\ tenhist'.top[h] = tenhist.top[h]
  BY <1>1 DEF TenantInv, TenantShape
<1>3. PassedIsCounted' /\ CounterExpires'
  BY <1>1, <1>2 DEF TenantInv, PassedIsCounted, CounterExpires
<1>4. GatedShape' /\ MonthCountsSends'
  BY <1>1 DEF TenantInv, GatedShape, MonthCountsSends
<1> QED BY <1>3, <1>4 DEF GateInv

LEMMA GateStep ==
  ASSUME TenantInv, NEW c \in LimitedCall, GateActs(c)
  PROVE  GateInv'
<1>1. CASE AllowSend(c)
  <2>1. (IF tenant.live = 0 THEN DefaultLimit ELSE tenant.live) \in Nat \ {0} /\ "send" \in Gate
    BY TenantConstants DEF TenantInv, TenantShape, Gate
  <2> QED BY <1>1, <2>1, CallReads DEF AllowSend
<1>2. CASE LoginGuard(c)
  BY <1>2, CallReads, TenantConstants DEF LoginGuard, Gate
<1> QED BY <1>1, <1>2, CallCounted, ExpirySet, ExpiryLost, MonthCounted DEF GateActs

-----------------------------------------------------------------------------
LEMMA TenantShapeStep == ASSUME TenantInv, TenantNext PROVE TenantShape'
<1> USE DEF TenantShape
<1>1. ASSUME NEW i \in AdminRequest, AdminActs(i) PROVE TenantShape'
  <2> USE DEF GetsSettings, Stores
  <2>1. CASE PutSettings(i) \/ TogglePermission(i) \/ AddMcpServer(i) \/ DeleteMcpServer(i)
    BY <2>1 DEF PutSettings, TogglePermission, AddMcpServer, DeleteMcpServer, TenantInv
  <2>2. CASE InsertDefaults(i) \/ FirstReadLoses(i)
    BY <2>2 DEF InsertDefaults, FirstReadLoses, TenantInv
  <2>3. CASE StoreSettings(i)
    BY <2>3 DEF StoreSettings, TenantInv, Sent, ShowsAll
  <2>4. CASE StorePermission(i) \/ StoreServer(i) \/ DropServer(i)
    <3>1. Busy(i)
      BY <2>4 DEF StorePermission, StoreServer, DropServer, Busy
    <3>2. ShowsAll(adm[i].data)
      BY <3>1 DEF TenantInv, DataShape
    <3>3. ShowsAll(tenant'.row)
      <4>1. CASE StorePermission(i)
        BY <4>1, <3>2 DEF StorePermission, ShowsAll, TenantInv
      <4>2. CASE StoreServer(i) \/ DropServer(i)
        BY <4>2, <3>2 DEF StoreServer, DropServer, ShowsAll, TenantInv
      <4> QED BY <2>4, <4>1, <4>2
    <3> QED BY <2>4, <3>3 DEF StorePermission, StoreServer, DropServer, TenantInv
  <2>5. CASE SetRateLimit(i)
    <3>1. adm[i].what \in Carried
      BY <2>5 DEF SetRateLimit, TenantInv, AdmShape
    <3>2. \A l \in adm[i].what : AtLeastOne(l) \in Nat
      BY <3>1, TenantConstants DEF Carried, AtLeastOne
    <3>3. CASE \E l \in adm[i].what : tenant' = [tenant EXCEPT !.live = AtLeastOne(l)] /\ tenhist' = tenhist
      <4> HIDE DEF AtLeastOne
      <4> QED BY <3>2, <3>3 DEF TenantInv
    <3>4. CASE tenant' = tenant /\ tenhist' = tenhist
      BY <3>4 DEF TenantInv
    <3>5. CASE tenhist' = [tenhist EXCEPT !.raced = TRUE] /\ tenant' = tenant
      BY <3>5 DEF TenantInv
    <3> QED BY <2>5, <3>3, <3>4, <3>5 DEF SetRateLimit
  <2> QED BY <1>1, <2>1, <2>2, <2>3, <2>4, <2>5 DEF AdminActs
<1>2. ASSUME NEW c \in LimitedCall, GateActs(c) PROVE TenantShape'
  <2>1. CASE AllowSend(c) \/ LoginGuard(c)
    BY <2>1 DEF AllowSend, LoginGuard, Reads, TenantInv
  <2>2. ASSUME gated[c].op \in {"incr", "expire"}
        PROVE  gated[c].gate \in Gate /\ gated[c].limit \in Nat
    BY <2>2 DEF TenantInv, GatedShape, AtGate
  <2>3. CASE Incr(c)
    <3> DEFINE g   == gated[c].gate
               cur == tenant.count[g].n + 1
               ok  == cur <= gated[c].limit
    <3>1. g \in Gate /\ gated[c].limit \in Nat
      BY <2>2, <2>3 DEF Incr, Increments
    <3>2. tenant.count[g].n \in Nat /\ cur \in Nat
      BY <3>1 DEF TenantInv, Counter
    <3>3. tenant' = [tenant EXCEPT !.count = [tenant.count EXCEPT ![g].n = cur]]
      BY <2>3 DEF Incr, Increments, Counted, TenantInv
    <3>4. [tenant.count EXCEPT ![g].n = cur] \in [Gate -> Counter]
      BY <3>1, <3>2 DEF TenantInv, Counter
    <3>5. tenhist' = [tenhist EXCEPT
                        !.passed = [tenhist.passed EXCEPT ![g] = IF ok THEN @ + 1 ELSE @],
                        !.top = [tenhist.top EXCEPT ![g] =
                                   IF @ < gated[c].limit THEN gated[c].limit ELSE @],
                        !.sends = IF ok /\ g = "send" THEN @ + 1 ELSE @]
      BY <2>3 DEF Incr, Increments, Verdict, Counted, Lets, TenantInv
    <3> HIDE DEF ok
    <3>6. [tenhist.passed EXCEPT ![g] = IF ok THEN @ + 1 ELSE @] \in [Gate -> Nat]
      BY <3>1 DEF TenantInv
    <3>7. [tenhist.top EXCEPT ![g] = IF @ < gated[c].limit THEN gated[c].limit ELSE @]
            \in [Gate -> Nat]
      BY <3>1 DEF TenantInv
    <3> HIDE DEF cur, g
    <3>8. tenant'.count \in [Gate -> Counter] /\ tenant' =
            [exists |-> tenant.exists, row |-> tenant.row, live |-> tenant.live,
             monthly |-> tenant.monthly, windows |-> tenant.windows, count |-> tenant'.count]
      BY <3>3, <3>4 DEF TenantInv
    <3>9. tenhist'.passed \in [Gate -> Nat] /\ tenhist'.top \in [Gate -> Nat]
          /\ tenhist'.sends \in Int /\ tenhist'.raced = tenhist.raced
          /\ tenhist' = [raced |-> tenhist'.raced, chosen |-> tenhist'.chosen,
                         passed |-> tenhist'.passed,
                         top |-> tenhist'.top, leaked |-> tenhist'.leaked,
                         sends |-> tenhist'.sends]
      <4>1. /\ tenhist'.passed = [tenhist.passed EXCEPT ![g] = IF ok THEN @ + 1 ELSE @]
            /\ tenhist'.top = [tenhist.top EXCEPT ![g] =
                                 IF @ < gated[c].limit THEN gated[c].limit ELSE @]
            /\ tenhist'.sends = IF ok /\ g = "send" THEN tenhist.sends + 1 ELSE tenhist.sends
            /\ tenhist'.raced = tenhist.raced
            /\ tenhist' = [raced |-> tenhist'.raced, chosen |-> tenhist'.chosen,
                         passed |-> tenhist'.passed,
                           top |-> tenhist'.top, leaked |-> tenhist'.leaked,
                           sends |-> tenhist'.sends]
        BY <3>5 DEF TenantInv
      <4>2. tenhist'.sends \in Int
        BY <4>1 DEF TenantInv
      <4> QED BY <3>6, <3>7, <4>1, <4>2
    <3> QED BY <3>8, <3>9 DEF TenantInv
  <2>4. CASE Expire(c)
    <3> DEFINE g == gated[c].gate
    <3>1. g \in Gate
      BY <2>2, <2>4 DEF Expire
    <3>2. [tenant.count EXCEPT ![g].ttl = tenant.count[g].n > 0] \in [Gate -> Counter]
      <4>1. tenant.count[g] \in Counter
        BY <3>1 DEF TenantInv
      <4>2. [tenant.count[g] EXCEPT !.ttl = tenant.count[g].n > 0] \in Counter
        <5>1. (tenant.count[g].n > 0) \in BOOLEAN
          OBVIOUS
        <5>2. \A k \in Counter, b \in BOOLEAN : [k EXCEPT !.ttl = b] \in Counter
          BY DEF Counter
        <5> QED BY <4>1, <5>1, <5>2
      <4> QED BY <3>1, <4>2 DEF TenantInv
    <3> QED BY <2>4, <3>2 DEF Expire, TenantInv
  <2>5. CASE ExpireLost(c)
    <3>1. /\ tenant' = tenant
          /\ tenhist' = [raced |-> tenhist.raced, chosen |-> tenhist.chosen,
                         passed |-> tenhist.passed, top |-> tenhist.top, leaked |-> tenhist'.leaked,
                         sends |-> tenhist'.sends]
          /\ tenhist'.sends \in {tenhist.sends, tenhist.sends - 1}
      BY <2>5 DEF ExpireLost, TenantInv
    <3>2. tenhist'.sends \in Int
      BY <3>1 DEF TenantInv
    <3> QED BY <3>1, <3>2 DEF TenantInv
  <2>6. CASE IncrMonthly(c)
    BY <2>6 DEF IncrMonthly, TenantInv
  <2> QED BY <1>2, <2>1, <2>3, <2>4, <2>5, <2>6 DEF GateActs
<1>3. ASSUME NEW g \in Gate, WindowEnds(g) PROVE TenantShape'
  BY <1>3 DEF WindowEnds, TenantInv, Counter
<1> QED BY <1>1, <1>2, <1>3 DEF TenantNext, AdminActs, GateActs

LEMMA TenantStep == TenantInv /\ [TenantNext]_tenantVars => TenantInv'
<1> SUFFICES ASSUME TenantInv, [TenantNext]_tenantVars PROVE TenantInv'
  OBVIOUS
<1>0. ASSUME TenantShape', AdminInv', GateInv' PROVE TenantInv'
  BY <1>0 DEF TenantInv, AdminInv, GateInv
<1>1. AdminInv /\ GateInv
  BY DEF TenantInv, AdminInv, GateInv
<1>2. ASSUME NEW i \in AdminRequest, AdminActs(i) PROVE AdminInv' /\ GateInv'
  BY <1>1, <1>2, AdminStep, AdminLeavesGates, GatesKept DEF TenantInv
<1>3. ASSUME NEW c \in LimitedCall, GateActs(c) PROVE AdminInv' /\ GateInv'
  BY <1>1, <1>3, GateStep, GateLeavesAdmins, AdminKept DEF TenantInv
<1>4. ASSUME NEW g \in Gate, WindowEnds(g) PROVE AdminInv' /\ GateInv'
  BY <1>1, <1>4, WindowOver, WindowLeavesAdmins, AdminKept DEF TenantInv
<1>5. CASE TenantNext
  BY <1>0, <1>2, <1>3, <1>4, <1>5, TenantShapeStep DEF TenantNext, AdminActs, GateActs
<1>6. CASE UNCHANGED tenantVars
  <2>1. tenant' = tenant /\ adm' = adm /\ gated' = gated /\ tenhist' = tenhist
    BY <1>6 DEF tenantVars
  <2>2. AdminView' = AdminView /\ GateView' = GateView
    BY <2>1 DEF AdminView, GateView
  <2>3. TenantShape'
    BY <2>1 DEF TenantInv, TenantShape
  <2> QED BY <1>0, <1>1, <2>2, <2>3, AdminKept, GatesKept
<1> QED BY <1>5, <1>6

(* Whatever admins, callers, windows and Redis do, in any number and order:  *)
(* the limit that is enforced is the one the settings show, or 1 if that is  *)
(* less, and without a number the one chosen last, unless two admins         *)
(* overlapped or Redis failed one; a window lets no more through than *)
(* the highest limit one of its calls had read; a counter without an expiry  *)
(* exists only while the call that made it has still to set it, or that was  *)
(* lost; and every send let through is counted once for the month.           *)
THEOREM LimitsHoldAlways == TenantSpec => []LimitsHold
<1>1. TenantInv => LimitsHold
  <2> SUFFICES ASSUME TenantInv PROVE LimitsHold
    OBVIOUS
  <2>1. WindowHolds
    BY DEF TenantInv, PassedIsCounted, WindowHolds
  <2>2. LiveLimitIsTheSetting
    <3> SUFFICES ASSUME \A i \in AdminRequest : adm[i].op # "propagate", ~tenhist.raced
                 PROVE  LiveLimitIsTheSetting
      BY DEF LiveLimitIsTheSetting
    <3> QED BY DEF TenantInv, ShownIsChosen, LiveIsChosen, LiveLimitIsTheSetting
  <2> QED BY <2>1, <2>2 DEF TenantInv, LimitsHold
<1> QED BY <1>1, TenantInitially, TenantStep, PTL DEF TenantSpec

-----------------------------------------------------------------------------
(* A team.                                                                   *)

(* Rows are named by the request that made them; Old names rows whose making *)
(* is over.                                                                  *)
Over == {j \in TeamRequest : treq[j].op = "done"}
Old  == Over \cup {FirstProject}
Role == TeamRole \cup {NoRole}

Commits == {"column", "delete_team", "insert", "update_member", "remove_member", "visit",
            "create_row", "update_row", "delete_row"}

(* What a handler has loaded and still holds when it commits: neither the    *)
(* founder nor a row under way is at stake, a token is known with its role.  *)
ReadyInsert(q) ==
  /\ q.who \in Person /\ q.given \in Role
  /\ q.token # 0 =>
       q.token \in Over /\ (thist.issued[q.token] = q.given \/ q.token \in thist.raced)
ReadyMember(q) == q.who \in Person /\ q.who # Founder
ReadyRow(q) ==
  /\ q.kind \in RowKind
  /\ q.kind \in {"knowledge", "project"} => q.parent = 0
  /\ q.kind \in {"task", "doc"} =>
       q.parent \in Old /\ (q.parent \in DOMAIN team.rows => team.rows[q.parent].kind = "project")
(* A new link that keeps the role of the old one has asked for that role, or *)
(* the link is another one by now.                                           *)
ReadyLink(q) ==
  /\ q.given \in Role /\ q.seen["invite"] \in Over \cup {0}
  /\ q.field = "invite" /\ ~q.changesRole /\ team.alive =>
       q.given = team.invite.role \/ q.seen["invite"] # team.column["invite"]
Ready(q) ==
  /\ q.op \in Commits
  /\ q.op = "column" => ReadyLink(q)
  /\ q.op = "insert" => ReadyInsert(q)
  /\ q.op = "update_member" => ReadyMember(q) /\ q.given \in TeamRole
  /\ q.op = "remove_member" => ReadyMember(q)
  /\ q.op = "create_row" => ReadyRow(q)
  /\ q.op \in {"update_row", "delete_row"} => q.row \in Old

RequestsReady ==
  /\ treq = [i \in TeamRequest |-> treq[i]]
  /\ \A i \in TeamRequest : treq[i].op \in {"fresh", "done"} \/ Ready(treq[i])

TeamShape ==
  /\ team = [alive |-> team.alive, role |-> team.role, column |-> team.column,
             policy |-> team.policy, invite |-> team.invite, rows |-> team.rows,
             channels |-> team.channels]
  /\ thist = [lastWrite |-> thist.lastWrite, issued |-> thist.issued,
              joined |-> thist.joined, gone |-> thist.gone, raced |-> thist.raced]
  /\ team.alive \in BOOLEAN /\ team.role \in [Person -> Role]
  /\ Permission \X {"owner"} \subseteq team.policy /\ team.policy \subseteq Permission \X TeamRole
  /\ thist.issued = [i \in TeamRequest |-> thist.issued[i]]

(* Tasks and documents are in projects, which are in nothing.                *)
RowsKept ==
  /\ team.rows = [x \in DOMAIN team.rows |-> team.rows[x]]
  /\ DOMAIN team.rows \subseteq Old
  /\ \A x \in DOMAIN team.rows :
       /\ team.rows[x] = [kind |-> team.rows[x].kind, parent |-> team.rows[x].parent,
                          text |-> team.rows[x].text]
       /\ team.rows[x].kind \in RowKind
       /\ team.rows[x].kind \in {"knowledge", "project"} => team.rows[x].parent = 0
       /\ team.rows[x].kind \in {"task", "doc"} =>
            /\ team.rows[x].parent \in DOMAIN team.rows
            /\ team.rows[team.rows[x].parent].kind = "project"

NothingLeft ==
  ~team.alive => team.rows = <<>> /\ team.channels = 0 /\ \A u \in Person : team.role[u] = NoRole

(* The tokens in use were issued, for good, with the role they give, unless  *)
(* their request had loaded another link than the one it replaced.           *)
TokensIssued ==
  /\ team.invite.token # 0 =>
       /\ team.invite.token \in Over
       /\ \/ thist.issued[team.invite.token] = team.invite.role
          \/ team.invite.token \in thist.raced
  /\ team.invite.role \in Role
  /\ thist.joined = [u \in DOMAIN thist.joined |-> thist.joined[u]]
  /\ \A u \in DOMAIN thist.joined :
       /\ thist.joined[u].token \in Over
       /\ \/ thist.joined[u].role = thist.issued[thist.joined[u].token]
          \/ thist.joined[u].token \in thist.raced

(* A link column is named by the request that wrote it, which is over.       *)
LinkKnown == DOMAIN team.column = Column /\ team.column["invite"] \in Over \cup {0}

GoneKnown == thist.gone \subseteq Old \cup Person

TeamInv ==
  /\ RequestsReady /\ TeamShape /\ RowsKept /\ NothingLeft /\ TokensIssued /\ LinkKnown
  /\ GoneKnown /\ FounderStays /\ FieldsSurvive /\ GoneStaysGone

LEMMA RowIds ==
  /\ FirstProject \notin TeamRequest /\ FirstProject \notin Person /\ FirstProject # 0
  /\ \A i \in TeamRequest : i \notin Person /\ i # 0
  BY TeamConstants DEF TeamRequest, FirstProject

LEMMA TeamInitially == TeamInit => TeamInv
<1> SUFFICES ASSUME TeamInit PROVE TeamInv
  OBVIOUS
<1> DEFINE first == [kind |-> "project", parent |-> 0, text |-> 0]
<1>1. /\ team.alive = TRUE /\ team.policy = Defaults /\ team.column = [f \in Column |-> 0]
      /\ team.invite = [token |-> 0, role |-> "member"]
      /\ team.rows = With(<<>>, FirstProject, first) /\ team.channels = 0
      /\ team.role \in [Person -> {"owner", "admin", "member", NoRole}]
      /\ \A u \in Person : team.role[u] = "owner" <=> u = Founder
      /\ team = [alive |-> team.alive, role |-> team.role, column |-> team.column,
                 policy |-> team.policy, invite |-> team.invite, rows |-> team.rows,
                 channels |-> team.channels]
      /\ treq = [i \in TeamRequest |-> [op |-> "fresh"]]
      /\ thist = [lastWrite |-> [f \in Column |-> 0], issued |-> [i \in TeamRequest |-> NoRole],
                  joined |-> <<>>, gone |-> {}, raced |-> {}]
  BY DEF TeamInit
<1> HIDE DEF first
<1>2. team.rows = [x \in {FirstProject} |-> first]
  BY <1>1 DEF With
<1>3. RequestsReady
  BY <1>1 DEF RequestsReady
<1>4. TeamShape
  <2>1. team.alive \in BOOLEAN /\ team.role \in [Person -> Role]
    BY <1>1 DEF Role, TeamRole
  <2>2. Permission \X {"owner"} \subseteq Defaults /\ Defaults \subseteq Permission \X TeamRole
    BY DEF Defaults, TeamRole
  <2>3. thist.issued = [i \in TeamRequest |-> thist.issued[i]]
    BY <1>1
  <2> QED BY <1>1, <2>1, <2>2, <2>3 DEF TeamShape
<1>5. RowsKept
  BY <1>2 DEF RowsKept, Old, RowKind, first
<1>6. NothingLeft /\ FieldsSurvive
  BY <1>1 DEF NothingLeft, FieldsSurvive
<1>7. TokensIssued /\ GoneKnown /\ GoneStaysGone /\ LinkKnown
  BY <1>1 DEF TokensIssued, LinkKnown, Column, GoneKnown, GoneStaysGone, Role, TeamRole
<1>8. FounderStays
  BY <1>1, TeamConstants DEF FounderStays
<1> QED BY <1>3, <1>4, <1>5, <1>6, <1>7, <1>8 DEF TeamInv

-----------------------------------------------------------------------------
(* What a handler loads is ready for its commit.                             *)

LEMMA BeginsReady ==
  ASSUME TeamInv, NEW i \in TeamRequest, TeamBegin(i)
  PROVE  \E q : Ready(q) /\ Loads(i, q)
<1> SUFFICES ASSUME NEW u \in Person, ~(\E q : Ready(q) /\ Loads(i, q))
             PROVE  /\ ~BeginUpdateTeam(i, u) /\ ~BeginChannelMode(i, u) /\ ~BeginPutPolicy(i, u)
                    /\ ~BeginInviteToken(i, u) /\ ~BeginSharedAgents(i, u)
                    /\ ~BeginSharedProfiles(i, u) /\ ~BeginDeleteTeam(i, u)
                    /\ ~BeginAddMember(i, u) /\ ~BeginUpdateMember(i, u)
                    /\ ~BeginRemoveMember(i, u) /\ ~BeginJoin(i, u) /\ ~BeginVisit(i, u)
                    /\ ~BeginAddKnowledge(i, u) /\ ~BeginUploadKnowledge(i, u)
                    /\ ~BeginUpdateKnowledge(i, u) /\ ~BeginDeleteKnowledge(i, u)
                    /\ ~BeginCreateProject(i, u) /\ ~BeginUpdateProject(i, u)
                    /\ ~BeginProjectMembers(i, u) /\ ~BeginDeleteProject(i, u)
                    /\ ~BeginCreateTask(i, u) /\ ~BeginUpdateTask(i, u)
                    /\ ~BeginDeleteTask(i, u) /\ ~BeginAddDoc(i, u) /\ ~BeginUploadDoc(i, u)
                    /\ ~BeginDeleteDoc(i, u)
  BY DEF TeamBegin
<1>c. \A f, p : \A r \in Role : \A changes \in BOOLEAN : ~LoadsColumn(i, f, p, r, changes)
  <2> SUFFICES ASSUME NEW f, NEW p, NEW r \in Role, NEW changes \in BOOLEAN
               PROVE  ~LoadsColumn(i, f, p, r, changes)
    OBVIOUS
  <2> DEFINE q == [op |-> "column", field |-> f, payload |-> p, given |-> r, seen |-> team.column,
                   changes |-> changes, changesRole |-> r # team.invite.role]
  <2>1. ReadyLink(q)
    BY DEF ReadyLink, TeamInv, LinkKnown
  <2>2. Ready(q)
    BY <2>1 DEF Ready, Commits
  <2> QED BY <2>2 DEF LoadsColumn
<1>p. \A f : ~LoadsPlain(i, f)
  BY <1>c DEF LoadsPlain, Role
<1>1. /\ ~BeginUpdateTeam(i, u) /\ ~BeginChannelMode(i, u) /\ ~BeginPutPolicy(i, u)
      /\ ~BeginInviteToken(i, u) /\ ~BeginSharedAgents(i, u) /\ ~BeginSharedProfiles(i, u)
  BY <1>c, <1>p, TeamConstants
     DEF Role, BeginUpdateTeam, BeginChannelMode, BeginPutPolicy, BeginInviteToken,
         BeginSharedAgents, BeginSharedProfiles
<1>2. ~BeginDeleteTeam(i, u) /\ ~BeginVisit(i, u)
  <2>1. Ready([op |-> "delete_team"]) /\ Ready([op |-> "visit"])
    BY DEF Ready, Commits
  <2> QED BY <2>1 DEF BeginDeleteTeam, BeginVisit
<1>3. ~BeginAddMember(i, u)
  <2> SUFFICES ASSUME NEW x \in Person, NEW r \in GivenRole
               PROVE  ~Loads(i, [op |-> "insert", who |-> x, given |-> r, token |-> 0])
    BY DEF BeginAddMember
  <2>1. Ready([op |-> "insert", who |-> x, given |-> r, token |-> 0])
    BY TeamConstants DEF Ready, Commits, ReadyInsert, Role
  <2> QED BY <2>1
<1>4. ~BeginJoin(i, u)
  <2> DEFINE q == [op |-> "insert", who |-> u, given |-> team.invite.role,
                   token |-> team.invite.token]
  <2>1. Ready(q)
    BY DEF Ready, Commits, ReadyInsert, TeamInv, TokensIssued
  <2> QED BY <2>1 DEF BeginJoin
<1>5. ~BeginUpdateMember(i, u) /\ ~BeginRemoveMember(i, u)
  <2>1. ASSUME RequireMembership(u), NEW x \in Person, team.role[x] \notin {NoRole, "owner"}
        PROVE  ReadyMember([who |-> x]) /\ x # Founder
    BY <2>1 DEF RequireMembership, ReadyMember, TeamInv, FounderStays
  <2>2. ASSUME RequireMembership(u), NEW x \in Person, team.role[x] \notin {NoRole, "owner"},
               NEW r \in GivenRole
        PROVE  Ready([op |-> "update_member", who |-> x, given |-> r])
    BY <2>1, <2>2, TeamConstants DEF Ready, Commits, ReadyMember
  <2>3. ASSUME RequireMembership(u), NEW x \in Person, team.role[x] \notin {NoRole, "owner"}
        PROVE  Ready([op |-> "remove_member", who |-> x])
    BY <2>1, <2>3 DEF Ready, Commits, ReadyMember
  <2> QED BY <2>2, <2>3 DEF BeginUpdateMember, BeginRemoveMember, RequirePermission
<1>6. ASSUME NEW x \in DOMAIN team.rows, NEW op \in {"update_row", "delete_row"}
      PROVE  ~OnRow(i, op, x)
  <2>1. Ready([op |-> op, row |-> x])
    BY DEF Ready, Commits, TeamInv, RowsKept
  <2> QED BY <2>1 DEF OnRow
<1>7. /\ ~BeginUpdateKnowledge(i, u) /\ ~BeginDeleteKnowledge(i, u)
      /\ ~BeginUpdateProject(i, u) /\ ~BeginProjectMembers(i, u) /\ ~BeginDeleteProject(i, u)
      /\ ~BeginUpdateTask(i, u) /\ ~BeginDeleteTask(i, u) /\ ~BeginDeleteDoc(i, u)
  BY <1>6 DEF BeginUpdateKnowledge, BeginDeleteKnowledge, BeginUpdateProject,
              BeginProjectMembers, BeginDeleteProject, BeginUpdateTask, BeginDeleteTask,
              BeginDeleteDoc, Rows
<1>8. ASSUME NEW kind \in {"knowledge", "project"} PROVE ~Below(i, "create_row", kind, 0)
  <2>1. Ready([op |-> "create_row", kind |-> kind, parent |-> 0])
    BY DEF Ready, Commits, ReadyRow, RowKind
  <2> QED BY <2>1 DEF Below
<1>9. ASSUME NEW x \in Rows("project"), NEW kind \in {"task", "doc"}
      PROVE  ~Below(i, "create_row", kind, x)
  <2>1. x \in Old /\ team.rows[x].kind = "project"
    BY DEF Rows, TeamInv, RowsKept
  <2>2. Ready([op |-> "create_row", kind |-> kind, parent |-> x])
    BY <2>1 DEF Ready, Commits, ReadyRow, RowKind
  <2> QED BY <2>2 DEF Below
<1>10. /\ ~BeginAddKnowledge(i, u) /\ ~BeginUploadKnowledge(i, u) /\ ~BeginCreateProject(i, u)
       /\ ~BeginCreateTask(i, u) /\ ~BeginAddDoc(i, u) /\ ~BeginUploadDoc(i, u)
  BY <1>8, <1>9 DEF BeginAddKnowledge, BeginUploadKnowledge, BeginCreateProject,
                    BeginCreateTask, BeginAddDoc, BeginUploadDoc
<1> QED BY <1>1, <1>2, <1>3, <1>4, <1>5, <1>7, <1>10

LEMMA LoadsKeep ==
  ASSUME TeamInv, NEW i \in TeamRequest, NEW q, Ready(q), Loads(i, q)
  PROVE  TeamInv'
<1>1. /\ treq[i].op = "fresh" /\ treq' = [treq EXCEPT ![i] = q] /\ team' = team /\ thist' = thist
  BY DEF Loads
<1>2. /\ treq' = [j \in TeamRequest |-> treq'[j]] /\ treq'[i] = q
      /\ \A j \in TeamRequest \ {i} : treq'[j] = treq[j]
  BY <1>1 DEF TeamInv, RequestsReady
<1>3. q.op # "done"
  BY DEF Ready, Commits
<1>4. Over' = Over /\ Old' = Old
  BY <1>1, <1>2, <1>3 DEF Over, Old
<1>5. \A r : Ready(r) => Ready(r)'
  BY <1>1, <1>4 DEF Ready, ReadyLink, ReadyInsert, ReadyMember, ReadyRow
<1>6. RequestsReady'
  <2> SUFFICES ASSUME NEW j \in TeamRequest
               PROVE  treq'[j].op \in {"fresh", "done"} \/ Ready(treq[j])'
    BY <1>2 DEF RequestsReady
  <2>1. CASE j = i
    <3>1. Ready(q)'
      BY <1>5
    <3>2. treq'[i] = q
      BY <1>2
    <3>3. Ready(treq[i])' = Ready(q)'
      BY <3>2 DEF Ready, ReadyLink, ReadyInsert, ReadyMember, ReadyRow
    <3> QED BY <2>1, <3>1, <3>3
  <2>2. CASE j # i
    <3>1. treq'[j] = treq[j] /\ (treq[j].op \in {"fresh", "done"} \/ Ready(treq[j]))
      BY <1>2, <2>2 DEF TeamInv, RequestsReady
    <3>2. Ready(treq[j]) => Ready(treq[j])'
      BY <1>1, <1>4, <3>1 DEF Ready, ReadyLink, ReadyInsert, ReadyMember, ReadyRow
    <3> QED BY <3>1, <3>2
  <2> QED BY <2>1, <2>2
<1>7. TeamShape' /\ RowsKept' /\ NothingLeft' /\ TokensIssued' /\ LinkKnown' /\ GoneKnown'
      /\ FounderStays' /\ FieldsSurvive' /\ GoneStaysGone'
  BY <1>1, <1>4 DEF TeamInv, TeamShape, RowsKept, NothingLeft, TokensIssued, LinkKnown,
                    GoneKnown, FounderStays, FieldsSurvive, GoneStaysGone
<1> QED BY <1>6, <1>7 DEF TeamInv

-----------------------------------------------------------------------------
(* Commits.  A request ends and everybody else's stays ready, as long as no  *)
(* old row returns or changes its kind, issued tokens keep their role and a  *)
(* link only gives way to a new one.                                         *)

Flows ==
  /\ \A j \in Over : thist'.issued[j] = thist.issued[j]
  /\ thist.raced \subseteq thist'.raced
  /\ \/ ~team'.alive
     \/ /\ team'.alive = team.alive /\ team'.invite = team.invite
        /\ team'.column["invite"] = team.column["invite"]
     \/ team'.alive = team.alive /\ team'.column["invite"] \notin Over \cup {0}
  /\ \A x \in Old : x \in DOMAIN team'.rows =>
       x \in DOMAIN team.rows /\ team'.rows[x].kind = team.rows[x].kind

LEMMA EndsReady ==
  ASSUME TeamInv, NEW i \in TeamRequest, Answers(i), treq[i].op \in Commits, Flows
  PROVE  RequestsReady' /\ Over' = Over \cup {i} /\ Old' = Old \cup {i} /\ i \notin Old
<1>1. /\ treq' = [j \in TeamRequest |-> treq'[j]] /\ treq'[i] = [op |-> "done"]
      /\ \A j \in TeamRequest \ {i} : treq'[j] = treq[j]
  BY DEF Answers, TeamInv, RequestsReady
<1>2. Over' = Over \cup {i} /\ Old' = Old \cup {i}
  BY <1>1 DEF Over, Old
<1>3. i \notin Old
  BY RowIds DEF Old, Over, Commits
<1>4. ASSUME NEW j \in TeamRequest PROVE treq'[j].op \in {"fresh", "done"} \/ Ready(treq[j])'
  <2>1. CASE j = i
    BY <1>1, <2>1
  <2>2. CASE j # i
    <3>1. treq'[j] = treq[j] /\ (treq[j].op \in {"fresh", "done"} \/ Ready(treq[j]))
      BY <1>1, <2>2 DEF TeamInv, RequestsReady
    <3>2. ReadyInsert(treq[j]) => ReadyInsert(treq[j])'
      BY <1>2, <3>1 DEF ReadyInsert, Flows
    <3>3. ReadyRow(treq[j]) => ReadyRow(treq[j])'
      BY <1>2, <3>1 DEF ReadyRow, Flows
    <3>4. ReadyLink(treq[j]) => ReadyLink(treq[j])'
      BY <1>2, <3>1 DEF ReadyLink, Flows
    <3>5. Ready(treq[j]) => Ready(treq[j])'
      BY <1>2, <3>1, <3>2, <3>3, <3>4 DEF Ready, ReadyMember
    <3> QED BY <3>1, <3>5
  <2> QED BY <2>1, <2>2
<1> QED BY <1>1, <1>2, <1>3, <1>4 DEF RequestsReady

LEMMA LoadedReady ==
  ASSUME TeamInv, NEW i \in TeamRequest, treq[i].op \notin {"fresh", "done"}
  PROVE  Ready(treq[i])
  BY DEF TeamInv, RequestsReady

(* Nothing but the columns, the policy and the link change.                  *)
LEMMA WriteColumnKeeps ==
  ASSUME TeamInv, NEW i \in TeamRequest, WriteColumn(i)
  PROVE  TeamInv'
<1> DEFINE q     == treq[i]
           links == q.field = "invite"
           other == q.seen["invite"] # team.column["invite"]
<1>1. /\ q.op = "column" /\ team.alive /\ Answers(i)
      /\ team' = [alive |-> team.alive, role |-> team.role,
                  column |-> [team.column EXCEPT ![q.field] = i],
                  policy |-> IF q.field = "policy" THEN EnsurePolicy(q.payload) ELSE team.policy,
                  invite |-> IF links THEN NewLink(i) ELSE team.invite,
                  rows |-> team.rows, channels |-> team.channels]
      /\ thist' = [lastWrite |-> [thist.lastWrite EXCEPT ![q.field] = i],
                   issued |-> [thist.issued EXCEPT ![i] = IF links THEN q.given ELSE @],
                   joined |-> thist.joined, gone |-> thist.gone,
                   raced |-> IF links /\ other THEN thist.raced \cup {i} ELSE thist.raced]
  BY DEF WriteColumn, SetColumns, Loaded, TeamInv, TeamShape
<1>2. i \notin Over /\ i # 0
  BY <1>1, RowIds DEF Over
<1>3. /\ thist'.issued = [j \in TeamRequest |-> thist'.issued[j]]
      /\ \A j \in TeamRequest \ {i} : thist'.issued[j] = thist.issued[j]
      /\ (links => thist'.issued[i] = q.given)
      /\ thist'.joined = thist.joined /\ thist.raced \subseteq thist'.raced
      /\ (links /\ other => i \in thist'.raced)
  BY <1>1 DEF TeamInv, TeamShape
<1>4. Over \subseteq TeamRequest
  BY DEF Over
<1>5. /\ DOMAIN team'.column = Column
      /\ team'.column["invite"] = IF links THEN i ELSE team.column["invite"]
  BY <1>1 DEF TeamInv, LinkKnown, Column
<1>6. Flows
  BY <1>1, <1>2, <1>3, <1>4, <1>5 DEF Flows
<1>7. RequestsReady' /\ Over' = Over \cup {i} /\ Old' = Old \cup {i}
  BY <1>1, <1>6, EndsReady DEF Commits
<1>8. TeamShape'
  <2>1. EnsurePolicy(q.payload) \subseteq Permission \X TeamRole
        /\ Permission \X {"owner"} \subseteq EnsurePolicy(q.payload)
    BY DEF EnsurePolicy, TeamRole
  <2> QED BY <1>1, <1>3, <2>1 DEF TeamInv, TeamShape
<1>9. RowsKept' /\ NothingLeft' /\ GoneKnown' /\ FounderStays' /\ FieldsSurvive' /\ GoneStaysGone'
  BY <1>1, <1>7 DEF TeamInv, RowsKept, NothingLeft, GoneKnown, FounderStays, FieldsSurvive,
                    GoneStaysGone
<1>10. LinkKnown'
  BY <1>5, <1>7 DEF TeamInv, LinkKnown
<1>11. TokensIssued'
  <2>1. ReadyLink(q)
    BY <1>1, LoadedReady DEF Ready
  <2>2. /\ team'.invite.role \in Role
        /\ team'.invite.token # 0 =>
             /\ team'.invite.token \in Over'
             /\ \/ thist'.issued[team'.invite.token] = team'.invite.role
                \/ team'.invite.token \in thist'.raced
    <3>1. CASE links
      <4>1. team'.invite = NewLink(i) /\ thist'.issued[i] = q.given
        BY <1>1, <1>3, <3>1
      <4>2. CASE q.changesRole
        BY <1>7, <2>1, <4>1, <4>2 DEF NewLink, ReadyLink
      <4>3. CASE ~q.changesRole
        <5>1. team'.invite.token = i /\ team'.invite.role = team.invite.role
          BY <4>1, <4>3 DEF NewLink
        <5>2. q.given = team.invite.role \/ i \in thist'.raced
          BY <1>1, <1>3, <2>1, <3>1, <4>3 DEF ReadyLink
        <5> QED BY <1>7, <4>1, <5>1, <5>2 DEF TeamInv, TokensIssued
      <4> QED BY <4>2, <4>3
    <3>2. CASE ~links
      <4>1. team'.invite = team.invite
        BY <1>1, <3>2
      <4> QED BY <1>2, <1>3, <1>4, <1>7, <4>1 DEF TeamInv, TokensIssued
    <3> QED BY <3>1, <3>2
  <2>3. \A u \in DOMAIN thist.joined :
          /\ thist.joined[u].token \in Over'
          /\ \/ thist.joined[u].role = thist'.issued[thist.joined[u].token]
             \/ thist.joined[u].token \in thist'.raced
    BY <1>2, <1>3, <1>4, <1>7 DEF TeamInv, TokensIssued
  <2> QED BY <1>3, <2>2, <2>3 DEF TeamInv, TokensIssued
<1> QED BY <1>7, <1>8, <1>9, <1>10, <1>11 DEF TeamInv

LEMMA DeleteTeamKeeps ==
  ASSUME TeamInv, NEW i \in TeamRequest, DeleteTeam(i)
  PROVE  TeamInv'
<1>1. /\ treq[i].op = "delete_team" /\ Answers(i)
      /\ thist' = [lastWrite |-> thist.lastWrite, issued |-> thist.issued, joined |-> <<>>,
                   raced |-> thist.raced,
                   gone |-> thist.gone \cup DOMAIN team.rows
                            \cup {u \in Person : team.role[u] # NoRole}]
      /\ team' = [alive |-> FALSE, role |-> [u \in Person |-> NoRole], column |-> team.column,
                  policy |-> team.policy, invite |-> [token |-> 0, role |-> NoRole],
                  rows |-> <<>>, channels |-> 0]
  BY DEF DeleteTeam, Loaded, TeamInv, TeamShape
<1>2. Flows
  BY <1>1 DEF Flows
<1>3. RequestsReady' /\ Over' = Over \cup {i} /\ Old' = Old \cup {i}
  BY <1>1, <1>2, EndsReady DEF Commits
<1>4. TeamShape' /\ RowsKept' /\ NothingLeft' /\ TokensIssued' /\ LinkKnown'
  BY <1>1, <1>3 DEF LinkKnown, TeamInv, TeamShape, RowsKept, NothingLeft, TokensIssued, Role
<1>5. GoneKnown' /\ FounderStays' /\ FieldsSurvive' /\ GoneStaysGone'
  BY <1>1, <1>3 DEF TeamInv, RowsKept, GoneKnown, FounderStays, FieldsSurvive, GoneStaysGone
<1> QED BY <1>3, <1>4, <1>5 DEF TeamInv

LEMMA InsertMemberKeeps ==
  ASSUME TeamInv, NEW i \in TeamRequest, InsertMember(i)
  PROVE  TeamInv'
<1> DEFINE q   == treq[i]
           row == [token |-> q.token, role |-> q.given]
<1>1. /\ q.op = "insert" /\ Answers(i) /\ team.alive /\ team.role[q.who] = NoRole
      /\ team' = [alive |-> team.alive, role |-> [team.role EXCEPT ![q.who] = q.given],
                  column |-> team.column, policy |-> team.policy, invite |-> team.invite,
                  rows |-> team.rows, channels |-> team.channels]
      /\ thist' = [lastWrite |-> thist.lastWrite, issued |-> thist.issued, raced |-> thist.raced,
                   joined |-> IF q.token # 0 THEN With(thist.joined, q.who, row) ELSE thist.joined,
                   gone |-> thist.gone \ {q.who}]
  BY DEF InsertMember, Loaded, TeamInv, TeamShape
<1>2. ReadyInsert(q)
  BY <1>1, LoadedReady DEF Ready
<1>3. Flows
  BY <1>1 DEF Flows
<1>4. RequestsReady' /\ Over' = Over \cup {i} /\ Old' = Old \cup {i}
  BY <1>1, <1>3, EndsReady DEF Commits
<1>5. TeamShape' /\ RowsKept' /\ NothingLeft' /\ LinkKnown' /\ GoneKnown' /\ FieldsSurvive'
  BY <1>1, <1>2, <1>4 DEF TeamInv, TeamShape, RowsKept, NothingLeft, LinkKnown, GoneKnown, FieldsSurvive,
                          ReadyInsert
<1>6. FounderStays' /\ GoneStaysGone'
  <2>1. \A u \in Person : team'.role[u] = IF u = q.who THEN q.given ELSE team.role[u]
    BY <1>1 DEF TeamInv, TeamShape
  <2>2. /\ thist'.gone = thist.gone \ {q.who} /\ team'.rows = team.rows
        /\ team'.alive = team.alive
    BY <1>1
  <2>3. FounderStays'
    BY <1>1, <2>1, <2>2, TeamConstants DEF TeamInv, FounderStays, NoRole
  <2>4. GoneStaysGone'
    BY <2>1, <2>2 DEF TeamInv, GoneStaysGone
  <2> QED BY <2>3, <2>4
<1>7. TokensIssued'
  <2>1. CASE q.token = 0
    BY <1>1, <1>4, <2>1 DEF TeamInv, TokensIssued
  <2>2. CASE q.token # 0
    <3>1. thist'.joined = With(thist.joined, q.who, row)
      BY <1>1, <2>2
    <3>2. /\ DOMAIN thist'.joined = DOMAIN thist.joined \cup {q.who}
          /\ thist'.joined = [u \in DOMAIN thist'.joined |-> thist'.joined[u]]
          /\ thist'.joined[q.who] = row
          /\ \A u \in DOMAIN thist.joined \ {q.who} : thist'.joined[u] = thist.joined[u]
      BY <3>1 DEF With
    <3>3. /\ row.token \in Over
          /\ row.role = thist.issued[row.token] \/ row.token \in thist.raced
      BY <1>2, <2>2 DEF ReadyInsert
    <3> HIDE DEF row
    <3> QED BY <1>1, <1>4, <3>2, <3>3 DEF TeamInv, TokensIssued
  <2> QED BY <2>1, <2>2
<1> QED BY <1>4, <1>5, <1>6, <1>7 DEF TeamInv

LEMMA UpdateMemberKeeps ==
  ASSUME TeamInv, NEW i \in TeamRequest, UpdateMember(i)
  PROVE  TeamInv'
<1> DEFINE q == treq[i]
<1>1. /\ q.op = "update_member" /\ Answers(i) /\ team.alive /\ team.role[q.who] # NoRole
      /\ team' = [alive |-> team.alive, role |-> [team.role EXCEPT ![q.who] = q.given],
                  column |-> team.column, policy |-> team.policy, invite |-> team.invite,
                  rows |-> team.rows, channels |-> team.channels]
      /\ thist' = thist
  BY DEF UpdateMember, SetsRole, Loaded, TeamInv, TeamShape
<1>2. q.who \in Person /\ q.who # Founder /\ q.given \in Role
  BY <1>1, LoadedReady DEF Ready, ReadyMember, Role
<1>3. Flows
  BY <1>1 DEF Flows
<1>4. RequestsReady' /\ Over' = Over \cup {i} /\ Old' = Old \cup {i}
  BY <1>1, <1>3, EndsReady DEF Commits
<1>5. TeamShape' /\ RowsKept' /\ NothingLeft' /\ LinkKnown' /\ GoneKnown' /\ FieldsSurvive' /\ TokensIssued'
  BY <1>1, <1>2, <1>4 DEF TeamInv, TeamShape, RowsKept, NothingLeft, LinkKnown, GoneKnown, FieldsSurvive,
                          TokensIssued
<1>6. FounderStays' /\ GoneStaysGone'
  BY <1>1, <1>2 DEF TeamInv, TeamShape, FounderStays, GoneStaysGone
<1> QED BY <1>4, <1>5, <1>6 DEF TeamInv

LEMMA RemoveMemberKeeps ==
  ASSUME TeamInv, NEW i \in TeamRequest, RemoveMember(i)
  PROVE  TeamInv'
<1> DEFINE x == treq[i].who
<1>1. /\ treq[i].op = "remove_member" /\ Answers(i)
      /\ team' = [alive |-> team.alive, role |-> [team.role EXCEPT ![x] = NoRole],
                  column |-> team.column, policy |-> team.policy, invite |-> team.invite,
                  rows |-> team.rows, channels |-> team.channels]
      /\ thist' = [lastWrite |-> thist.lastWrite, issued |-> thist.issued, raced |-> thist.raced,
                   joined |-> [u \in DOMAIN thist.joined \ {x} |-> thist.joined[u]],
                   gone |-> IF team.role[x] # NoRole THEN thist.gone \cup {x} ELSE thist.gone]
  BY DEF RemoveMember, Loaded, TeamInv, TeamShape
<1>2. x \in Person /\ x # Founder
  BY <1>1, LoadedReady DEF Ready, ReadyMember
<1>3. Flows
  BY <1>1 DEF Flows
<1>4. RequestsReady' /\ Over' = Over \cup {i} /\ Old' = Old \cup {i}
  BY <1>1, <1>3, EndsReady DEF Commits
<1>5. TeamShape' /\ RowsKept' /\ NothingLeft' /\ LinkKnown' /\ GoneKnown' /\ FieldsSurvive' /\ TokensIssued'
  BY <1>1, <1>2, <1>4 DEF TeamInv, TeamShape, RowsKept, NothingLeft, LinkKnown, GoneKnown, FieldsSurvive,
                          TokensIssued, Role
<1>6. FounderStays'
  BY <1>1, <1>2 DEF TeamInv, TeamShape, FounderStays
<1>7. GoneStaysGone'
  <2>1. x \notin DOMAIN team.rows
    BY <1>2, RowIds DEF TeamInv, RowsKept, Old, Over
  <2> QED BY <1>1, <1>2, <2>1 DEF TeamInv, TeamShape, GoneStaysGone
<1> QED BY <1>4, <1>5, <1>6, <1>7 DEF TeamInv

LEMMA CreateChannelKeeps ==
  ASSUME TeamInv, NEW i \in TeamRequest, CreateChannel(i)
  PROVE  TeamInv'
<1>1. /\ treq[i].op = "visit" /\ Answers(i) /\ team.alive /\ thist' = thist
      /\ team' = [alive |-> team.alive, role |-> team.role, column |-> team.column,
                  policy |-> team.policy, invite |-> team.invite, rows |-> team.rows,
                  channels |-> team.channels + 1]
  BY DEF CreateChannel, Loaded, TeamInv, TeamShape
<1>2. Flows
  BY <1>1 DEF Flows
<1>3. RequestsReady' /\ Over' = Over \cup {i} /\ Old' = Old \cup {i}
  BY <1>1, <1>2, EndsReady DEF Commits
<1>4. TeamShape' /\ RowsKept' /\ NothingLeft' /\ LinkKnown' /\ GoneKnown' /\ FieldsSurvive' /\ TokensIssued'
      /\ FounderStays' /\ GoneStaysGone'
  BY <1>1, <1>3 DEF TeamInv, TeamShape, RowsKept, NothingLeft, LinkKnown, GoneKnown, FieldsSurvive,
                    TokensIssued, FounderStays, GoneStaysGone
<1> QED BY <1>3, <1>4 DEF TeamInv

LEMMA TeamAsItWas ==
  ASSUME TeamInv, NEW i \in TeamRequest, TeamRollBack(i) \/ SaveUnchanged(i)
  PROVE  TeamInv'
<1>1. treq[i].op \in Commits /\ Answers(i) /\ thist' = thist /\ team' = team
  BY DEF TeamRollBack, SaveUnchanged, Loaded, Commits
<1>2. Flows
  BY <1>1 DEF Flows
<1>3. RequestsReady' /\ Over' = Over \cup {i} /\ Old' = Old \cup {i}
  BY <1>1, <1>2, EndsReady
<1>4. TeamShape' /\ RowsKept' /\ NothingLeft' /\ LinkKnown' /\ GoneKnown' /\ FieldsSurvive' /\ TokensIssued'
      /\ FounderStays' /\ GoneStaysGone'
  BY <1>1, <1>3 DEF TeamInv, TeamShape, RowsKept, NothingLeft, LinkKnown, GoneKnown, FieldsSurvive,
                    TokensIssued, FounderStays, GoneStaysGone
<1> QED BY <1>3, <1>4 DEF TeamInv

-----------------------------------------------------------------------------
(* Commits that change rows.                                                 *)

(* What does not depend on the rows stays.                                   *)
LEMMA RowsOnly ==
  ASSUME TeamInv, NEW i \in TeamRequest, treq[i].op \in Commits, Answers(i), Flows, NEW rows,
         team' = [alive |-> team.alive, role |-> team.role, column |-> team.column,
                  policy |-> team.policy, invite |-> team.invite, rows |-> rows,
                  channels |-> team.channels],
         NEW dead,
         thist' = [lastWrite |-> thist.lastWrite, issued |-> thist.issued, raced |-> thist.raced,
                   joined |-> thist.joined, gone |-> thist.gone \cup dead],
         RowsKept', ~team.alive => rows = <<>>, dead \subseteq Old,
         DOMAIN rows \cap (thist.gone \cup dead) = {}
  PROVE  TeamInv'
<1>1. RequestsReady' /\ Over' = Over \cup {i} /\ Old' = Old \cup {i}
  BY EndsReady
<1>2. TeamShape' /\ NothingLeft' /\ FieldsSurvive' /\ FounderStays' /\ GoneKnown'
  BY <1>1 DEF TeamInv, TeamShape, NothingLeft, FieldsSurvive, FounderStays, GoneKnown
<1>3. TokensIssued' /\ LinkKnown'
  BY <1>1 DEF TeamInv, TokensIssued, LinkKnown
<1>4. dead \cap Person = {}
  BY RowIds DEF Old, Over
<1>5. GoneStaysGone'
  BY <1>4 DEF TeamInv, GoneStaysGone
<1> QED BY <1>1, <1>2, <1>3, <1>5 DEF TeamInv

LEMMA CreateRowKeeps ==
  ASSUME TeamInv, NEW i \in TeamRequest, CreateRow(i)
  PROVE  TeamInv'
<1> DEFINE q    == treq[i]
           new  == [kind |-> q.kind, parent |-> q.parent, text |-> i]
           rows == With(team.rows, i, new)
<1>1. /\ q.op = "create_row" /\ Answers(i) /\ team.alive /\ thist' = thist
      /\ q.parent \in {0} \cup DOMAIN team.rows
      /\ team' = [alive |-> team.alive, role |-> team.role, column |-> team.column,
                  policy |-> team.policy, invite |-> team.invite, rows |-> rows,
                  channels |-> team.channels]
  BY DEF CreateRow, Loaded, TeamInv, TeamShape
<1>2. ReadyRow(q)
  BY <1>1, LoadedReady DEF Ready
<1>3. i \notin Old /\ i \notin Person
  BY <1>1, RowIds DEF Old, Over
<1>4. /\ DOMAIN rows = DOMAIN team.rows \cup {i} /\ rows[i] = new
      /\ \A x \in DOMAIN team.rows \ {i} : rows[x] = team.rows[x]
      /\ rows = [x \in DOMAIN rows |-> rows[x]]
  BY DEF With
<1>5. i \notin DOMAIN team.rows /\ i \notin thist.gone
  BY <1>3 DEF TeamInv, RowsKept, GoneKnown
<1>6. new.kind = q.kind /\ new.parent = q.parent
      /\ new = [kind |-> new.kind, parent |-> new.parent, text |-> new.text]
  OBVIOUS
<1> HIDE DEF rows, new
<1>7. Flows
  BY <1>1, <1>3, <1>4 DEF Flows
<1>8. Over' = Over \cup {i} /\ Old' = Old \cup {i}
  BY <1>1, <1>7, EndsReady DEF Commits
<1>9. RowsKept'
  <2>1. ASSUME NEW x \in DOMAIN team.rows
        PROVE  /\ rows[x] = team.rows[x]
               /\ team.rows[x].kind \in {"task", "doc"} =>
                    rows[team.rows[x].parent] = team.rows[team.rows[x].parent]
    BY <1>4, <1>5 DEF TeamInv, RowsKept
  <2>2. q.kind \in {"task", "doc"} =>
          q.parent \in DOMAIN team.rows /\ rows[q.parent].kind = "project"
    <3>1. 0 \notin Old
      BY RowIds DEF Old, Over
    <3> QED BY <1>1, <1>2, <3>1, <2>1 DEF ReadyRow
  <2>3. DOMAIN rows \subseteq Old'
    BY <1>4, <1>8 DEF TeamInv, RowsKept
  <2>4. ASSUME NEW x \in DOMAIN rows
        PROVE  /\ rows[x] = [kind |-> rows[x].kind, parent |-> rows[x].parent,
                             text |-> rows[x].text]
               /\ rows[x].kind \in RowKind
               /\ rows[x].kind \in {"knowledge", "project"} => rows[x].parent = 0
               /\ rows[x].kind \in {"task", "doc"} =>
                    rows[x].parent \in DOMAIN rows /\ rows[rows[x].parent].kind = "project"
    <3>1. CASE x = i
      BY <3>1, <1>2, <1>4, <1>6, <2>2 DEF ReadyRow
    <3>2. CASE x # i
      BY <3>2, <1>4, <2>1 DEF TeamInv, RowsKept
    <3> QED BY <3>1, <3>2
  <2>5. team'.rows = rows
    BY <1>1
  <2> QED BY <1>4, <2>3, <2>4, <2>5 DEF RowsKept
<1>10. /\ thist' = [lastWrite |-> thist.lastWrite, issued |-> thist.issued, raced |-> thist.raced,
                    joined |-> thist.joined, gone |-> thist.gone \cup {}]
       /\ DOMAIN rows \cap (thist.gone \cup {}) = {}
  BY <1>1, <1>4, <1>5 DEF TeamInv, TeamShape, GoneStaysGone
<1> QED BY <1>1, <1>7, <1>9, <1>10, RowsOnly DEF Commits

LEMMA UpdateRowKeeps ==
  ASSUME TeamInv, NEW i \in TeamRequest, UpdateRow(i)
  PROVE  TeamInv'
<1> DEFINE r    == treq[i].row
           rows == [team.rows EXCEPT ![r].text = i]
<1>1. /\ treq[i].op = "update_row" /\ Answers(i) /\ r \in DOMAIN team.rows /\ thist' = thist
      /\ team' = [alive |-> team.alive, role |-> team.role, column |-> team.column,
                  policy |-> team.policy, invite |-> team.invite, rows |-> rows,
                  channels |-> team.channels]
  BY DEF UpdateRow, Loaded, TeamInv, TeamShape
<1>2. /\ DOMAIN rows = DOMAIN team.rows /\ rows = [x \in DOMAIN rows |-> rows[x]]
      /\ rows[r] = [kind |-> team.rows[r].kind, parent |-> team.rows[r].parent, text |-> i]
      /\ \A x \in DOMAIN team.rows \ {r} : rows[x] = team.rows[x]
  <2>1. team.rows = [x \in DOMAIN team.rows |-> team.rows[x]]
        /\ team.rows[r] = [kind |-> team.rows[r].kind, parent |-> team.rows[r].parent,
                           text |-> team.rows[r].text]
    BY <1>1 DEF TeamInv, RowsKept
  <2>2. rows[r] = [team.rows[r] EXCEPT !.text = i]
    BY <1>1
  <2> QED BY <1>1, <2>1, <2>2
<1> HIDE DEF rows
<1>3. \A x \in DOMAIN team.rows :
        rows[x].kind = team.rows[x].kind /\ rows[x].parent = team.rows[x].parent
  BY <1>2
<1>4. Flows
  BY <1>1, <1>2, <1>3 DEF Flows
<1>5. Old' = Old \cup {i}
  BY <1>1, <1>4, EndsReady DEF Commits
<1>6. RowsKept'
  <2>1. \A x \in DOMAIN rows :
          rows[x] = [kind |-> rows[x].kind, parent |-> rows[x].parent, text |-> rows[x].text]
    BY <1>1, <1>2 DEF TeamInv, RowsKept
  <2>2. team'.rows = rows
    BY <1>1
  <2>3. \A x \in DOMAIN rows :
          /\ rows[x].kind \in RowKind
          /\ rows[x].kind \in {"knowledge", "project"} => rows[x].parent = 0
    BY <1>2, <1>3 DEF TeamInv, RowsKept
  <2>4. \A x \in DOMAIN rows : rows[x].kind \in {"task", "doc"} =>
          rows[x].parent \in DOMAIN rows /\ rows[rows[x].parent].kind = "project"
    <3> SUFFICES ASSUME NEW x \in DOMAIN rows, rows[x].kind \in {"task", "doc"}
                 PROVE  rows[x].parent \in DOMAIN rows /\ rows[rows[x].parent].kind = "project"
      OBVIOUS
    <3>1. /\ rows[x].parent \in DOMAIN team.rows
          /\ team.rows[rows[x].parent].kind = "project"
      <4>1. x \in DOMAIN team.rows /\ team.rows[x].kind \in {"task", "doc"}
            /\ rows[x].parent = team.rows[x].parent
        BY <1>2, <1>3
      <4> QED BY <4>1 DEF TeamInv, RowsKept
    <3> QED BY <1>2, <1>3, <3>1
  <2>5. DOMAIN rows \subseteq Old'
    BY <1>2, <1>5 DEF TeamInv, RowsKept
  <2> QED BY <1>2, <2>1, <2>2, <2>3, <2>4, <2>5 DEF RowsKept
<1>7. ~team.alive => rows = <<>>
  BY <1>1 DEF TeamInv, NothingLeft
<1>8. /\ thist' = [lastWrite |-> thist.lastWrite, issued |-> thist.issued, raced |-> thist.raced,
                   joined |-> thist.joined, gone |-> thist.gone \cup {}]
      /\ DOMAIN rows \cap (thist.gone \cup {}) = {}
  BY <1>1, <1>2 DEF TeamInv, TeamShape, GoneStaysGone
<1> QED BY <1>1, <1>4, <1>6, <1>7, <1>8, RowsOnly DEF Commits

LEMMA DeleteRowKeeps ==
  ASSUME TeamInv, NEW i \in TeamRequest, DeleteRow(i)
  PROVE  TeamInv'
<1> DEFINE r    == treq[i].row
           dead == {x \in DOMAIN team.rows : r \in {x, team.rows[x].parent}}
           rows == [x \in DOMAIN team.rows \ dead |-> team.rows[x]]
<1>1. /\ treq[i].op = "delete_row" /\ Answers(i)
      /\ team' = [alive |-> team.alive, role |-> team.role, column |-> team.column,
                  policy |-> team.policy, invite |-> team.invite, rows |-> rows,
                  channels |-> team.channels]
      /\ thist' = [lastWrite |-> thist.lastWrite, issued |-> thist.issued, raced |-> thist.raced,
                   joined |-> thist.joined, gone |-> thist.gone \cup dead]
  BY DEF DeleteRow, Loaded, TeamInv, TeamShape
<1>2. r \in Old /\ r # 0
  BY <1>1, LoadedReady, RowIds DEF Ready, Old, Over
<1>3. /\ DOMAIN rows \subseteq DOMAIN team.rows
      /\ \A x \in DOMAIN rows : rows[x] = team.rows[x] /\ x \notin dead
  OBVIOUS
<1>4. Flows
  BY <1>1, <1>3 DEF Flows
<1>5. Old' = Old \cup {i}
  BY <1>1, <1>4, EndsReady DEF Commits
<1>6. ASSUME NEW x \in DOMAIN rows, rows[x].kind \in {"task", "doc"}
      PROVE  rows[x].parent \in DOMAIN rows
  <2> DEFINE p == team.rows[x].parent
  <2>1. p \in DOMAIN team.rows /\ team.rows[p].kind = "project" /\ p # r
    BY <1>6 DEF TeamInv, RowsKept
  <2>2. team.rows[p].parent = 0
    BY <2>1 DEF TeamInv, RowsKept
  <2> QED BY <1>2, <1>6, <2>1, <2>2
<1>7. RowsKept'
  <2>1. \A x \in DOMAIN rows : rows[x].kind \in {"task", "doc"} =>
          rows[x].parent \in DOMAIN rows /\ rows[rows[x].parent].kind = "project"
    BY <1>3, <1>6 DEF TeamInv, RowsKept
  <2>2. rows = [x \in DOMAIN rows |-> rows[x]] /\ team'.rows = rows
    BY <1>1
  <2> HIDE DEF rows, dead
  <2> QED BY <1>3, <1>5, <2>1, <2>2 DEF TeamInv, RowsKept
<1>8. ~team.alive => rows = <<>>
  BY DEF TeamInv, NothingLeft
<1>9. dead \subseteq Old /\ DOMAIN rows \cap (thist.gone \cup dead) = {}
  BY DEF TeamInv, RowsKept, GoneStaysGone
<1> HIDE DEF rows, dead
<1> QED BY <1>1, <1>4, <1>7, <1>8, <1>9, RowsOnly DEF Commits

-----------------------------------------------------------------------------
LEMMA TeamInvariant == TeamSpec => []TeamInv
<1>1. TeamInv /\ [TeamNext]_teamVars => TeamInv'
  <2> SUFFICES ASSUME TeamInv, [TeamNext]_teamVars PROVE TeamInv'
    OBVIOUS
  <2>1. ASSUME NEW i \in TeamRequest, TeamBegin(i) PROVE TeamInv'
    BY <2>1, BeginsReady, LoadsKeep
  <2>2. CASE UNCHANGED teamVars
    <3>1. team' = team /\ treq' = treq /\ thist' = thist
      BY <2>2 DEF teamVars
    <3>2. Over' = Over /\ Old' = Old
      BY <3>1 DEF Over, Old
    <3> QED BY <3>1, <3>2 DEF TeamInv, RequestsReady, Ready, ReadyLink, ReadyInsert, ReadyMember,
              ReadyRow, TeamShape, RowsKept, NothingLeft, TokensIssued, LinkKnown, GoneKnown, FounderStays,
              FieldsSurvive, GoneStaysGone
  <2> QED BY <2>1, <2>2, WriteColumnKeeps, DeleteTeamKeeps, InsertMemberKeeps,
     UpdateMemberKeeps,
             RemoveMemberKeeps, CreateChannelKeeps, CreateRowKeeps, UpdateRowKeeps,
             DeleteRowKeeps, TeamAsItWas DEF TeamNext
<1> QED BY <1>1, TeamInitially, PTL DEF TeamSpec

(* However the requests of any number of members interleave between the read *)
(* and the commit of each: a team never loses its founder, whoever joins by  *)
(* a link gets the role the presented token was issued with unless that      *)
(* token's request had loaded another link than the one it replaced, each    *)
(* column holds what was last changed in it, tasks and documents keep their  *)
(* project, a stored policy gives the owner everything, and nothing is left  *)
(* of a deleted team.                                                        *)
THEOREM TeamConsistentHolds == TeamSpec => []TeamConsistent
<1>1. TeamInv => TeamConsistent
  <2> SUFFICES ASSUME TeamInv PROVE TeamConsistent
    OBVIOUS
  <2>1. TeamTypeOK
    BY DEF TeamInv, TeamShape, RowsKept, NothingLeft, Role, TeamTypeOK
  <2>2. TokenGivesItsRole
    BY DEF TeamInv, TokensIssued, TokenGivesItsRole
  <2> QED BY <2>1, <2>2 DEF TeamInv, TeamConsistent
<1> QED BY <1>1, TeamInvariant, PTL

(* A change that was under way when its member or row was deleted does not   *)
(* bring it back.                                                            *)
THEOREM GoneStaysGoneHolds == TeamSpec => []GoneStaysGone
<1>1. TeamInv => GoneStaysGone
  BY DEF TeamInv
<1> QED BY <1>1, TeamInvariant, PTL

-----------------------------------------------------------------------------
(* Accounts.                                                                 *)

AccountShape ==
  /\ acct = [user |-> acct.user, provider |-> acct.provider, mapped |-> acct.mapped,
             teamAlive |-> acct.teamAlive, joined |-> acct.joined]
  /\ uhist = [raced |-> uhist.raced, failed |-> uhist.failed, taken |-> uhist.taken,
              out |-> uhist.out,
              secret |-> uhist.secret, secretRaced |-> uhist.secretRaced]
  /\ acct.teamAlive \in BOOLEAN /\ uhist.secretRaced \in BOOLEAN
  /\ uhist.out \subseteq Known

WellFormed(user) ==
  /\ DOMAIN user \subseteq Email
  /\ user = [e \in DOMAIN user |-> user[e]]
  /\ \A e \in DOMAIN user :
       /\ user[e] = [ext |-> user[e].ext, handle |-> user[e].handle, status |-> user[e].status,
                     active |-> user[e].active,
                     word |-> user[e].word, stale |-> user[e].stale]
       /\ user[e].status \in {"active", "inactive"} /\ user[e].ext \in Ext \cup {NoExt}
       /\ user[e].active \in BOOLEAN
  /\ \A x \in Ext, d, e \in DOMAIN user : user[d].ext = x /\ user[e].ext = x => d = e

(* What the lookups of a sign-in found still holds of the rows, or another   *)
(* commit came in between.                                                   *)
Owners(user, x) == {e \in DOMAIN user : user[e].ext = x}

Used(user, h, e) == h # NoHandle /\ \E d \in DOMAIN user \ {e} : user[d].handle = h

Fits(i, q, user, joined, raced) ==
  /\ q.op = "create" => q.email \in Email /\ (i \in raced \/ q.email \notin DOMAIN user)
  /\ q.op \in {"create", "me"} => i \in raced \/ q.taken \/ ~Used(user, q.handle, q.email)
  /\ q.op \in {"login", "word", "update", "me"} => q.email \in DOMAIN user
  /\ q.op = "update" => q.status \in {"active", "inactive", "unset"}
  /\ q.op = "directory" => q.ids \subseteq Ext
  /\ q.op \in {"by_ext", "by_email", "provision"} => q.ext \in Ext /\ q.email \in Email
  /\ q.op = "by_ext" => q = [op |-> q.op, ext |-> q.ext, email |-> q.email, mapped |-> q.mapped]
  /\ q.op = "by_email" => i \in raced \/ Owners(user, q.ext) = {}
  /\ q.op = "provision" =>
       /\ q.new \/ q.email \in DOMAIN user
       /\ \/ i \in raced
          \/ /\ q.new => q.email \notin DOMAIN user
             /\ Owners(user, q.ext) \subseteq {q.email}
             /\ q.joins => q.email \notin joined
  /\ q.op = "provider" => q.secret \in {0, i}

Found(i, q) == Fits(i, q, acct.user, acct.joined, uhist.raced)

AllFound ==
  /\ areq = [i \in AccountRequest |-> areq[i]]
  /\ \A i \in AccountRequest : Fits(i, areq[i], acct.user, acct.joined, uhist.raced)

AccountInv ==
  /\ AccountShape /\ WellFormed(acct.user) /\ AllFound
  /\ acct.joined \subseteq Known /\ (~acct.teamAlive => acct.joined = {})
  /\ SignInFailsForAReason /\ DisabledStaysOut /\ SecretKept

LEMMA FitsKept ==
  ASSUME NEW i, NEW q, NEW user, NEW joined, NEW raced, NEW joined2,
         Fits(i, q, user, joined, raced), joined2 \subseteq joined
  PROVE  Fits(i, q, user, joined2, raced)
  BY DEF Fits

LEMMA FitsRaced ==
  ASSUME NEW i, NEW q, NEW user, NEW joined, NEW raced, NEW user2, NEW joined2, NEW raced2,
         Fits(i, q, user, joined, raced), DOMAIN user \subseteq DOMAIN user2, i \in raced2
  PROVE  Fits(i, q, user2, joined2, raced2)
  BY DEF Fits

LEMMA DoneFits ==
  ASSUME NEW i, NEW user, NEW joined, NEW raced
  PROVE  Fits(i, [op |-> "done"], user, joined, raced) /\ Fits(i, [op |-> "fresh"], user, joined, raced)
  BY DEF Fits

LEMMA AccountInitially == AccountInit => AccountInv
<1> SUFFICES ASSUME AccountInit PROVE AccountInv
  OBVIOUS
<1> DEFINE row == [Row(NoExt, NoHandle, MaxAccountRequests + 1) EXCEPT !.stale = TRUE]
<1>1. /\ acct.user = [e \in LocalUser |-> row] /\ acct.teamAlive = TRUE /\ acct.joined = {}
      /\ acct = [user |-> acct.user, provider |-> acct.provider, mapped |-> acct.mapped,
                 teamAlive |-> acct.teamAlive, joined |-> acct.joined]
      /\ areq = [i \in AccountRequest |-> [op |-> "fresh"]]
      /\ uhist = [raced |-> {}, failed |-> {}, taken |-> {}, out |-> {},
                  secret |-> acct.provider.secret,
                  secretRaced |-> FALSE]
  BY DEF AccountInit
<1>2. WellFormed(acct.user)
  <2>1. /\ DOMAIN acct.user = LocalUser /\ acct.user = [e \in DOMAIN acct.user |-> acct.user[e]]
        /\ \A e \in DOMAIN acct.user : acct.user[e] = row
    BY <1>1
  <2>2. /\ row = [ext |-> row.ext, handle |-> row.handle, status |-> row.status,
                  active |-> row.active,
                   word |-> row.word, stale |-> row.stale]
        /\ row.ext = NoExt /\ row.status = "active" /\ row.active = TRUE
    <3>1. row.ext = NoExt
      BY DEF Row
    <3>2. row.status = "active"
      BY DEF Row
    <3>3. row.active = TRUE
      BY DEF Row
    <3>4. row = [ext |-> row.ext, handle |-> row.handle, status |-> row.status,
                 active |-> row.active,
                   word |-> row.word, stale |-> row.stale]
      <4>1. ASSUME NEW x, NEW r, r = Row(NoExt, NoHandle, x)
            PROVE  DOMAIN r = {"ext", "handle", "status", "active", "word", "stale"}
                   /\ r = [k \in DOMAIN r |-> r[k]]
        BY <4>1 DEF Row
      <4>2. DOMAIN row = {"ext", "handle", "status", "active", "word", "stale"}
            /\ row = [k \in DOMAIN row |-> row[k]]
        BY <4>1
      <4> HIDE DEF row
      <4> QED BY <4>2
    <3> QED BY <3>1, <3>2, <3>3, <3>4
  <2> HIDE DEF row
  <2> QED BY <2>1, <2>2, AccountConstants DEF WellFormed
<1>3. AccountShape /\ SignInFailsForAReason /\ DisabledStaysOut /\ SecretKept
  BY <1>1 DEF AccountShape, SignInFailsForAReason, DisabledStaysOut, SecretKept
<1>4. AllFound
  BY <1>1, DoneFits DEF AllFound
<1> QED BY <1>1, <1>2, <1>3, <1>4 DEF AccountInv

-----------------------------------------------------------------------------
(* Steps of one request that leave the rows alone.                           *)

LEMMA RequestTurns ==
  ASSUME AccountInv, NEW i \in AccountRequest, NEW q, Found(i, q),
         areq' = [areq EXCEPT ![i] = q], acct' = acct, uhist' = uhist
  PROVE  AccountInv'
<1>1. /\ areq' = [j \in AccountRequest |-> areq'[j]] /\ areq'[i] = q
      /\ \A j \in AccountRequest \ {i} : areq'[j] = areq[j]
  BY DEF AccountInv, AllFound
<1>2. \A j \in AccountRequest : Fits(j, areq'[j], acct'.user, acct'.joined, uhist'.raced)
  BY <1>1 DEF AccountInv, AllFound, Found, Fits, Known
<1>3. AllFound'
  BY <1>1, <1>2 DEF AllFound
<1>4. /\ AccountShape' /\ WellFormed(acct'.user) /\ acct'.joined \subseteq Known'
      /\ (~acct'.teamAlive => acct'.joined = {})
      /\ SignInFailsForAReason' /\ DisabledStaysOut' /\ SecretKept'
  BY DEF AccountInv, AccountShape, Known, SignInFailsForAReason, DisabledStaysOut, SecretKept
<1> QED BY <1>3, <1>4 DEF AccountInv

LEMMA OneOwner ==
  ASSUME AccountInv, NEW x \in Ext, NEW e \in OwnerOf(x)
  PROVE  OwnerOf(x) \subseteq {e} /\ e \in Known /\ e \in Email
  BY DEF AccountInv, WellFormed, OwnerOf, Known

(* A request begins.                                                         *)
LEMMA AccountBegins ==
  ASSUME AccountInv, NEW i \in AccountRequest,
         \/ LocalLogin(i) \/ ChangePassword(i) \/ CreateUser(i) \/ UpdateUser(i) \/ UpdateMe(i)
         \/ AuthenticateExternal(i) \/ WecomCallback(i) \/ UpdateProvider(i)
  PROVE  AccountInv'
<1>1. ASSUME NEW q, Takes(i, q), Found(i, q) PROVE AccountInv'
  BY <1>1, RequestTurns DEF Takes
<1>2. CASE LocalLogin(i)
  <2>1. PICK e \in Known : Takes(i, [op |-> "login", email |-> e, row |-> acct.user[e]])
    BY <1>2 DEF LocalLogin
  <2>2. Found(i, [op |-> "login", email |-> e, row |-> acct.user[e]])
    BY DEF Found, Fits, Known
  <2> QED BY <1>1, <2>1, <2>2
<1>3. CASE ChangePassword(i)
  <2>1. PICK e \in Known : Takes(i, [op |-> "word", email |-> e])
    BY <1>3 DEF ChangePassword
  <2>2. Found(i, [op |-> "word", email |-> e])
    BY DEF Found, Fits, Known
  <2> QED BY <1>1, <2>1, <2>2
<1>4. CASE CreateUser(i) \/ UpdateMe(i)
  <2>1. PICK e \in Email, op \in {"create", "me"} :
          Chooses(i, op, e) /\ (op = "create" <=> e \notin Known)
    <3>1. Known \subseteq Email
      BY DEF AccountInv, WellFormed, Known
    <3> QED BY <1>4, <3>1 DEF CreateUser, UpdateMe
  <2>2. PICK h : Takes(i, [op |-> op, email |-> e, handle |-> h, taken |-> HandleInUse(h, e)])
    BY <2>1 DEF Chooses
  <2> DEFINE taken == HandleInUse(h, e)
             q     == [op |-> op, email |-> e, handle |-> h, taken |-> taken]
  <2>3. taken \/ ~Used(acct.user, h, e)
    BY DEF HandleInUse, Used, Known
  <2>4. Takes(i, q) /\ q.op = op /\ q.email = e /\ q.handle = h /\ q.taken = taken
    BY <2>2
  <2> HIDE DEF q, taken
  <2>5. Found(i, q)
    BY <2>1, <2>3, <2>4 DEF Found, Fits, Known
  <2> QED BY <1>1, <2>4, <2>5
<1>5. CASE UpdateUser(i)
  <2>1. PICK e \in Known, s \in {"active", "inactive", "unset"} :
          Takes(i, [op |-> "update", email |-> e, status |-> s, row |-> acct.user[e]])
    BY <1>5 DEF UpdateUser
  <2>2. Found(i, [op |-> "update", email |-> e, status |-> s, row |-> acct.user[e]])
    BY DEF Found, Fits, Known
  <2> QED BY <1>1, <2>1, <2>2
<1>6. CASE AuthenticateExternal(i) \/ WecomCallback(i)
  <2>1. PICK ids \in {LdapId, WecomId} :
          Takes(i, [op |-> "directory", ids |-> ids, secret |-> acct.provider.secret])
    BY <1>6 DEF AuthenticateExternal, WecomCallback, Asks
  <2>2. Found(i, [op |-> "directory", ids |-> ids, secret |-> acct.provider.secret])
    BY DEF Found, Fits, Ext
  <2> QED BY <1>1, <2>1, <2>2
<1>7. CASE UpdateProvider(i)
  <2>1. PICK s \in {0, i}, on \in BOOLEAN :
          Takes(i, [op |-> "provider", secret |-> s, enabled |-> on, seen |-> acct.provider.secret])
    BY <1>7 DEF UpdateProvider
  <2>2. Found(i, [op |-> "provider", secret |-> s, enabled |-> on, seen |-> acct.provider.secret])
    BY DEF Found, Fits, Known
  <2> QED BY <1>1, <2>1, <2>2
<1> QED BY <1>2, <1>3, <1>4, <1>5, <1>6, <1>7

(* The lookups of a sign-in.                                                 *)
LEMMA SignInLooks ==
  ASSUME AccountInv, NEW i \in AccountRequest,
         DirectoryRefuses(i) \/ DirectoryAnswers(i) \/ FindByExt(i) \/ FindByEmail(i)
  PROVE  AccountInv'
<1>1. ASSUME NEW q, Turns(i, q), Found(i, q) PROVE AccountInv'
  BY <1>1, RequestTurns DEF Turns
<1>0. Found(i, areq[i])
  BY DEF AccountInv, AllFound, Found
<1>2. CASE DirectoryRefuses(i)
  <2>1. Found(i, [op |-> "done"])
    BY DEF Found, Fits, Known
  <2> QED BY <1>1, <1>2, <2>1 DEF DirectoryRefuses
<1>3. CASE DirectoryAnswers(i)
  <2>1. PICK x \in areq[i].ids, e \in Email, m \in {acct.mapped, FALSE} :
          Turns(i, [op |-> "by_ext", ext |-> x, email |-> e, mapped |-> m])
    BY <1>3 DEF DirectoryAnswers
  <2>2. x \in Ext
    BY <1>0, <1>3 DEF DirectoryAnswers, Found, Fits, Known
  <2>3. Found(i, [op |-> "by_ext", ext |-> x, email |-> e, mapped |-> m])
    BY <2>2 DEF Found, Fits, Known
  <2> QED BY <1>1, <2>1, <2>3
<1>4. ASSUME NEW e, NEW new, Finds(i, e, new), areq[i].ext \in Ext, e \in Email,
             new \/ e \in Known,
             \/ i \in uhist.raced
             \/ (new => e \notin Known) /\ OwnerOf(areq[i].ext) \subseteq {e}
      PROVE  AccountInv'
  <2> DEFINE q == [op |-> "provision", ext |-> areq[i].ext, email |-> e, new |-> new,
                   joins |-> areq[i].mapped /\ e \notin acct.joined]
  <2>1. /\ q.op = "provision" /\ q.ext = areq[i].ext /\ q.email = e /\ (q.new <=> new)
        /\ (q.joins => e \notin acct.joined)
    OBVIOUS
  <2>2. Turns(i, q)
    BY <1>4 DEF Finds
  <2> HIDE DEF q
  <2>3. Found(i, q)
    BY <1>4, <2>1 DEF Found, Fits, Known, OwnerOf, Owners
  <2> QED BY <1>1, <2>2, <2>3
<1>5. CASE FindByExt(i)
  <2>1. /\ areq[i].op = "by_ext" /\ areq[i].ext \in Ext /\ areq[i].email \in Email
        /\ areq[i] = [op |-> "by_ext", ext |-> areq[i].ext, email |-> areq[i].email,
                      mapped |-> areq[i].mapped]
    BY <1>0, <1>5 DEF FindByExt, Found, Fits, Known
  <2>2. ASSUME NEW e \in OwnerOf(areq[i].ext), Finds(i, e, FALSE) PROVE AccountInv'
    BY <1>4, <2>1, <2>2, OneOwner
  <2>3. ASSUME OwnerOf(areq[i].ext) = {}, Turns(i, [areq[i] EXCEPT !.op = "by_email"])
        PROVE  AccountInv'
    <3>1. [areq[i] EXCEPT !.op = "by_email"] =
            [op |-> "by_email", ext |-> areq[i].ext, email |-> areq[i].email,
             mapped |-> areq[i].mapped]
      BY <2>1
    <3>2. Found(i, [op |-> "by_email", ext |-> areq[i].ext, email |-> areq[i].email,
                    mapped |-> areq[i].mapped])
      BY <2>1, <2>3 DEF Found, Fits, Known, OwnerOf, Owners
    <3> QED BY <1>1, <2>3, <3>1, <3>2
  <2> QED BY <1>5, <2>2, <2>3 DEF FindByExt
<1>6. CASE FindByEmail(i)
  <2> DEFINE e == areq[i].email
  <2>1. /\ areq[i].op = "by_email" /\ areq[i].ext \in Ext /\ e \in Email
        /\ (i \in uhist.raced \/ OwnerOf(areq[i].ext) = {})
        /\ Finds(i, e, ~(TRUE /\ e \in Known))
    BY <1>0, <1>6 DEF FindByEmail, LooksUp, Found, Fits, Known, OwnerOf, Owners
  <2> QED BY <1>4, <2>1
<1> QED BY <1>2, <1>3, <1>5, <1>6 DEF DirectoryRefuses

-----------------------------------------------------------------------------
(* Commits.                                                                  *)

LEMMA RequestCloses ==
  ASSUME AccountInv, NEW i \in AccountRequest, Closes(i)
  PROVE  /\ areq' = [j \in AccountRequest |-> areq'[j]] /\ areq'[i] = [op |-> "done"]
         /\ \A j \in AccountRequest \ {i} : areq'[j] = areq[j]
  BY DEF Closes, AccountInv, AllFound

LEMMA RowsCommitted ==
  ASSUME AccountInv, NEW i \in AccountRequest, NEW user, NEW joined,
         CommitsRows(i, user, joined), WellFormed(user), Known \subseteq DOMAIN user,
         joined \subseteq DOMAIN user, ~acct.teamAlive => joined = {},
         \A e \in uhist.out : ~user[e].active
  PROVE  AccountInv'
<1>1. /\ acct' = [user |-> user, provider |-> acct.provider, mapped |-> acct.mapped,
                  teamAlive |-> acct.teamAlive, joined |-> joined]
      /\ uhist' = [raced |-> uhist.raced \cup {j \in AccountRequest \ {i} : Open(j)},
                   failed |-> uhist.failed, taken |-> uhist.taken, out |-> uhist.out,
                   secret |-> uhist.secret,
                   secretRaced |-> uhist.secretRaced]
      /\ Closes(i)
  BY DEF CommitsRows, AccountInv, AccountShape
<1>2. Known' = DOMAIN user
  BY <1>1 DEF Known
<1>3. ASSUME NEW j \in AccountRequest
      PROVE  Fits(j, areq'[j], acct'.user, acct'.joined, uhist'.raced)
  <2>1. CASE j = i \/ areq[j].op \in {"fresh", "done"}
    <3>1. areq'[j].op \in {"fresh", "done"}
      BY <1>1, <2>1, RequestCloses
    <3> QED BY <3>1 DEF Fits
  <2>2. CASE j # i /\ areq[j].op \notin {"fresh", "done"}
    <3>1. /\ areq'[j] = areq[j] /\ Fits(j, areq[j], acct.user, acct.joined, uhist.raced)
      BY <1>1, <2>2, RequestCloses DEF AccountInv, AllFound
    <3>2. j \in uhist'.raced /\ DOMAIN acct.user \subseteq DOMAIN acct'.user
      BY <1>1, <2>2 DEF Open, Known
    <3> QED BY <3>1, <3>2, FitsRaced
  <2> QED BY <2>1, <2>2
<1>4. AllFound'
  BY <1>1, <1>3, RequestCloses DEF AllFound
<1>5. AccountShape' /\ WellFormed(acct'.user) /\ acct'.joined \subseteq Known'
      /\ (~acct'.teamAlive => acct'.joined = {})
  BY <1>1, <1>2 DEF AccountInv, AccountShape
<1>6. SignInFailsForAReason' /\ DisabledStaysOut' /\ SecretKept'
  BY <1>1 DEF AccountInv, SignInFailsForAReason, DisabledStaysOut, SecretKept
<1> QED BY <1>4, <1>5, <1>6 DEF AccountInv

LEMMA SameOwners ==
  ASSUME AccountInv, NEW user, DOMAIN user = Known, user = [d \in DOMAIN user |-> user[d]],
         \A d \in Known :
           /\ user[d].ext = acct.user[d].ext /\ user[d].status \in {"active", "inactive"}
           /\ user[d].active \in BOOLEAN
           /\ user[d] = [ext |-> user[d].ext, handle |-> user[d].handle, status |-> user[d].status,
                         active |-> user[d].active, word |-> user[d].word,
                         stale |-> user[d].stale]
  PROVE  WellFormed(user)
<1>0. WellFormed(acct.user) /\ Known = DOMAIN acct.user
  BY DEF AccountInv, Known
<1>1. Known \subseteq Email /\ \A d \in Known : user[d].ext \in Ext \cup {NoExt}
  BY <1>0 DEF WellFormed
<1>2. ASSUME NEW x \in Ext, NEW c \in Known, NEW d \in Known, user[c].ext = x, user[d].ext = x
      PROVE  c = d
  <2>1. acct.user[c].ext = x /\ acct.user[d].ext = x
    BY <1>2
  <2> QED BY <1>0, <2>1 DEF WellFormed
<1> QED BY <1>1, <1>2 DEF WellFormed

(* A row whose owner, status and use are kept, or a row of its own.          *)
LEMMA RowChanged ==
  ASSUME AccountInv, NEW e \in Known, NEW r,
         r = [ext |-> r.ext, handle |-> r.handle, status |-> r.status, active |-> r.active,
              word |-> r.word,
              stale |-> r.stale],
         r.ext = acct.user[e].ext, r.status = acct.user[e].status,
         r.active = acct.user[e].active
  PROVE  /\ WellFormed([acct.user EXCEPT ![e] = r])
         /\ DOMAIN [acct.user EXCEPT ![e] = r] = Known
         /\ \A d \in uhist.out : ~[acct.user EXCEPT ![e] = r][d].active
<1> DEFINE user == [acct.user EXCEPT ![e] = r]
<1>1. DOMAIN user = Known /\ user = [d \in DOMAIN user |-> user[d]]
      /\ user[e] = r /\ \A d \in Known \ {e} : user[d] = acct.user[d]
  BY DEF Known, AccountInv, WellFormed
<1> HIDE DEF user
<1>2. \A d \in Known :
        /\ user[d].ext = acct.user[d].ext /\ user[d].status \in {"active", "inactive"}
        /\ user[d].active \in BOOLEAN /\ user[d].active = acct.user[d].active
        /\ user[d] = [ext |-> user[d].ext, handle |-> user[d].handle, status |-> user[d].status,
                      active |-> user[d].active, word |-> user[d].word, stale |-> user[d].stale]
  BY <1>1 DEF AccountInv, WellFormed, Known
<1>3. WellFormed(user)
  BY <1>1, <1>2, SameOwners
<1>4. \A d \in uhist.out : ~user[d].active
  BY <1>2 DEF AccountInv, AccountShape, DisabledStaysOut
<1> QED BY <1>1, <1>3, <1>4 DEF user

LEMMA RowSet ==
  ASSUME AccountInv, NEW e \in Email, NEW r,
         r = [ext |-> r.ext, handle |-> r.handle, status |-> r.status, active |-> r.active,
              word |-> r.word,
              stale |-> r.stale],
         r.status \in {"active", "inactive"}, r.active \in BOOLEAN, r.ext \in Ext \cup {NoExt},
         r.ext \in Ext => OwnerOf(r.ext) \subseteq {e},
         e \in Known => r.active = acct.user[e].active
  PROVE  /\ WellFormed(SetUser(e, r)) /\ DOMAIN SetUser(e, r) = Known \cup {e}
         /\ \A d \in uhist.out : ~SetUser(e, r)[d].active
<1> DEFINE user == SetUser(e, r)
<1>1. DOMAIN user = Known \cup {e} /\ user = [d \in DOMAIN user |-> user[d]]
      /\ user[e] = r /\ \A d \in Known \ {e} : user[d] = acct.user[d]
  BY DEF SetUser
<1> HIDE DEF user
<1>2. ASSUME NEW x \in Ext, NEW c \in DOMAIN user, NEW d \in DOMAIN user,
             user[c].ext = x, user[d].ext = x
      PROVE  c = d
  BY <1>1, <1>2 DEF AccountInv, WellFormed, OwnerOf, Known
<1>3. WellFormed(user)
  <2>1. DOMAIN user \subseteq Email
    BY <1>1 DEF AccountInv, WellFormed, Known
  <2>2. \A d \in DOMAIN user :
          /\ user[d] = [ext |-> user[d].ext, handle |-> user[d].handle, status |-> user[d].status,
                        active |-> user[d].active,
                        word |-> user[d].word, stale |-> user[d].stale]
          /\ user[d].status \in {"active", "inactive"} /\ user[d].ext \in Ext \cup {NoExt}
          /\ user[d].active \in BOOLEAN
    BY <1>1 DEF AccountInv, WellFormed, Known
  <2> QED BY <1>1, <1>2, <2>1, <2>2 DEF WellFormed
<1>4. \A d \in uhist.out : ~user[d].active
  BY <1>1 DEF AccountInv, AccountShape, DisabledStaysOut
<1> QED BY <1>1, <1>3, <1>4 DEF user

LEMMA AccountCommits ==
  ASSUME AccountInv, NEW i \in AccountRequest,
         \/ LoginCommits(i) \/ ChangePasswordCommits(i) \/ CreateUserCommits(i)
         \/ UpdateMeCommits(i) \/ ProvisionCommits(i)
  PROVE  AccountInv'
<1>0. Found(i, areq[i]) /\ acct.joined \subseteq Known /\ (~acct.teamAlive => acct.joined = {})
  BY DEF AccountInv, AllFound, Found
<1>a. WellFormed(acct.user) /\ DOMAIN acct.user = Known /\ \A e \in uhist.out : ~acct.user[e].active
  BY DEF AccountInv, Known, DisabledStaysOut
<1>b. \A e \in Known : acct.user[e] = [ext |-> acct.user[e].ext, handle |-> acct.user[e].handle,
                                       status |-> acct.user[e].status,
                                      active |-> acct.user[e].active, word |-> acct.user[e].word,
                                      stale |-> acct.user[e].stale]
  BY DEF AccountInv, WellFormed, Known
<1>c. ASSUME NEW e \in Known, NEW w,
             CommitsRows(i, [acct.user EXCEPT ![e].word = w, ![e].stale = FALSE], acct.joined)
      PROVE  AccountInv'
  <2> DEFINE r == [ext |-> acct.user[e].ext, handle |-> acct.user[e].handle,
                   status |-> acct.user[e].status,
                   active |-> acct.user[e].active, word |-> w, stale |-> FALSE]
  <2>1. [acct.user EXCEPT ![e].word = w, ![e].stale = FALSE] = [acct.user EXCEPT ![e] = r]
    <3>1. /\ acct.user[e] = [ext |-> acct.user[e].ext, handle |-> acct.user[e].handle,
                             status |-> acct.user[e].status,
                             active |-> acct.user[e].active, word |-> acct.user[e].word,
                             stale |-> acct.user[e].stale]
          /\ acct.user = [d \in Known |-> acct.user[d]]
      BY <1>a, <1>b DEF WellFormed
    <3> DEFINE one == [acct.user EXCEPT ![e] = [acct.user[e] EXCEPT !.word = w]]
    <3>2. [acct.user[e] EXCEPT !.word = w] =
            [ext |-> acct.user[e].ext, handle |-> acct.user[e].handle,
             status |-> acct.user[e].status,
             active |-> acct.user[e].active, word |-> w, stale |-> acct.user[e].stale]
      BY <3>1
    <3>3. one[e] = [acct.user[e] EXCEPT !.word = w] /\ one = [d \in Known |-> one[d]]
          /\ \A d \in Known \ {e} : one[d] = acct.user[d]
      BY <3>1
    <3>4. [acct.user EXCEPT ![e].word = w, ![e].stale = FALSE] = 
            [one EXCEPT ![e] = [one[e] EXCEPT !.stale = FALSE]]
      OBVIOUS
    <3> HIDE DEF one
    <3>5. [one[e] EXCEPT !.stale = FALSE] = r
      <4>1. one[e] = [ext |-> acct.user[e].ext, handle |-> acct.user[e].handle,
                      status |-> acct.user[e].status,
                      active |-> acct.user[e].active, word |-> w, stale |-> acct.user[e].stale]
        BY <3>2, <3>3
      <4>2. ASSUME NEW b
            PROVE  [[ext |-> acct.user[e].ext, handle |-> acct.user[e].handle,
                     status |-> acct.user[e].status,
                     active |-> acct.user[e].active, word |-> w, stale |-> acct.user[e].stale]
                       EXCEPT !.stale = b]
                   = [ext |-> acct.user[e].ext, handle |-> acct.user[e].handle,
                      status |-> acct.user[e].status,
                      active |-> acct.user[e].active, word |-> w, stale |-> b]
        OBVIOUS
      <4> QED BY <4>1, <4>2
    <3>6. [one EXCEPT ![e] = r] = [acct.user EXCEPT ![e] = r]
      BY <3>1, <3>3
    <3> QED BY <3>4, <3>5, <3>6
  <2>2. /\ r = [ext |-> r.ext, handle |-> r.handle, status |-> r.status, active |-> r.active,
                word |-> r.word,
                stale |-> r.stale]
        /\ r.ext = acct.user[e].ext /\ r.status = acct.user[e].status
        /\ r.active = acct.user[e].active
    OBVIOUS
  <2> HIDE DEF r
  <2>3. /\ WellFormed([acct.user EXCEPT ![e] = r])
        /\ DOMAIN [acct.user EXCEPT ![e] = r] = Known
        /\ \A d \in uhist.out : ~[acct.user EXCEPT ![e] = r][d].active
    BY <2>2, RowChanged
  <2> DEFINE user == [acct.user EXCEPT ![e] = r]
  <2>4. CommitsRows(i, user, acct.joined) /\ WellFormed(user) /\ Known \subseteq DOMAIN user
        /\ acct.joined \subseteq DOMAIN user /\ \A d \in uhist.out : ~user[d].active
    BY <1>0, <1>c, <2>1, <2>3
  <2> HIDE DEF user
  <2> QED BY <1>0, <2>4, RowsCommitted
<1>1. CASE LoginCommits(i)
  <2>1. areq[i].op = "login" /\ areq[i].email \in Known
    BY <1>0, <1>1 DEF LoginCommits, Found, Fits, Known
  <2>2. CASE areq[i].row.stale
    BY <1>1, <1>c, <2>1, <2>2 DEF LoginCommits
  <2>3. CASE ~areq[i].row.stale
    <3>1. CommitsRows(i, acct.user, acct.joined)
      BY <1>1, <2>3 DEF LoginCommits
    <3> QED BY <1>0, <1>a, <3>1, RowsCommitted
  <2> QED BY <2>2, <2>3
<1>2. CASE ChangePasswordCommits(i)
  <2>1. areq[i].email \in Known
    BY <1>0, <1>2 DEF ChangePasswordCommits, Found, Fits, Known
  <2> QED BY <1>2, <1>c, <2>1 DEF ChangePasswordCommits
<1>3. CASE CreateUserCommits(i)
  <2> DEFINE e == areq[i].email
             r == [ext |-> NoExt, handle |-> areq[i].handle, status |-> "active",
                    active |-> TRUE, word |-> i, stale |-> FALSE]
  <2>1. e \in Email \ Known /\ CommitsRows(i, SetUser(e, r), acct.joined)
    BY <1>0, <1>3 DEF CreateUserCommits, MayCreate, Found, Fits, Known, Row
  <2>2. /\ r = [ext |-> r.ext, handle |-> r.handle, status |-> r.status, active |-> r.active,
                word |-> r.word,
                stale |-> r.stale]
        /\ r.status = "active" /\ r.active = TRUE /\ r.ext = NoExt
    OBVIOUS
  <2> HIDE DEF r
  <2>3. /\ WellFormed(SetUser(e, r)) /\ DOMAIN SetUser(e, r) = Known \cup {e}
        /\ \A d \in uhist.out : ~SetUser(e, r)[d].active
    BY <2>1, <2>2, RowSet, AccountConstants
  <2>4. Known \subseteq DOMAIN SetUser(e, r) /\ acct.joined \subseteq DOMAIN SetUser(e, r)
    BY <1>0, <2>3
  <2> QED BY <1>0, <2>1, <2>3, <2>4, RowsCommitted
<1>4. CASE ProvisionCommits(i)
  <2> DEFINE q == areq[i]
             e == q.email
             r == IF q.new
                    THEN [ext |-> q.ext, handle |-> NoHandle, status |-> "active", active |-> TRUE,
                          word |-> 0,
                          stale |-> FALSE]
                    ELSE [acct.user[e] EXCEPT !.ext = q.ext]
             joined == IF q.joins THEN acct.joined \cup {e} ELSE acct.joined
  <2>1. /\ q.op = "provision" /\ MayProvision(i) /\ CommitsRows(i, SetUser(e, r), joined)
    BY <1>4 DEF ProvisionCommits, Provisions, Row
  <2>2. e \in Email /\ q.ext \in Ext /\ (q.new \/ e \in Known)
    BY <1>0, <2>1 DEF Found, Fits, Known
  <2>3. /\ (q.new => e \notin Known) /\ (q.joins => acct.teamAlive)
        /\ OwnerOf(q.ext) \subseteq {e}
    BY <2>1 DEF MayProvision
  <2>4. /\ r = [ext |-> r.ext, handle |-> r.handle, status |-> r.status, active |-> r.active,
                word |-> r.word,
                stale |-> r.stale]
        /\ r.ext = q.ext /\ r.status \in {"active", "inactive"} /\ r.active \in BOOLEAN
        /\ (e \in Known => r.active = acct.user[e].active)
    <3>1. CASE q.new
      BY <2>3, <3>1
    <3>2. CASE ~q.new
      <4>1. /\ acct.user[e].status \in {"active", "inactive"}
            /\ acct.user[e].active \in BOOLEAN
        BY <2>2, <3>2 DEF AccountInv, WellFormed, Known
      <4>2. acct.user[e] = [ext |-> acct.user[e].ext, handle |-> acct.user[e].handle,
                            status |-> acct.user[e].status,
                            active |-> acct.user[e].active, word |-> acct.user[e].word,
                            stale |-> acct.user[e].stale]
        BY <1>b, <2>2, <3>2
      <4>3. r = [ext |-> q.ext, handle |-> acct.user[e].handle, status |-> acct.user[e].status,
                 active |-> acct.user[e].active,
                 word |-> acct.user[e].word, stale |-> acct.user[e].stale]
        BY <3>2, <4>2
      <4> HIDE DEF r
      <4> QED BY <4>1, <4>3
    <3> QED BY <3>1, <3>2
  <2> HIDE DEF r
  <2>5. /\ WellFormed(SetUser(e, r)) /\ DOMAIN SetUser(e, r) = Known \cup {e}
        /\ \A d \in uhist.out : ~SetUser(e, r)[d].active
    BY <2>2, <2>3, <2>4, RowSet
  <2>6. Known \subseteq DOMAIN SetUser(e, r) /\ joined \subseteq DOMAIN SetUser(e, r)
        /\ (~acct.teamAlive => joined = {})
    BY <1>0, <2>3, <2>5
  <2> HIDE DEF joined
  <2> QED BY <2>1, <2>5, <2>6, RowsCommitted
<1>5. CASE UpdateMeCommits(i)
  <2> DEFINE e == areq[i].email
             h == areq[i].handle
             r == [ext |-> acct.user[e].ext, handle |-> h, status |-> acct.user[e].status,
                   active |-> acct.user[e].active, word |-> acct.user[e].word,
                   stale |-> acct.user[e].stale]
  <2>1. e \in Known /\ CommitsRows(i, [acct.user EXCEPT ![e].handle = h], acct.joined)
    BY <1>0, <1>5 DEF UpdateMeCommits, Found, Fits, Known
  <2>2. [acct.user EXCEPT ![e].handle = h] = [acct.user EXCEPT ![e] = r]
    <3>1. acct.user[e] = [ext |-> acct.user[e].ext, handle |-> acct.user[e].handle,
                          status |-> acct.user[e].status, active |-> acct.user[e].active,
                          word |-> acct.user[e].word, stale |-> acct.user[e].stale]
      BY <1>b, <2>1
    <3>2. [acct.user[e] EXCEPT !.handle = h] = r
      BY <3>1
    <3> HIDE DEF r
    <3> QED BY <3>2
  <2>3. /\ r = [ext |-> r.ext, handle |-> r.handle, status |-> r.status, active |-> r.active,
                word |-> r.word, stale |-> r.stale]
        /\ r.ext = acct.user[e].ext /\ r.status = acct.user[e].status
        /\ r.active = acct.user[e].active
    OBVIOUS
  <2> HIDE DEF r
  <2> DEFINE user == [acct.user EXCEPT ![e] = r]
  <2>4. CommitsRows(i, user, acct.joined) /\ WellFormed(user) /\ Known \subseteq DOMAIN user
        /\ acct.joined \subseteq DOMAIN user /\ \A d \in uhist.out : ~user[d].active
    BY <1>0, <2>1, <2>2, <2>3, RowChanged
  <2> HIDE DEF user
  <2> QED BY <1>0, <2>4, RowsCommitted
<1> QED BY <1>1, <1>2, <1>3, <1>4, <1>5

(* An administrator's edit keeps whose account it is.                        *)
LEMMA UpdateKeeps ==
  ASSUME AccountInv, NEW i \in AccountRequest, UpdateUserCommits(i)
  PROVE  AccountInv'
<1> DEFINE q == areq[i]
           e == q.email
           status == IF q.status \in {"unset", q.row.status} THEN acct.user[e].status ELSE q.status
           active == acct.user[e].active /\ q.status # "inactive"
           r == [ext |-> acct.user[e].ext, handle |-> acct.user[e].handle, status |-> status,
                 active |-> active,
                 word |-> acct.user[e].word, stale |-> acct.user[e].stale]
           user == [acct.user EXCEPT ![e] = r]
<1>1. q.op = "update" /\ e \in Known /\ q.status \in {"active", "inactive", "unset"}
  <2>1. Found(i, q) /\ q.op = "update"
    BY DEF UpdateUserCommits, AccountInv, AllFound, Found
  <2> QED BY <2>1 DEF Found, Fits, Known
<1>2. /\ acct.user = [d \in Known |-> acct.user[d]] /\ e \in DOMAIN acct.user
      /\ acct.user[e] = [ext |-> acct.user[e].ext, handle |-> acct.user[e].handle,
                         status |-> acct.user[e].status,
                         active |-> acct.user[e].active, word |-> acct.user[e].word,
                         stale |-> acct.user[e].stale]
      /\ acct.user[e].status \in {"active", "inactive"} /\ acct.user[e].active \in BOOLEAN
  BY <1>1 DEF AccountInv, WellFormed, Known
<1>3. [acct.user EXCEPT ![e].status = IF q.status \in {"unset", q.row.status} THEN @ ELSE q.status,
                        ![e].active = @ /\ q.status # "inactive"] = user
  <2> DEFINE half == [ext |-> acct.user[e].ext, handle |-> acct.user[e].handle, status |-> status,
                      active |-> acct.user[e].active, word |-> acct.user[e].word,
                      stale |-> acct.user[e].stale]
             one == [acct.user EXCEPT ![e] = [acct.user[e] EXCEPT !.status = status]]
  <2>1. one[e] = [acct.user[e] EXCEPT !.status = status] /\ one = [d \in Known |-> one[d]]
        /\ \A d \in Known \ {e} : one[d] = acct.user[d]
    <3> HIDE DEF status
    <3> QED BY <1>2
  <2>2. [acct.user[e] EXCEPT !.status = status] = half
    <3> HIDE DEF status
    <3> QED BY <1>2
  <2>3. [acct.user EXCEPT ![e].status = IF q.status \in {"unset", q.row.status} THEN @ ELSE q.status,
                          ![e].active = @ /\ q.status # "inactive"]
          = [one EXCEPT ![e] = [one[e] EXCEPT !.active = one[e].active /\ q.status # "inactive"]]
    OBVIOUS
  <2> HIDE DEF one
  <2>4. one[e] = half
    BY <2>1, <2>2
  <2>5. one[e].active = acct.user[e].active
    <3> HIDE DEF status
    <3> QED BY <2>4
  <2>6. [one[e] EXCEPT !.active = one[e].active /\ q.status # "inactive"] = r
    <3> HIDE DEF status
    <3>1. ASSUME NEW b PROVE [half EXCEPT !.active = b] = [r EXCEPT !.active = b]
      OBVIOUS
    <3>2. ASSUME NEW b PROVE [r EXCEPT !.active = b] =
               [ext |-> acct.user[e].ext, handle |-> acct.user[e].handle, status |-> status,
                active |-> b,
                word |-> acct.user[e].word, stale |-> acct.user[e].stale]
      OBVIOUS
    <3> HIDE DEF half
    <3> QED BY <2>4, <2>5, <3>1, <3>2
  <2> HIDE DEF r
  <2>7. [one EXCEPT ![e] = r] = [acct.user EXCEPT ![e] = r]
    BY <1>2, <2>1
  <2> QED BY <2>3, <2>6, <2>7
<1>4. /\ acct' = [user |-> user, provider |-> acct.provider, mapped |-> acct.mapped,
                  teamAlive |-> acct.teamAlive, joined |-> acct.joined]
      /\ uhist' = [raced |-> uhist.raced, failed |-> uhist.failed, taken |-> uhist.taken,
                   out |-> IF q.status = "inactive" THEN uhist.out \cup {e} ELSE uhist.out,
                   secret |-> uhist.secret, secretRaced |-> uhist.secretRaced]
      /\ Closes(i)
  <2>1. acct' = [acct EXCEPT !.user =
            [acct.user EXCEPT ![e].status = IF q.status \in {"unset", q.row.status} THEN @ ELSE q.status,
                              ![e].active = @ /\ q.status # "inactive"]]
    BY DEF UpdateUserCommits, AccountInv, AccountShape
  <2>2. acct' = [acct EXCEPT !.user = user]
    BY <2>1, <1>3
  <2> HIDE DEF user
  <2>3. acct' = [user |-> user, provider |-> acct.provider, mapped |-> acct.mapped,
                 teamAlive |-> acct.teamAlive, joined |-> acct.joined]
    BY <2>2 DEF AccountInv, AccountShape
  <2> QED BY <2>3 DEF UpdateUserCommits, AccountInv, AccountShape
<1>5. /\ status \in {"active", "inactive"} /\ active \in BOOLEAN
      /\ (active => acct.user[e].active) /\ (q.status = "inactive" => ~active)
  BY <1>1, <1>2
<1>6. /\ DOMAIN user = Known /\ user = [d \in DOMAIN user |-> user[d]]
      /\ user[e].ext = acct.user[e].ext /\ user[e].handle = acct.user[e].handle
      /\ user[e].status = status /\ (user[e].active <=> active)
      /\ user[e].active \in BOOLEAN
      /\ user[e] = [ext |-> user[e].ext, handle |-> user[e].handle, status |-> user[e].status,
                    active |-> user[e].active,
                    word |-> user[e].word, stale |-> user[e].stale]
      /\ \A d \in Known \ {e} : user[d] = acct.user[d]
  <2> HIDE DEF status, active
  <2> QED BY <1>1, <1>2, <1>5
<1> HIDE DEF user, r, status, active
<1>7. \A d \in Known : user[d].ext = acct.user[d].ext /\ user[d].handle = acct.user[d].handle
  BY <1>6
<1>8. WellFormed(user)
  <2>1. \A d \in Known :
          /\ user[d] = [ext |-> user[d].ext, handle |-> user[d].handle, status |-> user[d].status,
                        active |-> user[d].active,
                        word |-> user[d].word, stale |-> user[d].stale]
          /\ user[d].status \in {"active", "inactive"} /\ user[d].ext \in Ext \cup {NoExt}
          /\ user[d].active \in BOOLEAN
    <3>1. \A d \in Known :
            /\ acct.user[d] = [ext |-> acct.user[d].ext, handle |-> acct.user[d].handle,
                               status |-> acct.user[d].status,
                               active |-> acct.user[d].active, word |-> acct.user[d].word,
                               stale |-> acct.user[d].stale]
            /\ acct.user[d].status \in {"active", "inactive"} /\ acct.user[d].active \in BOOLEAN
            /\ acct.user[d].ext \in Ext \cup {NoExt}
      BY DEF AccountInv, WellFormed, Known
    <3>2. user[e].status \in {"active", "inactive"}
      BY <1>5, <1>6
    <3>3. ASSUME NEW d \in Known \ {e}
          PROVE  /\ user[d] = [ext |-> user[d].ext, handle |-> user[d].handle,
                               status |-> user[d].status,
                               active |-> user[d].active, word |-> user[d].word,
                               stale |-> user[d].stale]
                 /\ user[d].status \in {"active", "inactive"} /\ user[d].active \in BOOLEAN
                 /\ user[d].ext \in Ext \cup {NoExt}
      <4>1. user[d] = acct.user[d]
        BY <1>6
      <4> QED BY <3>1, <4>1
    <3>4. user[e].ext \in Ext \cup {NoExt} /\ user[e].active \in BOOLEAN
      BY <1>1, <1>6, <3>1
    <3> QED BY <1>6, <3>2, <3>3, <3>4
  <2> QED BY <1>6, <1>7, <2>1, SameOwners
<1>9. Known' = Known
  BY <1>4, <1>6 DEF Known
<1>10. AllFound'
  <2>1. ASSUME NEW j \in AccountRequest
        PROVE  Fits(j, areq'[j], acct'.user, acct'.joined, uhist'.raced)
    <3>1. CASE j = i
      <4>1. areq'[j] = [op |-> "done"]
        BY <1>4, <3>1, RequestCloses
      <4> QED BY <4>1, DoneFits
    <3>2. CASE j # i
      <4>1. areq'[j] = areq[j] /\ Fits(j, areq[j], acct.user, acct.joined, uhist.raced)
        BY <1>4, <3>2, RequestCloses DEF AccountInv, AllFound
      <4>2. acct'.joined = acct.joined /\ uhist'.raced = uhist.raced
        BY <1>4
      <4>3. DOMAIN acct'.user = DOMAIN acct.user
            /\ \A x : Owners(acct'.user, x) = Owners(acct.user, x)
            /\ \A h, d : Used(acct'.user, h, d) <=> Used(acct.user, h, d)
        BY <1>4, <1>6, <1>7 DEF Known, Owners, Used
      <4> QED BY <4>1, <4>2, <4>3 DEF Fits
    <3> QED BY <3>1, <3>2
  <2> QED BY <1>4, <2>1, RequestCloses DEF AllFound
<1>11. DisabledStaysOut'
  <2>1. \A d \in uhist.out : ~user[d].active
    BY <1>5, <1>6 DEF AccountInv, AccountShape, DisabledStaysOut
  <2> QED BY <1>4, <1>5, <1>6, <2>1 DEF DisabledStaysOut
<1>12. AccountShape' /\ SignInFailsForAReason' /\ SecretKept' /\ acct'.joined \subseteq Known'
       /\ (~acct'.teamAlive => acct'.joined = {})
  BY <1>1, <1>4, <1>9 DEF AccountInv, AccountShape, SignInFailsForAReason, SecretKept
<1> QED BY <1>4, <1>8, <1>10, <1>11, <1>12 DEF AccountInv

-----------------------------------------------------------------------------
(* Steps that leave the rows.                                                *)

LEMMA LookupsKept ==
  ASSUME AccountInv, acct'.user = acct.user, acct'.joined \subseteq acct.joined,
         uhist'.raced = uhist.raced, areq' = areq \/ \E i \in AccountRequest : Closes(i)
  PROVE  AllFound'
<1>1. ASSUME NEW j \in AccountRequest
      PROVE  Fits(j, areq'[j], acct.user, acct.joined, uhist.raced)
  <2>1. Fits(j, areq[j], acct.user, acct.joined, uhist.raced)
    BY DEF AccountInv, AllFound
  <2>2. areq'[j] = areq[j] \/ areq'[j] = [op |-> "done"]
    BY RequestCloses
  <2> QED BY <2>1, <2>2, DoneFits
<1>2. \A j \in AccountRequest : Fits(j, areq'[j], acct'.user, acct'.joined, uhist'.raced)
  BY <1>1, FitsKept
<1>3. areq' = [j \in AccountRequest |-> areq'[j]]
  BY RequestCloses DEF AccountInv, AllFound
<1> QED BY <1>2, <1>3 DEF AllFound

(* The database refuses the commit of a request.                             *)
LEMMA RollBackKeeps ==
  ASSUME AccountInv, NEW i \in AccountRequest, AccountRollBack(i)
  PROVE  AccountInv'
<1> DEFINE chose == areq[i].op # "provision" /\ areq[i].taken
<1>1. /\ acct' = acct /\ Closes(i)
      /\ uhist' = [raced |-> uhist.raced, failed |-> uhist.failed \cup {i},
                   taken |-> IF chose THEN uhist.taken \cup {i} ELSE uhist.taken, out |-> uhist.out,
                   secret |-> uhist.secret, secretRaced |-> uhist.secretRaced]
  BY DEF AccountRollBack, AccountInv, AccountShape
<1>2. i \in uhist.raced \/ ~acct.teamAlive \/ chose
  <2>1. Fits(i, areq[i], acct.user, acct.joined, uhist.raced)
    BY DEF AccountInv, AllFound
  <2>2. CASE areq[i].op = "provision" /\ ~MayProvision(i)
    BY <2>1, <2>2 DEF Fits, MayProvision, OwnerOf, Owners, Known
  <2>3. CASE areq[i].op = "create" /\ ~MayCreate(i)
    BY <2>1, <2>3 DEF Fits, MayCreate, HandleInUse, Used, Known
  <2>4. CASE areq[i].op = "me" /\ HandleInUse(areq[i].handle, areq[i].email)
    BY <2>1, <2>4 DEF Fits, HandleInUse, Used, Known
  <2> QED BY <2>2, <2>3, <2>4 DEF AccountRollBack
<1>3. AllFound'
  BY <1>1, LookupsKept
<1>4. AccountShape' /\ WellFormed(acct'.user) /\ acct'.joined \subseteq Known'
      /\ (~acct'.teamAlive => acct'.joined = {}) /\ DisabledStaysOut' /\ SecretKept'
  BY <1>1 DEF AccountInv, AccountShape, Known, DisabledStaysOut, SecretKept
<1>5. SignInFailsForAReason'
  BY <1>1, <1>2 DEF AccountInv, SignInFailsForAReason
<1> QED BY <1>3, <1>4, <1>5 DEF AccountInv

(* The connector's form is saved: an empty secret stands for the one that    *)
(* the handler has read.                                                     *)
LEMMA ProviderSaved ==
  ASSUME AccountInv, NEW i \in AccountRequest, UpdateProviderCommits(i)
  PROVE  AccountInv'
<1> DEFINE q == areq[i]
           merged == IF q.secret = 0 THEN q.seen ELSE q.secret
           given == IF q.secret # 0 THEN i ELSE uhist.secret
           late == uhist.secretRaced \/ (q.secret = 0 /\ q.seen # acct.provider.secret)
<1>1. q.op = "provider" /\ SavesProvider(i, merged)
  BY DEF UpdateProviderCommits, SavesProvider
<1>2. q.secret \in {0, i} /\ i # 0
  <2>1. Fits(i, q, acct.user, acct.joined, uhist.raced)
    BY DEF AccountInv, AllFound
  <2> QED BY <1>1, <2>1, AccountConstants DEF Fits, AccountRequest
<1>3. merged = given \/ late
  BY <1>2 DEF AccountInv, SecretKept
<1>4. /\ acct' = [user |-> acct.user, provider |-> [enabled |-> q.enabled, secret |-> merged],
                  mapped |-> acct.mapped, teamAlive |-> acct.teamAlive, joined |-> acct.joined]
      /\ uhist'.raced = uhist.raced /\ uhist'.failed = uhist.failed /\ uhist'.taken = uhist.taken
      /\ uhist'.out = uhist.out
      /\ uhist'.secret = given /\ (uhist'.secretRaced <=> late) /\ uhist'.secretRaced \in BOOLEAN
      /\ uhist' = [raced |-> uhist'.raced, failed |-> uhist'.failed, taken |-> uhist'.taken,
                   out |-> uhist'.out,
                   secret |-> uhist'.secret, secretRaced |-> uhist'.secretRaced]
      /\ Closes(i)
  <2>1. /\ acct' = [acct EXCEPT !.provider = [enabled |-> q.enabled, secret |-> merged]]
        /\ uhist' = [uhist EXCEPT !.secret = given, !.secretRaced = late] /\ Closes(i)
    BY <1>1 DEF SavesProvider, AccountInv, AccountShape
  <2>2. late \in BOOLEAN
    OBVIOUS
  <2> HIDE DEF merged, given, late
  <2> QED BY <2>1, <2>2 DEF AccountInv, AccountShape
<1> HIDE DEF merged, given, late
<1>5. AllFound'
  BY <1>4, LookupsKept
<1>6. AccountShape' /\ WellFormed(acct'.user) /\ acct'.joined \subseteq Known'
      /\ (~acct'.teamAlive => acct'.joined = {}) /\ DisabledStaysOut' /\ SignInFailsForAReason'
  BY <1>4 DEF AccountInv, AccountShape, Known, DisabledStaysOut, SignInFailsForAReason
<1>7. SecretKept'
  BY <1>3, <1>4 DEF SecretKept
<1> QED BY <1>5, <1>6, <1>7 DEF AccountInv

(* The department's mapping, and its team.                                   *)
LEMMA MappingKeeps ==
  ASSUME AccountInv, AddMapping \/ DeleteMapping \/ MappedTeamDeleted
  PROVE  AccountInv'
<1>1. /\ acct' = [user |-> acct'.user, provider |-> acct'.provider, mapped |-> acct'.mapped,
                  teamAlive |-> acct'.teamAlive, joined |-> acct'.joined]
      /\ acct'.user = acct.user /\ acct'.provider = acct.provider
      /\ acct'.teamAlive \in BOOLEAN /\ (acct'.teamAlive => acct.teamAlive)
      /\ acct'.joined \subseteq acct.joined /\ (~acct'.teamAlive => acct'.joined = {})
  <2>0. acct.teamAlive \in BOOLEAN /\ (~acct.teamAlive => acct.joined = {})
        /\ acct = [user |-> acct.user, provider |-> acct.provider, mapped |-> acct.mapped,
                   teamAlive |-> acct.teamAlive, joined |-> acct.joined]
    BY DEF AccountInv, AccountShape
  <2>1. ASSUME NEW m, acct' = [acct EXCEPT !.mapped = m]
        PROVE  acct' = [user |-> acct.user, provider |-> acct.provider, mapped |-> m,
                        teamAlive |-> acct.teamAlive, joined |-> acct.joined]
    BY <2>0, <2>1
  <2>2. CASE AddMapping \/ DeleteMapping
    <3>1. PICK m : acct' = [acct EXCEPT !.mapped = m]
      BY <2>2 DEF AddMapping, DeleteMapping
    <3>2. acct' = [user |-> acct.user, provider |-> acct.provider, mapped |-> m,
                   teamAlive |-> acct.teamAlive, joined |-> acct.joined]
      BY <2>1, <3>1
    <3> QED BY <2>0, <3>2
  <2>3. CASE MappedTeamDeleted
    <3>1. acct' = [user |-> acct.user, provider |-> acct.provider, mapped |-> acct.mapped,
                   teamAlive |-> FALSE, joined |-> {}]
      BY <2>0, <2>3 DEF MappedTeamDeleted
    <3> QED BY <3>1
  <2> QED BY <2>2, <2>3
<1>2. areq' = areq /\ uhist' = uhist
  BY DEF AddMapping, DeleteMapping, MappedTeamDeleted
<1>3. AllFound'
  BY <1>1, <1>2, LookupsKept
<1>4. AccountShape' /\ WellFormed(acct'.user) /\ acct'.joined \subseteq Known'
      /\ (~acct'.teamAlive => acct'.joined = {}) /\ DisabledStaysOut' /\ SecretKept'
  BY <1>1, <1>2 DEF AccountInv, AccountShape, Known, DisabledStaysOut, SecretKept
<1>5. SignInFailsForAReason'
  BY <1>1, <1>2 DEF AccountInv, SignInFailsForAReason
<1> QED BY <1>3, <1>4, <1>5 DEF AccountInv

LEMMA AccountStep == AccountInv /\ [AccountNext]_accountVars => AccountInv'
<1> SUFFICES ASSUME AccountInv, [AccountNext]_accountVars PROVE AccountInv'
  OBVIOUS
<1>1. ASSUME NEW i \in AccountRequest,
             \/ LocalLogin(i) \/ LoginCommits(i) \/ ChangePassword(i) \/ ChangePasswordCommits(i)
             \/ CreateUser(i) \/ CreateUserCommits(i) \/ UpdateMe(i) \/ UpdateMeCommits(i)
             \/ UpdateUser(i) \/ UpdateUserCommits(i)
             \/ AuthenticateExternal(i) \/ WecomCallback(i) \/ DirectoryRefuses(i)
             \/ DirectoryAnswers(i) \/ FindByExt(i) \/ FindByEmail(i) \/ ProvisionCommits(i)
             \/ AccountRollBack(i) \/ UpdateProvider(i) \/ UpdateProviderCommits(i)
      PROVE  AccountInv'
  BY <1>1, AccountBegins, SignInLooks, AccountCommits, UpdateKeeps, RollBackKeeps, ProviderSaved
<1>2. CASE UNCHANGED accountVars
  <2>1. acct' = acct /\ areq' = areq /\ uhist' = uhist
    BY <1>2 DEF accountVars
  <2>2. AllFound'
    BY <2>1, LookupsKept
  <2> QED BY <2>1, <2>2 DEF AccountInv, AccountShape, Known, SignInFailsForAReason,
                            DisabledStaysOut, SecretKept
<1> QED BY <1>1, <1>2, MappingKeeps DEF AccountNext

LEMMA AccountInvariant == AccountSpec => []AccountInv
BY AccountInitially, AccountStep, PTL DEF AccountSpec

(* A sign-in that the directory accepted and the database refused had lost a *)
(* race between its lookups and its commit, or its mapped team is gone; so   *)
(* had the creation of a user and the edit of a profile, unless the handle   *)
(* that was chosen was somebody's before (provision_user and the users'      *)
(* unique columns).                                                          *)
THEOREM SignInFailsHolds == AccountSpec => []SignInFailsForAReason
<1>1. AccountInv => SignInFailsForAReason
  BY DEF AccountInv
<1> QED BY <1>1, AccountInvariant, PTL

(* However requests interleave on the rows they have loaded: an external     *)
(* identity belongs to one account, an account that an admin disabled stays  *)
(* out, and a form saved with an empty secret keeps the connector's secret   *)
(* (ExternalAuthService, the admin's users, the auth provider's settings).   *)
THEOREM AccountConsistentHolds == AccountSpec => []AccountConsistent
<1>1. AccountInv => AccountConsistent
  <2> SUFFICES ASSUME AccountInv PROVE AccountConsistent
    OBVIOUS
  <2>1. AccountTypeOK
    BY DEF AccountInv, WellFormed, AccountTypeOK, Known
  <2> QED BY <2>1 DEF AccountInv, AccountConsistent
<1> QED BY <1>1, AccountInvariant, PTL

-----------------------------------------------------------------------------
(* The sessions of a browser.                                               *)

Exchange   == [at : {"idle", "sent", "checked", "answered", "me", "over"}, token : Nat, got : Nat]
Reason     == {"lost", "inactive", "logout", "tabs", "restores", "expired at load"}
PageRecord == [access : Nat, user : BOOLEAN, ready : BOOLEAN]
CallRecord == [by : Tab \cup {NoPair}, at : {"idle", "sent", "waiting", "retried", "over"}, pair : Nat]
ServerType == [next : Nat, black : SUBSET Nat, live : SUBSET Nat, active : BOOLEAN]
WebType    == [key : Nat, page : [Tab -> PageRecord], refresh : [Tab -> [Slot -> Exchange]],
               calls : [Call -> CallRecord]]
History    == [uses : [Pair -> Nat], raced : SUBSET Nat, why : SUBSET Reason,
               bounced : SUBSET Tab, loads : Nat, upsets : Nat]

AuthTypes == srv \in ServerType /\ web \in WebType /\ ahist \in History

InUse(t, s) == web.refresh[t][s].at \in {"sent", "checked", "answered"}

(* Only pairs that were issued are anywhere; a call waits for an exchange.  *)
Issued ==
  /\ srv.next >= 2
  /\ srv.black \cup srv.live \subseteq 1..(srv.next - 1)
  /\ web.key < srv.next
  /\ \A t \in Tab : web.page[t].access < srv.next
  /\ \A t \in Tab, s \in Slot :
       /\ web.refresh[t][s].token < srv.next /\ web.refresh[t][s].got < srv.next
       /\ InUse(t, s) => web.refresh[t][s].token >= 1
  /\ \A t \in Tab : web.refresh[t]["shared"].at \in {"idle", "sent", "checked", "answered"}
  /\ \A c \in Call :
       /\ web.calls[c].at \in {"sent", "waiting"} => web.calls[c].by \in Tab
       /\ web.calls[c].at = "waiting" => web.refresh[web.calls[c].by]["shared"] # Idle

Checked(t, s, p) == web.refresh[t][s].at = "checked" /\ web.refresh[t][s].token = p

(* A refresh token that was not raced for: used once at most, blacklisted   *)
(* then, and past the check of one exchange only.                           *)
Rotation ==
  \A p \in Pair \ ahist.raced :
    /\ ahist.uses[p] <= 1
    /\ ahist.uses[p] = 1 => p \in srv.black
    /\ \A t, u \in Tab, s, v \in Slot :
         Checked(t, s, p) => /\ ahist.uses[p] = 0
                             /\ Checked(u, v, p) => t = u /\ s = v

(* While nothing happened that may cost the session, one tab at most        *)
(* refreshes, with the token in localStorage, and is given the next.        *)
Calm ==
  ahist.why = {} =>
    /\ ahist.bounced = {} /\ srv.active /\ web.key # NoPair
    /\ \A t \in Tab : web.page[t].user /\ \A s \in Boot : web.refresh[t][s].at = "idle"
    /\ \A t, u \in Tab : InUse(t, "shared") /\ InUse(u, "shared") => t = u
    /\ \A t \in Tab :
         /\ InUse(t, "shared") => web.refresh[t]["shared"].token = web.key
         /\ web.refresh[t]["shared"].at = "answered" =>
              /\ web.refresh[t]["shared"].got # NoPair
              /\ web.refresh[t]["shared"].got \notin srv.black
    /\ (\A t \in Tab : web.refresh[t]["shared"].at # "answered") => web.key \notin srv.black

AuthInv == AuthTypes /\ Issued /\ Rotation /\ Calm

LEMMA IdleExchange == Idle \in Exchange /\ Idle.at = "idle" /\ Idle.token = 0 /\ Idle.got = 0
BY DEF Idle, Exchange, NoPair

LEMMA AuthInitially == AuthInit => AuthInv
<1> SUFFICES ASSUME AuthInit PROVE AuthInv
  OBVIOUS
<1> USE IdleExchange DEF AuthInit
<1>1. srv \in ServerType
  BY DEF ServerType
<1>2. ahist \in History
  BY DEF History
<1>3. web \in WebType
  <2>1. [t \in Tab |-> [access |-> 1, user |-> TRUE, ready |-> TRUE]] \in [Tab -> PageRecord]
    BY DEF PageRecord
  <2>2. [t \in Tab |-> [s \in Slot |-> Idle]] \in [Tab -> [Slot -> Exchange]]
    OBVIOUS
  <2>3. [c \in Call |-> [by |-> NoPair, at |-> "idle", pair |-> NoPair]] \in [Call -> CallRecord]
    BY DEF CallRecord, NoPair
  <2> QED BY <2>1, <2>2, <2>3 DEF WebType
<1>4. \A t \in Tab, s \in Slot : web.refresh[t][s] = Idle
  OBVIOUS
<1>5. "shared" \in Slot /\ Boot \subseteq Slot
  BY DEF Slot
<1>6. Issued
  BY <1>4, <1>5 DEF Issued, InUse, NoPair
<1>7. Rotation
  BY <1>4 DEF Rotation, Checked
<1>8. Calm
  BY <1>4, <1>5 DEF Calm, InUse, NoPair
<1> QED BY <1>1, <1>2, <1>3, <1>6, <1>7, <1>8 DEF AuthInv, AuthTypes

(* What one exchange of one tab turns into.                                 *)
SlotBecomes(t, s, e) ==
  /\ web'.refresh[t][s] = e
  /\ \A u \in Tab, v \in Slot : u # t \/ v # s => web'.refresh[u][v] = web.refresh[u][v]

SameBut(t, s, e) ==
  /\ web' \in WebType /\ SlotBecomes(t, s, e)
  /\ web'.key = web.key /\ web'.page = web.page /\ web'.calls = web.calls

LEMMA ExchangeShape ==
  ASSUME NEW x \in Exchange
  PROVE  /\ x = [at |-> x.at, token |-> x.token, got |-> x.got]
         /\ x.token \in Nat /\ x.got \in Nat
         /\ x.at \in {"idle", "sent", "checked", "answered", "me", "over"}
BY DEF Exchange

LEMMA SlotField ==
  ASSUME web \in WebType, NEW t \in Tab, NEW s \in Slot,
         NEW a \in {"idle", "sent", "checked", "answered", "me", "over"}, NEW g \in Nat
  PROVE  /\ web' = [web EXCEPT !.refresh[t][s].at = a, !.refresh[t][s].got = g] =>
              SameBut(t, s, [at |-> a, token |-> web.refresh[t][s].token, got |-> g])
         /\ web' = [web EXCEPT !.refresh[t][s].at = a] =>
              SameBut(t, s, [at |-> a, token |-> web.refresh[t][s].token,
                             got |-> web.refresh[t][s].got])
<1>1. web.refresh[t][s] \in Exchange
  BY DEF WebType
<1> DEFINE x == web.refresh[t][s]
           set(e) == [web EXCEPT !.refresh = [web.refresh EXCEPT
                                                ![t] = [web.refresh[t] EXCEPT ![s] = e]]]
<1>2. ASSUME NEW e \in Exchange, web' = set(e)
      PROVE  SameBut(t, s, e)
  <2>1. web'.refresh \in [Tab -> [Slot -> Exchange]]
    BY <1>2 DEF WebType
  <2> QED BY <1>2, <2>1 DEF WebType, SameBut, SlotBecomes
<1> HIDE DEF x
<1>3. [x EXCEPT !.at = a] = [at |-> a, token |-> x.token, got |-> x.got]
  BY <1>1, ExchangeShape DEF x
<1>4. [x EXCEPT !.at = a, !.got = g] = [at |-> a, token |-> x.token, got |-> g]
  <2>1. [x EXCEPT !.at = a, !.got = g] = [[x EXCEPT !.at = a] EXCEPT !.got = g]
    OBVIOUS
  <2> DEFINE y == [x EXCEPT !.at = a]
  <2>2. y = [at |-> y.at, token |-> y.token, got |-> y.got] /\ y.at = a /\ y.token = x.token
        /\ y.token \in Nat /\ y.got \in Nat
    BY <1>1, <1>3, ExchangeShape DEF x
  <2>3. y.at \in {"idle", "sent", "checked", "answered", "me", "over"}
    BY <2>2
  <2> HIDE DEF y
  <2>4. [y EXCEPT !.got = g] = [at |-> y.at, token |-> y.token, got |-> g]
    BY <2>2, <2>3
  <2> QED BY <2>1, <2>2, <2>4 DEF y
<1>5. [web EXCEPT !.refresh[t][s].at = a] = set([x EXCEPT !.at = a])
  BY DEF x, WebType
<1>6. [web EXCEPT !.refresh[t][s].at = a, !.refresh[t][s].got = g] = set([x EXCEPT !.at = a, !.got = g])
  BY DEF x, WebType
<1> HIDE DEF set
<1>7. /\ [at |-> a, token |-> x.token, got |-> x.got] \in Exchange
      /\ [at |-> a, token |-> x.token, got |-> g] \in Exchange
  BY <1>1 DEF x, Exchange
<1> QED BY <1>2, <1>3, <1>4, <1>5, <1>6, <1>7 DEF x

(* A reason recorded ends the calm.                                         *)
LEMMA CalmLost ==
  ASSUME ahist'.why # {} PROVE Calm'
BY DEF Calm

LEMMA RotationKept ==
  ASSUME Rotation, ahist'.uses = ahist.uses, ahist.raced \subseteq ahist'.raced,
         srv.black \subseteq srv'.black,
         \A t \in Tab, s \in Slot :
            web'.refresh[t][s].at = "checked" =>
              /\ web.refresh[t][s].at = "checked"
              /\ web'.refresh[t][s].token = web.refresh[t][s].token
  PROVE  Rotation'
<1>1. SUFFICES ASSUME NEW p \in Pair \ ahist'.raced
               PROVE  /\ ahist'.uses[p] <= 1
                      /\ ahist'.uses[p] = 1 => p \in srv'.black
                      /\ \A t, u \in Tab, s, v \in Slot :
                           Checked(t, s, p)' => /\ ahist'.uses[p] = 0
                                                /\ Checked(u, v, p)' => t = u /\ s = v
  BY DEF Rotation
<1>2. \A t \in Tab, s \in Slot : Checked(t, s, p)' => Checked(t, s, p)
  BY DEF Checked
<1>3. p \in Pair \ ahist.raced
  BY <1>1
<1> QED BY <1>2, <1>3 DEF Rotation

(* The history record of the steps that record a reason.                    *)
LEMMA HistoryShape ==
  ASSUME ahist \in History
  PROVE  ahist = [uses |-> ahist.uses, raced |-> ahist.raced, why |-> ahist.why,
                  bounced |-> ahist.bounced, loads |-> ahist.loads, upsets |-> ahist.upsets]
BY DEF History

LEMMA UpsetIs ==
  ASSUME ahist \in History, NEW r \in Reason, Upset(r)
  PROVE  /\ ahist' \in History /\ ahist'.uses = ahist.uses /\ ahist'.raced = ahist.raced
         /\ ahist'.why = ahist.why \cup {r} /\ ahist'.bounced = ahist.bounced
<1>1. ahist' = [uses |-> ahist.uses, raced |-> ahist.raced, why |-> ahist.why \cup {r},
                bounced |-> ahist.bounced, loads |-> ahist.loads, upsets |-> ahist.upsets + 1]
  BY HistoryShape DEF Upset
<1> QED BY <1>1 DEF History

(* The issued pairs when one exchange changes, and the page with it.        *)
LEMMA IssuedMoved ==
  ASSUME AuthTypes, Issued, NEW t \in Tab, NEW s \in Slot, NEW e \in Exchange,
         SlotBecomes(t, s, e), web'.calls = web.calls,
         srv'.next >= srv.next, srv' \in ServerType,
         srv'.black \cup srv'.live \subseteq 1..(srv'.next - 1),
         web'.key < srv'.next, \A u \in Tab : web'.page[u].access < srv'.next,
         e.token < srv'.next, e.got < srv'.next,
         e.at \in {"sent", "checked", "answered"} => e.token >= 1,
         s = "shared" => e.at \in {"sent", "checked", "answered"}
  PROVE  Issued'
<1>1. /\ srv.next \in Nat /\ srv'.next \in Nat
      /\ \A u \in Tab, v \in Slot : web.refresh[u][v] \in Exchange
      /\ "shared" \in Slot
  BY DEF AuthTypes, ServerType, WebType, Slot
<1>2. srv'.next >= 2
  BY <1>1 DEF Issued
<1>3. ASSUME NEW u \in Tab, NEW v \in Slot
      PROVE  /\ web'.refresh[u][v].token < srv'.next /\ web'.refresh[u][v].got < srv'.next
             /\ InUse(u, v)' => web'.refresh[u][v].token >= 1
  <2>1. CASE u = t /\ v = s
    BY <2>1 DEF SlotBecomes, InUse
  <2>2. CASE u # t \/ v # s
    <3>1. web'.refresh[u][v] = web.refresh[u][v]
      BY <2>2 DEF SlotBecomes
    <3>2. web.refresh[u][v].token \in Nat /\ web.refresh[u][v].got \in Nat
      BY <1>1, ExchangeShape
    <3> QED BY <3>1, <3>2, <1>1 DEF Issued, InUse
  <2> QED BY <2>1, <2>2
<1>4. \A u \in Tab : web'.refresh[u]["shared"].at \in {"idle", "sent", "checked", "answered"}
  BY <1>1 DEF SlotBecomes, Issued
<1>5. ASSUME NEW c \in Call
      PROVE  /\ web'.calls[c].at \in {"sent", "waiting"} => web'.calls[c].by \in Tab
             /\ web'.calls[c].at = "waiting" => web'.refresh[web'.calls[c].by]["shared"] # Idle
  <2>1. s = "shared" => e # Idle
    BY IdleExchange
  <2> QED BY <2>1, <1>1 DEF Issued, SlotBecomes
<1> QED BY <1>2, <1>3, <1>4, <1>5 DEF Issued

LEMMA IssuedSlot ==
  ASSUME AuthTypes, Issued, NEW t \in Tab, NEW s \in Slot, NEW e \in Exchange,
         SameBut(t, s, e), srv'.next >= srv.next, srv' \in ServerType,
         srv'.black \cup srv'.live \subseteq 1..(srv'.next - 1),
         e.token < srv'.next, e.got < srv'.next,
         e.at \in {"sent", "checked", "answered"} => e.token >= 1,
         s = "shared" => e.at \in {"sent", "checked", "answered"}
  PROVE  Issued'
<1>1. /\ srv.next \in Nat /\ srv'.next \in Nat /\ web.key \in Nat
      /\ \A u \in Tab : web.page[u].access \in Nat
  BY DEF AuthTypes, ServerType, WebType, PageRecord
<1>2. web'.key < srv'.next /\ \A u \in Tab : web'.page[u].access < srv'.next
  BY <1>1 DEF Issued, SameBut
<1> QED BY <1>2, IssuedMoved DEF SameBut

LEMMA CheckKeeps ==
  ASSUME AuthInv, NEW t \in Tab, NEW s \in Slot, RefreshCheck(t, s)
  PROVE  AuthInv'
<1> DEFINE p == web.refresh[t][s].token
           a == IF p \in srv.black THEN "answered" ELSE "checked"
           e == [at |-> a, token |-> p, got |-> web.refresh[t][s].got]
           twice == \E x \in Using(p) : web.refresh[x[1]][x[2]].at = "checked"
<1>1. /\ web.refresh[t][s] \in Exchange /\ web.refresh[t][s].at = "sent" /\ srv' = srv
      /\ "shared" \in Slot /\ \A u \in Tab, v \in Slot : web.refresh[u][v] \in Exchange
  BY DEF AuthInv, AuthTypes, WebType, RefreshCheck, Slot
<1>2. p \in Nat /\ p < srv.next /\ p >= 1 /\ web.refresh[t][s].got < srv.next /\ InUse(t, s)
      /\ web.refresh[t][s].got \in Nat
  BY <1>1, ExchangeShape DEF AuthInv, Issued, InUse
<1>3. SameBut(t, s, e)
  <2>1. web' = [web EXCEPT !.refresh[t][s].at = a]
    BY DEF RefreshCheck
  <2>2. a \in {"idle", "sent", "checked", "answered", "me", "over"}
    OBVIOUS
  <2> HIDE DEF a
  <2> QED BY <2>1, <2>2, <1>2, SlotField DEF AuthInv, AuthTypes
<1>4. e \in Exchange
  BY <1>2 DEF Exchange
<1>5. /\ ahist' = [uses |-> ahist.uses, raced |-> ahist'.raced, why |-> ahist.why,
                   bounced |-> ahist.bounced, loads |-> ahist.loads, upsets |-> ahist.upsets]
      /\ ahist'.raced = IF twice THEN ahist.raced \cup {p} ELSE ahist.raced
  BY HistoryShape DEF AuthInv, AuthTypes, RefreshCheck, History
<1> HIDE DEF twice
<1>6. AuthTypes'
  BY <1>1, <1>2, <1>3, <1>5 DEF AuthInv, AuthTypes, History, SameBut
<1>7. Issued'
  <2>1. e.token < srv'.next /\ e.got < srv'.next /\ e.token >= 1
        /\ e.at \in {"sent", "checked", "answered"}
    BY <1>1, <1>2
  <2> HIDE DEF e
  <2>2. srv'.black \cup srv'.live \subseteq 1..(srv'.next - 1)
        /\ srv'.next >= srv.next /\ srv' \in ServerType
    BY <1>1 DEF AuthInv, AuthTypes, Issued, ServerType
  <2> QED BY <1>3, <1>4, <2>1, <2>2, IssuedSlot DEF AuthInv
<1>8. Rotation'
  <2> SUFFICES ASSUME NEW r \in Pair \ ahist'.raced
               PROVE  /\ ahist'.uses[r] <= 1
                      /\ ahist'.uses[r] = 1 => r \in srv'.black
                      /\ \A y, u \in Tab, z, v \in Slot :
                           Checked(y, z, r)' => /\ ahist'.uses[r] = 0
                                                /\ Checked(u, v, r)' => y = u /\ z = v
    BY DEF Rotation
  <2>1. r \in Pair \ ahist.raced /\ ahist'.uses = ahist.uses /\ srv'.black = srv.black
        /\ ahist.uses[r] \in Nat
    BY <1>1, <1>5 DEF AuthInv, AuthTypes, History
  <2>2. ahist.uses[r] <= 1 /\ (ahist.uses[r] = 1 => r \in srv.black)
    BY <2>1 DEF AuthInv, Rotation
  <2>3. \A y \in Tab, z \in Slot :
          Checked(y, z, r)' => Checked(y, z, r) \/ (y = t /\ z = s /\ r = p /\ p \notin srv.black)
    BY <1>3 DEF Checked, SameBut, SlotBecomes
  <2>4. ASSUME r = p, NEW y \in Tab, NEW z \in Slot PROVE ~Checked(y, z, r)
    <3>1. ~twice
      BY <2>1, <2>4, <1>5
    <3>2. Checked(y, z, r) => <<y, z>> \in Using(p)
      BY <2>4 DEF Using, Checked
    <3> QED BY <3>1, <3>2 DEF twice, Checked
  <2>5. CASE r = p
    BY <2>1, <2>2, <2>3, <2>4, <2>5
  <2>6. CASE r # p
    BY <2>1, <2>2, <2>3, <2>6 DEF AuthInv, Rotation
  <2> QED BY <2>5, <2>6
<1>9. Calm'
  <2> SUFFICES ASSUME ahist.why = {} PROVE Calm'
    BY <1>5 DEF Calm
  <2>1. /\ ahist.bounced = {} /\ srv.active /\ web.key # NoPair
        /\ \A u \in Tab : web.page[u].user /\ \A v \in Boot : web.refresh[u][v].at = "idle"
        /\ \A u, v \in Tab : InUse(u, "shared") /\ InUse(v, "shared") => u = v
        /\ \A u \in Tab : InUse(u, "shared") => web.refresh[u]["shared"].token = web.key
        /\ (\A u \in Tab : web.refresh[u]["shared"].at # "answered") => web.key \notin srv.black
    BY DEF AuthInv, Calm
  <2>2. s = "shared"
    BY <1>1, <2>1 DEF Slot
  <2>3. p = web.key /\ \A u \in Tab : InUse(u, "shared") => u = t
    BY <1>2, <2>1, <2>2
  <2>4. a = "checked" /\ web.key \notin srv.black
    BY <1>1, <2>1, <2>2, <2>3 DEF InUse
  <2>5. \A u \in Tab : (u = t /\ web'.refresh[u]["shared"] = e) \/
                       (u # t /\ web'.refresh[u]["shared"] = web.refresh[u]["shared"]
                              /\ ~InUse(u, "shared"))
    BY <1>1, <1>3, <2>2, <2>3 DEF SameBut, SlotBecomes
  <2>6. \A u \in Tab : /\ InUse(u, "shared")' => u = t
                       /\ web'.refresh[u]["shared"].at # "answered"
    BY <2>4, <2>5 DEF InUse
  <2>7. \A u \in Tab, v \in Boot : web'.refresh[u][v] = web.refresh[u][v]
    BY <1>3, <2>2 DEF SameBut, SlotBecomes, Slot, Boot
  <2>8. web'.refresh[t]["shared"].token = web.key
    BY <2>3, <2>5
  <2> QED BY <1>1, <1>3, <1>5, <2>1, <2>4, <2>6, <2>7, <2>8 DEF Calm, SameBut
<1> QED BY <1>6, <1>7, <1>8, <1>9 DEF AuthInv

LEMMA RotateKeeps ==
  ASSUME AuthInv, NEW t \in Tab, NEW s \in Slot, RefreshRotate(t, s)
  PROVE  AuthInv'
<1> DEFINE p == web.refresh[t][s].token
           g == IF srv.active THEN srv.next ELSE NoPair
           e == [at |-> "answered", token |-> p, got |-> g]
<1>1. /\ web.refresh[t][s] \in Exchange /\ web.refresh[t][s].at = "checked"
      /\ "shared" \in Slot /\ srv \in ServerType /\ srv.next \in Nat
  BY DEF AuthInv, AuthTypes, WebType, RefreshRotate, Slot, ServerType
<1>2. p \in Nat /\ p < srv.next /\ p >= 1 /\ InUse(t, s) /\ g \in Nat /\ srv.next >= 2
  BY <1>1, ExchangeShape DEF AuthInv, Issued, InUse, NoPair
<1>3. SameBut(t, s, e)
  <2>1. web' = [web EXCEPT !.refresh[t][s].at = "answered", !.refresh[t][s].got = g]
    BY DEF RefreshRotate
  <2> HIDE DEF g
  <2> QED BY <2>1, <1>2, SlotField DEF AuthInv, AuthTypes
<1>4. e \in Exchange
  BY <1>2 DEF Exchange
<1>5. srv' \in ServerType /\ srv'.next >= srv.next /\ srv.black \subseteq srv'.black
      /\ srv'.black \cup srv'.live \subseteq 1..(srv'.next - 1) /\ g < srv'.next
  <2>1. srv = [next |-> srv.next, black |-> srv.black, live |-> srv.live, active |-> srv.active]
    BY <1>1 DEF ServerType
  <2>2. CASE ~srv.active
    <3>1. srv' = srv
      BY <2>2 DEF RefreshRotate
    <3> QED BY <1>1, <1>2, <2>2, <3>1 DEF AuthInv, Issued, NoPair
  <2>3. CASE srv.active
    <3>1. srv' = [next |-> srv.next + 1, black |-> srv.black \cup {p},
                  live |-> srv.live \cup {srv.next}, active |-> srv.active]
      BY <1>1, <2>1, <2>3 DEF RefreshRotate, ServerType
    <3> QED BY <1>1, <1>2, <2>3, <3>1 DEF AuthInv, Issued, ServerType
  <2> QED BY <2>2, <2>3
<1>6. Issued'
  <2>1. e.token < srv'.next /\ e.got < srv'.next /\ e.token >= 1 /\ e.at = "answered"
    BY <1>1, <1>2, <1>5 DEF ServerType
  <2> HIDE DEF e
  <2> QED BY <1>3, <1>4, <1>5, <2>1, IssuedSlot DEF AuthInv
<1>7. CASE ~srv.active
  <2>1. ahist' = ahist /\ srv' = srv
    BY <1>7 DEF RefreshRotate
  <2>2. AuthTypes'
    BY <1>3, <2>1 DEF AuthInv, AuthTypes, SameBut
  <2>3. \A y \in Tab, z \in Slot :
          web'.refresh[y][z].at = "checked" => web'.refresh[y][z] = web.refresh[y][z]
    BY <1>3 DEF SameBut, SlotBecomes
  <2>4. Rotation'
    BY <2>1, <2>3, RotationKept DEF AuthInv
  <2>5. Calm'
    BY <1>7, <2>1, CalmLost DEF AuthInv, Calm
  <2> QED BY <1>6, <2>2, <2>4, <2>5 DEF AuthInv
<1>8. CASE srv.active
  <2>1. srv'.black = srv.black \cup {p} /\ srv'.next = srv.next + 1 /\ srv'.active
    BY <1>1, <1>8 DEF RefreshRotate, ServerType
  <2>2. /\ ahist' = [uses |-> [ahist.uses EXCEPT ![p] = @ + 1], raced |-> ahist.raced,
                     why |-> ahist.why, bounced |-> ahist.bounced, loads |-> ahist.loads,
                     upsets |-> ahist.upsets]
    BY <1>8, HistoryShape DEF AuthInv, AuthTypes, RefreshRotate, History
  <2>3. /\ ahist'.uses \in [Pair -> Nat]
        /\ \A r \in Pair : ahist'.uses[r] = IF r = p THEN ahist.uses[r] + 1 ELSE ahist.uses[r]
    <3>1. ASSUME NEW f \in [Pair -> Nat], NEW q \in Nat
          PROVE  /\ [f EXCEPT ![q] = @ + 1] \in [Pair -> Nat]
                 /\ \A r \in Pair :
                      [f EXCEPT ![q] = @ + 1][r] = IF r = q THEN f[r] + 1 ELSE f[r]
      <4>1. q \notin Pair => [f EXCEPT ![q] = @ + 1] = f
        OBVIOUS
      <4>2. q \in Pair => [f EXCEPT ![q] = @ + 1] \in [Pair -> Nat]
        OBVIOUS
      <4> QED BY <4>1, <4>2
    <3>2. ahist.uses \in [Pair -> Nat] /\ ahist'.uses = [ahist.uses EXCEPT ![p] = @ + 1]
      BY <2>2 DEF AuthInv, AuthTypes, History
    <3> QED BY <1>2, <3>1, <3>2
  <2>4. AuthTypes'
    BY <1>3, <1>5, <2>2, <2>3 DEF AuthInv, AuthTypes, History, SameBut
  <2>5. Rotation'
    <3> SUFFICES ASSUME NEW r \in Pair \ ahist'.raced
                 PROVE  /\ ahist'.uses[r] <= 1
                        /\ ahist'.uses[r] = 1 => r \in srv'.black
                        /\ \A y, u \in Tab, z, v \in Slot :
                             Checked(y, z, r)' => /\ ahist'.uses[r] = 0
                                                  /\ Checked(u, v, r)' => y = u /\ z = v
      BY DEF Rotation
    <3>1. r \in Pair \ ahist.raced
      BY <2>2
    <3>2. \A y \in Tab, z \in Slot :
            Checked(y, z, r)' => Checked(y, z, r) /\ ~(y = t /\ z = s)
      BY <1>3 DEF SameBut, SlotBecomes, Checked
    <3>3. CASE r = p
      <4>1. Checked(t, s, p)
        BY <1>1 DEF Checked
      <4>2. ahist.uses[r] = 0 /\ \A y \in Tab, z \in Slot : Checked(y, z, r) => y = t /\ z = s
        BY <3>1, <3>3, <4>1 DEF AuthInv, Rotation
      <4> QED BY <2>1, <2>3, <3>2, <3>3, <4>2
    <3>4. CASE r # p
      <4>1. ahist'.uses[r] = ahist.uses[r]
        BY <2>3, <3>4
      <4> QED BY <2>1, <3>1, <3>2, <4>1 DEF AuthInv, Rotation
    <3> QED BY <3>3, <3>4
  <2>6. Calm'
    <3> SUFFICES ASSUME ahist.why = {} PROVE Calm'
      BY <2>2 DEF Calm
    <3>1. /\ ahist.bounced = {} /\ web.key # NoPair
          /\ \A u \in Tab : web.page[u].user /\ \A v \in Boot : web.refresh[u][v].at = "idle"
          /\ \A u, v \in Tab : InUse(u, "shared") /\ InUse(v, "shared") => u = v
          /\ \A u \in Tab : InUse(u, "shared") => web.refresh[u]["shared"].token = web.key
      BY DEF AuthInv, Calm
    <3>2. s = "shared"
      BY <1>1, <3>1 DEF Slot
    <3>3. p = web.key /\ \A u \in Tab : InUse(u, "shared") => u = t
      BY <1>2, <3>1, <3>2
    <3>4. web'.refresh[t]["shared"] = [at |-> "answered", token |-> web.key, got |-> srv.next]
      BY <1>3, <1>8, <3>2, <3>3 DEF SameBut, SlotBecomes
    <3>5. \A u \in Tab : u # t => /\ web'.refresh[u]["shared"] = web.refresh[u]["shared"]
                                  /\ ~InUse(u, "shared")
      BY <1>1, <1>3, <3>2, <3>3 DEF SameBut, SlotBecomes
    <3>6. \A u \in Tab : /\ InUse(u, "shared")' => u = t
                         /\ web'.refresh[u]["shared"].at = "answered" => u = t
      BY <3>5 DEF InUse
    <3>7. \A u \in Tab, v \in Boot : web'.refresh[u][v] = web.refresh[u][v]
      BY <1>3, <3>2 DEF SameBut, SlotBecomes, Slot, Boot
    <3>8. srv.next # NoPair /\ srv.next \notin srv'.black
      BY <1>1, <1>2, <2>1 DEF AuthInv, Issued, NoPair, ServerType
    <3> QED BY <1>3, <2>1, <2>2, <3>1, <3>4, <3>6, <3>7, <3>8 DEF Calm, SameBut
  <2> QED BY <1>6, <2>4, <2>5, <2>6 DEF AuthInv
<1> QED BY <1>7, <1>8 DEF AuthInv, AuthTypes, ServerType

LEMMA LostKeeps ==
  ASSUME AuthInv, NEW t \in Tab, NEW s \in Slot, AnswerLost(t, s)
  PROVE  AuthInv'
<1> DEFINE e == [at |-> "answered", token |-> web.refresh[t][s].token, got |-> NoPair]
<1>1. web.refresh[t][s] \in Exchange /\ InUse(t, s) /\ srv' = srv /\ srv.next \in Nat
  BY DEF AuthInv, AuthTypes, WebType, AnswerLost, ServerType, InUse
<1>2. e \in Exchange /\ e.token < srv.next /\ e.token >= 1 /\ e.got < srv.next
      /\ e.at = "answered"
  BY <1>1, ExchangeShape DEF AuthInv, Issued, NoPair, Exchange
<1>3. SameBut(t, s, e)
  <2>1. web' = [web EXCEPT !.refresh[t][s].at = "answered", !.refresh[t][s].got = NoPair]
        /\ NoPair \in Nat
    BY DEF AnswerLost, NoPair
  <2> QED BY <2>1, SlotField DEF AuthInv, AuthTypes
<1>4. /\ ahist' \in History /\ ahist'.uses = ahist.uses /\ ahist'.raced = ahist.raced
      /\ ahist'.why = ahist.why \cup {"lost"}
  BY UpsetIs DEF AnswerLost, AuthInv, AuthTypes, Reason
<1>5. AuthTypes'
  BY <1>1, <1>3, <1>4 DEF AuthInv, AuthTypes, SameBut
<1> HIDE DEF e
<1>6. Issued'
  <2>1. srv' \in ServerType /\ srv'.next >= srv.next
        /\ srv'.black \cup srv'.live \subseteq 1..(srv'.next - 1)
    BY <1>1 DEF AuthInv, AuthTypes, Issued
  <2> QED BY <1>1, <1>2, <1>3, <2>1, IssuedSlot DEF AuthInv
<1>7. Rotation'
  <2>1. \A y \in Tab, z \in Slot :
          web'.refresh[y][z].at = "checked" => web'.refresh[y][z] = web.refresh[y][z]
    BY <1>2, <1>3 DEF SameBut, SlotBecomes
  <2> QED BY <1>1, <1>4, <2>1, RotationKept DEF AuthInv
<1>8. Calm'
  BY <1>4, CalmLost
<1> QED BY <1>5, <1>6, <1>7, <1>8 DEF AuthInv

(* is_active is switched, or an access token expires.                       *)
LEMMA ServerKeeps ==
  ASSUME AuthInv, SwitchActive \/ \E p \in Pair : AccessExpires(p)
  PROVE  AuthInv'
<1>1. /\ web' = web /\ ahist'.uses = ahist.uses /\ ahist'.raced = ahist.raced /\ ahist' \in History
      /\ ahist'.why # {} \/ (ahist' = ahist /\ srv'.active = srv.active)
      /\ srv' \in ServerType /\ srv'.next = srv.next /\ srv'.black = srv.black
      /\ srv'.live \subseteq srv.live
  <2>1. CASE SwitchActive
    <3>1. \A b \in BOOLEAN : /\ [srv EXCEPT !.active = b] \in ServerType
                             /\ [srv EXCEPT !.active = b].next = srv.next
                             /\ [srv EXCEPT !.active = b].black = srv.black
                             /\ [srv EXCEPT !.active = b].live = srv.live
      BY DEF AuthInv, AuthTypes, ServerType
    <3>2. \E b \in BOOLEAN : srv' = [srv EXCEPT !.active = b]
      BY <2>1 DEF SwitchActive
    <3>3. web' = web /\ Upset("inactive") /\ "inactive" \in Reason
      BY <2>1 DEF SwitchActive, Reason
    <3> QED BY <3>1, <3>2, <3>3, UpsetIs DEF AuthInv, AuthTypes
  <2>2. CASE \E p \in Pair : AccessExpires(p)
    <3>1. PICK p \in Pair : AccessExpires(p)
      BY <2>2
    <3> QED BY <3>1 DEF AccessExpires, AuthInv, AuthTypes, ServerType
  <2> QED BY <2>1, <2>2
<1>2. AuthTypes'
  BY <1>1 DEF AuthInv, AuthTypes
<1>3. Issued'
  BY <1>1 DEF AuthInv, Issued, InUse
<1>4. Rotation'
  BY <1>1, RotationKept DEF AuthInv
<1>5. Calm'
  <2>1. CASE ahist'.why # {}
    BY <2>1, CalmLost
  <2>2. CASE ahist' = ahist /\ srv'.active = srv.active
    BY <1>1, <2>2 DEF AuthInv, Calm, InUse
  <2> QED BY <1>1, <2>1, <2>2
<1> QED BY <1>2, <1>3, <1>4, <1>5 DEF AuthInv

LEMMA WebShape ==
  ASSUME web \in WebType
  PROVE  /\ web = [key |-> web.key, page |-> web.page, refresh |-> web.refresh, calls |-> web.calls]
         /\ web.key \in Nat /\ web.page \in [Tab -> PageRecord]
         /\ web.refresh \in [Tab -> [Slot -> Exchange]] /\ web.calls \in [Call -> CallRecord]
BY DEF WebType

LEMMA ServerShape ==
  ASSUME srv \in ServerType
  PROVE  /\ srv = [next |-> srv.next, black |-> srv.black, live |-> srv.live, active |-> srv.active]
         /\ srv.next \in Nat /\ srv.black \subseteq Nat /\ srv.live \subseteq Nat
         /\ srv.active \in BOOLEAN
BY DEF ServerType

(* What the bootstraps of a page load post.                                 *)
LEMMA Booted ==
  ASSUME web \in WebType, NEW fresh,
         fresh = IF web.key = NoPair THEN [s \in Slot |-> Idle]
                 ELSE Posts(Posts([s \in Slot |-> Idle], "app"), "router")
  PROVE  /\ fresh \in [Slot -> Exchange] /\ fresh["shared"] = Idle
         /\ \A s \in Slot : \/ fresh[s] = Idle
                            \/ /\ fresh[s] = [at |-> "sent", token |-> web.key, got |-> NoPair]
                               /\ web.key # NoPair
<1> DEFINE sent == [at |-> "sent", token |-> web.key, got |-> NoPair]
<1>1. sent \in Exchange /\ Idle \in Exchange
  BY IdleExchange, WebShape DEF Exchange, NoPair
<1>2. Slot = {"app", "router", "shared"}
  BY DEF Slot, Boot
<1>3. \A f \in [Slot -> Exchange], s \in Slot : Posts(f, s) = [f EXCEPT ![s] = sent]
  BY DEF Posts
<1> HIDE DEF sent
<1> DEFINE empty == [s \in Slot |-> Idle]
           one == [empty EXCEPT !["app"] = sent]
           two == [one EXCEPT !["router"] = sent]
<1>4. empty \in [Slot -> Exchange] /\ \A s \in Slot : empty[s] = Idle
  BY <1>1
<1> HIDE DEF empty
<1>5. one \in [Slot -> Exchange] /\ \A s \in Slot : one[s] = IF s = "app" THEN sent ELSE Idle
  BY <1>1, <1>2, <1>4
<1>6. Posts(empty, "app") = one
  BY <1>2, <1>3, <1>4
<1> HIDE DEF one
<1>7. two \in [Slot -> Exchange] /\ \A s \in Slot : two[s] = IF s = "shared" THEN Idle ELSE sent
  BY <1>1, <1>2, <1>5
<1>8. Posts(one, "router") = two
  BY <1>2, <1>3, <1>5
<1>9. fresh = IF web.key = NoPair THEN empty ELSE two
  BY <1>6, <1>8 DEF empty
<1> QED BY <1>2, <1>4, <1>7, <1>9 DEF sent

LEMMA ReloadKeeps ==
  ASSUME AuthInv, NEW t \in Tab, Reload(t)
  PROVE  AuthInv'
<1> DEFINE fresh == IF web.key = NoPair THEN [s \in Slot |-> Idle]
                    ELSE Posts(Posts([s \in Slot |-> Idle], "app"), "router")
           row(b) == [access |-> NoPair, user |-> FALSE, ready |-> b]
           calls == [c \in Call |-> IF web.calls[c].by = t THEN [web.calls[c] EXCEPT !.at = "over"]
                                    ELSE web.calls[c]]
<1>1. /\ fresh \in [Slot -> Exchange] /\ fresh["shared"] = Idle
      /\ \A s \in Slot : \/ fresh[s] = Idle
                         \/ /\ fresh[s] = [at |-> "sent", token |-> web.key, got |-> NoPair]
                            /\ web.key # NoPair
  BY Booted DEF AuthInv, AuthTypes
<1>2. \E b \in BOOLEAN :
        web' = [key |-> web.key, page |-> [web.page EXCEPT ![t] = row(b)],
                refresh |-> [web.refresh EXCEPT ![t] = fresh], calls |-> calls]
  <2>1. web' = [key |-> web.key, page |-> [web.page EXCEPT ![t] = row(web.key = NoPair)],
                refresh |-> [web.refresh EXCEPT ![t] = fresh], calls |-> calls]
    BY WebShape DEF AuthInv, AuthTypes, Reload
  <2>2. (web.key = NoPair) \in BOOLEAN
    OBVIOUS
  <2> QED BY <2>1, <2>2, Zenon
<1> HIDE DEF fresh
<1>3. /\ calls \in [Call -> CallRecord]
      /\ \A c \in Call : \/ calls[c] = web.calls[c] /\ web.calls[c].by # t
                         \/ calls[c].at = "over"
  BY WebShape DEF AuthInv, AuthTypes, CallRecord
<1> HIDE DEF calls
<1>4. /\ web' \in WebType /\ web'.key = web.key /\ web'.calls = calls
      /\ \A u \in Tab : u # t => web'.page[u] = web.page[u] /\ web'.refresh[u] = web.refresh[u]
      /\ web'.page[t].access = NoPair /\ web'.refresh[t] = fresh
  <2>1. PICK b \in BOOLEAN :
          web' = [key |-> web.key, page |-> [web.page EXCEPT ![t] = row(b)],
                  refresh |-> [web.refresh EXCEPT ![t] = fresh], calls |-> calls]
    BY <1>2
  <2>2. row(b) \in PageRecord /\ row(b).access = NoPair
    BY DEF PageRecord, NoPair
  <2> HIDE DEF row
  <2> QED BY <1>1, <1>3, <2>1, <2>2, WebShape DEF AuthInv, AuthTypes, WebType
<1>5. /\ srv' \in ServerType /\ srv'.next = srv.next /\ srv'.live = srv.live
      /\ srv.black \subseteq srv'.black /\ srv'.black \subseteq 1..(srv.next - 1)
  <2>1. PICK late \in {{}, {web.refresh[t][s].token : s \in {r \in Slot : web.refresh[t][r].at = "checked"}}} :
          srv' = [srv EXCEPT !.black = @ \cup late]
    BY DEF Reload
  <2>2. srv' = [next |-> srv.next, black |-> srv.black \cup late, live |-> srv.live,
                active |-> srv.active]
    BY <2>1, ServerShape DEF AuthInv, AuthTypes
  <2>3. late \subseteq 1..(srv.next - 1)
    <3>1. \A s \in Slot : web.refresh[t][s].at = "checked" => web.refresh[t][s].token \in 1..(srv.next - 1)
      <4> TAKE s \in Slot
      <4>1. web.refresh[t][s] \in Exchange
        BY WebShape DEF AuthInv, AuthTypes
      <4> QED BY <4>1, ExchangeShape, ServerShape DEF AuthInv, AuthTypes, Issued, InUse
    <3> QED BY <2>1, <3>1
  <2>4. srv.black \subseteq 1..(srv.next - 1)
    BY DEF AuthInv, Issued
  <2>5. srv'.next = srv.next /\ srv'.live = srv.live /\ srv'.black = srv.black \cup late
        /\ srv'.active = srv.active
    BY <2>2
  <2>6. srv.black \cup late \subseteq 1..(srv.next - 1) /\ srv.black \cup late \subseteq Nat
    BY <2>3, <2>4, ServerShape DEF AuthInv, AuthTypes
  <2>7. srv' \in ServerType
    BY <2>2, <2>6, ServerShape DEF AuthInv, AuthTypes, ServerType
  <2> QED BY <2>5, <2>6, <2>7
<1>6. /\ ahist' \in History /\ ahist'.uses = ahist.uses /\ ahist'.raced = ahist.raced
      /\ ahist.why \subseteq ahist'.why /\ (web.key # NoPair => ahist'.why # {})
  <2>1. \E w \in SUBSET Reason :
          /\ ahist' = [uses |-> ahist.uses, raced |-> ahist.raced, why |-> ahist.why \cup w,
                       bounced |-> ahist.bounced, loads |-> ahist.loads + 1,
                       upsets |-> ahist.upsets]
          /\ web.key # NoPair => w # {}
    <3> DEFINE a == IF web.key # NoPair THEN {"restores"} ELSE {}
               b == IF \E p \in Pair, s \in Slot : <<t, s>> \in Using(p) THEN {"lost"} ELSE {}
               d == IF \E x \in Using(web.key) : x[1] # t THEN {"tabs"} ELSE {}
    <3>1. ahist' = [ahist EXCEPT !.loads = @ + 1, !.why = @ \cup a \cup b \cup d]
      BY DEF Reload
    <3>2. a \subseteq Reason /\ b \subseteq Reason /\ d \subseteq Reason
          /\ (web.key # NoPair => (a \cup b \cup d) # {})
      BY DEF Reason
    <3> HIDE DEF a, b, d
    <3>3. ahist.why \cup (a \cup b \cup d) = ahist.why \cup a \cup b \cup d
      OBVIOUS
    <3>4. ahist' = [uses |-> ahist.uses, raced |-> ahist.raced,
                    why |-> ahist.why \cup (a \cup b \cup d),
                    bounced |-> ahist.bounced, loads |-> ahist.loads + 1, upsets |-> ahist.upsets]
      BY <3>1, <3>3, HistoryShape DEF AuthInv, AuthTypes, History
    <3> QED BY <3>2, <3>4
  <2> QED BY <2>1 DEF AuthInv, AuthTypes, History
<1>7. AuthTypes'
  BY <1>4, <1>5, <1>6 DEF AuthTypes
<1>8. Issued'
  <2>1. srv.next \in Nat /\ web.key \in Nat /\ "shared" \in Slot
    BY ServerShape, WebShape DEF AuthInv, AuthTypes, Slot
  <2>2. srv'.next >= 2 /\ srv'.black \cup srv'.live \subseteq 1..(srv'.next - 1)
        /\ web'.key < srv'.next /\ \A u \in Tab : web'.page[u].access < srv'.next
    BY <1>4, <1>5, <2>1 DEF AuthInv, Issued, NoPair
  <2>3. ASSUME NEW u \in Tab, NEW s \in Slot
        PROVE  /\ web'.refresh[u][s].token < srv'.next /\ web'.refresh[u][s].got < srv'.next
               /\ InUse(u, s)' => web'.refresh[u][s].token >= 1
    BY <1>1, <1>4, <1>5, <2>1, IdleExchange DEF AuthInv, Issued, InUse, NoPair
  <2>4. \A u \in Tab : web'.refresh[u]["shared"].at \in {"idle", "sent", "checked", "answered"}
    BY <1>1, <1>4, IdleExchange DEF AuthInv, Issued
  <2>5. ASSUME NEW c \in Call
        PROVE  /\ web'.calls[c].at \in {"sent", "waiting"} => web'.calls[c].by \in Tab
               /\ web'.calls[c].at = "waiting" => web'.refresh[web'.calls[c].by]["shared"] # Idle
    BY <1>3, <1>4 DEF AuthInv, Issued
  <2> QED BY <2>2, <2>3, <2>4, <2>5 DEF Issued
<1>9. Rotation'
  <2>1. \A u \in Tab, s \in Slot :
          web'.refresh[u][s].at = "checked" => web'.refresh[u][s] = web.refresh[u][s]
    BY <1>1, <1>4, IdleExchange
  <2> QED BY <1>5, <1>6, <2>1, RotationKept DEF AuthInv
<1>10. Calm'
  BY <1>6, CalmLost DEF AuthInv, Calm
<1> QED BY <1>7, <1>8, <1>9, <1>10 DEF AuthInv

(* Two fields of a page at once.                                            *)
LEMMA PageUser ==
  ASSUME web \in WebType, NEW t \in Tab
  PROVE  \A a \in Nat, b \in BOOLEAN :
           [web.page EXCEPT ![t].access = a, ![t].user = b]
             = [web.page EXCEPT ![t] = [access |-> a, user |-> b, ready |-> web.page[t].ready]]
<1> TAKE a \in Nat, b \in BOOLEAN
<1> DEFINE x == web.page[t]
           one == [web.page EXCEPT ![t].access = a]
<1>1. x = [access |-> x.access, user |-> x.user, ready |-> x.ready] /\ x \in PageRecord
  BY WebShape DEF PageRecord
<1>2. one = [web.page EXCEPT ![t] = [access |-> a, user |-> x.user, ready |-> x.ready]]
  BY <1>1, WebShape DEF PageRecord
<1>3. [web.page EXCEPT ![t].access = a, ![t].user = b] = [one EXCEPT ![t] = [one[t] EXCEPT !.user = b]]
  OBVIOUS
<1> HIDE DEF one
<1>4. one[t] = [access |-> a, user |-> x.user, ready |-> x.ready] /\ one[t] \in PageRecord
  BY <1>1, <1>2, WebShape DEF PageRecord
<1> HIDE DEF x
<1>5. [one[t] EXCEPT !.user = b] = [access |-> a, user |-> b, ready |-> x.ready]
  BY <1>4 DEF PageRecord
<1>6. [one EXCEPT ![t] = [access |-> a, user |-> b, ready |-> x.ready]]
        = [web.page EXCEPT ![t] = [access |-> a, user |-> b, ready |-> x.ready]]
  BY <1>2, WebShape
<1> QED BY <1>3, <1>5, <1>6 DEF x

LEMMA PageReady ==
  ASSUME web \in WebType, NEW t \in Tab
  PROVE  \A a \in Nat, b \in BOOLEAN :
           [web.page EXCEPT ![t].access = a, ![t].ready = b]
             = [web.page EXCEPT ![t] = [access |-> a, user |-> web.page[t].user, ready |-> b]]
<1> TAKE a \in Nat, b \in BOOLEAN
<1> DEFINE x == web.page[t]
           one == [web.page EXCEPT ![t].access = a]
<1>1. x = [access |-> x.access, user |-> x.user, ready |-> x.ready] /\ x \in PageRecord
  BY WebShape DEF PageRecord
<1>2. one = [web.page EXCEPT ![t] = [access |-> a, user |-> x.user, ready |-> x.ready]]
  BY <1>1, WebShape DEF PageRecord
<1>3. [web.page EXCEPT ![t].access = a, ![t].ready = b] = [one EXCEPT ![t] = [one[t] EXCEPT !.ready = b]]
  OBVIOUS
<1> HIDE DEF one
<1>4. one[t] = [access |-> a, user |-> x.user, ready |-> x.ready] /\ one[t] \in PageRecord
  BY <1>1, <1>2, WebShape DEF PageRecord
<1> HIDE DEF x
<1>5. [one[t] EXCEPT !.ready = b] = [access |-> a, user |-> x.user, ready |-> b]
  BY <1>4 DEF PageRecord
<1>6. [one EXCEPT ![t] = [access |-> a, user |-> x.user, ready |-> b]]
        = [web.page EXCEPT ![t] = [access |-> a, user |-> x.user, ready |-> b]]
  BY <1>2, WebShape
<1> QED BY <1>3, <1>5, <1>6 DEF x

(* One exchange and its page change, the calls do not.                      *)
LEMMA PageSet ==
  ASSUME web \in WebType, NEW t \in Tab, NEW s \in Slot, NEW k \in Nat, NEW r \in PageRecord,
         NEW e \in Exchange,
         web' = [key |-> k, page |-> [web.page EXCEPT ![t] = r],
                 refresh |-> [web.refresh EXCEPT ![t] = [web.refresh[t] EXCEPT ![s] = e]],
                 calls |-> web.calls]
  PROVE  /\ web' \in WebType /\ SlotBecomes(t, s, e) /\ web'.key = k /\ web'.calls = web.calls
         /\ web'.page[t] = r /\ \A u \in Tab : u # t => web'.page[u] = web.page[u]
<1>1. [web.refresh EXCEPT ![t] = [web.refresh[t] EXCEPT ![s] = e]] \in [Tab -> [Slot -> Exchange]]
  BY WebShape
<1>2. [web.page EXCEPT ![t] = r] \in [Tab -> PageRecord]
  BY WebShape
<1> QED BY <1>1, <1>2, WebShape DEF WebType, SlotBecomes

(* The types and the issued pairs after such a step.                        *)
LEMMA PageKeeps ==
  ASSUME AuthInv, NEW t \in Tab, NEW s \in Slot, NEW k \in Nat, NEW r \in PageRecord,
         NEW e \in Exchange,
         web' = [key |-> k, page |-> [web.page EXCEPT ![t] = r],
                 refresh |-> [web.refresh EXCEPT ![t] = [web.refresh[t] EXCEPT ![s] = e]],
                 calls |-> web.calls],
         srv' \in ServerType, srv'.next >= srv.next, srv.black \subseteq srv'.black,
         srv'.black \cup srv'.live \subseteq 1..(srv'.next - 1),
         ahist' \in History, ahist'.uses = ahist.uses, ahist'.raced = ahist.raced,
         k < srv'.next, r.access < srv'.next, s \in Boot,
         e.token < srv'.next, e.got < srv'.next,
         e.at \in {"sent", "checked", "answered"} => e = web.refresh[t][s]
  PROVE  AuthTypes' /\ Issued' /\ Rotation'
<1>1. /\ web' \in WebType /\ SlotBecomes(t, s, e) /\ web'.key = k /\ web'.calls = web.calls
      /\ web'.page[t] = r /\ \A u \in Tab : u # t => web'.page[u] = web.page[u]
  BY PageSet DEF AuthInv, AuthTypes
<1>2. AuthTypes'
  BY <1>1 DEF AuthTypes
<1>3. Issued'
  <2>1. \A u \in Tab : web'.page[u].access < srv'.next
    <3>1. srv.next \in Nat /\ srv'.next \in Nat /\ \A u \in Tab : web.page[u].access \in Nat
      BY WebShape DEF AuthInv, AuthTypes, ServerType, PageRecord
    <3> QED BY <1>1, <3>1 DEF AuthInv, Issued
  <2>2. e.at \in {"sent", "checked", "answered"} => e.token >= 1
    BY DEF AuthInv, Issued, InUse
  <2>3. s # "shared"
    BY DEF Boot
  <2> QED BY <1>1, <2>1, <2>2, <2>3, IssuedMoved DEF AuthInv
<1>4. Rotation'
  <2>1. \A u \in Tab, v \in Slot :
          web'.refresh[u][v].at = "checked" => web'.refresh[u][v] = web.refresh[u][v]
    BY <1>1 DEF SlotBecomes
  <2> QED BY <2>1, RotationKept DEF AuthInv
<1> QED BY <1>2, <1>3, <1>4

(* A bootstrap under way: the calm is over.                                 *)
LEMMA RestoreKeeps ==
  ASSUME AuthInv, NEW t \in Tab, NEW s \in Boot, Restored(t, s) \/ Me(t, s)
  PROVE  AuthInv'
<1> DEFINE x == web.refresh[t][s]
           set(k, r, a) == [key |-> k, page |-> [web.page EXCEPT ![t] = r],
                            refresh |-> [web.refresh EXCEPT ![t] = [web.refresh[t] EXCEPT ![s] =
                                          [at |-> a, token |-> x.token, got |-> x.got]]],
                            calls |-> web.calls]
<1>1. /\ s \in Slot /\ x \in Exchange /\ x.token \in Nat /\ x.got \in Nat /\ srv.next \in Nat
      /\ x.token < srv.next /\ x.got < srv.next /\ srv' = srv /\ srv.next >= 2
      /\ x = [at |-> x.at, token |-> x.token, got |-> x.got] /\ x.at # "idle"
  <2>1. s \in Slot /\ srv' = srv /\ x.at # "idle"
    BY DEF Slot, Restored, Me
  <2>2. x \in Exchange /\ srv.next \in Nat /\ srv.next >= 2
    BY <2>1, WebShape, ServerShape DEF AuthInv, AuthTypes, Issued
  <2>3. x.token < srv.next /\ x.got < srv.next
    BY <2>1 DEF AuthInv, Issued
  <2> QED BY <2>1, <2>2, <2>3, ExchangeShape
<1>2. web \in WebType /\ web.key < srv.next /\ web.page[t] \in PageRecord
      /\ web.page[t].access < srv.next
  BY WebShape DEF AuthInv, AuthTypes, Issued
<1> HIDE DEF x, set
<1>3. \E k \in Nat, r \in PageRecord, a \in {"me", "over"} :
        web' = set(k, r, a) /\ k < srv.next /\ r.access < srv.next
  <2> DEFINE row(c, u, b) == [access |-> c, user |-> u, ready |-> b]
             slot(a) == [web.refresh EXCEPT ![t] = [web.refresh[t] EXCEPT ![s] =
                           [at |-> a, token |-> x.token, got |-> x.got]]]
  <2>1. \A c \in Nat, u, b \in BOOLEAN : row(c, u, b) \in PageRecord /\ row(c, u, b).access = c
    BY DEF PageRecord
  <2>2. \A a \in {"me", "over"} : [web.refresh EXCEPT ![t][s].at = a] = slot(a)
    <3> TAKE a \in {"me", "over"}
    <3>1. [x EXCEPT !.at = a] = [at |-> a, token |-> x.token, got |-> x.got]
      BY <1>1
    <3>2. [web.refresh EXCEPT ![t][s].at = a]
            = [web.refresh EXCEPT ![t] = [web.refresh[t] EXCEPT ![s] = [x EXCEPT !.at = a]]]
      BY DEF x
    <3> QED BY <3>1, <3>2
  <2>3. web.page[t].user \in BOOLEAN /\ web.page[t].ready \in BOOLEAN /\ web.page[t].access \in Nat
    BY <1>2 DEF PageRecord
  <2>4. CASE Restored(t, s)
    <3> DEFINE a == IF x.got = NoPair THEN "over" ELSE "me"
    <3>1. web' = [web EXCEPT !.key = x.got, !.page[t].access = x.got,
                             !.page[t].ready = @ \/ x.got = NoPair, !.refresh[t][s].at = a]
      BY <2>4 DEF Restored, x
    <3>2. \E b \in BOOLEAN :
            web' = [web EXCEPT !.key = x.got, !.page[t].access = x.got, !.page[t].ready = b,
                               !.refresh[t][s].at = a]
      <4>1. \A v : (v \/ x.got = NoPair) \in BOOLEAN
        OBVIOUS
      <4> QED BY <3>1, <4>1, Zenon
    <3>3. PICK b \in BOOLEAN :
            web' = [key |-> x.got, page |-> [web.page EXCEPT ![t].access = x.got, ![t].ready = b],
                    refresh |-> [web.refresh EXCEPT ![t][s].at = a], calls |-> web.calls]
      <4>1. ASSUME NEW b \in BOOLEAN,
                   web' = [web EXCEPT !.key = x.got, !.page[t].access = x.got, !.page[t].ready = b,
                                      !.refresh[t][s].at = a]
            PROVE  /\ web' = [key |-> web'.key, page |-> web'.page, refresh |-> web'.refresh,
                              calls |-> web'.calls]
                   /\ web'.key = x.got /\ web'.calls = web.calls
                   /\ web'.page = [web.page EXCEPT ![t].access = x.got, ![t].ready = b]
                   /\ web'.refresh = [web.refresh EXCEPT ![t][s].at = a]
        BY <1>2, <4>1, WebShape
      <4> QED BY <3>2, <4>1, Zenon
    <3>4. a \in {"me", "over"}
      OBVIOUS
    <3> HIDE DEF a, row
    <3>5. [web.page EXCEPT ![t].access = x.got, ![t].ready = b]
            = [web.page EXCEPT ![t] = row(x.got, web.page[t].user, b)]
      <4>1. x.got \in Nat
        BY <1>1
      <4> QED BY <1>2, <4>1, PageReady, Zenon DEF row
    <3>6. web' = set(x.got, row(x.got, web.page[t].user, b), a)
      BY <2>2, <3>3, <3>4, <3>5 DEF set
    <3> QED BY <1>1, <2>1, <2>3, <3>4, <3>6
  <2>5. CASE Me(t, s)
    <3>1. PICK b \in BOOLEAN :
            web' = [web EXCEPT !.page[t] = [access |-> IF b THEN @.access ELSE NoPair,
                                            user |-> b, ready |-> TRUE],
                               !.key = IF b THEN @ ELSE NoPair, !.refresh[t][s].at = "over"]
      <4>1. Valid(web.page[t].access) \in BOOLEAN
        BY DEF Valid
      <4>2. web' = [web EXCEPT !.page[t] = [access |-> IF Valid(web.page[t].access) THEN @.access ELSE NoPair,
                                            user |-> Valid(web.page[t].access), ready |-> TRUE],
                               !.key = IF Valid(web.page[t].access) THEN @ ELSE NoPair,
                               !.refresh[t][s].at = "over"]
        BY <2>5, Zenon DEF Me
      <4> QED BY <4>1, <4>2, Zenon
    <3> DEFINE c == IF b THEN web.page[t].access ELSE NoPair
               k == IF b THEN web.key ELSE NoPair
    <3>2. web' = [web EXCEPT !.page[t] = row(c, b, TRUE), !.key = k, !.refresh[t][s].at = "over"]
      BY <3>1
    <3>3. c \in Nat /\ k \in Nat /\ c < srv.next /\ k < srv.next
      BY <1>1, <1>2, <2>3, WebShape DEF NoPair
    <3> HIDE DEF c, k
    <3>4. row(c, b, TRUE) \in PageRecord /\ row(c, b, TRUE).access = c
      BY <2>1, <3>3
    <3> HIDE DEF row
    <3>5. /\ web' = [key |-> web'.key, page |-> web'.page, refresh |-> web'.refresh,
                     calls |-> web'.calls]
          /\ web'.key = k /\ web'.calls = web.calls
          /\ web'.page = [web.page EXCEPT ![t] = row(c, b, TRUE)]
          /\ web'.refresh = [web.refresh EXCEPT ![t][s].at = "over"]
      BY <1>2, <3>2, WebShape
    <3>6. web' = set(k, row(c, b, TRUE), "over")
      BY <2>2, <3>5, Zenon DEF set
    <3> QED BY <3>3, <3>4, <3>6
  <2> QED BY <2>4, <2>5
<1>4. ahist' \in History /\ ahist'.uses = ahist.uses /\ ahist'.raced = ahist.raced
      /\ ahist.why \subseteq ahist'.why
  <2>1. CASE Restored(t, s)
    BY <2>1 DEF Restored, AuthInv, AuthTypes
  <2>2. CASE Me(t, s)
    <3>1. \E w \in SUBSET Reason : ahist' = [ahist EXCEPT !.why = w] /\ ahist.why \subseteq w
      <4>1. ahist.why \cup {"expired at load"} \in SUBSET Reason /\ ahist.why \in SUBSET Reason
        BY DEF AuthInv, AuthTypes, History, Reason
      <4> QED BY <2>2, <4>1 DEF Me, Because
    <3> QED BY <3>1 DEF AuthInv, AuthTypes, History
  <2> QED BY <2>1, <2>2
<1>5. AuthTypes' /\ Issued' /\ Rotation'
  <2>1. PICK k \in Nat, r \in PageRecord, a \in {"me", "over"} :
          web' = set(k, r, a) /\ k < srv.next /\ r.access < srv.next
    BY <1>3
  <2> DEFINE e == [at |-> a, token |-> x.token, got |-> x.got]
  <2>2. e \in Exchange /\ e.at \in {"me", "over"} /\ e.token < srv.next /\ e.got < srv.next
    BY <1>1 DEF Exchange
  <2>3. web' = [key |-> k, page |-> [web.page EXCEPT ![t] = r],
                refresh |-> [web.refresh EXCEPT ![t] = [web.refresh[t] EXCEPT ![s] = e]],
                calls |-> web.calls]
    BY <2>1 DEF set
  <2> HIDE DEF e
  <2>4. srv' \in ServerType /\ srv'.next >= srv.next /\ srv.black \subseteq srv'.black
        /\ srv'.black \cup srv'.live \subseteq 1..(srv'.next - 1)
    BY <1>1 DEF AuthInv, AuthTypes, Issued
  <2> QED BY <1>1, <1>4, <2>1, <2>2, <2>3, <2>4, PageKeeps
<1>6. Calm'
  BY <1>1, <1>4, CalmLost DEF AuthInv, Calm, x
<1> QED BY <1>5, <1>6 DEF AuthInv

(* A login or a logout leaves the exchanges alone.                          *)
LEMMA SignsKeep ==
  ASSUME AuthInv, NEW t \in Tab, Login(t) \/ Logout(t)
  PROVE  AuthInv'
<1>1. /\ web \in WebType /\ srv.next \in Nat /\ web.key \in Nat /\ web.key < srv.next
      /\ web.page[t] \in PageRecord /\ srv.next >= 2
      /\ srv.black \cup srv.live \subseteq 1..(srv.next - 1)
  BY WebShape, ServerShape DEF AuthInv, AuthTypes, Issued
<1>2. srv' \in ServerType /\ srv'.next >= srv.next /\ srv.black \subseteq srv'.black
      /\ srv'.black \cup srv'.live \subseteq 1..(srv'.next - 1)
      /\ (Login(t) => srv'.next = srv.next + 1)
      /\ (Login(t) => srv'.black = srv.black /\ srv'.active = srv.active)
  <2>1. CASE Login(t)
    <3>1. srv' = [next |-> srv.next + 1, black |-> srv.black, live |-> srv.live \cup {srv.next},
                  active |-> srv.active]
      BY <2>1, ServerShape DEF AuthInv, AuthTypes, Login
    <3> QED BY <1>1, <3>1, ServerShape DEF AuthInv, AuthTypes, ServerType
  <2>2. CASE Logout(t) /\ ~Login(t)
    <3>1. srv' = [next |-> srv.next, black |-> srv.black \cup ({web.key} \ {NoPair}),
                  live |-> srv.live, active |-> srv.active]
      BY <2>2, ServerShape DEF AuthInv, AuthTypes, Logout
    <3> QED BY <1>1, <2>2, <3>1, ServerShape DEF AuthInv, AuthTypes, ServerType, NoPair
  <2> QED BY <2>1, <2>2
<1>3. \E k \in Nat, b \in BOOLEAN :
        /\ web' = [key |-> k, page |-> [web.page EXCEPT ![t].access = k, ![t].user = b],
                   refresh |-> web.refresh, calls |-> web.calls]
        /\ k < srv'.next /\ (Login(t) => k = srv.next)
  <2>1. CASE Login(t)
    <3>1. TRUE \in BOOLEAN /\ srv.next \in Nat /\ srv.next < srv'.next
      BY <1>1, <1>2, <2>1
    <3>2. web' = [key |-> srv.next,
                  page |-> [web.page EXCEPT ![t].access = srv.next, ![t].user = TRUE],
                  refresh |-> web.refresh, calls |-> web.calls]
      BY <1>1, <2>1, WebShape DEF Login
    <3> QED BY <3>1, <3>2, Zenon
  <2>2. CASE Logout(t) /\ ~Login(t)
    <3>1. FALSE \in BOOLEAN /\ NoPair \in Nat /\ NoPair < srv'.next
      BY <1>1, <1>2 DEF NoPair, ServerType
    <3>2. web' = [key |-> NoPair,
                  page |-> [web.page EXCEPT ![t].access = NoPair, ![t].user = FALSE],
                  refresh |-> web.refresh, calls |-> web.calls]
      BY <1>1, <2>2, WebShape DEF Logout
    <3> QED BY <2>2, <3>1, <3>2, Zenon
  <2> QED BY <2>1, <2>2
<1>4. /\ ahist' \in History /\ ahist'.uses = ahist.uses /\ ahist'.raced = ahist.raced
      /\ (Login(t) => ahist'.why = ahist.why)
      /\ (~Login(t) => ahist'.why # {})
  <2>1. CASE Login(t)
    <3>1. ahist' = [uses |-> ahist.uses, raced |-> ahist.raced, why |-> ahist.why,
                    bounced |-> ahist.bounced \ {t}, loads |-> ahist.loads, upsets |-> ahist.upsets]
      BY <2>1, HistoryShape DEF AuthInv, AuthTypes, Login
    <3> QED BY <2>1, <3>1 DEF AuthInv, AuthTypes, History
  <2>2. CASE Logout(t) /\ ~Login(t)
    <3>1. Upset("logout") /\ "logout" \in Reason
      BY <2>2 DEF Logout, Reason
    <3> QED BY <2>2, <3>1, UpsetIs DEF AuthInv, AuthTypes
  <2> QED BY <2>1, <2>2
<1>5. AuthTypes' /\ Issued' /\ Rotation'
  <2>1. PICK k \in Nat, b \in BOOLEAN :
          /\ web' = [key |-> k, page |-> [web.page EXCEPT ![t].access = k, ![t].user = b],
                     refresh |-> web.refresh, calls |-> web.calls]
          /\ k < srv'.next
    BY <1>3
  <2> DEFINE r == [access |-> k, user |-> b, ready |-> web.page[t].ready]
             e == web.refresh[t]["app"]
  <2>2. [web.page EXCEPT ![t].access = k, ![t].user = b] = [web.page EXCEPT ![t] = r]
    BY <1>1, PageUser, Zenon
  <2>3. web.refresh = [web.refresh EXCEPT ![t] = [web.refresh[t] EXCEPT !["app"] = e]]
        /\ e \in Exchange /\ "app" \in Slot /\ "app" \in Boot
    BY <1>1, WebShape DEF Slot, Boot
  <2>4. web' = [key |-> k, page |-> [web.page EXCEPT ![t] = r],
                refresh |-> [web.refresh EXCEPT ![t] = [web.refresh[t] EXCEPT !["app"] = e]],
                calls |-> web.calls]
    BY <2>1, <2>2, <2>3, Zenon
  <2>5. r \in PageRecord /\ r.access < srv'.next
    BY <1>1, <2>1 DEF PageRecord
  <2>6. e.token < srv'.next /\ e.got < srv'.next
    BY <1>1, <1>2, <2>3, ExchangeShape DEF AuthInv, Issued, ServerType
  <2> HIDE DEF r, e
  <2>7. e = web.refresh[t]["app"]
    BY DEF e
  <2> QED BY <1>2, <1>4, <2>1, <2>3, <2>4, <2>5, <2>6, <2>7, PageKeeps
<1>6. Calm'
  <2>1. CASE ~Login(t)
    BY <1>4, <2>1, CalmLost
  <2>2. CASE Login(t)
    BY <1>4, <2>2 DEF AuthInv, Calm, Login
  <2> QED BY <2>1, <2>2
<1> QED BY <1>5, <1>6 DEF AuthInv

LEMMA CallShape ==
  ASSUME NEW r \in CallRecord
  PROVE  /\ r = [by |-> r.by, at |-> r.at, pair |-> r.pair]
         /\ r.by \in Tab \cup {NoPair} /\ r.pair \in Nat
BY DEF CallRecord

(* A call is sent, or it returns.                                           *)
LEMMA CallsKeep ==
  ASSUME AuthInv, NEW c \in Call,
         CallReturns(c) \/ \E t \in Tab : SendCall(t, c)
  PROVE  AuthInv'
<1>1. /\ web \in WebType /\ web.calls[c] \in CallRecord /\ srv' = srv /\ ahist' = ahist
      /\ \A t \in Tab : web.page[t].access \in Nat
  BY WebShape DEF AuthInv, AuthTypes, CallReturns, SendCall, PageRecord
<1>2. \E r \in CallRecord : /\ web' = [web EXCEPT !.calls[c] = r]
                            /\ r.at = "sent" => r.by \in Tab
                            /\ r.at \in {"sent", "over"}
  <2>1. CASE CallReturns(c)
    <3>1. web' = [web EXCEPT !.calls[c] = [by |-> web.calls[c].by, at |-> "over",
                                           pair |-> web.calls[c].pair]]
      <4>1. web' = [web EXCEPT !.calls[c] = [web.calls[c] EXCEPT !.at = "over"]]
        BY <1>1, <2>1, WebShape DEF CallReturns
      <4>2. [web.calls[c] EXCEPT !.at = "over"] = [by |-> web.calls[c].by, at |-> "over",
                                                   pair |-> web.calls[c].pair]
        BY <1>1 DEF CallRecord
      <4> QED BY <4>1, <4>2
    <3> DEFINE r == [by |-> web.calls[c].by, at |-> "over", pair |-> web.calls[c].pair]
    <3>2. r \in CallRecord /\ r.at = "over"
      BY <1>1, CallShape DEF CallRecord
    <3> QED BY <3>1, <3>2
  <2>2. CASE \E t \in Tab : SendCall(t, c)
    <3>1. PICK t \in Tab : SendCall(t, c)
      BY <2>2
    <3> DEFINE r == [by |-> t, at |-> "sent", pair |-> web.page[t].access]
    <3>2. r \in CallRecord /\ r.at = "sent" /\ r.by \in Tab
      BY <1>1 DEF CallRecord
    <3> QED BY <3>1, <3>2 DEF SendCall
  <2> QED BY <2>1, <2>2
<1>3. /\ web' \in WebType /\ web'.key = web.key /\ web'.page = web.page
      /\ web'.refresh = web.refresh
      /\ \A d \in Call : \/ web'.calls[d] = web.calls[d]
                         \/ web'.calls[d].at = "over"
                         \/ web'.calls[d].at = "sent" /\ web'.calls[d].by \in Tab
  <2>1. PICK r \in CallRecord : /\ web' = [web EXCEPT !.calls[c] = r]
                                /\ r.at = "sent" => r.by \in Tab
                                /\ r.at \in {"sent", "over"}
    BY <1>2
  <2> QED BY <1>1, <2>1, WebShape DEF WebType
<1>4. AuthTypes'
  BY <1>1, <1>3 DEF AuthInv, AuthTypes
<1>5. Issued'
  BY <1>1, <1>3 DEF AuthInv, Issued, InUse
<1>6. Rotation'
  BY <1>1, <1>3, RotationKept DEF AuthInv
<1>7. Calm'
  BY <1>1, <1>3 DEF AuthInv, Calm, InUse
<1> QED BY <1>4, <1>5, <1>6, <1>7 DEF AuthInv

(* The first 401 of a call.                                                 *)
LEMMA UnauthorizedKeeps ==
  ASSUME AuthInv, NEW t \in Tab, NEW c \in Call, Call401(t, c)
  PROVE  AuthInv'
<1> DEFINE start == web.refresh[t]["shared"] = Idle
           sent == [at |-> "sent", token |-> web.key, got |-> NoPair]
           call(a) == [by |-> web.calls[c].by, at |-> a, pair |-> web.calls[c].pair]
<1>1. /\ web \in WebType /\ web.calls[c] \in CallRecord /\ srv' = srv /\ "shared" \in Slot
      /\ web.calls[c].by = t /\ srv.next \in Nat /\ srv.next >= 2 /\ web.key \in Nat
      /\ web.key < srv.next /\ \A u \in Tab, s \in Slot : web.refresh[u][s] \in Exchange
  BY WebShape, ServerShape
     DEF AuthInv, AuthTypes, Issued, Call401, Unauthorized, Slot
<1>2. \A a \in {"over", "waiting"} :
        /\ [web.calls EXCEPT ![c].at = a] = [web.calls EXCEPT ![c] = call(a)]
        /\ call(a) \in CallRecord
  <2> TAKE a \in {"over", "waiting"}
  <2>1. [web.calls[c] EXCEPT !.at = a] = call(a)
    BY <1>1 DEF CallRecord
  <2> QED BY <1>1, <2>1, CallShape, WebShape DEF CallRecord
<1>3. CASE start /\ web.key = NoPair
  <2>1. /\ web' = [web EXCEPT !.calls[c].at = "over"]
        /\ ahist' = [ahist EXCEPT !.bounced = @ \cup {t}]
    BY <1>3 DEF Call401, Unauthorized
  <2>2. web' = [key |-> web.key, page |-> web.page, refresh |-> web.refresh,
                calls |-> [web.calls EXCEPT ![c] = call("over")]]
    BY <1>1, <1>2, <2>1, WebShape
  <2>3. ahist' = [uses |-> ahist.uses, raced |-> ahist.raced, why |-> ahist.why,
                  bounced |-> ahist.bounced \cup {t}, loads |-> ahist.loads,
                  upsets |-> ahist.upsets]
    BY <2>1, HistoryShape DEF AuthInv, AuthTypes
  <2>4. AuthTypes'
    BY <1>1, <1>2, <2>2, <2>3, WebShape DEF AuthInv, AuthTypes, WebType, History
  <2>5. Issued'
    BY <1>1, <1>2, <2>2, WebShape DEF AuthInv, Issued, InUse
  <2>6. Rotation'
    BY <1>1, <2>2, <2>3, RotationKept DEF AuthInv
  <2>7. Calm'
    BY <1>3, <2>3, CalmLost DEF AuthInv, Calm
  <2> QED BY <2>4, <2>5, <2>6, <2>7 DEF AuthInv
<1>4. CASE ~(start /\ web.key = NoPair)
  <2> DEFINE lone == Using(web.key) \ {<<t, "shared">>} = {}
             e == IF start THEN sent ELSE web.refresh[t]["shared"]
  <2>1. /\ web' = [web EXCEPT !.calls[c].at = "waiting",
                              !.refresh[t] = IF start THEN Posts(@, "shared") ELSE @]
        /\ ahist' = Because("tabs", start /\ ~lone)
    BY <1>4 DEF Call401, Unauthorized
  <2>2. sent \in Exchange /\ e \in Exchange
    BY <1>1 DEF Exchange, NoPair
  <2>3. web' = [key |-> web.key, page |-> web.page,
                refresh |-> [web.refresh EXCEPT ![t] = [web.refresh[t] EXCEPT !["shared"] = e]],
                calls |-> [web.calls EXCEPT ![c] = call("waiting")]]
    <3>1. (IF start THEN Posts(web.refresh[t], "shared") ELSE web.refresh[t])
            = [web.refresh[t] EXCEPT !["shared"] = e]
      BY <1>1, WebShape DEF Posts
    <3>2. web' = [key |-> web.key, page |-> web.page,
                  refresh |-> [web.refresh EXCEPT ![t] = IF start THEN Posts(web.refresh[t],
                               "shared")
                                                         ELSE web.refresh[t]],
                  calls |-> [web.calls EXCEPT ![c].at = "waiting"]]
      BY <1>1, <2>1, WebShape
    <3> QED BY <1>2, <3>1, <3>2
  <2>4. /\ web' \in WebType /\ web'.key = web.key /\ web'.page = web.page
        /\ SlotBecomes(t, "shared", e)
        /\ web'.calls[c] = call("waiting") /\ \A d \in Call : d # c => web'.calls[d] = web.calls[d]
    <3>1. [web.refresh EXCEPT ![t] = [web.refresh[t] EXCEPT !["shared"] = e]] \in [Tab -> [Slot -> Exchange]]
      BY <1>1, <2>2, WebShape
    <3> HIDE DEF e
    <3> QED BY <1>1, <1>2, <2>3, <3>1, WebShape DEF WebType, SlotBecomes
  <2>5. /\ ahist' \in History /\ ahist'.uses = ahist.uses /\ ahist'.raced = ahist.raced
        /\ ahist'.bounced = ahist.bounced
        /\ (start /\ ~lone => ahist'.why # {}) /\ ahist.why \subseteq ahist'.why
    <3>1. "tabs" \in Reason
      BY DEF Reason
    <3>2. \E w \in SUBSET Reason :
            /\ ahist' = [uses |-> ahist.uses, raced |-> ahist.raced, why |-> w,
                         bounced |-> ahist.bounced, loads |-> ahist.loads, upsets |-> ahist.upsets]
            /\ (start /\ ~lone => w # {}) /\ ahist.why \subseteq w
      <4> HIDE DEF start, lone
      <4>1. CASE start /\ ~lone
        BY <2>1, <3>1, <4>1, HistoryShape DEF AuthInv, AuthTypes, History, Because
      <4>2. CASE ~(start /\ ~lone)
        BY <2>1, <4>2, HistoryShape DEF AuthInv, AuthTypes, History, Because
      <4> QED BY <4>1, <4>2
    <3> QED BY <3>2 DEF AuthInv, AuthTypes, History
  <2>6. AuthTypes'
    BY <1>1, <2>4, <2>5 DEF AuthInv, AuthTypes
  <2>7. e.token < srv.next /\ e.got < srv.next /\ e # Idle
        /\ (e.at \in {"sent", "checked", "answered"} => e.token >= 1)
        /\ e.at \in {"idle", "sent", "checked", "answered"}
    <3>1. sent # Idle /\ sent.token = web.key /\ sent.got = 0 /\ sent.at = "sent"
      BY IdleExchange DEF NoPair
    <3>2. start => web.key >= 1
      BY <1>1, <1>4 DEF NoPair
    <3> HIDE DEF sent
    <3>3. CASE start
      BY <1>1, <3>1, <3>2, <3>3
    <3>4. CASE ~start
      BY <1>1, <3>4 DEF AuthInv, Issued, InUse
    <3> QED BY <3>3, <3>4
  <2>8. Issued'
    <3> HIDE DEF e
    <3>1. ASSUME NEW u \in Tab, NEW s \in Slot
          PROVE  /\ web'.refresh[u][s].token < srv'.next /\ web'.refresh[u][s].got < srv'.next
                 /\ InUse(u, s)' => web'.refresh[u][s].token >= 1
                 /\ web'.refresh[u]["shared"].at \in {"idle", "sent", "checked", "answered"}
      BY <1>1, <2>4, <2>7 DEF AuthInv, Issued, InUse, SlotBecomes
    <3>2. ASSUME NEW d \in Call
          PROVE  /\ web'.calls[d].at \in {"sent", "waiting"} => web'.calls[d].by \in Tab
                 /\ web'.calls[d].at = "waiting" => web'.refresh[web'.calls[d].by]["shared"] # Idle
      <4>1. CASE d = c
        BY <1>1, <2>4, <2>7, <4>1 DEF SlotBecomes
      <4>2. CASE d # c
        BY <1>1, <2>4, <2>7, <4>2 DEF AuthInv, Issued, SlotBecomes
      <4> QED BY <4>1, <4>2
    <3> QED BY <1>1, <2>4, <3>1, <3>2 DEF AuthInv, Issued
  <2>9. Rotation'
    <3>1. \A u \in Tab, s \in Slot :
            web'.refresh[u][s].at = "checked" => web'.refresh[u][s] = web.refresh[u][s]
      BY <2>4 DEF SlotBecomes
    <3> QED BY <1>1, <2>5, <3>1, RotationKept DEF AuthInv
  <2>10. Calm'
    <3> SUFFICES ASSUME ahist'.why = {} PROVE Calm'
      BY CalmLost
    <3>1. /\ ahist.why = {} /\ (start => lone)
      BY <2>5
    <3>2. /\ ahist.bounced = {} /\ srv.active /\ web.key # NoPair
          /\ \A u \in Tab : web.page[u].user /\ \A s \in Boot : web.refresh[u][s].at = "idle"
          /\ \A u, v \in Tab : InUse(u, "shared") /\ InUse(v, "shared") => u = v
          /\ \A u \in Tab :
               /\ InUse(u, "shared") => web.refresh[u]["shared"].token = web.key
               /\ web.refresh[u]["shared"].at = "answered" =>
                    /\ web.refresh[u]["shared"].got # NoPair
                    /\ web.refresh[u]["shared"].got \notin srv.black
          /\ (\A u \in Tab : web.refresh[u]["shared"].at # "answered") => web.key \notin srv.black
      BY <3>1 DEF AuthInv, Calm
    <3>3. \A u \in Tab, s \in Boot : web'.refresh[u][s] = web.refresh[u][s]
      BY <2>4 DEF SlotBecomes, Slot, Boot
    <3>4. CASE start
      <4>1. \A u \in Tab : ~InUse(u, "shared")
        <5> SUFFICES ASSUME NEW u \in Tab, InUse(u, "shared") PROVE FALSE
          OBVIOUS
        <5>1. <<u, "shared">> \in Using(web.key)
          BY <1>1, <3>2 DEF Using, InUse
        <5>2. u = t
          BY <3>1, <3>4, <5>1
        <5> QED BY <3>4, <5>2, IdleExchange DEF InUse
      <4>2. \A u \in Tab : \/ u = t /\ web'.refresh[u]["shared"] = sent
                           \/ u # t /\ web'.refresh[u]["shared"] = web.refresh[u]["shared"]
        BY <1>1, <2>4, <3>4 DEF SlotBecomes
      <4>3. \A u \in Tab : /\ InUse(u, "shared")' => u = t
                           /\ web'.refresh[u]["shared"].at # "answered"
        BY <4>1, <4>2 DEF InUse
      <4>4. web'.refresh[t]["shared"].token = web.key /\ web.key \notin srv.black
        BY <3>2, <4>1, <4>2 DEF InUse
      <4> QED BY <1>1, <2>4, <2>5, <3>2, <3>3, <4>3, <4>4 DEF Calm
    <3>5. CASE ~start
      <4>1. \A u \in Tab, s \in Slot : web'.refresh[u][s] = web.refresh[u][s]
        BY <2>4, <3>5 DEF SlotBecomes
      <4>2. \A u \in Tab : web'.refresh[u]["shared"] = web.refresh[u]["shared"]
        BY <1>1, <4>1
      <4> HIDE DEF start
      <4> QED BY <1>1, <2>4, <2>5, <3>2, <3>3, <4>2 DEF Calm, InUse
    <3> QED BY <3>4, <3>5
  <2> QED BY <2>6, <2>8, <2>9, <2>10 DEF AuthInv
<1> QED BY <1>3, <1>4

(* The answer of the refresh the calls of a tab share.                      *)
LEMMA SharedKeeps ==
  ASSUME AuthInv, NEW t \in Tab, SharedAnswer(t)
  PROVE  AuthInv'
<1> DEFINE x == web.refresh[t]["shared"]
           g == x.got
           row == [access |-> g, user |-> web.page[t].user, ready |-> web.page[t].ready]
           calls == [c \in Call |->
                       IF web.calls[c].by = t /\ web.calls[c].at = "waiting"
                       THEN [by |-> t, at |-> IF g = NoPair THEN "over" ELSE "retried", pair |-> g]
                       ELSE web.calls[c]]
<1>1. /\ web \in WebType /\ srv' = srv /\ "shared" \in Slot /\ x \in Exchange /\ x.at = "answered"
      /\ srv.next \in Nat /\ web.page[t] \in PageRecord
      /\ \A u \in Tab, s \in Slot : web.refresh[u][s] \in Exchange
      /\ \A u \in Tab : web.page[u].access \in Nat
  BY WebShape, ServerShape DEF AuthInv, AuthTypes, SharedAnswer, Slot, PageRecord
<1>2. g \in Nat /\ g < srv.next
  BY <1>1, ExchangeShape DEF AuthInv, Issued
<1>3. web' = [key |-> g, page |-> [web.page EXCEPT ![t].access = g],
              refresh |-> [web.refresh EXCEPT ![t] = [web.refresh[t] EXCEPT !["shared"] = Idle]],
              calls |-> calls]
  BY <1>1, WebShape DEF SharedAnswer
<1>4. /\ calls \in [Call -> CallRecord]
      /\ \A c \in Call : \/ calls[c].at \in {"over", "retried"}
                         \/ calls[c] = web.calls[c] /\ (web.calls[c].at = "waiting" => web.calls[c].by # t)
  BY <1>1, <1>2, WebShape DEF CallRecord
<1>5. [web.page EXCEPT ![t].access = g] = [web.page EXCEPT ![t] = row] /\ row \in PageRecord
  <2> DEFINE y == web.page[t]
  <2>1. y = [access |-> y.access, user |-> y.user, ready |-> y.ready] /\ y \in PageRecord
    BY <1>1 DEF PageRecord
  <2>2. [web.page EXCEPT ![t].access = g] = [web.page EXCEPT ![t] = [y EXCEPT !.access = g]]
    OBVIOUS
  <2> HIDE DEF y, g
  <2>3. [y EXCEPT !.access = g] = [access |-> g, user |-> y.user, ready |-> y.ready]
        /\ [access |-> g, user |-> y.user, ready |-> y.ready] \in PageRecord
    BY <1>2, <2>1 DEF PageRecord
  <2> QED BY <2>2, <2>3 DEF y
<1> HIDE DEF calls
<1>6. /\ web' \in WebType /\ web'.key = g /\ SlotBecomes(t, "shared", Idle) /\ web'.calls = calls
      /\ web'.page[t].access = g /\ web'.page[t].user = web.page[t].user
      /\ \A u \in Tab : u # t => web'.page[u] = web.page[u]
  <2>1. [web.refresh EXCEPT ![t] = [web.refresh[t] EXCEPT !["shared"] = Idle]] \in [Tab -> [Slot -> Exchange]]
    BY <1>1, IdleExchange, WebShape
  <2>2. row.access = g /\ row.user = web.page[t].user
    OBVIOUS
  <2>3. web'.page = [web.page EXCEPT ![t] = row]
    BY <1>3, <1>5
  <2> HIDE DEF row, g
  <2>4. web' \in WebType
    BY <1>1, <1>2, <1>3, <1>4, <1>5, <2>1, WebShape DEF WebType
  <2>5. SlotBecomes(t, "shared", Idle)
    BY <1>1, <1>3, IdleExchange, WebShape DEF SlotBecomes
  <2> QED BY <1>1, <1>3, <2>2, <2>3, <2>4, <2>5, WebShape
<1>7. /\ ahist' \in History /\ ahist'.uses = ahist.uses /\ ahist'.raced = ahist.raced
      /\ ahist'.why = ahist.why /\ (g # NoPair => ahist' = ahist)
  BY <1>1 DEF AuthInv, AuthTypes, History, SharedAnswer
<1>8. AuthTypes'
  BY <1>1, <1>6, <1>7 DEF AuthInv, AuthTypes
<1>9. Issued'
  <2>1. ASSUME NEW u \in Tab
        PROVE  /\ web'.page[u].access < srv'.next
               /\ web'.refresh[u]["shared"].at \in {"idle", "sent", "checked", "answered"}
               /\ \A s \in Slot :
                    /\ web'.refresh[u][s].token < srv'.next /\ web'.refresh[u][s].got < srv'.next
                    /\ InUse(u, s)' => web'.refresh[u][s].token >= 1
    <3> HIDE DEF g
    <3> QED BY <1>1, <1>2, <1>6, IdleExchange DEF AuthInv, Issued, InUse, SlotBecomes
  <2>2. ASSUME NEW c \in Call
        PROVE  /\ web'.calls[c].at \in {"sent", "waiting"} => web'.calls[c].by \in Tab
               /\ web'.calls[c].at = "waiting" => web'.refresh[web'.calls[c].by]["shared"] # Idle
    BY <1>1, <1>4, <1>6 DEF AuthInv, Issued, SlotBecomes
  <2> QED BY <1>1, <1>2, <1>6, <2>1, <2>2 DEF AuthInv, Issued
<1>10. Rotation'
  <2>1. \A u \in Tab, s \in Slot :
          web'.refresh[u][s].at = "checked" => web'.refresh[u][s] = web.refresh[u][s]
    BY <1>6, IdleExchange DEF SlotBecomes
  <2> QED BY <1>1, <1>7, <2>1, RotationKept DEF AuthInv
<1>11. Calm'
  <2> SUFFICES ASSUME ahist.why = {} PROVE Calm'
    BY <1>7, CalmLost
  <2>1. /\ ahist.bounced = {} /\ srv.active
        /\ \A u \in Tab : web.page[u].user /\ \A s \in Boot : web.refresh[u][s].at = "idle"
        /\ \A u, v \in Tab : InUse(u, "shared") /\ InUse(v, "shared") => u = v
        /\ g # NoPair /\ g \notin srv.black
    BY <1>1 DEF AuthInv, Calm
  <2>2. \A u \in Tab, s \in Boot : web'.refresh[u][s] = web.refresh[u][s]
    BY <1>6 DEF SlotBecomes, Slot, Boot
  <2>3. \A u \in Tab : web'.refresh[u]["shared"].at # "answered" /\ ~InUse(u, "shared")'
    <3> TAKE u \in Tab
    <3>1. CASE u = t
      BY <1>6, <3>1, IdleExchange DEF SlotBecomes, InUse
    <3>2. CASE u # t
      <4>1. ~InUse(u, "shared")
        BY <1>1, <2>1, <3>2 DEF InUse
      <4> QED BY <1>1, <1>6, <3>2, <4>1 DEF SlotBecomes, InUse
    <3> QED BY <3>1, <3>2
  <2>4. \A u \in Tab : web'.page[u].user = web.page[u].user
    BY <1>6
  <2> HIDE DEF g
  <2> QED BY <1>1, <1>6, <1>7, <2>1, <2>2, <2>3, <2>4 DEF Calm
<1> QED BY <1>8, <1>9, <1>10, <1>11 DEF AuthInv

LEMMA AuthStep == AuthInv /\ [AuthNext]_authVars => AuthInv'
<1> SUFFICES ASSUME AuthInv, [AuthNext]_authVars PROVE AuthInv'
  OBVIOUS
<1>1. CASE UNCHANGED authVars
  <2>1. srv' = srv /\ web' = web /\ ahist' = ahist
    BY <1>1 DEF authVars
  <2>2. AuthTypes'
    BY <2>1 DEF AuthInv, AuthTypes
  <2>3. Issued'
    BY <2>1 DEF AuthInv, Issued, InUse
  <2>4. Rotation'
    BY <2>1, RotationKept DEF AuthInv
  <2>5. Calm'
    BY <2>1 DEF AuthInv, Calm, InUse
  <2> QED BY <2>2, <2>3, <2>4, <2>5 DEF AuthInv
<1>2. CASE ServerAnswers
  BY <1>2, CheckKeeps, RotateKeeps DEF ServerAnswers
<1>3. CASE PageRuns
  BY <1>3, SharedKeeps, RestoreKeeps DEF PageRuns
<1>4. CASE SwitchActive \/ \E p \in Pair : AccessExpires(p)
  BY <1>4, ServerKeeps
<1>5. CASE \E c \in Call : CallReturns(c) \/ \E t \in Tab : SendCall(t, c)
  BY <1>5, CallsKeep
<1>6. CASE \E t \in Tab : \/ Reload(t) \/ Login(t) \/ Logout(t)
                          \/ \E s \in Slot : AnswerLost(t, s)
                          \/ \E c \in Call : Call401(t, c)
  BY <1>6, ReloadKeeps, SignsKeep, LostKeeps, UnauthorizedKeeps
<1> QED BY <1>1, <1>2, <1>3, <1>4, <1>5, <1>6 DEF AuthNext

(* However tabs, calls and the two bootstraps of a page load interleave with *)
(* expiry, lost answers, logouts and the administrator: a refresh token is   *)
(* exchanged once, unless two exchanges were past the blacklist check        *)
(* together, and a tab is thrown out only for a named reason                 *)
(* (/auth/refresh, client.ts, stores/auth.ts).                               *)
THEOREM SessionsExplainedHolds == AuthSpec => []SessionsExplained
<1>1. AuthInv => SessionsExplained
  <2> SUFFICES ASSUME AuthInv PROVE SessionsExplained
    OBVIOUS
  <2>1. AuthTypeOK
    <3>1. \A t \in Tab : web.page[t].access \in 0..(srv.next - 1) /\ web.page[t].user \in BOOLEAN
      <4>1. \A r \in PageRecord : r.access \in Nat /\ r.user \in BOOLEAN
        BY DEF PageRecord
      <4>2. \A t \in Tab : web.page[t] \in PageRecord /\ web.page[t].access < srv.next
        BY WebShape DEF AuthInv, AuthTypes, Issued
      <4>3. srv.next \in Nat
        BY ServerShape DEF AuthInv, AuthTypes
      <4>4. \A t \in Tab : web.page[t].user \in BOOLEAN
        BY <4>1, <4>2, Zenon
      <4>5. \A t \in Tab : web.page[t].access \in Nat /\ web.page[t].access < srv.next
        BY <4>1, <4>2, Zenon
      <4>6. \A t \in Tab : web.page[t].access \in 0..(srv.next - 1)
        <5>1. \A n, m \in Nat : n < m => n \in 0..(m - 1)
          OBVIOUS
        <5> QED BY <4>3, <4>5, <5>1, Zenon
      <4> QED BY <4>4, <4>6, Zenon
    <3>2. \A c \in Call : web.calls[c].at \in {"idle", "sent", "waiting", "retried", "over"}
      BY WebShape DEF AuthInv, AuthTypes, CallRecord
    <3> QED BY <3>1, <3>2 DEF AuthInv, Issued, AuthTypeOK
  <2>2. ExchangedOnce
    <3>1. \A p \in Pair : ahist.uses[p] \in Nat
      BY DEF AuthInv, AuthTypes, History
    <3> QED BY <3>1 DEF AuthInv, Rotation, ExchangedOnce
  <2>3. BouncedForAReason
    BY DEF AuthInv, Calm, BouncedForAReason
  <2> QED BY <2>1, <2>2, <2>3 DEF SessionsExplained
<1>2. AuthSpec => []AuthInv
  BY AuthInitially, AuthStep, PTL DEF AuthSpec
<1> QED BY <1>1, <1>2, PTL
=============================================================================
