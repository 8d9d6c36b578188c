--------------------------- MODULE TenantSettings ---------------------------
(***************************************************************************)
(* The tenant's one settings row, the live send limit that is kept from it *)
(* in Redis, and the fixed-window counters that enforce the limits.  Every *)
(* writer of the row loads the whole JSON, changes a copy and stores it.   *)
(***************************************************************************)
EXTENDS Integers, FiniteSets

CONSTANTS
  Limit,          \* what int() can make of the limit in a payload, which nobody validates
  DefaultLimit,   \* what applies before anybody chose: settings.rate_limit_per_min
  ShownLimit,     \* what the row shows before: DEFAULT_SETTINGS
  LoginLimit,     \* settings.login_rate_limit_per_min
  Server,         \* names of MCP servers
  MaxAdminRequests, MaxCalls, MaxWindows \* bounds: admin requests, limited calls, windows

AdminRequest == 1..MaxAdminRequests
LimitedCall  == 1..MaxCalls
Gate         == {"send", "login"}

ASSUME TenantConstants ==
  /\ Limit \subseteq Int /\ ShownLimit \in Int
  /\ DefaultLimit \in Nat \ {0} /\ LoginLimit \in Nat \ {0}
  /\ MaxAdminRequests \in Nat /\ MaxCalls \in Nat /\ MaxWindows \in Nat

VARIABLES
  tenant, \* row: the settings (limit, a set: empty when there is no number; granted,
          \* servers), exists: it has been inserted;
          \* live: the limit in Redis, 0 when the key is absent; count: per gate the
          \* counter [n, ttl] of one user (send) or address (login); monthly: the month's
          \* counter; windows: windows that have ended
  adm,    \* [AdminRequest -> handler]: op, and data, the copy it has loaded
  gated,  \* [LimitedCall -> handler]: op, and the gate and the limit it has read
  tenhist \* history: raced (admin requests overlapped, or Redis failed one), chosen (the
          \* last number a stored payload carried, as a set), passed (per gate, calls let
          \* through in this window), top (highest limit such a call read), leaked (gates
          \* whose EXPIRE was lost), sends (let through, in all)

tenantVars == <<tenant, adm, gated, tenhist>>

DefaultRow == [limit |-> {ShownLimit}, granted |-> {}, servers |-> {}]

-----------------------------------------------------------------------------
(* settings_service and its callers in admin.py.                            *)

Busy(i) == adm[i].op \notin {"fresh", "done"}

(* The first reader inserts the row; a second one that was reading too is   *)
(* refused by the primary key (FirstReadLoses).                             *)
GetsSettings(i, op, what) ==
  /\ adm[i].op = "fresh" /\ \A j \in 1..(i - 1) : adm[j].op # "fresh"
  /\ adm' = [adm EXCEPT ![i] = [op |-> IF tenant.exists THEN op ELSE "insert", then |-> op,
                                what |-> what, data |-> tenant.row]]
  /\ tenhist' = [tenhist EXCEPT !.raced = @ \/ \E j \in AdminRequest : Busy(j)]
  /\ UNCHANGED <<tenant, gated>>

InsertDefaults(i) ==
  /\ adm[i].op = "insert" /\ ~tenant.exists
  /\ tenant' = [tenant EXCEPT !.exists = TRUE]
  /\ adm' = [adm EXCEPT ![i].op = adm[i].then]
  /\ UNCHANGED <<gated, tenhist>>

FirstReadLoses(i) ==
  /\ adm[i].op = "insert" /\ tenant.exists
  /\ adm' = [adm EXCEPT ![i].op = "done"]
  /\ UNCHANGED <<tenant, gated, tenhist>>

(* A payload without a limit, or with one that is no number, is stored too. *)
PutSettings(i)      == \E ls \in {{}} \cup {{l} : l \in Limit} : GetsSettings(i, "put", ls)
TogglePermission(i) == \E g \in BOOLEAN : GetsSettings(i, "toggle", g)
AddMcpServer(i)     == \E s \in Server \ tenant.row.servers : GetsSettings(i, "add", s)
DeleteMcpServer(i)  == \E s \in Server : GetsSettings(i, "delete", s)

Stores(i, op, data, next) ==
  /\ adm[i].op = op
  /\ tenant' = [tenant EXCEPT !.row = data]
  /\ adm' = [adm EXCEPT ![i].op = next]
  /\ tenhist' = [tenhist EXCEPT
       !.chosen = IF op = "put" /\ adm[i].what # {} THEN adm[i].what ELSE @]
  /\ UNCHANGED gated

(* The console sends branding and model gateway only: the rest is dropped.  *)
Sent(i)          == [limit |-> adm[i].what, granted |-> {}, servers |-> {}]
StoreSettings(i) == Stores(i, "put", Sent(i), "propagate")

AtLeastOne(l) == IF l < 1 THEN 1 ELSE l

StorePermission(i) ==
  Stores(i, "toggle",
         [adm[i].data EXCEPT !.granted = IF adm[i].what THEN @ \cup {"given"} ELSE @ \ {"given"}],
         "done")
StoreServer(i) == Stores(i, "add", [adm[i].data EXCEPT !.servers = @ \cup {adm[i].what}], "done")
DropServer(i)  == Stores(i, "delete", [adm[i].data EXCEPT !.servers = @ \ {adm[i].what}], "done")

(* What is no number leaves the live limit alone.                           *)
SetRateLimit(i) ==
  /\ adm[i].op = "propagate"
  /\ \/ \E l \in adm[i].what : tenant' = [tenant EXCEPT !.live = AtLeastOne(l)] /\ UNCHANGED tenhist
     \/ adm[i].what = {} /\ UNCHANGED <<tenant, tenhist>>
     \/ /\ adm[i].what # {}                                  \* Redis fails
        /\ tenhist' = [tenhist EXCEPT !.raced = TRUE] /\ UNCHANGED tenant
  /\ adm' = [adm EXCEPT ![i].op = "done"]
  /\ UNCHANGED gated

-----------------------------------------------------------------------------
(* ratelimit.hit and its callers.                                           *)

Reads(c, g, l) ==
  /\ gated[c].op = "fresh" /\ \A d \in 1..(c - 1) : gated[d].op # "fresh"
  /\ gated' = [gated EXCEPT ![c] = [op |-> "incr", gate |-> g, limit |-> l]]
  /\ UNCHANGED <<tenant, adm, tenhist>>

AllowSend(c)  == Reads(c, "send", IF tenant.live = 0 THEN DefaultLimit ELSE tenant.live)
LoginGuard(c) == Reads(c, "login", LoginLimit)

Lets(c, cur)        == cur <= gated[c].limit

Verdict(c, cur) ==
  [tenhist EXCEPT
     !.passed[gated[c].gate] = IF Lets(c, cur) THEN @ + 1 ELSE @,
     !.top[gated[c].gate] = IF @ < gated[c].limit THEN gated[c].limit ELSE @,
     !.sends = IF Lets(c, cur) /\ gated[c].gate = "send" THEN @ + 1 ELSE @]

(* Sends are counted for the month; a first call is always let through. *)
Passed(c)     == IF gated[c].gate = "send" THEN "monthly" ELSE "done"
After(c, cur) == IF cur = 1 THEN "expire" ELSE IF Lets(c, cur) THEN Passed(c) ELSE "done"

Counted(c) == tenant.count[gated[c].gate].n + 1

Increments(c, op) ==
  /\ gated[c].op = "incr"
  /\ tenant' = [tenant EXCEPT !.count[gated[c].gate].n = Counted(c)]
  /\ gated' = [gated EXCEPT ![c].op = op]
  /\ tenhist' = Verdict(c, Counted(c))
  /\ UNCHANGED adm

ForgetExpire(c) == Increments(c, IF Counted(c) = 1 THEN Passed(c) ELSE After(c, Counted(c)))
Incr(c)         == Increments(c, After(c, Counted(c)))

Expire(c) ==
  /\ gated[c].op = "expire"
  /\ tenant' = [tenant EXCEPT !.count[gated[c].gate].ttl = tenant.count[gated[c].gate].n > 0]
  /\ gated' = [gated EXCEPT ![c].op = Passed(c)]
  /\ UNCHANGED <<adm, tenhist>>

(* Redis fails, or the server stops: sending answers an error, signing in   *)
(* goes on unguarded.                                                       *)
ExpireLost(c) ==
  /\ gated[c].op = "expire"
  /\ tenhist' = [tenhist EXCEPT !.leaked = @ \cup {gated[c].gate},
       !.sends = IF gated[c].gate = "send" THEN @ - 1 ELSE @]
  /\ gated' = [gated EXCEPT ![c].op = "done"]
  /\ UNCHANGED <<tenant, adm>>

IncrMonthly(c) ==
  /\ gated[c].op = "monthly"
  /\ tenant' = [tenant EXCEPT !.monthly = @ + 1]
  /\ gated' = [gated EXCEPT ![c].op = "done"]
  /\ UNCHANGED <<adm, tenhist>>

WindowEnds(g) ==
  /\ tenant.count[g].ttl /\ tenant.windows < MaxWindows
  /\ tenant' = [tenant EXCEPT !.count[g] = [n |-> 0, ttl |-> FALSE], !.windows = @ + 1]
  /\ tenhist' = [tenhist EXCEPT !.passed[g] = 0, !.top[g] = 0]
  /\ UNCHANGED <<adm, gated>>

-----------------------------------------------------------------------------
TenantInit ==
  /\ tenant = [exists |-> FALSE, row |-> DefaultRow, live |-> 0, monthly |-> 0, windows |-> 0,
               count |-> [g \in Gate |-> [n |-> 0, ttl |-> FALSE]]]
  /\ adm = [i \in AdminRequest |-> [op |-> "fresh"]]
  /\ gated = [c \in LimitedCall |-> [op |-> "fresh"]]
  /\ tenhist = [raced |-> FALSE, chosen |-> {},
                passed |-> [g \in Gate |-> 0], top |-> [g \in Gate |-> 0],
                leaked |-> {}, sends |-> 0]

TenantNext ==
  \/ \E i \in AdminRequest :
       \/ PutSettings(i) \/ TogglePermission(i) \/ AddMcpServer(i) \/ DeleteMcpServer(i)
       \/ InsertDefaults(i) \/ FirstReadLoses(i) \/ StoreSettings(i) \/ StorePermission(i)
       \/ StoreServer(i) \/ DropServer(i) \/ SetRateLimit(i)
  \/ \E c \in LimitedCall :
       AllowSend(c) \/ LoginGuard(c) \/ Incr(c) \/ Expire(c) \/ ExpireLost(c) \/ IncrMonthly(c)
  \/ \E g \in Gate : WindowEnds(g)

TenantSpec == TenantInit /\ [][TenantNext]_tenantVars

-----------------------------------------------------------------------------
(* The limit that is enforced is the one the settings show, or 1 if that is *)
(* less; settings without a number leave the last one in force, and the     *)
(* server's own when nobody has chosen any.  Unless two admins worked at    *)
(* once or Redis failed (test_admin.py lowers it "live").                   *)
LiveLimitIsTheSetting ==
  (\A i \in AdminRequest : adm[i].op # "propagate") /\ ~tenhist.raced =>
    \/ /\ \E l \in tenhist.chosen : tenant.live = AtLeastOne(l)
       /\ tenant.row.limit \in {{}, tenhist.chosen}
    \/ /\ tenhist.chosen = {} /\ tenant.live = 0
       /\ tenant.row.limit \in {{}, {ShownLimit}}

(* However calls, windows and changes of the limit interleave, a window     *)
(* lets through at most the highest limit one of its calls had read.        *)
WindowHolds == \A g \in Gate : tenhist.passed[g] <= tenhist.top[g]

(* A counter that never expires blocks for good: it exists only while the   *)
(* call that created it still has to set the expiry, or when that was lost. *)
CounterExpires ==
  \A g \in Gate :
    tenant.count[g].n > 0 /\ ~tenant.count[g].ttl =>
      g \in tenhist.leaked \/ \E c \in LimitedCall : gated[c].op = "expire" /\ gated[c].gate = g

(* The month's usage counts every send let through, once.                   *)
MonthCountsSends ==
  tenant.monthly + Cardinality({c \in LimitedCall : gated[c].op = "monthly"
                                  \/ (gated[c].op = "expire" /\ gated[c].gate = "send")}) = tenhist.sends

(* The limit in force is the one that is shown, it holds in every window,    *)
(* and counters neither block for good nor miss a send.                     *)
LimitsHold == LiveLimitIsTheSetting /\ WindowHolds /\ MonthCountsSends /\ CounterExpires
=============================================================================
