---------------------------- MODULE AuthSessions ----------------------------
(***************************************************************************)
(* The session of one user in the tabs of a browser: access tokens in      *)
(* memory, one refresh token in localStorage shared by the tabs, rotation  *)
(* by /auth/refresh, the single refresh after a 401, the restore at a page *)
(* load (App.vue and the router guard both call bootstrap), logout.  A     *)
(* pair of tokens is a number; an answer is a pair or NoPair (refused).    *)
(***************************************************************************)
EXTENDS Naturals

CONSTANTS
  Tab,
  Call,        \* API calls, each made once by some tab
  MaxPairs,    \* bound: token pairs issued
  MaxReloads,  \* bound: page loads
  MaxUpsets    \* bound: answers lost, changes of is_active, logouts

ASSUME AuthBounds == {MaxPairs, MaxReloads, MaxUpsets} \subseteq Nat

Pair   == 1..MaxPairs
NoPair == 0
Boot   == {"app", "router"}         \* who called bootstrap
Slot   == Boot \cup {"shared"}      \* who posts /auth/refresh; "shared" is `refreshing`
Idle   == [at |-> "idle", token |-> NoPair, got |-> NoPair]

VARIABLES
  srv,   \* next pair, black (jwt:blacklist), live (access tokens not expired), active (users row)
  web,   \* key (localStorage), page [Tab -> access, user, ready], refresh [Tab -> [Slot ->
         \* exchange]], calls [Call -> [by, at, pair]]
  ahist  \* history: uses and raced (of a refresh token), why (what may cost the session),
         \* bounced (tabs), loads, upsets

authVars == <<srv, web, ahist>>

Upset(reason) == /\ ahist.upsets < MaxUpsets
                 /\ ahist' = [ahist EXCEPT !.upsets = @ + 1, !.why = @ \cup {reason}]

Because(reason, test) == [ahist EXCEPT !.why = IF test THEN @ \cup {reason} ELSE @]

Using(p) == {x \in Tab \X Slot : web.refresh[x[1]][x[2]].token = p
                                  /\ web.refresh[x[1]][x[2]].at \in {"sent", "checked", "answered"}}

-----------------------------------------------------------------------------
(* The server.  user_from_access_token reads the user for every call.       *)

Valid(p) == p \in srv.live /\ srv.active

(* refresh_tokens: the blacklist is read, then the user ... *)
RefreshCheck(t, s) ==
  LET p == web.refresh[t][s].token IN
  /\ web.refresh[t][s].at = "sent"
  /\ web' = [web EXCEPT !.refresh[t][s].at = IF p \in srv.black THEN "answered" ELSE "checked"]
  /\ ahist' = [ahist EXCEPT !.raced =
       IF \E x \in Using(p) : web.refresh[x[1]][x[2]].at = "checked" THEN @ \cup {p} ELSE @]
  /\ UNCHANGED srv

(* ... and the token is blacklisted and a new pair issued. *)
RefreshRotate(t, s) ==
  LET p == web.refresh[t][s].token IN
  /\ web.refresh[t][s].at = "checked" /\ (srv.active => srv.next <= MaxPairs)
  /\ web' = [web EXCEPT !.refresh[t][s].at = "answered",
                        !.refresh[t][s].got = IF srv.active THEN srv.next ELSE NoPair]
  /\ IF srv.active
     THEN /\ srv' = [srv EXCEPT !.black = @ \cup {p}, !.next = @ + 1, !.live = @ \cup {srv.next}]
          /\ ahist' = [ahist EXCEPT !.uses[p] = @ + 1]
     ELSE UNCHANGED <<srv, ahist>>

AnswerLost(t, s) ==
  /\ web.refresh[t][s].at \in {"sent", "answered"}
  /\ web' = [web EXCEPT !.refresh[t][s].at = "answered", !.refresh[t][s].got = NoPair]
  /\ Upset("lost") /\ UNCHANGED srv

AccessExpires(p) ==
  /\ p \in srv.live /\ srv' = [srv EXCEPT !.live = @ \ {p}]
  /\ UNCHANGED <<web, ahist>>

(* An administrator changes is_active. *)
SwitchActive == srv' = [srv EXCEPT !.active = ~@] /\ Upset("inactive") /\ UNCHANGED web

-----------------------------------------------------------------------------
(* The browser: client.ts, stores/auth.ts.                                  *)

Posts(refreshOfTab, s) == [refreshOfTab EXCEPT ![s] = [at |-> "sent", token |-> web.key, got |-> NoPair]]

(* A page load forgets the memory of the page and what was in flight.       *)
(* App.vue's onMounted and the guard of the first navigation both boot       *)
(* before anything is answered.                                             *)
Reload(t) ==
  /\ ahist.loads < MaxReloads
  /\ ahist' = [ahist EXCEPT !.loads = @ + 1, !.why = @
       \cup (IF web.key # NoPair THEN {"restores"} ELSE {})
       \cup (IF \E p \in Pair, s \in Slot : <<t, s>> \in Using(p) THEN {"lost"} ELSE {})
       \cup (IF \E x \in Using(web.key) : x[1] # t THEN {"tabs"} ELSE {})]
  /\ \E late \in {{}, {web.refresh[t][s].token : s \in {r \in Slot : web.refresh[t][r].at = "checked"}}} :
       srv' = [srv EXCEPT !.black = @ \cup late]
  /\ LET empty == [s \in Slot |-> Idle] IN
     web' = [web EXCEPT
       !.page[t] = [access |-> NoPair, user |-> FALSE, ready |-> web.key = NoPair],
       !.refresh[t] = IF web.key = NoPair THEN empty ELSE Posts(Posts(empty, "app"), "router"),
       !.calls = [c \in Call |-> IF @[c].by = t THEN [@[c] EXCEPT !.at = "over"] ELSE @[c]]]

(* tokenStore.restore has its answer. *)
Restored(t, s) ==
  LET got == web.refresh[t][s].got IN
  /\ web.refresh[t][s].at = "answered"
  /\ web' = [web EXCEPT !.key = got, !.page[t].access = got, !.page[t].ready = @ \/ got = NoPair,
                        !.refresh[t][s].at = IF got = NoPair THEN "over" ELSE "me"]
  /\ UNCHANGED <<srv, ahist>>

(* GET /auth/me with the token of now; a refusal clears the store. *)
Me(t, s) ==
  LET ok == Valid(web.page[t].access) IN
  /\ web.refresh[t][s].at = "me"
  /\ web' = [web EXCEPT !.page[t] = [access |-> IF ok THEN @.access ELSE NoPair, user |-> ok, ready |-> TRUE],
                        !.key = IF ok THEN @ ELSE NoPair, !.refresh[t][s].at = "over"]
  /\ ahist' = Because("expired at load", ~ok)
  /\ UNCHANGED srv

Login(t) ==
  /\ web.page[t].ready /\ ~web.page[t].user /\ srv.active /\ srv.next <= MaxPairs
  /\ srv' = [srv EXCEPT !.next = @ + 1, !.live = @ \cup {srv.next}]
  /\ web' = [web EXCEPT !.key = srv.next, !.page[t].access = srv.next, !.page[t].user = TRUE]
  /\ ahist' = [ahist EXCEPT !.bounced = @ \ {t}]

(* POST /auth/logout blacklists the refresh token; the store is cleared. *)
Logout(t) ==
  /\ web.page[t].user
  /\ srv' = [srv EXCEPT !.black = @ \cup ({web.key} \ {NoPair})]
  /\ web' = [web EXCEPT !.key = NoPair, !.page[t].access = NoPair, !.page[t].user = FALSE]
  /\ Upset("logout")

SendCall(t, c) ==
  /\ web.page[t].user /\ web.calls[c].at = "idle"
  /\ web' = [web EXCEPT !.calls[c] = [by |-> t, at |-> "sent", pair |-> web.page[t].access]]
  /\ UNCHANGED <<srv, ahist>>

(* An answer that is not a 401, or a 401 of the retry: the caller has it. *)
CallReturns(c) ==
  /\ \/ web.calls[c].at = "sent" /\ Valid(web.calls[c].pair)
     \/ web.calls[c].at = "retried"
  /\ web' = [web EXCEPT !.calls[c].at = "over"]
  /\ UNCHANGED <<srv, ahist>>

(* A first 401: `refreshing = refreshing ?? doRefresh()`.  Without a refresh *)
(* token doRefresh gives null at once.                                       *)
Unauthorized(t, c, start) ==
  /\ web.calls[c].by = t /\ web.calls[c].at = "sent" /\ ~Valid(web.calls[c].pair)
  /\ IF start /\ web.key = NoPair
     THEN /\ web' = [web EXCEPT !.calls[c].at = "over"]
          /\ ahist' = [ahist EXCEPT !.bounced = @ \cup {t}]
     ELSE /\ web' = [web EXCEPT !.calls[c].at = "waiting",
                                !.refresh[t] = IF start THEN Posts(@, "shared") ELSE @]
          /\ ahist' = Because("tabs", start /\ Using(web.key) \ {<<t, "shared">>} # {})
  /\ UNCHANGED srv

RefreshAlways(t, c) == Unauthorized(t, c, TRUE)
Call401(t, c)       == Unauthorized(t, c, web.refresh[t]["shared"] = Idle)

(* doRefresh has its answer: whoever awaits the promise goes on. *)
SharedAnswer(t) ==
  LET got == web.refresh[t]["shared"].got IN
  /\ web.refresh[t]["shared"].at = "answered"
  /\ web' = [web EXCEPT !.key = got, !.page[t].access = got, !.refresh[t]["shared"] = Idle,
       !.calls = [c \in Call |-> IF @[c].by = t /\ @[c].at = "waiting"
                                 THEN [by |-> t, at |-> IF got = NoPair THEN "over" ELSE "retried", pair |-> got]
                                 ELSE @[c]]]
  /\ ahist' = IF got = NoPair THEN [ahist EXCEPT !.bounced = @ \cup {t}] ELSE ahist
  /\ UNCHANGED srv

-----------------------------------------------------------------------------
AuthInit ==
  /\ srv = [next |-> 2, black |-> {}, live |-> {1}, active |-> TRUE]
  /\ web = [key |-> 1,
            page |-> [t \in Tab |-> [access |-> 1, user |-> TRUE, ready |-> TRUE]],
            refresh |-> [t \in Tab |-> [s \in Slot |-> Idle]],
            calls |-> [c \in Call |-> [by |-> NoPair, at |-> "idle", pair |-> NoPair]]]
  /\ ahist = [uses |-> [p \in Pair |-> 0], raced |-> {}, why |-> {}, bounced |-> {},
              loads |-> 0, upsets |-> 0]

ServerAnswers == \E t \in Tab, s \in Slot : RefreshCheck(t, s) \/ RefreshRotate(t, s)
PageRuns == \E t \in Tab : SharedAnswer(t) \/ \E s \in Boot : Restored(t, s) \/ Me(t, s)

AuthNext ==
  \/ ServerAnswers \/ PageRuns \/ SwitchActive
  \/ \E p \in Pair : AccessExpires(p)
  \/ \E c \in Call : CallReturns(c)
  \/ \E t \in Tab : \/ Reload(t) \/ Login(t) \/ Logout(t)
                    \/ \E s \in Slot : AnswerLost(t, s)
                    \/ \E c \in Call : SendCall(t, c) \/ Call401(t, c)

AuthSpec == AuthInit /\ [][AuthNext]_authVars

-----------------------------------------------------------------------------
AuthTypeOK ==
  /\ srv.black \cup srv.live \subseteq 1..(srv.next - 1)
  /\ web.key < srv.next
  /\ \A t \in Tab : web.page[t].access \in 0..(srv.next - 1) /\ web.page[t].user \in BOOLEAN
  /\ \A c \in Call :
       /\ web.calls[c].at \in {"idle", "sent", "waiting", "retried", "over"}
       /\ web.calls[c].at = "waiting" => web.refresh[web.calls[c].by]["shared"] # Idle

(* Rotation: a refresh token is exchanged once, or by exchanges that were    *)
(* both past the blacklist check before either had blacklisted it.           *)
ExchangedOnce == \A p \in Pair : ahist.uses[p] > 1 => p \in ahist.raced

(* A tab is thrown out only after a lost answer, a logout, a deactivation, or *)
(* when two tabs or the two bootstraps of a page load used one refresh token: *)
(* any number of calls that meet an expired token share one refresh.          *)
BouncedForAReason == ahist.bounced # {} => ahist.why # {}

(* A page load with a refresh token ends with a user and a refresh token     *)
(* (client.ts: "needed for session persistence across page reloads").         *)
ReloadRestores ==
  \A t \in Tab :
    /\ web.page[t].ready /\ \A s \in Boot : web.refresh[t][s].at \in {"idle", "over"}
    /\ ahist.why \subseteq {"restores"}
    => web.page[t].user /\ web.key # NoPair

(* Tokens are exchanged once and tabs thrown out only for a reason.         *)
SessionsExplained == AuthTypeOK /\ ExchangedOnce /\ BouncedForAReason
=============================================================================
