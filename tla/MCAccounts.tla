----------------------------- MODULE MCAccounts -----------------------------
(* Who may do what: sessions of a browser, teams, user accounts, the        *)
(* tenant's settings.  The models share no state: one of them moves in each *)
(* behaviour, the one in focus.                                             *)
EXTENDS AuthSessions, TeamRows, Accounts, TenantSettings

VARIABLE focus
accountsVars == <<focus, authVars, teamVars, accountVars, tenantVars>>

(* Two overrides of the permission matrix.                                  *)
Payloads == {<<"member.role", "admin">> :> FALSE @@ <<"member.invite", "owner">> :> FALSE}

AccountsInit ==
  /\ focus \in {"auth", "team", "account", "tenant"}
  /\ AuthInit /\ TeamInit /\ AccountInit /\ TenantInit
  /\ focus # "team" => \A u \in Person : u # Founder => team.role[u] = NoRole
  /\ focus # "account" => acct.provider.secret = 0

AccountsNext ==
  /\ UNCHANGED focus
  /\ \/ focus = "auth" /\ AuthNext /\ UNCHANGED <<teamVars, accountVars, tenantVars>>
     \/ focus = "team" /\ TeamNext /\ UNCHANGED <<authVars, accountVars, tenantVars>>
     \/ focus = "account" /\ AccountNext /\ UNCHANGED <<authVars, teamVars, tenantVars>>
     \/ focus = "tenant" /\ TenantNext /\ UNCHANGED <<authVars, teamVars, accountVars>>

AccountsSpec == AccountsInit /\ [][AccountsNext]_accountsVars

BrowserSymmetry == Permutations(Tab) \cup Permutations(Call)
=============================================================================
