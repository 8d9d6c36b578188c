------------------------------ MODULE Accounts ------------------------------
(***************************************************************************)
(* User rows and who writes them: local sign-in, password change, admin    *)
(* edits, and the provisioning of external identities (LDAP, WeCom), with  *)
(* the connector's configuration and the department's mapping to a team.   *)
(***************************************************************************)
EXTENDS Naturals

CONSTANTS
  Email,
  LdapId, WecomId,   \* identities of the two directories: (source, external_id)
  LocalUser,         \* the accounts that exist at first, a subset of Email
  Handle,            \* handles a client may choose
  MaxAccountRequests \* bound: requests

AccountRequest == 1..MaxAccountRequests
NoExt          == "local"
NoHandle       == "null"
Ext            == LdapId \cup WecomId

ASSUME AccountConstants ==
  /\ LocalUser \subseteq Email /\ NoExt \notin Ext /\ NoHandle \notin Handle
  /\ MaxAccountRequests \in Nat

VARIABLES
  acct,  \* user: email (of an existing row) -> [ext, handle, status, active,
         \* word, stale];
         \* provider: [enabled, secret]; mapped: the department has a mapping; teamAlive;
         \* joined: members of the mapped team.  word and secret: the request that chose them
         \* (0: empty); stale: the hash of the password has outdated parameters
  areq,  \* [AccountRequest -> what its handler has loaded]
  uhist  \* history: raced and failed (requests), taken (requests that failed and had chosen
         \* a handle in use), out (emails an admin has disabled), secret (the last one typed),
         \* secretRaced

accountVars == <<acct, areq, uhist>>

Known       == DOMAIN acct.user
OwnerOf(x)  == {e \in Known : acct.user[e].ext = x}
Open(i)     == areq[i].op \notin {"fresh", "done"}
Row(x, h, w) == [ext |-> x, handle |-> h, status |-> "active", active |-> TRUE, word |-> w,
                 stale |-> FALSE]
SetUser(e, r) == [d \in Known \cup {e} |-> IF d = e THEN r ELSE acct.user[d]]

Takes(i, q) ==
  /\ areq[i].op = "fresh" /\ \A j \in 1..(i - 1) : areq[j].op # "fresh"
  /\ areq' = [areq EXCEPT ![i] = q]
  /\ UNCHANGED <<acct, uhist>>

Turns(i, q) == areq' = [areq EXCEPT ![i] = q] /\ UNCHANGED <<acct, uhist>>
Closes(i)   == areq' = [areq EXCEPT ![i] = [op |-> "done"]]

(* A commit of rows: every other request under way has raced with it. *)
CommitsRows(i, user, joined) ==
  /\ acct' = [acct EXCEPT !.user = user, !.joined = joined]
  /\ uhist' = [uhist EXCEPT !.raced = @ \cup {j \in AccountRequest \ {i} : Open(j)}]
  /\ Closes(i)

-----------------------------------------------------------------------------
(* Local sign-in and password change.                                       *)

(* A disabled account is refused, so is a wrong password (not a step). *)
LocalLogin(i) ==
  \E e \in Known :
    /\ acct.user[e].word # 0 /\ acct.user[e].active /\ acct.user[e].status # "inactive"
    /\ Takes(i, [op |-> "login", email |-> e, row |-> acct.user[e]])

(* The hash is written only when its parameters are outdated. *)
LoginCommits(i) ==
  LET q == areq[i] IN
  /\ q.op = "login"
  /\ CommitsRows(i, IF q.row.stale
                      THEN [acct.user EXCEPT ![q.email].word = q.row.word, ![q.email].stale = FALSE]
                      ELSE acct.user, acct.joined)

ChangePassword(i) ==
  \E e \in Known :
    acct.user[e].word # 0 /\ acct.user[e].active /\ Takes(i, [op |-> "word", email |-> e])

ChangePasswordCommits(i) ==
  /\ areq[i].op = "word"
  /\ CommitsRows(i, [acct.user EXCEPT ![areq[i].email].word = i, ![areq[i].email].stale = FALSE],
                 acct.joined)

-----------------------------------------------------------------------------
(* The admin's users.                                                       *)

(* users.handle is unique, and no handler looks whether it is free.         *)
HandleInUse(h, e) == h # NoHandle /\ \E d \in Known \ {e} : acct.user[d].handle = h

Chooses(i, op, e) ==
  \E h \in Handle \cup {NoHandle} :
    /\ e \in Known => h # acct.user[e].handle   \* the loaded one is not written
    /\ Takes(i, [op |-> op, email |-> e, handle |-> h, taken |-> HandleInUse(h, e)])

CreateUser(i) == \E e \in Email \ Known : Chooses(i, "create", e)

MayCreate(i) == areq[i].email \notin Known /\ ~HandleInUse(areq[i].handle, areq[i].email)

CreateUserCommits(i) ==
  /\ areq[i].op = "create" /\ MayCreate(i)
  /\ CommitsRows(i, SetUser(areq[i].email, Row(NoExt, areq[i].handle, i)), acct.joined)

(* The other columns of a user's own profile are nobody else's concern.     *)
UpdateMe(i) == \E e \in Known : acct.user[e].active /\ Chooses(i, "me", e)

UpdateMeCommits(i) ==
  LET q == areq[i] IN
  /\ q.op = "me" /\ ~HandleInUse(q.handle, q.email)
  /\ CommitsRows(i, [acct.user EXCEPT ![q.email].handle = q.handle], acct.joined)

(* The console sends a status or a role, never is_active. *)
UpdateUser(i) ==
  \E e \in Known, s \in {"active", "inactive", "unset"} :
    Takes(i, [op |-> "update", email |-> e, status |-> s, row |-> acct.user[e]])

(* Only what differs from the loaded row is written. *)
UpdateUserCommits(i) ==
  LET q == areq[i] IN
  /\ q.op = "update"
  /\ acct' = [acct EXCEPT
       !.user[q.email].status = IF q.status \in {"unset", q.row.status} THEN @ ELSE q.status,
       !.user[q.email].active = @ /\ q.status # "inactive"]
  /\ uhist' = [uhist EXCEPT !.out = IF q.status = "inactive" THEN @ \cup {q.email} ELSE @]
  /\ Closes(i)

-----------------------------------------------------------------------------
(* External sign-in.                                                        *)

Asks(i, ids) ==
  /\ acct.provider.enabled
  /\ Takes(i, [op |-> "directory", ids |-> ids, secret |-> acct.provider.secret])

AuthenticateExternal(i) == Asks(i, LdapId)
WecomCallback(i)        == Asks(i, WecomId)

(* A refused or failed lookup ends the request.  WeCom needs the connector's *)
(* secret; LDAP may bind anonymously.                                        *)
DirectoryRefuses(i) == areq[i].op = "directory" /\ Turns(i, [op |-> "done"])

DirectoryAnswers(i) ==
  /\ areq[i].op = "directory" /\ (areq[i].ids = WecomId => areq[i].secret # 0)
  /\ \E x \in areq[i].ids, e \in Email, m \in {acct.mapped, FALSE} :
       Turns(i, [op |-> "by_ext", ext |-> x, email |-> e, mapped |-> m])

Finds(i, e, new) ==
  Turns(i, [op |-> "provision", ext |-> areq[i].ext, email |-> e, new |-> new,
            joins |-> areq[i].mapped /\ e \notin acct.joined])

FindByExt(i) ==
  /\ areq[i].op = "by_ext"
  /\ \/ \E e \in OwnerOf(areq[i].ext) : Finds(i, e, FALSE)
     \/ OwnerOf(areq[i].ext) = {} /\ Turns(i, [areq[i] EXCEPT !.op = "by_email"])

LooksUp(i, links) ==
  areq[i].op = "by_email" /\ Finds(i, areq[i].email, ~(links /\ areq[i].email \in Known))

InsertAlways(i) == LooksUp(i, FALSE)
FindByEmail(i)  == LooksUp(i, TRUE)

(* users.email, (source, external_id) and the membership are unique, and    *)
(* the membership needs its team.                                           *)
MayProvision(i) ==
  LET q == areq[i] IN
  /\ q.new => q.email \notin Known
  /\ q.joins => acct.teamAlive /\ q.email \notin acct.joined
  /\ OwnerOf(q.ext) \subseteq {q.email}

Provisions(i, found) ==
  LET q == areq[i] IN
  /\ q.op = "provision" /\ MayProvision(i)
  /\ CommitsRows(i, SetUser(q.email, IF q.new THEN Row(q.ext, NoHandle, 0) ELSE found),
                 IF q.joins THEN acct.joined \cup {q.email} ELSE acct.joined)

ProvisionActivates(i) ==
  Provisions(i, [acct.user[areq[i].email] EXCEPT !.ext = areq[i].ext, !.active = TRUE])
ProvisionCommits(i)   == Provisions(i, [acct.user[areq[i].email] EXCEPT !.ext = areq[i].ext])

(* IntegrityError. *)
AccountRollBack(i) ==
  /\ \/ areq[i].op = "provision" /\ ~MayProvision(i)
     \/ areq[i].op = "create" /\ ~MayCreate(i)
     \/ areq[i].op = "me" /\ HandleInUse(areq[i].handle, areq[i].email)
  /\ uhist' = [uhist EXCEPT !.failed = @ \cup {i},
       !.taken = IF areq[i].op # "provision" /\ areq[i].taken THEN @ \cup {i} ELSE @]
  /\ Closes(i)
  /\ UNCHANGED acct

-----------------------------------------------------------------------------
(* The connector and its mapping.  One record stands for the connectors of  *)
(* the two directories: both are rows of one table, saved by one function.   *)

(* The form sends every field, the secret empty when it was not retyped. *)
UpdateProvider(i) ==
  \E s \in {0, i}, on \in BOOLEAN :
    Takes(i, [op |-> "provider", secret |-> s, enabled |-> on, seen |-> acct.provider.secret])

SavesProvider(i, merged) ==
  /\ areq[i].op = "provider"
  /\ acct' = [acct EXCEPT !.provider = [enabled |-> areq[i].enabled, secret |-> merged]]
  /\ uhist' = [uhist EXCEPT
       !.secret = IF areq[i].secret # 0 THEN i ELSE @,
       !.secretRaced = @ \/ (areq[i].secret = 0 /\ areq[i].seen # acct.provider.secret)]
  /\ Closes(i)

SavesAsSent(i) == SavesProvider(i, areq[i].secret)
UpdateProviderCommits(i) ==
  SavesProvider(i, IF areq[i].secret = 0 THEN areq[i].seen ELSE areq[i].secret)

AddMapping    == ~acct.mapped /\ acct' = [acct EXCEPT !.mapped = TRUE] /\ UNCHANGED <<areq, uhist>>
DeleteMapping == acct.mapped /\ acct' = [acct EXCEPT !.mapped = FALSE] /\ UNCHANGED <<areq, uhist>>

(* The mapping names its team without a foreign key. *)
MappedTeamDeleted ==
  /\ acct.teamAlive
  /\ acct' = [acct EXCEPT !.teamAlive = FALSE, !.joined = {}]
  /\ UNCHANGED <<areq, uhist>>

-----------------------------------------------------------------------------
AccountInit ==
  /\ \E s \in {0, MaxAccountRequests + 1} :
       acct = [user |-> [e \in LocalUser |->
                           [Row(NoExt, NoHandle, MaxAccountRequests + 1) EXCEPT !.stale = TRUE]],
               provider |-> [enabled |-> TRUE, secret |-> s], mapped |-> TRUE,
               teamAlive |-> TRUE, joined |-> {}]
  /\ areq = [i \in AccountRequest |-> [op |-> "fresh"]]
  /\ uhist = [raced |-> {}, failed |-> {}, taken |-> {}, out |-> {},
              secret |-> acct.provider.secret, secretRaced |-> FALSE]

AccountNext ==
  \/ \E i \in AccountRequest :
       \/ LocalLogin(i) \/ LoginCommits(i) \/ ChangePassword(i) \/ ChangePasswordCommits(i)
       \/ CreateUser(i) \/ CreateUserCommits(i) \/ UpdateMe(i) \/ UpdateMeCommits(i)
       \/ UpdateUser(i) \/ UpdateUserCommits(i)
       \/ AuthenticateExternal(i) \/ WecomCallback(i) \/ DirectoryRefuses(i) \/ DirectoryAnswers(i)
       \/ FindByExt(i) \/ FindByEmail(i) \/ ProvisionCommits(i) \/ AccountRollBack(i)
       \/ UpdateProvider(i) \/ UpdateProviderCommits(i)
  \/ AddMapping \/ DeleteMapping \/ MappedTeamDeleted

AccountSpec == AccountInit /\ [][AccountNext]_accountVars

-----------------------------------------------------------------------------
(* Rows are well formed and an external identity belongs to one account.    *)
AccountTypeOK ==
  /\ Known \subseteq Email /\ acct.joined \subseteq Known
  /\ \A e \in Known : /\ acct.user[e].status \in {"active", "inactive"}
                      /\ acct.user[e].ext \in Ext \cup {NoExt}
  /\ \A x \in Ext, d, e \in Known : acct.user[d].ext = x /\ acct.user[e].ext = x => d = e
  /\ ~acct.teamAlive => acct.joined = {}

(* A sign-in that the directory accepted fails on the database only because *)
(* another commit came between its lookups and its own, or because the      *)
(* mapped team is gone.  The creation of a user and the edit of a profile   *)
(* fail for the same reasons, or because the handle that was chosen was     *)
(* somebody's before: a sign-in has no such excuse (provision_user sets no   *)
(* handle).                                                                 *)
SignInFailsForAReason == uhist.failed \subseteq uhist.raced \cup uhist.taken \/ ~acct.teamAlive

(* No sign-in, link or edit of another field brings back an account that    *)
(* an admin disabled, whatever row its handler had loaded.                  *)
DisabledStaysOut == \A e \in uhist.out : ~acct.user[e].active

(* Saving the connector's form without retyping the secret keeps it, unless *)
(* the secret changed between the read and the save.                        *)
SecretKept == acct.provider.secret = uhist.secret \/ uhist.secretRaced

(* Whoever writes an account or the connector, what an admin decided stays.  *)
AccountConsistent == AccountTypeOK /\ DisabledStaysOut /\ SecretKept
=============================================================================
