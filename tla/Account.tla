------------------------------ MODULE Account ------------------------------
(***************************************************************************)
(* One account of the server: its row in accounts.db, its app passwords,    *)
(* refresh tokens and admin tokens, and the handlers that use and change    *)
(* them.  The database has one connection, so a statement is one step, and  *)
(* a handler is the sequence of its statements; between two of them any     *)
(* other request may run, and a handler may fail or be cancelled.           *)
(*                                                                         *)
(* A session is a pair of JWTs.  It carries what the code signs into them   *)
(* (auth version, credential) and, for the properties only, the era and the *)
(* registration of the account row it was issued from.                      *)
(***************************************************************************)
EXTENDS Integers, FiniteSets

CONSTANTS
    Requests,   \* HTTP requests in flight
    Names,      \* names clients give to app passwords
    NoName,     \* the credential is no app password
    MaxId,      \* bound of the model: fresh identifiers
    MaxTokens   \* bound of the model: no admin token is approved beyond this many

Kinds == {"primary", "app_password", "privileged_app_password"}
AppKinds == Kinds \ {"primary"}
Statuses == {"active", "deactivated", "takendown"}
Purposes == {"plc_sign", "delete_account"}
MigrationOps == {"activate", "import"}
PrivilegedOps == {"create_app", "revoke_app", "deactivate", "delete", "sign"}

ASSUME NameAssumption == NoName \notin Names
ASSUME IdAssumption == MaxId \in Nat
ASSUME TokenAssumption == MaxTokens \in Nat

VARIABLES
    row,        \* the account's row, NoRow when there is none
    repo,       \* whether the actor's database has a repo root
    apps,       \* table app_passwords: the kind of each name, "none" when free
    refresh,    \* table refresh_tokens: the sessions whose jti has a row
    tokens,     \* table admin_tokens: how many of each purpose
    sessions,   \* every pair of JWTs handed out
    req,        \* the local variables of each request
    announced,  \* status in the last #account event of this registration
    muddled,    \* observer: an #account event was lost or status changes overlapped
    next        \* the next fresh identifier

vars == <<row, repo, apps, refresh, tokens, sessions, req, announced, muddled, next>>

NoRow == [status |-> "none", av |-> 0, era |-> 0, born |-> 0]
Rows == [status : Statuses, av : Nat, era : Nat, born : Nat]
NoSession == [id |-> 0, av |-> 0, era |-> 0, born |-> 0, kind |-> "primary",
              name |-> NoName, parent |-> 0]
Sessions == [id : Nat, av : Nat, era : Nat, born : Nat, kind : Kinds,
             name : Names \cup {NoName}, parent : Nat]

\* The local variables of a request: where it is, its copy of the row, the session
\* or credential it holds, what it is to do, and the status it has to announce.
Holding(place, copy, held, op) ==
    [at |-> place, row |-> copy, held |-> held, op |-> op, says |-> "none"]
Saying(place, status) ==
    [at |-> place, row |-> NoRow, held |-> NoSession, op |-> "none", says |-> status]
Idle == Saying("idle", "none")

\* A new server, or one with an active account that has a repository.
Init ==
    /\ \/ row = NoRow /\ repo = FALSE /\ announced = "none"
       \/ /\ row = [status |-> "active", av |-> 1, era |-> 1, born |-> 1]
          /\ repo = TRUE /\ announced = "active"
    /\ apps = [n \in Names |-> "none"]
    /\ tokens = [p \in Purposes |-> 0]
    /\ refresh = {} /\ sessions = {}
    /\ req = [r \in Requests |-> Idle]
    /\ muddled = FALSE
    /\ next = 2

At(r, place) == req[r].at = place
Exists == row.status # "none"
Become(r, local) == req' = [req EXCEPT ![r] = local]
Goto(r, place) == req' = [req EXCEPT ![r].at = place]
\* Another request has changed the status and has yet to say so.
Overlaps(r) == \E q \in Requests \ {r} : req[q].says # "none"

\* An error, a refusal, a cancelled request or a crash.
GiveUp(r) ==
    /\ ~At(r, "idle")
    /\ muddled' = (muddled \/ req[r].says # "none")
    /\ Become(r, Idle)
    /\ UNCHANGED <<row, repo, apps, refresh, tokens, sessions, announced, next>>

-----------------------------------------------------------------------------
(* Sessions *)

\* handleCreateSession reads the account, and from there on uses its copy.
ReadForLogin(r) ==
    /\ At(r, "idle") /\ Exists
    /\ Become(r, Holding("verify", row, NoSession, "none"))
    /\ UNCHANGED <<row, repo, apps, refresh, tokens, sessions, announced, muddled, next>>

\* VerifyPassword against the hash of that copy.
PresentPassword(r) ==
    /\ At(r, "verify") /\ req[r].row.status # "takendown"
    /\ Goto(r, "issue")
    /\ UNCHANGED <<row, repo, apps, refresh, tokens, sessions, announced, muddled, next>>

\* The credential of an app password.
AppCredential(n) ==
    [id |-> 0, av |-> 0, era |-> 0, born |-> 0, kind |-> apps[n], name |-> n, parent |-> 0]

\* verifyAppPassword, against the table as it is now.
PresentAppPassword(r) ==
    /\ At(r, "verify") /\ req[r].row.status # "takendown"
    /\ \E n \in Names :
          /\ apps[n] # "none"
          /\ Become(r, Holding("issue", req[r].row, AppCredential(n), "none"))
    /\ UNCHANGED <<row, repo, apps, refresh, tokens, sessions, announced, muddled, next>>

\* Mutant: the auth version is read again when the tokens are signed.
ReadAgain(r) ==
    [id |-> next, av |-> row.av, era |-> req[r].row.era, born |-> req[r].row.born,
     kind |-> req[r].held.kind, name |-> req[r].held.name, parent |-> req[r].held.id]

\* The session issueSession makes from the copy of the account.
NewSession(r) ==
    [id |-> next, av |-> req[r].row.av, era |-> req[r].row.era, born |-> req[r].row.born,
     kind |-> req[r].held.kind, name |-> req[r].held.name, parent |-> req[r].held.id]

\* issueSession: CreateRefreshToken first deletes the rows that have expired,
\* which may be any, and the client gets the pair only when the insert succeeds.
Issue(r) ==
    /\ At(r, "issue") /\ next <= MaxId
    /\ \E expired \in SUBSET refresh :
          refresh' = (refresh \ expired) \cup {NewSession(r)}
    /\ sessions' = sessions \cup {NewSession(r)}
    /\ next' = next + 1
    /\ Become(r, Idle)
    /\ UNCHANGED <<row, repo, apps, tokens, announced, muddled>>

\* handleRefreshSession: GetRefreshToken.
PresentRefreshToken(r) ==
    /\ At(r, "idle")
    /\ \E s \in refresh : Become(r, Holding("load", NoRow, s, "none"))
    /\ UNCHANGED <<row, repo, apps, refresh, tokens, sessions, announced, muddled, next>>

\* GetAccountByDID, and the comparison of token and account.
LoadForRefresh(r) ==
    /\ At(r, "load") /\ row.status = "active" /\ req[r].held.av = row.av
    /\ Become(r, Holding("consume", row, req[r].held, "none"))
    /\ UNCHANGED <<row, repo, apps, refresh, tokens, sessions, announced, muddled, next>>

\* Mutants: no look at the rows affected; the row stays.
ConsumeUnchecked(r) ==
    /\ At(r, "consume")
    /\ refresh' = refresh \ {req[r].held}
    /\ Goto(r, "issue")
    /\ UNCHANGED <<row, repo, apps, tokens, sessions, announced, muddled, next>>
ConsumeKeeps(r) ==
    /\ At(r, "consume") /\ req[r].held \in refresh
    /\ refresh' = refresh
    /\ Goto(r, "issue")
    /\ UNCHANGED <<row, repo, apps, tokens, sessions, announced, muddled, next>>

\* ConsumeRefreshToken: the DELETE must affect a row.
Consume(r) ==
    /\ At(r, "consume") /\ req[r].held \in refresh
    /\ refresh' = refresh \ {req[r].held}
    /\ Goto(r, "issue")
    /\ UNCHANGED <<row, repo, apps, tokens, sessions, announced, muddled, next>>

\* handleDeleteSession, one statement.
EndSession ==
    /\ \E s \in sessions : refresh' = refresh \ {s}
    /\ UNCHANGED <<row, repo, apps, tokens, sessions, req, announced, muddled, next>>

-----------------------------------------------------------------------------
(* requirePrincipal *)

Permitted(status, op) ==
    status = "active" \/ (status = "deactivated" /\ op \in MigrationOps)

\* Whether requirePrincipal finds the token of session s current.
Accepts(s, op) == Permitted(row.status, op) /\ s.av = row.av

\* Every operation here asks for a privileged credential.
Authorise(r) ==
    /\ At(r, "idle")
    /\ \E s \in sessions, op \in MigrationOps \cup PrivilegedOps :
          /\ Accepts(s, op)
          /\ Become(r, IF s.name = NoName
                       THEN Holding(op, NoRow, NoSession, "none")
                       ELSE Holding("check_app", NoRow, s, op))
    /\ UNCHANGED <<row, repo, apps, refresh, tokens, sessions, announced, muddled, next>>

\* ListAppPasswords, matchingAppCredential and the privilege.
CheckApp(r) ==
    /\ At(r, "check_app")
    /\ req[r].held.kind = "privileged_app_password"
    /\ apps[req[r].held.name] = req[r].held.kind
    /\ Become(r, Holding(req[r].op, NoRow, NoSession, "none"))
    /\ UNCHANGED <<row, repo, apps, refresh, tokens, sessions, announced, muddled, next>>

-----------------------------------------------------------------------------
(* App passwords and the import *)

\* UNIQUE(did, name): a name in use is an error.
CreateApp(r) ==
    /\ At(r, "create_app")
    /\ \E n \in Names, k \in AppKinds :
          /\ apps[n] = "none"
          /\ apps' = [apps EXCEPT ![n] = k]
    /\ Become(r, Idle)
    /\ UNCHANGED <<row, repo, refresh, tokens, sessions, announced, muddled, next>>

\* RevokeAppPassword: the password and its sessions in one transaction.
RevokeApp(r) ==
    /\ At(r, "revoke_app")
    /\ \E n \in Names :
          /\ apps[n] # "none"
          /\ apps' = [apps EXCEPT ![n] = "none"]
          /\ refresh' = {s \in refresh : s.name # n}
    /\ Become(r, Idle)
    /\ UNCHANGED <<row, repo, tokens, sessions, announced, muddled, next>>

\* handleImportRepo's SetRepoRoot; module Repo has the import itself.
ImportRepo(r) ==
    /\ At(r, "import")
    /\ repo' = TRUE
    /\ Become(r, Idle)
    /\ UNCHANGED <<row, apps, refresh, tokens, sessions, announced, muddled, next>>

-----------------------------------------------------------------------------
(* The account row *)

\* handleServerCreateAccount: the reads before the INSERT.
CheckAbsent(r) ==
    /\ At(r, "idle") /\ ~Exists
    /\ Become(r, Holding("insert", NoRow, NoSession, "none"))
    /\ UNCHANGED <<row, repo, apps, refresh, tokens, sessions, announced, muddled, next>>

\* Mutant: a zero auth version is stored as it is.
InsertAtZero(r) ==
    /\ At(r, "insert") /\ ~Exists /\ next <= MaxId
    /\ row' = [status |-> "deactivated", av |-> 0, era |-> next, born |-> next]
    /\ Become(r, Holding("issue", row', NoSession, "none"))
    /\ announced' = "none"
    /\ muddled' = (muddled \/ Overlaps(r))
    /\ next' = next + 1
    /\ UNCHANGED <<repo, apps, refresh, tokens, sessions>>

\* CreateAccount, whose primary key refuses a second row, and then issueSession
\* with the primary credential.
InsertAccount(r) ==
    /\ At(r, "insert") /\ ~Exists /\ next <= MaxId
    /\ row' = [status |-> "deactivated", av |-> 1, era |-> next, born |-> next]
    /\ Become(r, Holding("issue", row', NoSession, "none"))
    /\ announced' = "none"
    /\ muddled' = (muddled \/ Overlaps(r))
    /\ next' = next + 1
    /\ UNCHANGED <<repo, apps, refresh, tokens, sessions>>

\* handleAdminCreateAccount: the DID is the hash of keys made for it, so there is
\* nothing under it yet.  The row is active from the start.
AdminCreate(r) ==
    /\ At(r, "idle") /\ ~Exists /\ ~repo /\ next = 2 /\ next <= MaxId
    /\ row' = [status |-> "active", av |-> 1, era |-> next, born |-> next]
    /\ Become(r, Saying("seed", "active"))
    /\ muddled' = (muddled \/ Overlaps(r))
    /\ next' = next + 1
    /\ UNCHANGED <<repo, apps, refresh, tokens, sessions, announced>>

\* Then ApplyWrites with the default records, and the #sync event.
SeedRepo(r) ==
    /\ At(r, "seed")
    /\ repo' = TRUE
    /\ Goto(r, "announce")
    /\ UNCHANGED <<row, apps, refresh, tokens, sessions, announced, muddled, next>>

\* Mutant: any error of GetRepoRoot is ignored.
ActivateEmpty(r) ==
    /\ At(r, "activate")
    /\ Goto(r, "set_active")
    /\ UNCHANGED <<row, repo, apps, refresh, tokens, sessions, announced, muddled, next>>

\* handleActivateAccount: GetRepoRoot.
CheckRepo(r) ==
    /\ At(r, "activate") /\ repo
    /\ Goto(r, "set_active")
    /\ UNCHANGED <<row, repo, apps, refresh, tokens, sessions, announced, muddled, next>>

\* Mutant: an account that was deactivated is activated without an event.
SetActiveQuietly(r) ==
    /\ At(r, "set_active") /\ Exists
    /\ row' = [row EXCEPT !.status = "active"]
    /\ Become(r, Idle)
    /\ muddled' = (muddled \/ Overlaps(r))
    /\ UNCHANGED <<repo, apps, refresh, tokens, sessions, announced, next>>

\* ActivateAccount leaves the auth version alone.
SetActive(r) ==
    /\ At(r, "set_active") /\ Exists
    /\ row' = [row EXCEPT !.status = "active"]
    /\ Become(r, Saying("announce", "active"))
    /\ muddled' = (muddled \/ Overlaps(r))
    /\ UNCHANGED <<repo, apps, refresh, tokens, sessions, announced, next>>

\* SetStatus, and SetPasswordHash with the status as it is: the auth version
\* goes up and an era begins.
NextEra(status) ==
    [status |-> status, av |-> row.av + 1, era |-> next, born |-> row.born]

\* The UPDATE of a handler that revokes, with what it will announce.
Revoke(r, status) ==
    /\ Exists /\ next <= MaxId
    /\ row' = NextEra(status)
    /\ Become(r, Saying("purge", status))
    /\ muddled' = (muddled \/ Overlaps(r))
    /\ next' = next + 1
    /\ UNCHANGED <<repo, apps, refresh, tokens, sessions, announced>>

\* handleDeactivateAccountSelf
Deactivate(r) == At(r, "deactivate") /\ Revoke(r, "deactivated")

\* handleAdminDeactivateAccount and handleAdminTakedownAccount
AdminSetStatus(r) == At(r, "idle") /\ \E s \in {"deactivated", "takendown"} : Revoke(r, s)

\* handleAdminSetPassword
AdminSetPassword(r) ==
    /\ At(r, "idle") /\ Exists /\ next <= MaxId
    /\ row' = NextEra(row.status)
    /\ Goto(r, "purge")
    /\ next' = next + 1
    /\ UNCHANGED <<repo, apps, refresh, tokens, sessions, announced, muddled>>

\* DeleteRefreshTokensForDID, its error ignored.
Purge(r) ==
    /\ At(r, "purge")
    /\ refresh' \in {{}, refresh}
    /\ IF req[r].says = "none" THEN Become(r, Idle) ELSE Goto(r, "announce")
    /\ UNCHANGED <<row, repo, apps, tokens, sessions, announced, muddled, next>>

\* emitAccountEvent
Announce(r) ==
    /\ At(r, "announce")
    /\ announced' = req[r].says
    /\ Become(r, Idle)
    /\ UNCHANGED <<row, repo, apps, refresh, tokens, sessions, muddled, next>>

-----------------------------------------------------------------------------
(* Admin tokens and deletion *)

\* handleAdminApproveToken: the account exists, and then the INSERT.
ReadForToken(r) ==
    /\ At(r, "idle") /\ Exists
    /\ \E p \in Purposes : Become(r, Holding("approve", NoRow, NoSession, p))
    /\ UNCHANGED <<row, repo, apps, refresh, tokens, sessions, announced, muddled, next>>

ApproveToken(r) ==
    /\ At(r, "approve") /\ \A p \in Purposes : tokens[p] < MaxTokens
    /\ tokens' = [tokens EXCEPT ![req[r].op] = @ + 1]
    /\ Become(r, Idle)
    /\ UNCHANGED <<row, repo, apps, refresh, sessions, announced, muddled, next>>

\* ConsumeAdminToken; the client shows a token that has a row.
Spend(purpose) == tokens[purpose] > 0 /\ tokens' = [tokens EXCEPT ![purpose] = @ - 1]

\* handleSignPlcOperation: what it signs is not kept here.
SignPlcOperation(r) ==
    /\ At(r, "sign") /\ Spend("plc_sign")
    /\ Become(r, Idle)
    /\ UNCHANGED <<row, repo, apps, refresh, sessions, announced, muddled, next>>

\* handleDeleteAccount: the account and its password.
VerifyForDelete(r) ==
    /\ At(r, "delete") /\ Exists
    /\ Goto(r, "spend")
    /\ UNCHANGED <<row, repo, apps, refresh, tokens, sessions, announced, muddled, next>>

SpendDeleteToken(r) ==
    /\ At(r, "spend") /\ Spend("delete_account")
    /\ Goto(r, "wipe_refresh")
    /\ UNCHANGED <<row, repo, apps, refresh, sessions, announced, muddled, next>>

\* DeleteRefreshTokensForDID, and then DeleteAccount: four tables (one is module
\* Identity's) and the row, each by a statement of its own.
WipeRefresh(r) ==
    /\ At(r, "wipe_refresh")
    /\ refresh' = {}
    /\ Goto(r, "wipe_apps")
    /\ UNCHANGED <<row, repo, apps, tokens, sessions, announced, muddled, next>>

WipeApps(r) ==
    /\ At(r, "wipe_apps")
    /\ apps' = [n \in Names |-> "none"]
    /\ Goto(r, "wipe_tokens")
    /\ UNCHANGED <<row, repo, refresh, tokens, sessions, announced, muddled, next>>

WipeTokens(r) ==
    /\ At(r, "wipe_tokens")
    /\ tokens' = [p \in Purposes |-> 0]
    /\ Goto(r, "wipe_row")
    /\ UNCHANGED <<row, repo, apps, refresh, sessions, announced, muddled, next>>

\* No #account event; the actor's repository stays on disk.
WipeRow(r) ==
    /\ At(r, "wipe_row") /\ Exists
    /\ row' = NoRow
    /\ muddled' = (muddled \/ Overlaps(r))
    /\ Become(r, Idle)
    /\ UNCHANGED <<repo, apps, refresh, tokens, sessions, announced, next>>

-----------------------------------------------------------------------------
Next ==
    \/ EndSession
    \/ \E r \in Requests :
          \/ ReadForLogin(r) \/ PresentPassword(r) \/ PresentAppPassword(r) \/ Issue(r)
          \/ PresentRefreshToken(r) \/ LoadForRefresh(r) \/ Consume(r)
          \/ Authorise(r) \/ CheckApp(r)
          \/ CreateApp(r) \/ RevokeApp(r) \/ ImportRepo(r)
          \/ CheckAbsent(r) \/ InsertAccount(r) \/ AdminCreate(r) \/ SeedRepo(r)
          \/ CheckRepo(r) \/ SetActive(r)
          \/ Deactivate(r) \/ AdminSetStatus(r) \/ AdminSetPassword(r)
          \/ Purge(r) \/ Announce(r)
          \/ ReadForToken(r) \/ ApproveToken(r) \/ SignPlcOperation(r)
          \/ VerifyForDelete(r) \/ SpendDeleteToken(r)
          \/ WipeRefresh(r) \/ WipeApps(r) \/ WipeTokens(r) \/ WipeRow(r)
          \/ GiveUp(r)

Spec == Init /\ [][Next]_vars
=============================================================================
