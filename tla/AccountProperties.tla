------------------------- MODULE AccountProperties -------------------------
(* What Account promises. *)
EXTENDS Account

Places == {"idle", "verify", "issue", "load", "consume", "check_app", "insert", "seed",
           "set_active", "purge", "announce", "approve", "spend", "wipe_refresh", "wipe_apps",
           "wipe_tokens", "wipe_row"} \cup MigrationOps \cup PrivilegedOps

Locals == [at : Places, row : Rows \cup {NoRow}, held : Sessions,
           op : MigrationOps \cup PrivilegedOps \cup Purposes \cup {"none"},
           says : Statuses \cup {"none"}]

\* Every variable is in its type; an account's auth version starts at 1
\* (store.go, maxAuthVersion).
TypeOK ==
    /\ row \in Rows \cup {NoRow}
    /\ Exists => row.av >= 1
    /\ repo \in BOOLEAN
    /\ apps \in [Names -> AppKinds \cup {"none"}]
    /\ sessions \subseteq Sessions
    /\ refresh \subseteq sessions
    /\ tokens \in [Purposes -> Nat]
    /\ req \in [Requests -> Locals]
    /\ announced \in Statuses \cup {"none"}
    /\ muddled \in BOOLEAN
    /\ next \in Nat \ {0}

\* A token requirePrincipal accepts comes from the present era: it was issued
\* from the account as the last password change, deactivation or takedown left
\* it, however old the copy of the row its handler held (session.go, issueSession
\* and handleRefreshSession; store.go, SetStatus and SetPasswordHash).  Only
\* tokens of the present registration are meant, for auth versions start again
\* when a deleted account is created anew.
AcceptedIsCurrent ==
    \A s \in sessions :
        Exists /\ s.born = row.born /\ s.av = row.av => s.era = row.era

\* A refresh token is good for one session, however many requests present it at
\* once (store.go, ConsumeRefreshToken).
OneSessionPerRefresh ==
    \A s, t \in sessions : s.parent # 0 /\ s.parent = t.parent => s = t

\* When no handler is on its way to announce a status, the firehose has told the
\* status of the account, unless an #account event was lost or two handlers
\* changed the status at the same time (admin.go and migration.go, the calls of
\* emitAccountEvent).  createAccount announces nothing.
StatusIsAnnounced ==
    Exists /\ announced # "none" /\ ~muddled /\ (\A r \in Requests : req[r].says = "none")
        => announced = row.status

\* activateAccount finds a repository when it makes the account active, whatever
\* happened since it looked for one (migration.go, handleActivateAccount).  An
\* account the admin creates is active before its repository is there.
ActivatedHasRepo == [][Exists /\ row.status # "active" /\ row'.status = "active" => repo]_vars

\* No request makes a taken-down account active ("a taken-down account is never
\* permitted, no matter what the caller asks for", session.go:271-273).  The admin
\* lifts a takedown by deactivating the account (admin.go:223); its owner may
\* activate it from there.
NeverReactivated == [][row.status = "takendown" => row'.status # "active"]_vars

\* A refresh token of an app password has its app password: revoking one takes
\* its sessions along (apppassword.go, handleRevokeAppPassword; store.go,
\* RevokeAppPassword).
SessionsHaveApps == \A s \in refresh : s.name # NoName => apps[s.name] = s.kind

\* What SessionsHaveApps takes: no app password goes while a request has it checked
\* and its session not yet stored, nor is one stored in the middle of a deletion.
\* Nothing in the code ensures it.
Issuing(r, n) == At(r, "issue") /\ req[r].held.name = n
RevocationsRunAlone ==
    [][\A r \in Requests :
          /\ \A n \in Names : apps[n] # "none" /\ apps'[n] = "none" => ~Issuing(r, n)
          /\ At(r, "wipe_apps") => \A s \in refresh' \ refresh : s.name = NoName]_vars

-----------------------------------------------------------------------------
(* The inductive invariant *)

\* What a session or a copy of the row remembers of the present registration is
\* not ahead of the row, and agrees with it when it is not behind.
NotAhead(x) ==
    /\ x.born < next
    /\ Exists /\ x.born = row.born => x.av <= row.av /\ (x.av = row.av => x.era = row.era)

CopiesAreOld ==
    /\ row.born < next
    /\ \A s \in sessions : NotAhead(s)
    /\ \A r \in Requests : NotAhead(req[r].row)

IdsAreFresh ==
    /\ \A s \in sessions : s.id # 0 /\ s.id < next /\ s.parent < next
    /\ \A s, t \in sessions : s.id = t.id => s = t

\* The sessions a consumed refresh token is the parent of: none while its row is
\* there or a request is about to issue the one there will be.
ParentsAreSpent ==
    /\ \A s \in sessions : s.parent # 0 => \A t \in refresh : t.id # s.parent
    /\ \A r \in Requests : req[r].at = "issue" /\ req[r].held.id # 0 =>
          /\ \A t \in refresh : t.id # req[r].held.id
          /\ \A s \in sessions : s.parent # req[r].held.id
          /\ \A q \in Requests \ {r} :
                req[q].at = "issue" => req[q].held.id # req[r].held.id

\* The local variables of a request fit the place it is at.
LocalsFit ==
    \A r \in Requests :
        /\ req[r].at \in {"load", "consume"} => req[r].held \in sessions
        /\ req[r].held.id # 0 => req[r].held \in sessions
        /\ req[r].at \in {"verify", "insert"} => req[r].held.id = 0
        /\ req[r].at = "check_app" => req[r].op \in MigrationOps \cup PrivilegedOps
        /\ req[r].at = "approve" => req[r].op \in Purposes

RepoBeforeActive == \A r \in Requests : req[r].at = "set_active" => repo

\* A handler that has still to announce is the only one, and its status is the
\* account's, until an event is lost or another handler changes the status.
AnnouncedInTurn ==
    /\ \A r \in Requests :
          /\ req[r].says # "none" => req[r].at \in {"seed", "purge", "announce"}
          /\ req[r].at \in {"seed", "announce"} => req[r].says # "none"
    /\ ~muddled =>
          /\ \A r, q \in Requests : req[r].says # "none" /\ req[q].says # "none" => r = q
          /\ \A r \in Requests : req[r].says # "none" => req[r].says = row.status
          /\ StatusIsAnnounced

IInv ==
    /\ TypeOK
    /\ CopiesAreOld
    /\ IdsAreFresh
    /\ LocalsFit
    /\ ParentsAreSpent
    /\ OneSessionPerRefresh
    /\ RepoBeforeActive
    /\ AnnouncedInTurn
=============================================================================
