--------------------------- MODULE AccountProofs ---------------------------
(***************************************************************************)
(* Proofs about Account for every set of requests and of app password       *)
(* names, and every bound of the model.                                     *)
(***************************************************************************)
EXTENDS AccountProperties, TLAPS

-----------------------------------------------------------------------------
(* What a step does to each variable *)

\* Only issueSession hands out tokens and stores a refresh token.
LEMMA SessionsStep ==
    ASSUME Next
    PROVE  \/ sessions' = sessions /\ refresh' \subseteq refresh
           \/ \E r \in Requests : Issue(r)
<1>1. CASE EndSession
  BY <1>1 DEF EndSession
<1>2. ASSUME NEW r \in Requests, CreateApp(r) \/ RevokeApp(r)
      PROVE  sessions' = sessions /\ refresh' \subseteq refresh
  BY <1>2 DEF CreateApp, RevokeApp
<1>3. ASSUME NEW r \in Requests, ImportRepo(r) \/ SeedRepo(r) \/ Announce(r) \/
            GiveUp(r)
      PROVE  sessions' = sessions /\ refresh' \subseteq refresh
  BY <1>3 DEF ImportRepo, SeedRepo, Announce, GiveUp
<1>4. ASSUME NEW r \in Requests, ApproveToken(r) \/ SignPlcOperation(r) \/
            VerifyForDelete(r) \/ SpendDeleteToken(r)
      PROVE  sessions' = sessions /\ refresh' \subseteq refresh
  BY <1>4 DEF ApproveToken, SignPlcOperation, VerifyForDelete, SpendDeleteToken, Spend
<1>5. ASSUME NEW r \in Requests, PresentPassword(r) \/ Consume(r) \/
            PresentRefreshToken(r) \/ LoadForRefresh(r)
      PROVE  sessions' = sessions /\ refresh' \subseteq refresh
  BY <1>5 DEF PresentPassword, Consume, PresentRefreshToken, LoadForRefresh
<1>6. ASSUME NEW r \in Requests, CheckRepo(r) \/ AdminSetPassword(r) \/ Purge(r) \/
            WipeRow(r)
      PROVE  sessions' = sessions /\ refresh' \subseteq refresh
  BY <1>6 DEF CheckRepo, AdminSetPassword, Purge, WipeRow
<1>7. ASSUME NEW r \in Requests, WipeRefresh(r) \/ WipeApps(r) \/ WipeTokens(r)
      PROVE  sessions' = sessions /\ refresh' \subseteq refresh
  BY <1>7 DEF WipeRefresh, WipeApps, WipeTokens
<1>8. ASSUME NEW r \in Requests, ReadForLogin(r) \/ PresentAppPassword(r) \/
            ReadForToken(r)
      PROVE  sessions' = sessions /\ refresh' \subseteq refresh
  BY <1>8 DEF ReadForLogin, PresentAppPassword, ReadForToken
<1>9. ASSUME NEW r \in Requests, Authorise(r) \/ CheckApp(r)
      PROVE  sessions' = sessions /\ refresh' \subseteq refresh
  BY <1>9 DEF Authorise, CheckApp
<1>10. ASSUME NEW r \in Requests, CheckAbsent(r) \/ InsertAccount(r) \/ AdminCreate(r)
            \/ SetActive(r)
      PROVE  sessions' = sessions /\ refresh' \subseteq refresh
  BY <1>10 DEF CheckAbsent, InsertAccount, AdminCreate, SetActive
<1>11. ASSUME NEW r \in Requests, Deactivate(r) \/ AdminSetStatus(r)
      PROVE  sessions' = sessions /\ refresh' \subseteq refresh
  BY <1>11 DEF Deactivate, AdminSetStatus, Revoke
<1> QED
  BY <1>1, <1>2, <1>3, <1>4, <1>5, <1>6, <1>7, <1>8, <1>9, <1>10, <1>11 DEF Next

\* What changes the account's row.
LEMMA RowStep ==
    ASSUME Next
    PROVE  \/ row' = row
           \/ \E r \in Requests : \/ InsertAccount(r) \/ AdminCreate(r) \/ SetActive(r)
                                  \/ Deactivate(r) \/ AdminSetStatus(r) \/ AdminSetPassword(r) \/ WipeRow(r)
BY DEF Next, EndSession, ReadForLogin, PresentPassword, PresentAppPassword, Issue,
       PresentRefreshToken, LoadForRefresh, Consume, Authorise, CheckApp, CreateApp, RevokeApp,
       ImportRepo, CheckAbsent, SeedRepo, CheckRepo, Purge, Announce, ReadForToken, ApproveToken,
       SignPlcOperation, VerifyForDelete, SpendDeleteToken, WipeRefresh, WipeApps, WipeTokens,
       GiveUp

\* A repository, once there, stays.
LEMMA RepoStep == ASSUME Next, TypeOK PROVE repo => repo'
<1>1. CASE EndSession
  BY <1>1 DEF EndSession
<1>2. ASSUME NEW r \in Requests, CreateApp(r) \/ RevokeApp(r) \/ Issue(r)
      PROVE  repo => repo'
  BY <1>2 DEF CreateApp, RevokeApp, Issue
<1>3. ASSUME NEW r \in Requests, ImportRepo(r) \/ SeedRepo(r) \/ Announce(r) \/
            GiveUp(r)
      PROVE  repo => repo'
  BY <1>3 DEF ImportRepo, SeedRepo, Announce, GiveUp
<1>4. ASSUME NEW r \in Requests, ApproveToken(r) \/ SignPlcOperation(r) \/
            VerifyForDelete(r) \/ SpendDeleteToken(r)
      PROVE  repo => repo'
  BY <1>4 DEF ApproveToken, SignPlcOperation, VerifyForDelete, SpendDeleteToken, Spend
<1>5. ASSUME NEW r \in Requests, PresentPassword(r) \/ Consume(r) \/
            PresentRefreshToken(r) \/ LoadForRefresh(r)
      PROVE  repo => repo'
  BY <1>5 DEF PresentPassword, Consume, PresentRefreshToken, LoadForRefresh
<1>6. ASSUME NEW r \in Requests, CheckRepo(r) \/ AdminSetPassword(r) \/ Purge(r) \/
            WipeRow(r)
      PROVE  repo => repo'
  BY <1>6 DEF CheckRepo, AdminSetPassword, Purge, WipeRow
<1>7. ASSUME NEW r \in Requests, WipeRefresh(r) \/ WipeApps(r) \/ WipeTokens(r)
      PROVE  repo => repo'
  BY <1>7 DEF WipeRefresh, WipeApps, WipeTokens
<1>8. ASSUME NEW r \in Requests, ReadForLogin(r) \/ PresentAppPassword(r) \/
            ReadForToken(r)
      PROVE  repo => repo'
  BY <1>8 DEF ReadForLogin, PresentAppPassword, ReadForToken
<1>9. ASSUME NEW r \in Requests, Authorise(r) \/ CheckApp(r)
      PROVE  repo => repo'
  BY <1>9 DEF Authorise, CheckApp
<1>10. ASSUME NEW r \in Requests, CheckAbsent(r) \/ InsertAccount(r) \/ AdminCreate(r)
            \/ SetActive(r)
      PROVE  repo => repo'
  BY <1>10 DEF CheckAbsent, InsertAccount, AdminCreate, SetActive
<1>11. ASSUME NEW r \in Requests, Deactivate(r) \/ AdminSetStatus(r)
      PROVE  repo => repo'
  BY <1>11 DEF Deactivate, AdminSetStatus, Revoke
<1> QED
  BY <1>1, <1>2, <1>3, <1>4, <1>5, <1>6, <1>7, <1>8, <1>9, <1>10, <1>11 DEF Next
-----------------------------------------------------------------------------
(* Types *)

\* The local variables each handler begins with are in their type.
LEMMA LocalTypes ==
    /\ NoRow \in Rows \cup {NoRow} /\ NoSession \in Sessions
    /\ \A place \in Places, copy \in Rows \cup {NoRow}, held \in Sessions,
          op \in MigrationOps \cup PrivilegedOps \cup Purposes \cup {"none"} :
             Holding(place, copy, held, op) \in Locals
    /\ \A place \in Places, status \in Statuses \cup {"none"} : Saying(place, status) \in Locals
    /\ Idle \in Locals
<1>1. NoSession \in Sessions
  BY DEF NoSession, Sessions, Kinds
<1>2. \A place \in Places, status \in Statuses \cup {"none"} : Saying(place, status) \in Locals
  BY <1>1 DEF Saying, Locals
<1>3. "idle" \in Places
  BY DEF Places
<1> QED
  BY <1>1, <1>2, <1>3 DEF Holding, Locals, Idle

\* Only the place of a request changes.
LEMMA GotoType ==
    ASSUME TypeOK, NEW r \in Requests, NEW place \in Places, Goto(r, place)
    PROVE  req' \in [Requests -> Locals]
<1>1. [req[r] EXCEPT !.at = place] \in Locals
  BY DEF TypeOK, Locals
<1> QED
  BY <1>1 DEF TypeOK, Goto

\* Giving a request new local variables of their type keeps the type of all.
LEMMA BecomeType ==
    ASSUME TypeOK, NEW r \in Requests, NEW local \in Locals, Become(r, local)
    PROVE  req' \in [Requests -> Locals]
BY DEF TypeOK, Become

\* The row after an UPDATE.
LEMMA NextEraType ==
    ASSUME TypeOK, Exists, NEW status \in Statuses
    PROVE  NextEra(status) \in Rows /\ NextEra(status).av >= 1 /\ row \in Rows
<1>1. row \in Rows
  BY DEF TypeOK, Exists, NoRow
<1>2. row.av \in Nat /\ row.born \in Nat /\ next \in Nat
  BY <1>1 DEF Rows, TypeOK
<1> QED
  BY <1>1, <1>2 DEF NextEra, Rows

\* One admin token more or fewer of a purpose.
LEMMA TokensType ==
    ASSUME TypeOK, NEW p \in Purposes
    PROVE  /\ [tokens EXCEPT ![p] = @ + 1] \in [Purposes -> Nat]
           /\ tokens[p] > 0 => [tokens EXCEPT ![p] = @ - 1] \in [Purposes -> Nat]
<1>1. tokens \in [Purposes -> Nat] /\ tokens[p] \in Nat
  BY DEF TypeOK
<1> QED
  BY <1>1

\* A session made from the copy a request holds is in its type.
LEMMA NewSessionType ==
    ASSUME TypeOK, NEW r \in Requests
    PROVE  NewSession(r) \in Sessions
<1>1. req[r] \in Locals
  BY DEF TypeOK
<1>2. req[r].row.av \in Nat /\ req[r].row.era \in Nat /\ req[r].row.born \in Nat
  BY <1>1 DEF Locals, Rows, NoRow
<1>3. req[r].held \in Sessions
  BY <1>1 DEF Locals
<1> QED
  BY <1>2, <1>3 DEF NewSession, Sessions, TypeOK

\* The initial state has its types.
LEMMA TypeInit == Init => TypeOK
<1> SUFFICES ASSUME Init PROVE TypeOK
  OBVIOUS
<1>1. row \in Rows \cup {NoRow} /\ (Exists => row.av >= 1)
  BY DEF Init, Rows, NoRow, Statuses, Exists
<1>2. req \in [Requests -> Locals]
  BY LocalTypes DEF Init
<1>3. tokens \in [Purposes -> Nat] /\ apps \in [Names -> AppKinds \cup {"none"}]
  BY DEF Init
<1>4. announced \in Statuses \cup {"none"} /\ repo \in BOOLEAN
  BY DEF Init, Statuses
<1>5. sessions \subseteq Sessions /\ refresh \subseteq sessions
  BY DEF Init
<1>6. muddled \in BOOLEAN
  BY DEF Init
<1>7. next \in Nat \ {0}
  BY DEF Init
<1> QED
  BY <1>1, <1>2, <1>3, <1>4, <1>5, <1>6, <1>7 DEF TypeOK

\* Every step keeps the types.
LEMMA TypeStep == TypeOK /\ LocalsFit /\ [Next]_vars => TypeOK'
<1> SUFFICES ASSUME TypeOK, LocalsFit, [Next]_vars PROVE TypeOK'
  OBVIOUS
<1>a. "none" \in Statuses \cup {"none"} /\ "none" \in MigrationOps \cup PrivilegedOps \cup Purposes \cup {"none"}
  OBVIOUS
<1>b. /\ MigrationOps \cup PrivilegedOps \subseteq Places
      /\ {"idle", "verify", "issue", "load", "consume", "check_app", "insert", "set_active",
          "seed", "purge", "announce", "approve", "spend", "wipe_refresh", "wipe_apps", "wipe_tokens",
          "wipe_row"} \subseteq Places
  BY DEF Places
<1>c. \A s \in sessions : s \in Sessions
  BY DEF TypeOK
<1>d. \A r \in Requests : req[r] \in Locals /\ req[r].held \in Sessions /\ req[r].row \in Rows \cup {NoRow}
                         /\ req[r].says \in Statuses \cup {"none"}
  BY DEF TypeOK, Locals
<1> USE LocalTypes
<1>1. CASE EndSession
  BY <1>1 DEF EndSession, TypeOK, Exists
<1>2. ASSUME NEW r \in Requests, ReadForLogin(r) PROVE TypeOK'
  <2>1. req' \in [Requests -> Locals]
    BY <1>2, <1>a, <1>b, <1>c, <1>d, BecomeType DEF ReadForLogin, TypeOK
  <2> QED
    BY <1>2, <2>1 DEF ReadForLogin, TypeOK, Exists
<1>3. ASSUME NEW r \in Requests, PresentPassword(r) PROVE TypeOK'
  <2>1. req' \in [Requests -> Locals]
    BY <1>3, <1>b, GotoType DEF PresentPassword
  <2> QED
    BY <1>3, <2>1 DEF PresentPassword, TypeOK, Exists
<1>4. ASSUME NEW r \in Requests, PresentAppPassword(r) PROVE TypeOK'
  <2>1. req' \in [Requests -> Locals]
    <3>1. PICK n \in Names : apps[n] # "none" /\ Become(r, Holding("issue", req[r].row, AppCredential(n), "none"))
      BY <1>4 DEF PresentAppPassword
    <3>2. AppCredential(n) \in Sessions
      BY <3>1 DEF AppCredential, Sessions, TypeOK, AppKinds
    <3> QED
      BY <3>1, <3>2, <1>a, <1>b, <1>d, BecomeType
  <2> QED
    BY <1>4, <2>1 DEF PresentAppPassword, TypeOK, Exists
<1>5. ASSUME NEW r \in Requests, Issue(r) PROVE TypeOK'
  <2>1. req' \in [Requests -> Locals]
    BY <1>5, <1>a, <1>b, <1>c, <1>d, BecomeType DEF Issue
  <2> QED
    BY <1>5, <2>1, NewSessionType DEF Issue, TypeOK, Exists
<1>6. ASSUME NEW r \in Requests, PresentRefreshToken(r) PROVE TypeOK'
  <2>1. req' \in [Requests -> Locals]
    BY <1>6, <1>a, <1>b, <1>c, <1>d, BecomeType DEF PresentRefreshToken, TypeOK
  <2> QED
    BY <1>6, <2>1 DEF PresentRefreshToken, TypeOK, Exists
<1>7. ASSUME NEW r \in Requests, LoadForRefresh(r) PROVE TypeOK'
  <2>1. req' \in [Requests -> Locals]
    BY <1>7, <1>a, <1>b, <1>c, <1>d, BecomeType DEF LoadForRefresh, TypeOK
  <2> QED
    BY <1>7, <2>1 DEF LoadForRefresh, TypeOK, Exists
<1>8. ASSUME NEW r \in Requests, Consume(r) PROVE TypeOK'
  <2>1. req' \in [Requests -> Locals]
    BY <1>8, <1>b, GotoType DEF Consume
  <2> QED
    BY <1>8, <2>1 DEF Consume, TypeOK, Exists
<1>9. ASSUME NEW r \in Requests, Authorise(r) PROVE TypeOK'
  <2>1. req' \in [Requests -> Locals]
    BY <1>9, <1>a, <1>b, <1>c, <1>d, BecomeType DEF Authorise
  <2> QED
    BY <1>9, <2>1 DEF Authorise, TypeOK, Exists
<1>10. ASSUME NEW r \in Requests, CheckApp(r) PROVE TypeOK'
  <2>1. req' \in [Requests -> Locals]
    BY <1>10, <1>a, <1>b, <1>c, <1>d, BecomeType DEF CheckApp, LocalsFit, At
  <2> QED
    BY <1>10, <2>1 DEF CheckApp, TypeOK, Exists
<1>11. ASSUME NEW r \in Requests, CreateApp(r) PROVE TypeOK'
  <2>1. req' \in [Requests -> Locals]
    BY <1>11, <1>a, <1>b, <1>c, <1>d, BecomeType DEF CreateApp
  <2> QED
    BY <1>11, <2>1 DEF CreateApp, TypeOK, Exists
<1>12. ASSUME NEW r \in Requests, RevokeApp(r) PROVE TypeOK'
  <2>1. req' \in [Requests -> Locals]
    BY <1>12, <1>a, <1>b, <1>c, <1>d, BecomeType DEF RevokeApp
  <2> QED
    BY <1>12, <2>1 DEF RevokeApp, TypeOK, Exists
<1>13. ASSUME NEW r \in Requests, ImportRepo(r) PROVE TypeOK'
  <2>1. req' \in [Requests -> Locals]
    BY <1>13, <1>a, <1>b, <1>c, <1>d, BecomeType DEF ImportRepo
  <2> QED
    BY <1>13, <2>1 DEF ImportRepo, TypeOK, Exists
<1>14. ASSUME NEW r \in Requests, CheckAbsent(r) PROVE TypeOK'
  <2>1. req' \in [Requests -> Locals]
    BY <1>14, <1>a, <1>b, <1>c, <1>d, BecomeType DEF CheckAbsent
  <2> QED
    BY <1>14, <2>1 DEF CheckAbsent, TypeOK, Exists
<1>15. ASSUME NEW r \in Requests, InsertAccount(r) PROVE TypeOK'
  <2>1. row' \in Rows /\ row'.av = 1
    BY <1>15 DEF InsertAccount, Rows, TypeOK, Statuses
  <2>2. req' \in [Requests -> Locals]
    BY <1>15, <2>1, <1>a, <1>b, BecomeType DEF InsertAccount
  <2> QED
    BY <1>15, <2>1, <2>2 DEF InsertAccount, TypeOK
<1>16. ASSUME NEW r \in Requests, CheckRepo(r) PROVE TypeOK'
  <2>1. req' \in [Requests -> Locals]
    BY <1>16, <1>b, GotoType DEF CheckRepo
  <2> QED
    BY <1>16, <2>1 DEF CheckRepo, TypeOK, Exists
<1>17. ASSUME NEW r \in Requests, SetActive(r) PROVE TypeOK'
  <2>1. row' \in Rows /\ row'.av >= 1
    BY <1>17 DEF SetActive, Exists, NoRow, Rows, TypeOK, Statuses
  <2>2. req' \in [Requests -> Locals]
    BY <1>17, <1>b, BecomeType DEF SetActive, Statuses
  <2> QED
    BY <1>17, <2>1, <2>2 DEF SetActive, TypeOK
<1>18. ASSUME NEW r \in Requests, NEW status \in Statuses, Revoke(r, status) PROVE TypeOK'
  <2>1. row' \in Rows /\ row'.av >= 1
    BY <1>18, NextEraType DEF Revoke
  <2>2. req' \in [Requests -> Locals]
    BY <1>18, <1>b, BecomeType DEF Revoke
  <2> QED
    BY <1>18, <2>1, <2>2 DEF Revoke, TypeOK
<1>19. ASSUME NEW r \in Requests, Deactivate(r) PROVE TypeOK'
  BY <1>19, <1>18 DEF Deactivate, Statuses
<1>20. ASSUME NEW r \in Requests, AdminSetStatus(r) PROVE TypeOK'
  BY <1>20, <1>18 DEF AdminSetStatus, Statuses
<1>21. ASSUME NEW r \in Requests, AdminSetPassword(r) PROVE TypeOK'
  <2>1. row.status \in Statuses
    BY <1>21 DEF AdminSetPassword, TypeOK, Rows, NoRow, Exists
  <2>2. row' \in Rows /\ row'.av >= 1
    BY <1>21, <2>1, NextEraType DEF AdminSetPassword
  <2>3. req' \in [Requests -> Locals]
    BY <1>21, <1>b, GotoType DEF AdminSetPassword
  <2> QED
    BY <1>21, <2>2, <2>3 DEF AdminSetPassword, TypeOK
<1>22. ASSUME NEW r \in Requests, Purge(r) PROVE TypeOK'
  <2>1. req' \in [Requests -> Locals]
    BY <1>22, <1>b, GotoType, BecomeType DEF Purge
  <2> QED
    BY <1>22, <2>1 DEF Purge, TypeOK, Exists
<1>23. ASSUME NEW r \in Requests, Announce(r) PROVE TypeOK'
  <2>1. req' \in [Requests -> Locals]
    BY <1>23, <1>a, <1>b, <1>c, <1>d, BecomeType DEF Announce
  <2> QED
    BY <1>23, <2>1, <1>d DEF Announce, TypeOK, Exists
<1>24. ASSUME NEW r \in Requests, ReadForToken(r) PROVE TypeOK'
  <2>1. req' \in [Requests -> Locals]
    BY <1>24, <1>a, <1>b, <1>c, <1>d, BecomeType DEF ReadForToken
  <2> QED
    BY <1>24, <2>1 DEF ReadForToken, TypeOK, Exists
<1>25. ASSUME NEW r \in Requests, ApproveToken(r) PROVE TypeOK'
  <2>1. req' \in [Requests -> Locals]
    BY <1>25, <1>a, <1>b, <1>c, <1>d, BecomeType DEF ApproveToken
  <2>2. tokens' \in [Purposes -> Nat]
    BY <1>25, TokensType DEF ApproveToken, At, LocalsFit
  <2> QED
    BY <1>25, <2>1, <2>2 DEF ApproveToken, TypeOK, Exists
<1>26. ASSUME NEW r \in Requests, SignPlcOperation(r) PROVE TypeOK'
  <2>1. req' \in [Requests -> Locals]
    BY <1>26, <1>a, <1>b, <1>c, <1>d, BecomeType DEF SignPlcOperation
  <2>2. tokens' \in [Purposes -> Nat]
    BY <1>26, TokensType DEF SignPlcOperation, Spend, Purposes
  <2> QED
    BY <1>26, <2>1, <2>2 DEF SignPlcOperation, TypeOK, Exists
<1>27. ASSUME NEW r \in Requests, VerifyForDelete(r) PROVE TypeOK'
  <2>1. req' \in [Requests -> Locals]
    BY <1>27, <1>b, GotoType DEF VerifyForDelete
  <2> QED
    BY <1>27, <2>1 DEF VerifyForDelete, TypeOK, Exists
<1>28. ASSUME NEW r \in Requests, SpendDeleteToken(r) PROVE TypeOK'
  <2>1. req' \in [Requests -> Locals]
    BY <1>28, <1>b, GotoType DEF SpendDeleteToken
  <2>2. tokens' \in [Purposes -> Nat]
    BY <1>28, TokensType DEF SpendDeleteToken, Spend, Purposes
  <2> QED
    BY <1>28, <2>1, <2>2 DEF SpendDeleteToken, TypeOK, Exists
<1>29. ASSUME NEW r \in Requests, WipeRefresh(r) PROVE TypeOK'
  <2>1. req' \in [Requests -> Locals]
    BY <1>29, <1>b, GotoType DEF WipeRefresh
  <2> QED
    BY <1>29, <2>1 DEF WipeRefresh, TypeOK, Exists
<1>30. ASSUME NEW r \in Requests, WipeApps(r) PROVE TypeOK'
  <2>1. req' \in [Requests -> Locals]
    BY <1>30, <1>b, GotoType DEF WipeApps
  <2> QED
    BY <1>30, <2>1 DEF WipeApps, TypeOK, Exists
<1>31. ASSUME NEW r \in Requests, WipeTokens(r) PROVE TypeOK'
  <2>1. req' \in [Requests -> Locals]
    BY <1>31, <1>b, GotoType DEF WipeTokens
  <2> QED
    BY <1>31, <2>1 DEF WipeTokens, TypeOK, Exists
<1>32. ASSUME NEW r \in Requests, WipeRow(r) PROVE TypeOK'
  <2>1. req' \in [Requests -> Locals]
    BY <1>32, <1>a, <1>b, <1>c, <1>d, BecomeType DEF WipeRow
  <2> QED
    BY <1>32, <2>1 DEF WipeRow, NoRow, TypeOK, Exists
<1>33. ASSUME NEW r \in Requests, GiveUp(r) PROVE TypeOK'
  <2>1. req' \in [Requests -> Locals]
    BY <1>33, <1>a, <1>b, <1>c, <1>d, BecomeType DEF GiveUp
  <2> QED
    BY <1>33, <2>1 DEF GiveUp, TypeOK, Exists
<1>34. CASE UNCHANGED vars
  BY <1>34 DEF vars, TypeOK, Exists
<1>35. ASSUME NEW r \in Requests, AdminCreate(r) PROVE TypeOK'
  <2>1. row' \in Rows /\ row'.av = 1
    BY <1>35 DEF AdminCreate, Rows, TypeOK, Statuses
  <2>2. req' \in [Requests -> Locals]
    <3>1. "seed" \in Places /\ "active" \in Statuses
      BY DEF Places, Statuses
    <3> QED
      BY <1>35, <3>1, BecomeType DEF AdminCreate
  <2> QED
    BY <1>35, <2>1, <2>2 DEF AdminCreate, TypeOK
<1>36. ASSUME NEW r \in Requests, SeedRepo(r) PROVE TypeOK'
  <2>1. req' \in [Requests -> Locals]
    BY <1>36, <1>b, GotoType DEF SeedRepo
  <2> QED
    BY <1>36, <2>1 DEF SeedRepo, TypeOK, Exists
<1> QED
  BY <1>1, <1>2, <1>3, <1>4, <1>5, <1>6, <1>7, <1>8, <1>9, <1>10, <1>11, <1>12, <1>13, <1>14, <1>15, <1>16, <1>17, <1>19, <1>20, <1>21, <1>22, <1>23, <1>24, <1>25, <1>26, <1>27, <1>28, <1>29, <1>30, <1>31, <1>32, <1>33, <1>34, <1>35, <1>36 DEF Next
-----------------------------------------------------------------------------
(* Copies of the row *)

\* Identifiers are never given back.
LEMMA NextGrows == ASSUME Next, TypeOK PROVE next' \in Nat /\ next' >= next
<1>1. CASE EndSession
  BY <1>1 DEF EndSession, TypeOK
<1>2. ASSUME NEW r \in Requests, CreateApp(r) \/ RevokeApp(r) \/ Issue(r)
      PROVE  next' \in Nat /\ next' >= next
  BY <1>2 DEF CreateApp, RevokeApp, Issue, TypeOK
<1>3. ASSUME NEW r \in Requests, ImportRepo(r) \/ SeedRepo(r) \/ Announce(r) \/
            GiveUp(r)
      PROVE  next' \in Nat /\ next' >= next
  BY <1>3 DEF ImportRepo, SeedRepo, Announce, GiveUp, TypeOK
<1>4. ASSUME NEW r \in Requests, ApproveToken(r) \/ SignPlcOperation(r) \/
            VerifyForDelete(r) \/ SpendDeleteToken(r)
      PROVE  next' \in Nat /\ next' >= next
  BY <1>4 DEF ApproveToken, SignPlcOperation, VerifyForDelete, SpendDeleteToken, Spend,
     TypeOK
<1>5. ASSUME NEW r \in Requests, PresentPassword(r) \/ Consume(r) \/
            PresentRefreshToken(r) \/ LoadForRefresh(r)
      PROVE  next' \in Nat /\ next' >= next
  BY <1>5 DEF PresentPassword, Consume, PresentRefreshToken, LoadForRefresh, TypeOK
<1>6. ASSUME NEW r \in Requests, CheckRepo(r) \/ AdminSetPassword(r) \/ Purge(r) \/
            WipeRow(r)
      PROVE  next' \in Nat /\ next' >= next
  BY <1>6 DEF CheckRepo, AdminSetPassword, Purge, WipeRow, TypeOK
<1>7. ASSUME NEW r \in Requests, WipeRefresh(r) \/ WipeApps(r) \/ WipeTokens(r)
      PROVE  next' \in Nat /\ next' >= next
  BY <1>7 DEF WipeRefresh, WipeApps, WipeTokens, TypeOK
<1>8. ASSUME NEW r \in Requests, ReadForLogin(r) \/ PresentAppPassword(r) \/
            ReadForToken(r)
      PROVE  next' \in Nat /\ next' >= next
  BY <1>8 DEF ReadForLogin, PresentAppPassword, ReadForToken, TypeOK
<1>9. ASSUME NEW r \in Requests, Authorise(r) \/ CheckApp(r)
      PROVE  next' \in Nat /\ next' >= next
  BY <1>9 DEF Authorise, CheckApp, TypeOK
<1>10. ASSUME NEW r \in Requests, CheckAbsent(r) \/ InsertAccount(r) \/ AdminCreate(r)
            \/ SetActive(r)
      PROVE  next' \in Nat /\ next' >= next
  BY <1>10 DEF CheckAbsent, InsertAccount, AdminCreate, SetActive, TypeOK
<1>11. ASSUME NEW r \in Requests, Deactivate(r) \/ AdminSetStatus(r)
      PROVE  next' \in Nat /\ next' >= next
  BY <1>11 DEF Deactivate, AdminSetStatus, Revoke, TypeOK
<1> QED
  BY <1>1, <1>2, <1>3, <1>4, <1>5, <1>6, <1>7, <1>8, <1>9, <1>10, <1>11 DEF Next

\* Where a request's copy of the row comes from.
LEMMA CopyStep ==
    ASSUME TypeOK, Next, NEW q \in Requests
    PROVE  \/ req'[q].row = req[q].row
           \/ req'[q].row = NoRow
           \/ req'[q].row = row /\ row' = row
           \/ InsertAccount(q) /\ req'[q].row = row'
<1> DEFINE Goal == \/ req'[q].row = req[q].row
                   \/ req'[q].row = NoRow
                   \/ req'[q].row = row /\ row' = row
                   \/ InsertAccount(q) /\ req'[q].row = row'
<1>1. req \in [Requests -> Locals] /\ req[q] \in Locals
  BY DEF TypeOK
<1>2. CASE EndSession
  BY <1>1, <1>2 DEF EndSession, Locals
<1>3. ASSUME NEW r \in Requests, Issue(r) \/ CreateApp(r) \/ RevokeApp(r) \/
            ImportRepo(r)
      PROVE  Goal
  BY <1>1, <1>3 DEF Issue, CreateApp, RevokeApp, ImportRepo, Become, Idle, Saying, Locals
<1>4. ASSUME NEW r \in Requests, Announce(r) \/ ApproveToken(r) \/ SignPlcOperation(r)
      PROVE  Goal
  BY <1>1, <1>4 DEF Announce, ApproveToken, SignPlcOperation, Become, Idle, Saying, Locals
<1>5. ASSUME NEW r \in Requests, WipeRow(r) \/ GiveUp(r)
      PROVE  Goal
  BY <1>1, <1>5 DEF WipeRow, GiveUp, Become, Idle, Saying, Locals
<1>6. ASSUME NEW r \in Requests, PresentPassword(r) \/ Consume(r)
      PROVE  Goal
  BY <1>1, <1>6 DEF PresentPassword, Consume, Goto, Locals
<1>7. ASSUME NEW r \in Requests, SeedRepo(r) \/ CheckRepo(r) \/ VerifyForDelete(r)
      PROVE  Goal
  BY <1>1, <1>7 DEF SeedRepo, CheckRepo, VerifyForDelete, Goto, Locals
<1>8. ASSUME NEW r \in Requests, SpendDeleteToken(r) \/ WipeRefresh(r) \/ WipeApps(r) \/
            WipeTokens(r)
      PROVE  Goal
  BY <1>1, <1>8 DEF SpendDeleteToken, WipeRefresh, WipeApps, WipeTokens, Goto, Locals
<1>9. ASSUME NEW r \in Requests, AdminSetPassword(r)
      PROVE  Goal
  BY <1>1, <1>9 DEF AdminSetPassword, Goto, Locals
<1>10. ASSUME NEW r \in Requests, Purge(r)
      PROVE  Goal
  BY <1>1, <1>10 DEF Purge, Goto, Become, Idle, Saying, Locals
<1>11. ASSUME NEW r \in Requests, ReadForLogin(r) \/ PresentAppPassword(r)
      PROVE  Goal
  BY <1>1, <1>11 DEF ReadForLogin, PresentAppPassword, Become, Holding, AppCredential, Locals
<1>12. ASSUME NEW r \in Requests, PresentRefreshToken(r) \/ LoadForRefresh(r)
      PROVE  Goal
  BY <1>1, <1>12 DEF PresentRefreshToken, LoadForRefresh, Become, Holding, Locals
<1>13. ASSUME NEW r \in Requests, Authorise(r)
      PROVE  Goal
  BY <1>1, <1>13 DEF Authorise, Become, Holding, Locals
<1>14. ASSUME NEW r \in Requests, CheckApp(r)
      PROVE  Goal
  BY <1>1, <1>14 DEF CheckApp, Become, Holding, Locals
<1>15. ASSUME NEW r \in Requests, CheckAbsent(r) \/ InsertAccount(r)
      PROVE  Goal
  BY <1>1, <1>15 DEF CheckAbsent, InsertAccount, Become, Holding, Locals
<1>16. ASSUME NEW r \in Requests, AdminCreate(r) \/ SetActive(r)
      PROVE  Goal
  BY <1>1, <1>16 DEF AdminCreate, SetActive, Become, Saying, Locals
<1>17. ASSUME NEW r \in Requests, Deactivate(r) \/ AdminSetStatus(r)
      PROVE  Goal
  BY <1>1, <1>17 DEF Deactivate, AdminSetStatus, Revoke, Become, Saying, Locals
<1>18. ASSUME NEW r \in Requests, ReadForToken(r)
      PROVE  Goal
  BY <1>1, <1>18 DEF ReadForToken, Become, Holding, Locals
<1> QED
  BY <1>2, <1>3, <1>4, <1>5, <1>6, <1>7, <1>8, <1>9, <1>10, <1>11, <1>12, <1>13, <1>14, <1>15,
     <1>16, <1>17, <1>18 DEF Next

\* What is not ahead of the row stays so, whatever happens to the row.
LEMMA StaysBehind ==
    ASSUME TypeOK, CopiesAreOld, Next, NEW x, x.born \in Nat, x.av \in Nat, NotAhead(x)
    PROVE  NotAhead(x)'
<1>1. next \in Nat /\ next' \in Nat /\ x.born < next'
  BY NextGrows DEF NotAhead, TypeOK
<1>2. CASE row' = row
  BY <1>1, <1>2 DEF NotAhead, Exists
<1>3. ASSUME NEW r \in Requests, InsertAccount(r) \/ AdminCreate(r) PROVE NotAhead(x)'
  <2>1. row'.born = next
    BY <1>3 DEF InsertAccount, AdminCreate
  <2> QED
    BY <1>1, <2>1 DEF NotAhead
<1>4. ASSUME NEW r \in Requests, SetActive(r) PROVE NotAhead(x)'
  <2>1. row \in Rows /\ row' = [row EXCEPT !.status = "active"]
    BY <1>4, NextEraType DEF SetActive, TypeOK, Exists, NoRow
  <2>2. row'.av = row.av /\ row'.era = row.era /\ row'.born = row.born
    BY <2>1 DEF Rows
  <2> QED
    BY <1>1, <1>4, <2>2 DEF NotAhead, SetActive, Exists
<1>5. ASSUME Exists, NEW status \in Statuses, row' = NextEra(status) PROVE NotAhead(x)'
  <2>1. row.av \in Nat /\ row'.av = row.av + 1 /\ row'.born = row.born
    BY <1>5, NextEraType DEF NextEra, Rows
  <2> QED
    BY <1>1, <1>5, <2>1 DEF NotAhead
<1>6. ASSUME NEW r \in Requests, WipeRow(r) PROVE NotAhead(x)'
  BY <1>1, <1>6 DEF NotAhead, WipeRow, Exists, NoRow
<1>7. ASSUME NEW r \in Requests, Deactivate(r) \/ AdminSetStatus(r) PROVE NotAhead(x)'
  BY <1>5, <1>7 DEF Deactivate, AdminSetStatus, Revoke, Statuses
<1>8. ASSUME NEW r \in Requests, AdminSetPassword(r) PROVE NotAhead(x)'
  <2>1. Exists /\ row' = NextEra(row.status)
    BY <1>8 DEF AdminSetPassword
  <2>2. row.status \in Statuses
    BY <2>1 DEF TypeOK, Rows, NoRow, Exists
  <2> QED
    BY <1>5, <2>1, <2>2
<1> QED
  BY <1>2, <1>3, <1>4, <1>6, <1>7, <1>8, RowStep

\* No request holds a copy of the account at first.
LEMMA CopiesInit == Init => CopiesAreOld
<1> SUFFICES ASSUME Init PROVE CopiesAreOld
  OBVIOUS
<1>1. next = 2 /\ sessions = {} /\ row.born \in {0, 1} /\ (Exists => row.av = 1)
  BY DEF Init, NoRow, Exists
<1>2. \A r \in Requests : req[r].row = NoRow
  BY DEF Init, Idle, Saying
<1> QED
  BY <1>1, <1>2 DEF CopiesAreOld, NotAhead, NoRow

\* A copy a request holds stays one of the past: eras only grow.
LEMMA CopiesStep == TypeOK /\ CopiesAreOld /\ [Next]_vars => CopiesAreOld'
<1>1. ASSUME TypeOK, CopiesAreOld, Next PROVE CopiesAreOld'
  <2> USE <1>1
  <2>1. next \in Nat \ {0} /\ next' \in Nat /\ next' >= next
    BY NextGrows DEF TypeOK
  <2>2. row.born \in Nat /\ row.av \in Nat /\ row.born < next /\ (Exists => row.av >= 1)
    BY DEF TypeOK, Rows, NoRow, CopiesAreOld
  <2>3. row'.born < next'
    <3>1. row'.born \in {row.born, 0} \/ (row'.born = next /\ next' = next + 1)
      <4>1. ASSUME NEW r \in Requests, SetActive(r) PROVE row'.born = row.born
        <5>1. row \in Rows /\ row' = [row EXCEPT !.status = "active"]
          BY <4>1 DEF SetActive, TypeOK, Exists, NoRow
        <5> QED
          BY <5>1 DEF Rows
      <4>2. ASSUME NEW r \in Requests,
                   Deactivate(r) \/ AdminSetStatus(r) \/ AdminSetPassword(r)
            PROVE  row'.born = row.born
        BY <4>2 DEF Deactivate, AdminSetStatus, AdminSetPassword, Revoke, NextEra
      <4>3. ASSUME NEW r \in Requests, WipeRow(r) PROVE row'.born = 0
        BY <4>3 DEF WipeRow, NoRow
      <4>4. ASSUME NEW r \in Requests, InsertAccount(r) \/ AdminCreate(r)
            PROVE  row'.born = next /\ next' = next + 1
        BY <4>4 DEF InsertAccount, AdminCreate
      <4> QED
        BY <4>1, <4>2, <4>3, <4>4, RowStep
    <3> QED
      BY <2>1, <2>2, <3>1
  <2>4. ASSUME NEW s \in sessions' PROVE NotAhead(s)'
    <3>1. CASE s \in sessions
      <4>1. s.born \in Nat /\ s.av \in Nat /\ NotAhead(s)
        BY <3>1 DEF TypeOK, Sessions, CopiesAreOld
      <4> QED
        BY <4>1, StaysBehind
    <3>2. CASE s \notin sessions
      <4>1. PICK r \in Requests : Issue(r)
        BY <3>2, SessionsStep
      <4>2. s = NewSession(r)
        BY <3>2, <4>1 DEF Issue
      <4>3. /\ s.born = req[r].row.born /\ s.av = req[r].row.av /\ s.era = req[r].row.era
        BY <4>2 DEF NewSession
      <4>4. NotAhead(req[r].row) /\ req[r].row.born \in Nat
        BY DEF CopiesAreOld, TypeOK, Locals, Rows, NoRow
      <4> QED
        BY <2>1, <4>1, <4>3, <4>4 DEF NotAhead, Issue, Exists
    <3> QED
      BY <3>1, <3>2
  <2>5. ASSUME NEW q \in Requests PROVE NotAhead(req[q].row)'
    <3>1. req[q].row \in Rows \cup {NoRow} /\ NotAhead(req[q].row)
      BY DEF TypeOK, Locals, CopiesAreOld
    <3>2. NotAhead(NoRow)' /\ (row' = row => NotAhead(row)')
      <4>1. NotAhead(NoRow) /\ NotAhead(row)
        BY <2>1, <2>2 DEF NotAhead, NoRow
      <4>2. NoRow.born \in Nat /\ NoRow.av \in Nat
        BY DEF NoRow
      <4>3. ASSUME NEW x, x.born \in Nat, x.av \in Nat, NotAhead(x) PROVE NotAhead(x)'
        BY <4>3, StaysBehind
      <4>4. NotAhead(NoRow)'
        BY <4>1, <4>2, <4>3
      <4> QED
        BY <2>2, <2>3, <4>4 DEF NotAhead
    <3>3. CASE req'[q].row = req[q].row
      <4>1. ASSUME NEW x, x.born \in Nat, x.av \in Nat, NotAhead(x) PROVE NotAhead(x)'
        BY <4>1, StaysBehind
      <4>2. req[q].row.born \in Nat /\ req[q].row.av \in Nat
        BY <3>1 DEF Rows, NoRow
      <4> QED
        BY <3>1, <3>3, <4>1, <4>2 DEF NotAhead, Exists
    <3>4. CASE InsertAccount(q) /\ req'[q].row = row'
      BY <2>3, <3>4 DEF NotAhead, InsertAccount
    <3> QED
      BY <3>2, <3>3, <3>4, CopyStep DEF NotAhead
  <2> QED
    BY <2>3, <2>4, <2>5 DEF CopiesAreOld
<1>2. ASSUME TypeOK, CopiesAreOld, UNCHANGED vars PROVE CopiesAreOld'
  BY <1>2 DEF CopiesAreOld, NotAhead, Exists, vars
<1> QED
  BY <1>1, <1>2
-----------------------------------------------------------------------------
(* Sessions and their parents *)

\* A session just issued, and what it leaves of the others.
LEMMA IssueEffect ==
    ASSUME TypeOK, NEW r \in Requests, Issue(r)
    PROVE  /\ sessions' = sessions \cup {NewSession(r)}
           /\ refresh' \subseteq refresh \cup {NewSession(r)}
           /\ NewSession(r).id = next /\ NewSession(r).parent = req[r].held.id
           /\ next' = next + 1 /\ next \in Nat \ {0}
           /\ req[r].at = "issue" /\ req'[r].at = "idle" /\ req'[r].held.id = 0
           /\ \A q \in Requests \ {r} : req'[q] = req[q]
BY DEF Issue, NewSession, TypeOK, At, Become, Idle, Saying, NoSession

\* How a request comes to be about to issue a session.
LEMMA ReadyStep ==
    ASSUME TypeOK, LocalsFit, Next, NEW q \in Requests, req'[q].at = "issue"
    PROVE  \/ req'[q] = req[q]
           \/ req'[q].held.id = 0
           \/ Consume(q) /\ req'[q].held = req[q].held
<1> DEFINE Goal == \/ req'[q] = req[q]
                   \/ req'[q].held.id = 0
                   \/ Consume(q) /\ req'[q].held = req[q].held
<1>1. req \in [Requests -> Locals] /\ req[q] \in Locals
  BY DEF TypeOK
<1>2. req[q].at \in {"verify", "insert"} => req[q].held.id = 0
  BY DEF LocalsFit
<1>3. req[q].at = "check_app" => req[q].op \in MigrationOps \cup PrivilegedOps
  BY DEF LocalsFit
<1>4. CASE EndSession
  BY <1>1, <1>2, <1>3, <1>4 DEF EndSession, At, NoSession, Locals, MigrationOps, PrivilegedOps
<1>5. ASSUME NEW r \in Requests, Issue(r) \/ CreateApp(r) \/ RevokeApp(r) \/
            ImportRepo(r)
      PROVE  Goal
  BY <1>1, <1>2, <1>3, <1>5 DEF Issue, CreateApp, RevokeApp, ImportRepo, Become, Idle, Saying,
     At, NoSession, Locals, MigrationOps, PrivilegedOps
<1>6. ASSUME NEW r \in Requests, Announce(r) \/ ApproveToken(r) \/ SignPlcOperation(r)
      PROVE  Goal
  BY <1>1, <1>2, <1>3, <1>6 DEF Announce, ApproveToken, SignPlcOperation, Become, Idle, Saying,
     At, NoSession, Locals, MigrationOps, PrivilegedOps
<1>7. ASSUME NEW r \in Requests, WipeRow(r) \/ GiveUp(r)
      PROVE  Goal
  BY <1>1, <1>2, <1>3, <1>7 DEF WipeRow, GiveUp, Become, Idle, Saying, At, NoSession, Locals,
     MigrationOps, PrivilegedOps
<1>8. ASSUME NEW r \in Requests, PresentPassword(r) \/ Consume(r)
      PROVE  Goal
  BY <1>1, <1>2, <1>3, <1>8 DEF PresentPassword, Consume, Goto, At, NoSession, Locals,
     MigrationOps, PrivilegedOps
<1>9. ASSUME NEW r \in Requests, SeedRepo(r) \/ CheckRepo(r) \/ VerifyForDelete(r)
      PROVE  Goal
  BY <1>1, <1>2, <1>3, <1>9 DEF SeedRepo, CheckRepo, VerifyForDelete, Goto, At, NoSession,
     Locals, MigrationOps, PrivilegedOps
<1>10. ASSUME NEW r \in Requests, SpendDeleteToken(r) \/ WipeRefresh(r) \/ WipeApps(r)
            \/ WipeTokens(r)
      PROVE  Goal
  BY <1>1, <1>2, <1>3, <1>10 DEF SpendDeleteToken, WipeRefresh, WipeApps, WipeTokens, Goto, At,
     NoSession, Locals, MigrationOps, PrivilegedOps
<1>11. ASSUME NEW r \in Requests, AdminSetPassword(r)
      PROVE  Goal
  BY <1>1, <1>2, <1>3, <1>11 DEF AdminSetPassword, Goto, At, NoSession, Locals, MigrationOps,
     PrivilegedOps
<1>12. ASSUME NEW r \in Requests, Purge(r)
      PROVE  Goal
  BY <1>1, <1>2, <1>3, <1>12 DEF Purge, Goto, Become, Idle, Saying, At, NoSession, Locals,
     MigrationOps, PrivilegedOps
<1>13. ASSUME NEW r \in Requests, ReadForLogin(r) \/ PresentAppPassword(r)
      PROVE  Goal
  BY <1>1, <1>2, <1>3, <1>13 DEF ReadForLogin, PresentAppPassword, Become, Holding,
     AppCredential, At, NoSession, Locals, MigrationOps, PrivilegedOps
<1>14. ASSUME NEW r \in Requests, PresentRefreshToken(r) \/ LoadForRefresh(r)
      PROVE  Goal
  BY <1>1, <1>2, <1>3, <1>14 DEF PresentRefreshToken, LoadForRefresh, Become, Holding, At,
     NoSession, Locals, MigrationOps, PrivilegedOps
<1>15. ASSUME NEW r \in Requests, Authorise(r)
      PROVE  Goal
  BY <1>1, <1>2, <1>3, <1>15 DEF Authorise, Become, Holding, At, NoSession, Locals, MigrationOps,
     PrivilegedOps
<1>16. ASSUME NEW r \in Requests, CheckApp(r)
      PROVE  Goal
  BY <1>1, <1>2, <1>3, <1>16 DEF CheckApp, Become, Holding, At, NoSession, Locals, MigrationOps,
     PrivilegedOps
<1>17. ASSUME NEW r \in Requests, CheckAbsent(r) \/ InsertAccount(r)
      PROVE  Goal
  BY <1>1, <1>2, <1>3, <1>17 DEF CheckAbsent, InsertAccount, Become, Holding, At, NoSession,
     Locals, MigrationOps, PrivilegedOps
<1>18. ASSUME NEW r \in Requests, AdminCreate(r) \/ SetActive(r)
      PROVE  Goal
  BY <1>1, <1>2, <1>3, <1>18 DEF AdminCreate, SetActive, Become, Saying, At, NoSession, Locals,
     MigrationOps, PrivilegedOps
<1>19. ASSUME NEW r \in Requests, Deactivate(r) \/ AdminSetStatus(r)
      PROVE  Goal
  BY <1>1, <1>2, <1>3, <1>19 DEF Deactivate, AdminSetStatus, Revoke, Become, Saying, At,
     NoSession, Locals, MigrationOps, PrivilegedOps
<1>20. ASSUME NEW r \in Requests, ReadForToken(r)
      PROVE  Goal
  BY <1>1, <1>2, <1>3, <1>20 DEF ReadForToken, Become, Holding, At, NoSession, Locals,
     MigrationOps, PrivilegedOps
<1> QED
  BY <1>4, <1>5, <1>6, <1>7, <1>8, <1>9, <1>10, <1>11, <1>12, <1>13, <1>14, <1>15, <1>16, <1>17,
     <1>18, <1>19, <1>20 DEF Next

\* No session has been made at first.
LEMMA IdsInit == Init => IdsAreFresh /\ ParentsAreSpent /\ OneSessionPerRefresh
BY DEF Init, IdsAreFresh, ParentsAreSpent, OneSessionPerRefresh, Idle, Saying

\* New sessions get identifiers nobody has had.
LEMMA IdsStep == TypeOK /\ LocalsFit /\ IdsAreFresh /\ [Next]_vars => IdsAreFresh'
<1>1. ASSUME TypeOK, LocalsFit, IdsAreFresh, Next PROVE IdsAreFresh'
  <2>1. \A s \in sessions : s.id \in Nat /\ s.parent \in Nat
    BY <1>1 DEF TypeOK, Sessions
  <2>2. CASE sessions' = sessions
    BY <1>1, <2>1, <2>2, NextGrows DEF IdsAreFresh, TypeOK
  <2>3. ASSUME NEW r \in Requests, Issue(r) PROVE IdsAreFresh'
    <3>1. req[r].held.id \in Nat /\ req[r].held.id < next
      <4>1. req[r].held \in Sessions
        BY <1>1 DEF TypeOK, Locals
      <4>2. req[r].held.id # 0 => req[r].held.id < next
        BY <1>1 DEF LocalsFit, IdsAreFresh
      <4> QED
        BY <1>1, <4>1, <4>2 DEF Sessions, TypeOK
    <3> QED
      BY <1>1, <2>1, <2>3, <3>1, IssueEffect DEF IdsAreFresh
  <2> QED
    BY <1>1, <2>2, <2>3, SessionsStep
<1>2. ASSUME IdsAreFresh, UNCHANGED vars PROVE IdsAreFresh'
  BY <1>2 DEF IdsAreFresh, vars
<1> QED
  BY <1>1, <1>2

\* A refresh token leaves the table when a session is made of it, so a second is refused.
LEMMA ParentsStep ==
    ASSUME TypeOK, LocalsFit, IdsAreFresh, ParentsAreSpent, OneSessionPerRefresh, [Next]_vars
    PROVE  ParentsAreSpent' /\ OneSessionPerRefresh'
<1>a. /\ \A s \in sessions : s.id \in Nat /\ s.parent \in Nat /\ s.id < next /\ s.parent < next
      /\ refresh \subseteq sessions
      /\ \A q \in Requests : req[q].held.id # 0 => req[q].held \in sessions
  BY DEF TypeOK, Sessions, IdsAreFresh, LocalsFit
<1>1. ASSUME NEW r \in Requests, Issue(r) PROVE ParentsAreSpent' /\ OneSessionPerRefresh'
  <2> DEFINE n == NewSession(r)
  <2>1. /\ sessions' = sessions \cup {n} /\ refresh' \subseteq refresh \cup {n}
        /\ n.id = next /\ n.parent = req[r].held.id /\ next \in Nat \ {0}
        /\ req[r].at = "issue" /\ req'[r].at = "idle"
        /\ \A q \in Requests \ {r} : req'[q] = req[q]
    BY <1>1, IssueEffect
  <2>2. n.parent # 0 => n.parent < next
    BY <1>a, <2>1
  <2>3. n.parent # 0 => /\ \A t \in refresh : t.id # n.parent
                        /\ \A s \in sessions : s.parent # n.parent
    BY <2>1 DEF ParentsAreSpent
  <2> HIDE DEF n
  <2>4. \A s \in sessions' : s.parent # 0 => \A t \in refresh' : t.id # s.parent
    BY <1>a, <2>1, <2>2, <2>3 DEF ParentsAreSpent
  <2>5. ASSUME NEW q \in Requests, req'[q].at = "issue", req'[q].held.id # 0
        PROVE  /\ \A t \in refresh' : t.id # req'[q].held.id
               /\ \A s \in sessions' : s.parent # req'[q].held.id
               /\ \A o \in Requests \ {q} :
                     req'[o].at = "issue" => req'[o].held.id # req'[q].held.id
    <3>1. q # r /\ req'[q] = req[q] /\ req[q].held.id < next
      BY <1>a, <2>1, <2>5
    <3>2. /\ \A t \in refresh : t.id # req[q].held.id
          /\ \A s \in sessions : s.parent # req[q].held.id
          /\ \A o \in Requests \ {q} :
                req[o].at = "issue" => req[o].held.id # req[q].held.id
      BY <2>5, <3>1 DEF ParentsAreSpent
    <3> QED
      BY <2>1, <3>1, <3>2
  <2>6. OneSessionPerRefresh'
    BY <2>1, <2>3 DEF OneSessionPerRefresh
  <2> QED
    BY <2>4, <2>5, <2>6 DEF ParentsAreSpent
<1>2. ASSUME Next, sessions' = sessions, refresh' \subseteq refresh
      PROVE  ParentsAreSpent' /\ OneSessionPerRefresh'
  <2>1. OneSessionPerRefresh'
    BY <1>2 DEF OneSessionPerRefresh
  <2>2. \A s \in sessions' : s.parent # 0 => \A t \in refresh' : t.id # s.parent
    BY <1>2 DEF ParentsAreSpent
  <2>3. ASSUME NEW q \in Requests, req'[q].at = "issue", req'[q].held.id # 0
        PROVE  /\ \A t \in refresh' : t.id # req'[q].held.id
               /\ \A s \in sessions' : s.parent # req'[q].held.id
               /\ \A o \in Requests \ {q} :
                     req'[o].at = "issue" => req'[o].held.id # req'[q].held.id
    <3>1. CASE req'[q] = req[q]
      <4>1. /\ \A t \in refresh : t.id # req[q].held.id
            /\ \A s \in sessions : s.parent # req[q].held.id
            /\ \A o \in Requests \ {q} :
                  req[o].at = "issue" => req[o].held.id # req[q].held.id
        BY <2>3, <3>1 DEF ParentsAreSpent
      <4>2. ASSUME NEW o \in Requests \ {q}, req'[o].at = "issue"
            PROVE  req'[o].held.id # req'[q].held.id
        <5>1. CASE Consume(o) /\ req'[o].held = req[o].held
          <6>1. req[o].held \in refresh
            BY <5>1 DEF Consume
          <6> QED
            BY <3>1, <4>1, <5>1, <6>1
        <5> QED
          BY <1>2, <2>3, <3>1, <4>1, <4>2, <5>1, ReadyStep
      <4> QED
        BY <1>2, <3>1, <4>1, <4>2
    <3>2. CASE Consume(q) /\ req'[q].held = req[q].held
      <4> DEFINE h == req[q].held
      <4>1. h \in refresh /\ refresh' = refresh \ {h} /\ h \in sessions /\ h.id # 0
        BY <1>a, <2>3, <3>2 DEF Consume
      <4>2. \A o \in Requests \ {q} : req'[o] = req[o]
        BY <3>2 DEF Consume, Goto, TypeOK
      <4>3. \A t \in refresh' : t.id # h.id
        BY <1>a, <4>1 DEF IdsAreFresh
      <4>4. \A s \in sessions' : s.parent # h.id
        BY <1>2, <4>1 DEF ParentsAreSpent
      <4>5. \A o \in Requests \ {q} : req'[o].at = "issue" => req'[o].held.id # h.id
        BY <4>1, <4>2 DEF ParentsAreSpent
      <4> QED
        BY <3>2, <4>3, <4>4, <4>5
    <3> QED
      BY <1>2, <2>3, <3>1, <3>2, ReadyStep
  <2> QED
    BY <2>1, <2>2, <2>3 DEF ParentsAreSpent
<1>3. CASE UNCHANGED vars
  BY <1>3 DEF vars, ParentsAreSpent, OneSessionPerRefresh
<1> QED
  BY <1>1, <1>2, <1>3, SessionsStep

-----------------------------------------------------------------------------
(* The repository *)

\* SetActive is entered by the check of the repository.
LEMMA SetActiveStep ==
    ASSUME TypeOK, LocalsFit, Next, NEW q \in Requests, req'[q].at = "set_active"
    PROVE  req[q].at = "set_active" \/ repo
<1> DEFINE Goal == req[q].at = "set_active" \/ repo
<1>1. req \in [Requests -> Locals] /\ req[q] \in Locals
  BY DEF TypeOK
<1>2. req[q].at = "check_app" => req[q].op \in MigrationOps \cup PrivilegedOps
  BY DEF LocalsFit
<1>3. CASE EndSession
  BY <1>1, <1>2, <1>3 DEF EndSession, At, Locals, MigrationOps, PrivilegedOps
<1>4. ASSUME NEW r \in Requests, Issue(r) \/ CreateApp(r) \/ RevokeApp(r) \/
            ImportRepo(r)
      PROVE  Goal
  BY <1>1, <1>2, <1>4 DEF Issue, CreateApp, RevokeApp, ImportRepo, Become, Idle, Saying, At,
     Locals, MigrationOps, PrivilegedOps
<1>5. ASSUME NEW r \in Requests, Announce(r) \/ ApproveToken(r) \/ SignPlcOperation(r)
      PROVE  Goal
  BY <1>1, <1>2, <1>5 DEF Announce, ApproveToken, SignPlcOperation, Become, Idle, Saying, At,
     Locals, MigrationOps, PrivilegedOps
<1>6. ASSUME NEW r \in Requests, WipeRow(r) \/ GiveUp(r)
      PROVE  Goal
  BY <1>1, <1>2, <1>6 DEF WipeRow, GiveUp, Become, Idle, Saying, At, Locals, MigrationOps,
     PrivilegedOps
<1>7. ASSUME NEW r \in Requests, PresentPassword(r) \/ Consume(r)
      PROVE  Goal
  BY <1>1, <1>2, <1>7 DEF PresentPassword, Consume, Goto, At, Locals, MigrationOps, PrivilegedOps
<1>8. ASSUME NEW r \in Requests, SeedRepo(r) \/ CheckRepo(r) \/ VerifyForDelete(r)
      PROVE  Goal
  BY <1>1, <1>2, <1>8 DEF SeedRepo, CheckRepo, VerifyForDelete, Goto, At, Locals, MigrationOps,
     PrivilegedOps
<1>9. ASSUME NEW r \in Requests, SpendDeleteToken(r) \/ WipeRefresh(r) \/ WipeApps(r) \/
            WipeTokens(r)
      PROVE  Goal
  BY <1>1, <1>2, <1>9 DEF SpendDeleteToken, WipeRefresh, WipeApps, WipeTokens, Goto, At, Locals,
     MigrationOps, PrivilegedOps
<1>10. ASSUME NEW r \in Requests, AdminSetPassword(r)
      PROVE  Goal
  BY <1>1, <1>2, <1>10 DEF AdminSetPassword, Goto, At, Locals, MigrationOps, PrivilegedOps
<1>11. ASSUME NEW r \in Requests, Purge(r)
      PROVE  Goal
  BY <1>1, <1>2, <1>11 DEF Purge, Goto, Become, Idle, Saying, At, Locals, MigrationOps,
     PrivilegedOps
<1>12. ASSUME NEW r \in Requests, ReadForLogin(r) \/ PresentAppPassword(r)
      PROVE  Goal
  BY <1>1, <1>2, <1>12 DEF ReadForLogin, PresentAppPassword, Become, Holding, AppCredential, At,
     Locals, MigrationOps, PrivilegedOps
<1>13. ASSUME NEW r \in Requests, PresentRefreshToken(r) \/ LoadForRefresh(r)
      PROVE  Goal
  BY <1>1, <1>2, <1>13 DEF PresentRefreshToken, LoadForRefresh, Become, Holding, At, Locals,
     MigrationOps, PrivilegedOps
<1>14. ASSUME NEW r \in Requests, Authorise(r)
      PROVE  Goal
  BY <1>1, <1>2, <1>14 DEF Authorise, Become, Holding, At, Locals, MigrationOps, PrivilegedOps
<1>15. ASSUME NEW r \in Requests, CheckApp(r)
      PROVE  Goal
  BY <1>1, <1>2, <1>15 DEF CheckApp, Become, Holding, At, Locals, MigrationOps, PrivilegedOps
<1>16. ASSUME NEW r \in Requests, CheckAbsent(r) \/ InsertAccount(r)
      PROVE  Goal
  BY <1>1, <1>2, <1>16 DEF CheckAbsent, InsertAccount, Become, Holding, At, Locals, MigrationOps,
     PrivilegedOps
<1>17. ASSUME NEW r \in Requests, AdminCreate(r) \/ SetActive(r)
      PROVE  Goal
  BY <1>1, <1>2, <1>17 DEF AdminCreate, SetActive, Become, Saying, At, Locals, MigrationOps,
     PrivilegedOps
<1>18. ASSUME NEW r \in Requests, Deactivate(r) \/ AdminSetStatus(r)
      PROVE  Goal
  BY <1>1, <1>2, <1>18 DEF Deactivate, AdminSetStatus, Revoke, Become, Saying, At, Locals,
     MigrationOps, PrivilegedOps
<1>19. ASSUME NEW r \in Requests, ReadForToken(r)
      PROVE  Goal
  BY <1>1, <1>2, <1>19 DEF ReadForToken, Become, Holding, At, Locals, MigrationOps, PrivilegedOps
<1> QED
  BY <1>3, <1>4, <1>5, <1>6, <1>7, <1>8, <1>9, <1>10, <1>11, <1>12, <1>13, <1>14, <1>15, <1>16,
     <1>17, <1>18, <1>19 DEF Next

\* Whoever is about to activate the account has seen a repository, which stays.
LEMMA RepoInvStep == TypeOK /\ LocalsFit /\ RepoBeforeActive /\ [Next]_vars => RepoBeforeActive'
<1>1. ASSUME TypeOK, LocalsFit, RepoBeforeActive, Next PROVE RepoBeforeActive'
  BY <1>1, SetActiveStep, RepoStep DEF RepoBeforeActive
<1>2. ASSUME RepoBeforeActive, UNCHANGED vars PROVE RepoBeforeActive'
  BY <1>2 DEF RepoBeforeActive, vars
<1> QED
  BY <1>1, <1>2

\* Only an UPDATE by activateAccount makes an account active that was not.
LEMMA ActivationStep ==
    ASSUME TypeOK, RepoBeforeActive, Next, Exists, row.status # "active", row'.status = "active"
    PROVE  repo
<1>1. ASSUME NEW r \in Requests, SetActive(r) PROVE repo
  BY <1>1 DEF SetActive, At, RepoBeforeActive
<1>2. ASSUME NEW r \in Requests, InsertAccount(r) \/ AdminCreate(r) PROVE FALSE
  BY <1>2 DEF InsertAccount, AdminCreate
<1>3. ASSUME NEW r \in Requests, Deactivate(r) \/ AdminSetStatus(r) \/ WipeRow(r) PROVE FALSE
  BY <1>3 DEF Deactivate, AdminSetStatus, Revoke, NextEra, WipeRow, NoRow
<1>4. ASSUME NEW r \in Requests, AdminSetPassword(r) PROVE FALSE
  BY <1>4 DEF AdminSetPassword, NextEra
<1> QED
  BY <1>1, <1>2, <1>3, <1>4, RowStep

-----------------------------------------------------------------------------
(* Local variables *)

\* The conjunct of LocalsFit for one request.
Fits(local, known) ==
    /\ local.at \in {"load", "consume"} => local.held \in known
    /\ local.held.id # 0 => local.held \in known
    /\ local.at \in {"verify", "insert"} => local.held.id = 0
    /\ local.at = "check_app" => local.op \in MigrationOps \cup PrivilegedOps
    /\ local.at = "approve" => local.op \in Purposes

\* At first no request holds anything.
LEMMA LocalsInit == Init => LocalsFit
BY DEF Init, LocalsFit, Idle, Saying, NoSession

\* Every step leaves local variables that fit the place the request has come to.
LEMMA LocalsStep == TypeOK /\ LocalsFit /\ [Next]_vars => LocalsFit'
<1>1. ASSUME TypeOK, LocalsFit, Next, NEW q \in Requests PROVE Fits(req'[q], sessions')
  <2> DEFINE Goal == Fits(req'[q], sessions')
  <2>1. req \in [Requests -> Locals] /\ req[q] \in Locals /\ Fits(req[q], sessions)
    BY <1>1 DEF TypeOK, LocalsFit, Fits
  <2>2. sessions \subseteq sessions' /\ refresh \subseteq sessions
    BY <1>1, SessionsStep DEF Issue, TypeOK
  <2>3. CASE EndSession
    BY <2>1, <2>2, <2>3 DEF EndSession, Fits, At, NoSession, Locals, MigrationOps, PrivilegedOps
  <2>4. ASSUME NEW r \in Requests, Issue(r) \/ CreateApp(r) \/ RevokeApp(r) \/
              ImportRepo(r)
        PROVE  Goal
    BY <2>1, <2>2, <2>4 DEF Issue, CreateApp, RevokeApp, ImportRepo, Become, Idle, Saying, Fits,
       At, NoSession, Locals, MigrationOps, PrivilegedOps
  <2>5. ASSUME NEW r \in Requests, Announce(r) \/ ApproveToken(r) \/ SignPlcOperation(r)
        PROVE  Goal
    BY <2>1, <2>2, <2>5 DEF Announce, ApproveToken, SignPlcOperation, Become, Idle, Saying, Fits,
       At, NoSession, Locals, MigrationOps, PrivilegedOps
  <2>6. ASSUME NEW r \in Requests, WipeRow(r) \/ GiveUp(r)
        PROVE  Goal
    BY <2>1, <2>2, <2>6 DEF WipeRow, GiveUp, Become, Idle, Saying, Fits, At, NoSession, Locals,
       MigrationOps, PrivilegedOps
  <2>7. ASSUME NEW r \in Requests, PresentPassword(r) \/ Consume(r)
        PROVE  Goal
    BY <2>1, <2>2, <2>7 DEF PresentPassword, Consume, Goto, Fits, At, NoSession, Locals,
       MigrationOps, PrivilegedOps
  <2>8. ASSUME NEW r \in Requests, SeedRepo(r) \/ CheckRepo(r) \/ VerifyForDelete(r)
        PROVE  Goal
    BY <2>1, <2>2, <2>8 DEF SeedRepo, CheckRepo, VerifyForDelete, Goto, Fits, At, NoSession,
       Locals, MigrationOps, PrivilegedOps
  <2>9. ASSUME NEW r \in Requests, SpendDeleteToken(r) \/ WipeRefresh(r) \/ WipeApps(r)
              \/ WipeTokens(r)
        PROVE  Goal
    BY <2>1, <2>2, <2>9 DEF SpendDeleteToken, WipeRefresh, WipeApps, WipeTokens, Goto, Fits, At,
       NoSession, Locals, MigrationOps, PrivilegedOps
  <2>10. ASSUME NEW r \in Requests, AdminSetPassword(r)
        PROVE  Goal
    BY <2>1, <2>2, <2>10 DEF AdminSetPassword, Goto, Fits, At, NoSession, Locals, MigrationOps,
       PrivilegedOps
  <2>11. ASSUME NEW r \in Requests, Purge(r)
        PROVE  Goal
    BY <2>1, <2>2, <2>11 DEF Purge, Goto, Become, Idle, Saying, Fits, At, NoSession, Locals,
       MigrationOps, PrivilegedOps
  <2>12. ASSUME NEW r \in Requests, ReadForLogin(r) \/ PresentAppPassword(r)
        PROVE  Goal
    BY <2>1, <2>2, <2>12 DEF ReadForLogin, PresentAppPassword, Become, Holding, AppCredential,
       Fits, At, NoSession, Locals, MigrationOps, PrivilegedOps
  <2>13. ASSUME NEW r \in Requests, PresentRefreshToken(r) \/ LoadForRefresh(r)
        PROVE  Goal
    BY <2>1, <2>2, <2>13 DEF PresentRefreshToken, LoadForRefresh, Become, Holding, Fits, At,
       NoSession, Locals, MigrationOps, PrivilegedOps
  <2>14. ASSUME NEW r \in Requests, Authorise(r)
        PROVE  Goal
    BY <2>1, <2>2, <2>14 DEF Authorise, Become, Holding, Fits, At, NoSession, Locals,
       MigrationOps, PrivilegedOps
  <2>15. ASSUME NEW r \in Requests, CheckApp(r)
        PROVE  Goal
    BY <2>1, <2>2, <2>15 DEF CheckApp, Become, Holding, Fits, At, NoSession, Locals,
       MigrationOps, PrivilegedOps
  <2>16. ASSUME NEW r \in Requests, CheckAbsent(r) \/ InsertAccount(r)
        PROVE  Goal
    BY <2>1, <2>2, <2>16 DEF CheckAbsent, InsertAccount, Become, Holding, Fits, At, NoSession,
       Locals, MigrationOps, PrivilegedOps
  <2>17. ASSUME NEW r \in Requests, AdminCreate(r) \/ SetActive(r)
        PROVE  Goal
    BY <2>1, <2>2, <2>17 DEF AdminCreate, SetActive, Become, Saying, Fits, At, NoSession, Locals,
       MigrationOps, PrivilegedOps
  <2>18. ASSUME NEW r \in Requests, Deactivate(r) \/ AdminSetStatus(r)
        PROVE  Goal
    BY <2>1, <2>2, <2>18 DEF Deactivate, AdminSetStatus, Revoke, Become, Saying, Fits, At,
       NoSession, Locals, MigrationOps, PrivilegedOps
  <2>19. ASSUME NEW r \in Requests, ReadForToken(r)
        PROVE  Goal
    BY <2>1, <2>2, <2>19 DEF ReadForToken, Become, Holding, Fits, At, NoSession, Locals,
       MigrationOps, PrivilegedOps
  <2> QED
    BY <1>1, <2>3, <2>4, <2>5, <2>6, <2>7, <2>8, <2>9, <2>10, <2>11, <2>12, <2>13, <2>14, <2>15,
       <2>16, <2>17, <2>18, <2>19 DEF Next
<1>2. ASSUME TypeOK, LocalsFit, Next PROVE LocalsFit'
  BY <1>1, <1>2 DEF LocalsFit, Fits
<1>3. ASSUME LocalsFit, UNCHANGED vars PROVE LocalsFit'
  BY <1>3 DEF LocalsFit, vars
<1> QED
  BY <1>2, <1>3

-----------------------------------------------------------------------------
(* Announcements *)

\* Where a request that has something to announce is.
Placed(local) ==
    /\ local.says # "none" => local.at \in {"seed", "purge", "announce"}
    /\ local.at \in {"seed", "announce"} => local.says # "none"

\* A step that neither changes the status nor announces one.
Quiet ==
    /\ row' = row /\ announced' = announced /\ muddled' = muddled
    /\ \A q \in Requests : req'[q].says = req[q].says /\ Placed(req'[q])

\* A step of r after which r has nothing to announce.
Falls(r) ==
    /\ \A q \in Requests \ {r} : req'[q] = req[q]
    /\ req'[r].says = "none" /\ Placed(req'[r])

\* A step of r after which r has the new status of the account to announce.
Rises(r) ==
    /\ \A q \in Requests \ {r} : req'[q] = req[q]
    /\ req'[r].says = row'.status /\ Placed(req'[r])
    /\ muddled' = (muddled \/ Overlaps(r)) /\ row'.status # "none"

\* What AnnouncedInTurn says of one request.
LEMMA PlacedNow == ASSUME AnnouncedInTurn, NEW q \in Requests PROVE Placed(req[q])
BY DEF AnnouncedInTurn, Placed

\* A step that touches neither the status nor an event keeps the order of announcements.
LEMMA QuietKeeps == ASSUME AnnouncedInTurn, Quiet PROVE AnnouncedInTurn'
BY DEF AnnouncedInTurn, Quiet, Placed, StatusIsAnnounced, Exists

\* So does a step that gives one request the new status to announce.
LEMMA RisesKeeps ==
    ASSUME AnnouncedInTurn, TypeOK, NEW r \in Requests, Rises(r)
    PROVE  AnnouncedInTurn'
<1>1. \A q \in Requests : Placed(req'[q])
  BY PlacedNow DEF Rises
<1>2. ~muddled' => ~muddled /\ \A q \in Requests \ {r} : req'[q].says = "none"
  BY DEF Rises, Overlaps
<1>3. req'[r].says # "none" /\ req'[r].says = row'.status
  BY DEF Rises
<1> QED
  BY <1>1, <1>2, <1>3 DEF AnnouncedInTurn, Placed, StatusIsAnnounced

\* Every way a step can be quiet.
LEMMA QuietStep ==
    ASSUME TypeOK, LocalsFit, AnnouncedInTurn, NEW r \in Requests,
           \/ ReadForLogin(r) \/ PresentPassword(r) \/ PresentAppPassword(r)
           \/ Issue(r) \/ PresentRefreshToken(r) \/ LoadForRefresh(r) \/ Consume(r)
           \/ Authorise(r) \/ CheckApp(r) \/ CreateApp(r) \/ RevokeApp(r)
           \/ ImportRepo(r) \/ CheckAbsent(r) \/ SeedRepo(r) \/ CheckRepo(r) \/ ReadForToken(r)
           \/ ApproveToken(r) \/ SignPlcOperation(r) \/ VerifyForDelete(r)
           \/ SpendDeleteToken(r) \/ WipeRefresh(r) \/ WipeApps(r) \/ WipeTokens(r)
    PROVE  Quiet
<1>1. req \in [Requests -> Locals] /\ req[r] \in Locals /\ Placed(req[r])
  BY PlacedNow DEF TypeOK
<1>2. req[r].at = "check_app" => req[r].op \in MigrationOps \cup PrivilegedOps
  BY DEF LocalsFit
<1>3. \A q \in Requests : Placed(req[q])
  BY PlacedNow
<1>4. ASSUME ReadForLogin(r) PROVE Quiet
  BY <1>1, <1>2, <1>3, <1>4 DEF ReadForLogin, Quiet, Placed, At, Become, Goto, Holding, Saying, Idle,
     Locals, MigrationOps, PrivilegedOps
<1>5. ASSUME PresentPassword(r) PROVE Quiet
  BY <1>1, <1>2, <1>3, <1>5 DEF PresentPassword, Quiet, Placed, At, Become, Goto, Holding, Saying, Idle,
     Locals, MigrationOps, PrivilegedOps
<1>6. ASSUME PresentAppPassword(r) PROVE Quiet
  BY <1>1, <1>2, <1>3, <1>6 DEF PresentAppPassword, Quiet, Placed, At, Become, Goto, Holding, Saying, Idle,
     Locals, MigrationOps, PrivilegedOps
<1>7. ASSUME Issue(r) PROVE Quiet
  BY <1>1, <1>2, <1>3, <1>7 DEF Issue, Quiet, Placed, At, Become, Goto, Holding, Saying, Idle,
     Locals, MigrationOps, PrivilegedOps
<1>8. ASSUME PresentRefreshToken(r) PROVE Quiet
  BY <1>1, <1>2, <1>3, <1>8 DEF PresentRefreshToken, Quiet, Placed, At, Become, Goto, Holding, Saying, Idle,
     Locals, MigrationOps, PrivilegedOps
<1>9. ASSUME LoadForRefresh(r) PROVE Quiet
  BY <1>1, <1>2, <1>3, <1>9 DEF LoadForRefresh, Quiet, Placed, At, Become, Goto, Holding, Saying, Idle,
     Locals, MigrationOps, PrivilegedOps
<1>10. ASSUME Consume(r) PROVE Quiet
  BY <1>1, <1>2, <1>3, <1>10 DEF Consume, Quiet, Placed, At, Become, Goto, Holding, Saying, Idle,
     Locals, MigrationOps, PrivilegedOps
<1>11. ASSUME Authorise(r) PROVE Quiet
  BY <1>1, <1>2, <1>3, <1>11 DEF Authorise, Quiet, Placed, At, Become, Goto, Holding, Saying, Idle,
     Locals, MigrationOps, PrivilegedOps
<1>12. ASSUME CheckApp(r) PROVE Quiet
  BY <1>1, <1>2, <1>3, <1>12 DEF CheckApp, Quiet, Placed, At, Become, Goto, Holding, Saying, Idle,
     Locals, MigrationOps, PrivilegedOps
<1>13. ASSUME CreateApp(r) PROVE Quiet
  BY <1>1, <1>2, <1>3, <1>13 DEF CreateApp, Quiet, Placed, At, Become, Goto, Holding, Saying, Idle,
     Locals, MigrationOps, PrivilegedOps
<1>14. ASSUME RevokeApp(r) PROVE Quiet
  BY <1>1, <1>2, <1>3, <1>14 DEF RevokeApp, Quiet, Placed, At, Become, Goto, Holding, Saying, Idle,
     Locals, MigrationOps, PrivilegedOps
<1>15. ASSUME ImportRepo(r) PROVE Quiet
  BY <1>1, <1>2, <1>3, <1>15 DEF ImportRepo, Quiet, Placed, At, Become, Goto, Holding, Saying, Idle,
     Locals, MigrationOps, PrivilegedOps
<1>16. ASSUME CheckAbsent(r) PROVE Quiet
  BY <1>1, <1>2, <1>3, <1>16 DEF CheckAbsent, Quiet, Placed, At, Become, Goto, Holding, Saying, Idle,
     Locals, MigrationOps, PrivilegedOps
<1>17. ASSUME CheckRepo(r) PROVE Quiet
  BY <1>1, <1>2, <1>3, <1>17 DEF CheckRepo, Quiet, Placed, At, Become, Goto, Holding, Saying, Idle,
     Locals, MigrationOps, PrivilegedOps
<1>18. ASSUME ReadForToken(r) PROVE Quiet
  BY <1>1, <1>2, <1>3, <1>18 DEF ReadForToken, Quiet, Placed, At, Become, Goto, Holding, Saying, Idle,
     Locals, MigrationOps, PrivilegedOps
<1>19. ASSUME ApproveToken(r) PROVE Quiet
  BY <1>1, <1>2, <1>3, <1>19 DEF ApproveToken, Quiet, Placed, At, Become, Goto, Holding, Saying, Idle,
     Locals, MigrationOps, PrivilegedOps
<1>20. ASSUME SignPlcOperation(r) PROVE Quiet
  BY <1>1, <1>2, <1>3, <1>20 DEF SignPlcOperation, Quiet, Placed, At, Become, Goto, Holding, Saying, Idle,
     Locals, MigrationOps, PrivilegedOps
<1>21. ASSUME VerifyForDelete(r) PROVE Quiet
  BY <1>1, <1>2, <1>3, <1>21 DEF VerifyForDelete, Quiet, Placed, At, Become, Goto, Holding, Saying, Idle,
     Locals, MigrationOps, PrivilegedOps
<1>22. ASSUME SpendDeleteToken(r) PROVE Quiet
  BY <1>1, <1>2, <1>3, <1>22 DEF SpendDeleteToken, Quiet, Placed, At, Become, Goto, Holding, Saying, Idle,
     Locals, MigrationOps, PrivilegedOps
<1>23. ASSUME WipeRefresh(r) PROVE Quiet
  BY <1>1, <1>2, <1>3, <1>23 DEF WipeRefresh, Quiet, Placed, At, Become, Goto, Holding, Saying, Idle,
     Locals, MigrationOps, PrivilegedOps
<1>24. ASSUME WipeApps(r) PROVE Quiet
  BY <1>1, <1>2, <1>3, <1>24 DEF WipeApps, Quiet, Placed, At, Become, Goto, Holding, Saying, Idle,
     Locals, MigrationOps, PrivilegedOps
<1>25. ASSUME WipeTokens(r) PROVE Quiet
  BY <1>1, <1>2, <1>3, <1>25 DEF WipeTokens, Quiet, Placed, At, Become, Goto, Holding, Saying, Idle,
     Locals, MigrationOps, PrivilegedOps
<1>26. ASSUME SeedRepo(r) PROVE Quiet
  BY <1>1, <1>2, <1>3, <1>26 DEF SeedRepo, Quiet, Placed, At, Become, Goto, Holding, Saying, Idle,
     Locals, MigrationOps, PrivilegedOps
<1> QED
  BY <1>4, <1>5, <1>6, <1>7, <1>8, <1>9, <1>10, <1>11, <1>12, <1>13, <1>14, <1>15, <1>16, <1>17, <1>18, <1>19, <1>20, <1>21, <1>22, <1>23, <1>24, <1>25, <1>26

\* At first row and events agree.
LEMMA AnnouncedInit == Init => AnnouncedInTurn
<1> SUFFICES ASSUME Init PROVE AnnouncedInTurn
  OBVIOUS
<1>1. \A r \in Requests : req[r].says = "none" /\ req[r].at = "idle"
  BY DEF Init, Idle, Saying
<1>2. StatusIsAnnounced
  BY DEF Init, StatusIsAnnounced, Exists, NoRow
<1> QED
  BY <1>1, <1>2 DEF AnnouncedInTurn

\* Whoever has an announcement to make has the one that is due.
LEMMA AnnouncedStep == TypeOK /\ LocalsFit /\ AnnouncedInTurn /\ [Next]_vars => AnnouncedInTurn'
<1> SUFFICES ASSUME TypeOK, LocalsFit, AnnouncedInTurn, [Next]_vars PROVE AnnouncedInTurn'
  OBVIOUS
<1>a. req \in [Requests -> Locals]
  BY DEF TypeOK
<1>1. ASSUME NEW r \in Requests,
           \/ ReadForLogin(r) \/ PresentPassword(r) \/ PresentAppPassword(r)
           \/ Issue(r) \/ PresentRefreshToken(r) \/ LoadForRefresh(r) \/ Consume(r)
           \/ Authorise(r) \/ CheckApp(r) \/ CreateApp(r) \/ RevokeApp(r)
           \/ ImportRepo(r) \/ CheckAbsent(r) \/ SeedRepo(r) \/ CheckRepo(r) \/ ReadForToken(r)
           \/ ApproveToken(r) \/ SignPlcOperation(r) \/ VerifyForDelete(r)
           \/ SpendDeleteToken(r) \/ WipeRefresh(r) \/ WipeApps(r) \/ WipeTokens(r)
      PROVE  AnnouncedInTurn'
  BY <1>1, QuietStep, QuietKeeps
<1>2. CASE EndSession
  BY <1>2, PlacedNow, QuietKeeps DEF EndSession, Quiet
<1>3. ASSUME NEW r \in Requests, NEW status \in Statuses, Revoke(r, status)
      PROVE  AnnouncedInTurn'
  <2>1. Rises(r)
    BY <1>a, <1>3 DEF Revoke, NextEra, Become, Saying, Rises, Placed, Statuses
  <2> QED
    BY <2>1, RisesKeeps
<1>4. ASSUME NEW r \in Requests, Deactivate(r) \/ AdminSetStatus(r) PROVE AnnouncedInTurn'
  BY <1>3, <1>4 DEF Deactivate, AdminSetStatus, Statuses
<1>5. ASSUME NEW r \in Requests, SetActive(r) PROVE AnnouncedInTurn'
  <2>1. row \in Rows /\ row' = [row EXCEPT !.status = "active"]
    BY <1>5 DEF SetActive, TypeOK, Exists, NoRow
  <2>2. row'.status = "active"
    BY <2>1 DEF Rows
  <2>3. Rises(r)
    BY <1>a, <1>5, <2>2 DEF SetActive, Become, Saying, Rises, Placed
  <2> QED
    BY <2>3, RisesKeeps
<1>12. ASSUME NEW r \in Requests, AdminCreate(r) PROVE AnnouncedInTurn'
  <2>1. Rises(r)
    BY <1>a, <1>12 DEF AdminCreate, Become, Saying, Rises, Placed
  <2> QED
    BY <2>1, RisesKeeps
<1>6. ASSUME NEW r \in Requests, AdminSetPassword(r) PROVE AnnouncedInTurn'
  <2>1. row'.status = row.status /\ announced' = announced /\ muddled' = muddled
    BY <1>6 DEF AdminSetPassword, NextEra
  <2>2. \A q \in Requests : req'[q].says = req[q].says /\ Placed(req'[q])
    <3>1. req[r].at = "idle" /\ Placed(req[r]) /\ req[r] \in Locals
      BY <1>6, <1>a, PlacedNow DEF AdminSetPassword, At
    <3>2. req'[r].says = req[r].says /\ Placed(req'[r])
      BY <1>6, <1>a, <3>1 DEF AdminSetPassword, Goto, Placed, Locals
    <3>3. \A q \in Requests \ {r} : req'[q] = req[q]
      BY <1>6, <1>a DEF AdminSetPassword, Goto
    <3> QED
      BY <3>2, <3>3, PlacedNow
  <2> QED
    BY <2>1, <2>2 DEF AnnouncedInTurn, Placed, StatusIsAnnounced, Exists
<1>7. ASSUME NEW r \in Requests, Purge(r) PROVE AnnouncedInTurn'
  <2>1. Placed(req[r]) /\ req[r] \in Locals
    BY <1>a, PlacedNow
  <2>2. req'[r].says = req[r].says /\ Placed(req'[r])
    BY <1>7, <1>a, <2>1 DEF Purge, Goto, Become, Placed, Locals, Idle, Saying
  <2>3. \A q \in Requests \ {r} : req'[q] = req[q]
    BY <1>7, <1>a DEF Purge, Goto, Become
  <2>4. Quiet
    BY <1>7, <2>2, <2>3, PlacedNow DEF Purge, Quiet
  <2> QED
    BY <2>4, QuietKeeps
<1>8. ASSUME NEW r \in Requests, Announce(r) PROVE AnnouncedInTurn'
  <2>1. Falls(r)
    BY <1>8, <1>a DEF Announce, Become, Idle, Saying, Falls, Placed
  <2>2. req[r].says # "none" /\ announced' = req[r].says /\ row' = row /\ muddled' = muddled
    BY <1>8 DEF Announce, At, AnnouncedInTurn
  <2>3. \A q \in Requests : Placed(req'[q])
    BY <2>1, PlacedNow DEF Falls
  <2>4. ~muddled => /\ req[r].says = row.status
                    /\ \A q \in Requests : req'[q].says = "none"
    BY <2>1, <2>2 DEF AnnouncedInTurn, Falls
  <2> QED
    BY <2>2, <2>3, <2>4 DEF AnnouncedInTurn, Placed, StatusIsAnnounced
<1>9. ASSUME NEW r \in Requests, WipeRow(r) \/ InsertAccount(r) PROVE AnnouncedInTurn'
  <2>1. Falls(r)
    BY <1>9, <1>a DEF WipeRow, InsertAccount, Become, Idle, Saying, Holding, Falls, Placed
  <2>2. \A q \in Requests : Placed(req'[q])
    BY <2>1, PlacedNow DEF Falls
  <2>3. ~muddled' => \A q \in Requests : req'[q].says = "none"
    BY <1>9, <2>1 DEF WipeRow, InsertAccount, Overlaps, Falls
  <2>4. row'.status = "none" \/ announced' = "none"
    BY <1>9 DEF WipeRow, InsertAccount, NoRow
  <2> QED
    BY <2>2, <2>3, <2>4 DEF AnnouncedInTurn, Placed, StatusIsAnnounced, Exists
<1>10. ASSUME NEW r \in Requests, GiveUp(r) PROVE AnnouncedInTurn'
  <2>1. Falls(r) /\ row' = row /\ announced' = announced
        /\ muddled' = (muddled \/ req[r].says # "none")
    BY <1>10, <1>a DEF GiveUp, Become, Idle, Saying, Falls, Placed
  <2>2. \A q \in Requests : Placed(req'[q])
    BY <2>1, PlacedNow DEF Falls
  <2>3. ~muddled' => ~muddled /\ \A q \in Requests : req'[q].says = req[q].says
    BY <2>1 DEF Falls
  <2> QED
    BY <2>1, <2>2, <2>3 DEF AnnouncedInTurn, Placed, StatusIsAnnounced, Exists
<1>11. CASE UNCHANGED vars
  BY <1>11 DEF vars, AnnouncedInTurn, StatusIsAnnounced, Exists
<1> QED
  BY <1>1, <1>2, <1>4, <1>5, <1>6, <1>7, <1>8, <1>9, <1>10, <1>11, <1>12 DEF Next

-----------------------------------------------------------------------------
(* App passwords and their sessions *)

\* What a session has of an app password is what the table has; a deletion has
\* left none.
CredentialsFit ==
    /\ SessionsHaveApps
    /\ \A r \in Requests :
          /\ req[r].at = "issue" /\ req[r].held.name # NoName =>
                apps[req[r].held.name] = req[r].held.kind
          /\ req[r].at = "verify" => req[r].held.name = NoName
          /\ req[r].at = "wipe_apps" => \A s \in refresh : s.name = NoName

\* What changes the app passwords.
LEMMA AppsStep ==
    ASSUME Next
    PROVE  \/ apps' = apps
           \/ \E r \in Requests : CreateApp(r) \/ RevokeApp(r) \/ WipeApps(r)
BY DEF Next, EndSession, ReadForLogin, PresentPassword, PresentAppPassword, Issue,
       PresentRefreshToken, LoadForRefresh, Consume, Authorise, CheckApp, ImportRepo, CheckAbsent,
       InsertAccount, AdminCreate, SeedRepo, CheckRepo, SetActive, Deactivate, AdminSetStatus,
       Revoke, AdminSetPassword, Purge, Announce, ReadForToken, ApproveToken, SignPlcOperation,
       VerifyForDelete, SpendDeleteToken, WipeRefresh, WipeTokens, WipeRow, GiveUp

\* How a request comes to the places CredentialsFit speaks of.
LEMMA CredentialStep ==
    ASSUME TypeOK, LocalsFit, CredentialsFit, Next, NEW q \in Requests
    PROVE  /\ req'[q].at = "issue" =>
                 \/ req'[q] = req[q]
                 \/ req'[q].held.name = NoName
                 \/ (Consume(q) /\ req'[q].held = req[q].held)
                 \/ PresentAppPassword(q)
           /\ req'[q].at = "verify" => req'[q] = req[q] \/ req'[q].held.name = NoName
           /\ req'[q].at = "wipe_apps" => req'[q] = req[q] \/ WipeRefresh(q)
<1> DEFINE Goal == /\ req'[q].at = "issue" =>
                         \/ req'[q] = req[q]
                         \/ req'[q].held.name = NoName
                         \/ (Consume(q) /\ req'[q].held = req[q].held)
                         \/ PresentAppPassword(q)
                   /\ req'[q].at = "verify" => req'[q] = req[q] \/ req'[q].held.name = NoName
                   /\ req'[q].at = "wipe_apps" => req'[q] = req[q] \/ WipeRefresh(q)
<1>0. /\ req \in [Requests -> Locals] /\ req[q] \in Locals
      /\ req[q].at = "verify" => req[q].held.name = NoName
      /\ req[q].at = "check_app" => req[q].op \in MigrationOps \cup PrivilegedOps
  BY DEF TypeOK, CredentialsFit, LocalsFit
<1> USE <1>0 DEF At, Locals, MigrationOps, PrivilegedOps
<1>1. CASE EndSession
  BY <1>1 DEF EndSession
<1>2. ASSUME NEW r \in Requests, Issue(r) \/ CreateApp(r) \/ RevokeApp(r) \/ ImportRepo(r) PROVE Goal
  BY <1>2 DEF Issue, CreateApp, RevokeApp, ImportRepo, Become, Idle, Saying
<1>3. ASSUME NEW r \in Requests, Announce(r) \/ ApproveToken(r) \/ SignPlcOperation(r) PROVE Goal
  BY <1>3 DEF Announce, ApproveToken, SignPlcOperation, Become, Idle, Saying
<1>4. ASSUME NEW r \in Requests, WipeRow(r) \/ GiveUp(r) PROVE Goal
  BY <1>4 DEF WipeRow, GiveUp, Become, Idle, Saying
<1>5. ASSUME NEW r \in Requests, PresentPassword(r) \/ Consume(r) PROVE Goal
  BY <1>5 DEF PresentPassword, Consume, Goto
<1>6. ASSUME NEW r \in Requests, SeedRepo(r) \/ CheckRepo(r) \/ VerifyForDelete(r) PROVE Goal
  BY <1>6 DEF SeedRepo, CheckRepo, VerifyForDelete, Goto
<1>7. ASSUME NEW r \in Requests, SpendDeleteToken(r) \/ WipeRefresh(r) PROVE Goal
  BY <1>7 DEF SpendDeleteToken, WipeRefresh, Goto
<1>8. ASSUME NEW r \in Requests, WipeApps(r) \/ WipeTokens(r) PROVE Goal
  BY <1>8 DEF WipeApps, WipeTokens, Goto
<1>9. ASSUME NEW r \in Requests, AdminSetPassword(r) PROVE Goal
  BY <1>9 DEF AdminSetPassword, Goto
<1>10. ASSUME NEW r \in Requests, Purge(r) PROVE Goal
  BY <1>10 DEF Purge, Goto, Become, Idle, Saying
<1>11. ASSUME NEW r \in Requests, ReadForLogin(r) PROVE Goal
  BY <1>11 DEF ReadForLogin, Become, Holding, NoSession
<1>12. ASSUME NEW r \in Requests, PresentAppPassword(r) PROVE Goal
  <2>1. q # r => req'[q] = req[q]
    BY <1>12 DEF PresentAppPassword, Become
  <2>2. req'[r].at = "issue"
    <3>1. PICK n \in Names :
            req' = [req EXCEPT ![r] = Holding("issue", req[r].row, AppCredential(n), "none")]
      BY <1>12 DEF PresentAppPassword, Become
    <3> QED
      BY <3>1 DEF Holding
  <2>3. q = r => Goal
    BY <1>12, <2>2
  <2> QED
    BY <2>1, <2>3
<1>13. ASSUME NEW r \in Requests, PresentRefreshToken(r) \/ LoadForRefresh(r) PROVE Goal
  BY <1>13 DEF PresentRefreshToken, LoadForRefresh, Become, Holding
<1>14. ASSUME NEW r \in Requests, Authorise(r) PROVE Goal
  BY <1>14 DEF Authorise, Become, Holding, NoSession
<1>15. ASSUME NEW r \in Requests, CheckApp(r) PROVE Goal
  BY <1>15 DEF CheckApp, Become, Holding, NoSession
<1>16. ASSUME NEW r \in Requests, CheckAbsent(r) \/ InsertAccount(r) PROVE Goal
  BY <1>16 DEF CheckAbsent, InsertAccount, Become, Holding, NoSession
<1>17. ASSUME NEW r \in Requests, AdminCreate(r) \/ SetActive(r) PROVE Goal
  BY <1>17 DEF AdminCreate, SetActive, Become, Saying
<1>18. ASSUME NEW r \in Requests, Deactivate(r) \/ AdminSetStatus(r) PROVE Goal
  BY <1>18 DEF Deactivate, AdminSetStatus, Revoke, Become, Saying
<1>19. ASSUME NEW r \in Requests, ReadForToken(r) PROVE Goal
  BY <1>19 DEF ReadForToken, Become, Holding, NoSession
<1> HIDE DEF Goal
<1> QED
  BY <1>1, <1>2, <1>3, <1>4, <1>5, <1>6, <1>7, <1>8, <1>9, <1>10, <1>11, <1>12, <1>13, <1>14, <1>15, <1>16, <1>17, <1>18, <1>19 DEF Next, Goal

LEMMA CredentialsStep ==
    ASSUME TypeOK, LocalsFit, CredentialsFit, Next,
           \A r \in Requests :
              /\ \A n \in Names : apps[n] # "none" /\ apps'[n] = "none" => ~Issuing(r, n)
              /\ At(r, "wipe_apps") => \A s \in refresh' \ refresh : s.name = NoName
    PROVE  CredentialsFit'
<1>0. /\ refresh \subseteq Sessions /\ apps \in [Names -> AppKinds \cup {"none"}]
      /\ req \in [Requests -> Locals]
  BY DEF TypeOK
<1>1. ASSUME NEW n \in Names, apps[n] \in Kinds, \A r \in Requests : ~RevokeApp(r) /\ ~WipeApps(r)
      PROVE  apps'[n] = apps[n]
  <2>1. CASE apps' = apps
    BY <2>1
  <2>2. ASSUME NEW r \in Requests, CreateApp(r) PROVE apps'[n] = apps[n]
    <3>1. PICK m \in Names, k \in AppKinds : apps[m] = "none" /\ apps' = [apps EXCEPT ![m] = k]
      BY <2>2 DEF CreateApp
    <3>2. n # m
      BY <1>1, <3>1 DEF Kinds
    <3> QED
      BY <1>0, <3>1, <3>2
  <2> QED
    BY <1>1, <2>1, <2>2, AppsStep
<1>2. ASSUME NEW s \in refresh', s.name # NoName PROVE apps'[s.name] = s.kind
  <2>1. CASE s \in refresh
    <3>1. s.name \in Names /\ s.kind \in Kinds /\ apps[s.name] = s.kind
      BY <1>0, <1>2, <2>1 DEF Sessions, CredentialsFit, SessionsHaveApps
    <3>2. ASSUME NEW r \in Requests, RevokeApp(r) PROVE apps'[s.name] = s.kind
      <4>1. PICK m \in Names : /\ apps' = [apps EXCEPT ![m] = "none"]
                               /\ refresh' = {t \in refresh : t.name # m}
        BY <3>2 DEF RevokeApp
      <4> QED
        BY <1>0, <1>2, <3>1, <4>1
    <3>3. ASSUME NEW r \in Requests, WipeApps(r) PROVE FALSE
      BY <1>2, <2>1, <3>3 DEF WipeApps, At, CredentialsFit
    <3> QED
      BY <1>1, <3>1, <3>2, <3>3
  <2>2. CASE s \notin refresh
    <3>1. PICK r \in Requests : Issue(r)
      BY <1>2, <2>2, SessionsStep
    <3>2. s = NewSession(r) /\ req[r].at = "issue" /\ apps' = apps
      BY <1>2, <2>2, <3>1 DEF Issue, At
    <3>3. s.name = req[r].held.name /\ s.kind = req[r].held.kind
      BY <3>2 DEF NewSession
    <3> QED
      BY <1>2, <3>2, <3>3 DEF CredentialsFit
  <2> QED
    BY <2>1, <2>2
<1>3. ASSUME NEW q \in Requests, req'[q].at = "issue", req'[q].held.name # NoName
      PROVE  apps'[req'[q].held.name] = req'[q].held.kind
  <2>1. CASE req'[q] = req[q]
    <3> DEFINE n == req[q].held.name
    <3>1. n \in Names /\ req[q].held.kind \in Kinds /\ apps[n] = req[q].held.kind
      BY <1>0, <1>3, <2>1 DEF Locals, Sessions, CredentialsFit
    <3>2. Issuing(q, n)
      BY <1>3, <2>1 DEF Issuing, At
    <3>3. apps'[n] # "none"
      BY <3>1, <3>2 DEF Kinds
    <3> HIDE DEF n
    <3>4. ASSUME NEW r \in Requests, RevokeApp(r) PROVE apps'[n] = apps[n]
      <4>1. PICK m \in Names : apps' = [apps EXCEPT ![m] = "none"]
        BY <3>4 DEF RevokeApp
      <4> QED
        BY <1>0, <3>1, <3>3, <4>1
    <3>5. ASSUME NEW r \in Requests, WipeApps(r) PROVE FALSE
      BY <3>1, <3>3, <3>5 DEF WipeApps
    <3>6. apps'[n] = apps[n]
      BY <1>1, <3>1, <3>4, <3>5
    <3> QED
      BY <2>1, <3>1, <3>6 DEF n
  <2>2. CASE Consume(q) /\ req'[q].held = req[q].held
    <3>1. req[q].held \in refresh /\ apps' = apps
      BY <2>2 DEF Consume
    <3> QED
      BY <1>3, <2>2, <3>1 DEF CredentialsFit, SessionsHaveApps
  <2>3. CASE PresentAppPassword(q)
    <3>1. PICK n \in Names : req' = [req EXCEPT ![q] = Holding("issue", req[q].row, AppCredential(n), "none")]
      BY <2>3 DEF PresentAppPassword, Become
    <3>2. req'[q].held = AppCredential(n) /\ apps' = apps
      BY <1>0, <2>3, <3>1 DEF Holding, PresentAppPassword
    <3> QED
      BY <3>2 DEF AppCredential
  <2> QED
    BY <1>3, <2>1, <2>2, <2>3, CredentialStep
<1>4. ASSUME NEW q \in Requests, req'[q].at = "verify" PROVE req'[q].held.name = NoName
  BY <1>4, CredentialStep DEF CredentialsFit
<1>5. ASSUME NEW q \in Requests, req'[q].at = "wipe_apps", NEW s \in refresh'
      PROVE  s.name = NoName
  <2>1. CASE WipeRefresh(q)
    BY <1>5, <2>1 DEF WipeRefresh
  <2>2. CASE req'[q] = req[q]
    BY <1>5, <2>2 DEF CredentialsFit, At
  <2> QED
    BY <1>5, <2>1, <2>2, CredentialStep
<1> QED
  BY <1>2, <1>3, <1>4, <1>5 DEF CredentialsFit, SessionsHaveApps

-----------------------------------------------------------------------------
(* Theorems *)

\* The invariant is inductive.
THEOREM Invariance == Spec => []IInv
<1>1. Init => IInv
  <2> SUFFICES ASSUME Init PROVE IInv
    OBVIOUS
  <2>1. RepoBeforeActive
    BY DEF Init, RepoBeforeActive, Idle, Saying
  <2> QED
    BY <2>1, TypeInit, CopiesInit, IdsInit, LocalsInit, AnnouncedInit DEF IInv
<1>2. IInv /\ [Next]_vars => IInv'
  BY TypeStep, CopiesStep, IdsStep, LocalsStep, ParentsStep, RepoInvStep, AnnouncedStep DEF IInv
<1> QED
  BY <1>1, <1>2, PTL DEF Spec

\* Every variable keeps its type, whatever requests run and fail.
THEOREM TypeCorrect == Spec => []TypeOK
<1>1. IInv => TypeOK
  BY DEF IInv
<1> QED
  BY <1>1, Invariance, PTL

\* A token that is accepted is never older than the last password change,
\* deactivation or takedown.
THEOREM AcceptedStaysCurrent == Spec => []AcceptedIsCurrent
<1>1. IInv => AcceptedIsCurrent
  BY DEF IInv, CopiesAreOld, NotAhead, AcceptedIsCurrent
<1> QED
  BY <1>1, Invariance, PTL

\* No refresh token is exchanged twice.
THEOREM RefreshOnce == Spec => []OneSessionPerRefresh
<1>1. IInv => OneSessionPerRefresh
  BY DEF IInv
<1> QED
  BY <1>1, Invariance, PTL

\* Without lost events and overlapping changes the firehose tells the status.
THEOREM StatusAnnounced == Spec => []StatusIsAnnounced
<1>1. IInv => StatusIsAnnounced
  BY DEF IInv, AnnouncedInTurn, StatusIsAnnounced
<1> QED
  BY <1>1, Invariance, PTL

\* activateAccount makes no account active without a repository.
THEOREM ActivationsHaveRepos == Spec => ActivatedHasRepo
<1>1. IInv /\ [Next]_vars => [Exists /\ row.status # "active" /\ row'.status = "active" => repo]_vars
  <2> SUFFICES ASSUME IInv, Next, Exists, row.status # "active", row'.status = "active" PROVE repo
    OBVIOUS
  <2> QED
    BY ActivationStep DEF IInv
<1> QED
  BY <1>1, Invariance, PTL DEF Spec, ActivatedHasRepo

\* Revoking an app password ends its sessions (store.go, RevokeAppPassword): every
\* refresh token has the app password it was issued for, for any number of
\* requests, as long as none stores a session while its app password goes.
THEOREM RevocationsLast == Spec /\ RevocationsRunAlone => []SessionsHaveApps
<1> DEFINE Alone == \A r \in Requests :
                       /\ \A n \in Names : apps[n] # "none" /\ apps'[n] = "none" => ~Issuing(r, n)
                       /\ At(r, "wipe_apps") => \A s \in refresh' \ refresh : s.name = NoName
<1>1. Init => CredentialsFit
  BY DEF Init, CredentialsFit, SessionsHaveApps, Idle, Saying
<1>2. IInv /\ CredentialsFit /\ [Next]_vars /\ [Alone]_vars => CredentialsFit'
  <2>1. CASE UNCHANGED vars
    BY <2>1 DEF vars, CredentialsFit, SessionsHaveApps
  <2>2. ASSUME IInv, CredentialsFit, Next, Alone PROVE CredentialsFit'
    BY <2>2, CredentialsStep DEF IInv
  <2> QED
    BY <2>1, <2>2
<1>3. CredentialsFit => SessionsHaveApps
  BY DEF CredentialsFit
<1> HIDE DEF Alone
<1> QED
  BY <1>1, <1>2, <1>3, Invariance, PTL DEF Spec, RevocationsRunAlone, Alone
=============================================================================
