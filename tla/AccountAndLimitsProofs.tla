----------------------- MODULE AccountAndLimitsProofs -----------------------
(***************************************************************************)
(* Account, ResendLimit and RateBudget for any people, requests, callers,   *)
(* limits and durations, and whatever the visits of an account ask for.     *)
(*                                                                         *)
(* Account.  A transaction that provisions decides what it will write when  *)
(* it reads the row and writes it when it commits: TermsNeverErased needs   *)
(* that the row has not changed in between, which is what HoldInv says of   *)
(* whoever is about to commit.  LeftInv says of each leftover whose visits  *)
(* met to leave it.  The shapes of rows are there because an EXCEPT keeps a *)
(* field only of a record that has it.                                      *)
(*                                                                         *)
(* ResendLimit.  A request counts in rows that it read before: TxInv says   *)
(* that what it is about to commit still follows from the committed rows,   *)
(* which the locks see to.  WindowAt then relates each row to the history:  *)
(* while a window lasts, its row counts all of its grants, so that a row    *)
(* is only missed (cleaned up, or restarted) when its window is over.       *)
(*                                                                         *)
(* RateBudget.  LimitsHold is not inductive alone: a caller that commits    *)
(* adds one to the rows it locked, so a locked row must still have room.    *)
(* NoLeakedToken needs that the rows it locked are those of its own start.  *)
(* The refinement of TokenBudget: a call is granted, or refused, at the     *)
(* instant its transaction ends, and in the windows of its start.           *)
(***************************************************************************)
EXTENDS Account, ResendLimit, RateBudget, FiniteSetTheorems, TLAPS

LEMMA NilIsNothing == Nil \notin Visits /\ Nil \notin Ids /\ Nil \notin [id : Ids, terms : BOOLEAN]
BY IdsAssumption DEF Ids

ShapeInv ==
  /\ DOMAIN company = Ids /\ DOMAIN holder = Ids
  /\ DOMAIN user = Visits /\ DOMAIN doing = Visits /\ DOMAIN draft = Visits
  /\ company = [u \in Ids |-> company[u]] /\ holder = [u \in Ids |-> holder[u]]
  /\ user = [v \in Visits |-> user[v]] /\ doing = [v \in Visits |-> doing[v]]
  /\ draft = [v \in Visits |-> draft[v]]

RowsInv ==
  /\ users = [p \in People |-> users[p]]
  /\ \A p \in People : users[p] # Nil =>
       /\ users[p].id \in Ids
       /\ users[p] = [id |-> users[p].id, phone |-> users[p].phone]
  /\ \A u \in Ids : company[u] # Nil => company[u] \in [id : Ids, terms : BOOLEAN]

HoldInv ==
  \A v \in Visits : doing[v] = "commit" =>
    /\ user[v] \in Ids /\ holder[user[v]] = v
    /\ draft[v] \in [id : Ids, terms : BOOLEAN]
    /\ company[user[v]] # Nil => /\ draft[v].id = company[user[v]].id
                                 /\ company[user[v]].terms => draft[v].terms

IInv == ShapeInv /\ RowsInv /\ HoldInv

LEMMA InitHolds == AccountInit => IInv
BY DEF AccountInit, IInv, ShapeInv, RowsInv, HoldInv, Ids

LEMMA LiveIsId == ASSUME IInv PROVE Live \subseteq Ids
BY DEF IInv, RowsInv, Live

\* The steps that write no table and leave no transaction behind.
LEMMA VisitMoves ==
  ASSUME IInv, NEW v \in Visits, NEW next, next # "commit", doing[v] # "commit",
         doing' = [doing EXCEPT ![v] = next], UNCHANGED <<company, holder, draft>>,
         \E u : user' = [user EXCEPT ![v] = u],
         RowsInv'
  PROVE  IInv' /\ KeepsTerms
<1>1. PICK u : user' = [user EXCEPT ![v] = u]
  OBVIOUS
<1>2. ShapeInv'
  BY <1>1 DEF IInv, ShapeInv
<1>3. HoldInv'
  BY <1>1 DEF IInv, ShapeInv, HoldInv
<1>4. KeepsTerms
  BY DEF KeepsTerms
<1> QED BY <1>2, <1>3, <1>4 DEF IInv

\* The steps that may give a row back, or take one, and write no company.
LEMMA HoldersMove ==
  ASSUME IInv, NEW v \in Visits, NEW next, next # "commit",
         doing' = [doing EXCEPT ![v] = next], UNCHANGED <<users, company, user, draft>>,
         holder' = [u \in Ids |-> holder'[u]],
         \A w \in Visits \ {v} : \A u \in Ids : holder[u] = w => holder'[u] = w
  PROVE  IInv' /\ KeepsTerms
<1>1. ShapeInv'
  BY DEF IInv, ShapeInv
<1>2. HoldInv'
  BY DEF IInv, ShapeInv, HoldInv
<1>3. RowsInv'
  BY DEF IInv, RowsInv
<1>4. KeepsTerms
  BY DEF KeepsTerms
<1> QED BY <1>1, <1>2, <1>3, <1>4 DEF IInv

\* A sign-up, and what sets a phone, keep the rows of people well shaped.
LEMMA PhonesKeepRows ==
  ASSUME IInv, NEW v \in Visits, UNCHANGED company,
         \/ \E x : NewUser(v, x)
         \/ users' = [p \in People |-> IF users[p] # Nil /\ users[p].id = user[v]
                         THEN [users[p] EXCEPT !.phone = plan[v].phone] ELSE users[p]]
         \/ UNCHANGED users
  PROVE  RowsInv'
<1>1. CASE \E x : NewUser(v, x)
  BY <1>1 DEF IInv, RowsInv, NewUser, Ids
<1>2. CASE users' = [p \in People |-> IF users[p] # Nil /\ users[p].id = user[v]
                       THEN [users[p] EXCEPT !.phone = plan[v].phone] ELSE users[p]]
  BY <1>2 DEF IInv, RowsInv
<1>3. CASE UNCHANGED users
  BY <1>3 DEF IInv, RowsInv
<1> QED BY <1>1, <1>2, <1>3

\* The two steps of a provisioning: what is decided, and what is written.
LEMMA ProvisionKeeps ==
  ASSUME IInv, NEW v \in Visits, Provision(v)
  PROVE  IInv' /\ KeepsTerms
<1> DEFINE row == company[user[v]]  given == plan[v].kind # "google"
<1>1. user[v] \in Ids /\ holder[user[v]] = Nil
  BY LiveIsId DEF Provision
<1>2. ShapeInv' /\ RowsInv' /\ KeepsTerms
  BY DEF Provision, To, IInv, ShapeInv, RowsInv, KeepsTerms
<1>3. /\ draft'[v] \in [id : Ids, terms : BOOLEAN]
      /\ row # Nil => draft'[v].id = row.id /\ (row.terms => draft'[v].terms)
  <2>1. CASE row = Nil
    BY <2>1 DEF Provision, IInv, ShapeInv, Ids
  <2>2. CASE row # Nil
    <3>1. row \in [id : Ids, terms : BOOLEAN]
      BY <1>1, <2>2 DEF IInv, RowsInv
    <3>2. draft'[v] = [row EXCEPT !.terms = row.terms \/ given]
      BY <2>2 DEF Provision, IInv, ShapeInv, Terms
    <3> QED BY <3>1, <3>2
  <2> QED BY <2>1, <2>2
<1>4. HoldInv'
  <2> SUFFICES ASSUME NEW w \in Visits, doing'[w] = "commit"
               PROVE  /\ user[w] \in Ids /\ holder'[user[w]] = w
                      /\ draft'[w] \in [id : Ids, terms : BOOLEAN]
                      /\ company[user[w]] # Nil =>
                           /\ draft'[w].id = company[user[w]].id
                           /\ company[user[w]].terms => draft'[w].terms
    BY DEF HoldInv, Provision
  <2>1. CASE w = v
    BY <1>1, <1>3, <2>1 DEF Provision, IInv, ShapeInv
  <2>2. CASE w # v
    BY <1>1, <2>2, NilIsNothing DEF Provision, To, IInv, ShapeInv, HoldInv
  <2> QED BY <2>1, <2>2
<1> QED BY <1>2, <1>4 DEF IInv

LEMMA CommitCompanyKeeps ==
  ASSUME IInv, NEW v \in Visits, CommitCompany(v)
  PROVE  IInv' /\ KeepsTerms
<1>1. /\ user[v] \in Ids /\ holder[user[v]] = v
      /\ draft[v] \in [id : Ids, terms : BOOLEAN]
      /\ company[user[v]] # Nil => /\ draft[v].id = company[user[v]].id
                                   /\ company[user[v]].terms => draft[v].terms
  BY DEF CommitCompany, IInv, HoldInv
<1>2. ShapeInv'
  BY DEF CommitCompany, To, IInv, ShapeInv
<1>3. company' = [company EXCEPT ![user[v]] = draft[v]]
  BY DEF CommitCompany
<1>4. RowsInv'
  BY <1>1, <1>3 DEF CommitCompany, IInv, ShapeInv, RowsInv
<1>5. HoldInv'
  <2> SUFFICES ASSUME NEW w \in Visits, doing'[w] = "commit"
               PROVE  /\ user[w] \in Ids /\ holder'[user[w]] = w
                      /\ draft[w] \in [id : Ids, terms : BOOLEAN]
                      /\ company'[user[w]] # Nil =>
                           /\ draft[w].id = company'[user[w]].id
                           /\ company'[user[w]].terms => draft[w].terms
    BY DEF HoldInv, CommitCompany
  <2>1. w # v /\ doing[w] = "commit"
    BY DEF CommitCompany, To, IInv, ShapeInv
  <2>2. user[w] # user[v]
    BY <1>1, <2>1 DEF IInv, HoldInv
  <2>3. holder'[user[w]] = holder[user[w]] /\ company'[user[w]] = company[user[w]]
    BY <2>1, <2>2 DEF CommitCompany, IInv, ShapeInv, HoldInv
  <2> QED BY <2>1, <2>3 DEF IInv, HoldInv
<1>6. KeepsTerms
  <2> SUFFICES ASSUME NEW u \in Ids, company[u] # Nil, company'[u] # Nil,
    company[u].terms
               PROVE  company'[u].terms
    BY DEF KeepsTerms
  <2>1. CASE u = user[v]
    BY <1>1, <1>3, <2>1 DEF IInv, ShapeInv
  <2>2. CASE u # user[v]
    BY <1>3, <2>2 DEF IInv, ShapeInv
  <2> QED BY <2>1, <2>2
<1> QED BY <1>2, <1>4, <1>5, <1>6 DEF IInv

LEMMA CommitDropKeeps ==
  ASSUME IInv, NEW v \in Visits, CommitDrop(v)
  PROVE  IInv' /\ KeepsTerms
<1>1. ShapeInv'
  BY DEF CommitDrop, To, IInv, ShapeInv
<1>2. RowsInv'
  BY DEF CommitDrop, IInv, ShapeInv, RowsInv
<1>3. HoldInv'
  BY DEF CommitDrop, To, IInv, ShapeInv, HoldInv
<1>4. KeepsTerms
  BY DEF CommitDrop, IInv, ShapeInv, KeepsTerms
<1> QED BY <1>1, <1>2, <1>3, <1>4 DEF IInv

LEMMA DropUserKeeps ==
  ASSUME IInv, NEW v \in Visits, DropUser(v)
  PROVE  IInv' /\ KeepsTerms
<1>1. ShapeInv'
  BY DEF DropUser, To, IInv, ShapeInv
<1>2. RowsInv'
  BY DEF DropUser, IInv, ShapeInv, RowsInv
<1>3. HoldInv'
  BY NilIsNothing DEF DropUser, To, IInv, ShapeInv, HoldInv
<1>4. KeepsTerms
  BY DEF DropUser, IInv, ShapeInv, KeepsTerms
<1> QED BY <1>1, <1>2, <1>3, <1>4 DEF IInv

LEMMA NextKeeps == ASSUME IInv, AccountNext PROVE IInv' /\ KeepsTerms
<1> SUFFICES ASSUME NEW v \in Visits,
                    \/ Arrive(v) \/ ResolveCompany(v) \/ CheckPhone(v) \/ CheckEmail(v)
                    \/ SignUp(v) \/ NativeSignUp(v) \/ GoogleSignIn(v) \/ SetPhone(v)
                    \/ Provision(v) \/ CommitCompany(v) \/ ProvisionFails(v)
                    \/ WriteLoose(v) \/ WriteLink(v)
                    \/ Purge(v) \/ DropCompany(v) \/ CommitDrop(v) \/ DropUser(v)
                    \/ DeletionFails(v)
             PROVE  IInv' /\ KeepsTerms
  BY DEF AccountNext
<1>1. UNCHANGED user => \E u : user' = [user EXCEPT ![v] = u]
  <2>1. user = [user EXCEPT ![v] = user[v]]
    BY DEF IInv, ShapeInv
  <2> QED BY <2>1
<1>2. CASE Arrive(v)
  <2>1. RowsInv'
    BY <1>2, PhonesKeepRows DEF Arrive, KeepTables
  <2>2. PICK next : next # "commit" /\ doing' = [doing EXCEPT ![v] = next]
    BY <1>2 DEF Arrive, To
  <2> QED BY <1>2, <2>1, <2>2, VisitMoves DEF Arrive, KeepTables
<1>3. CASE ResolveCompany(v)
  <2>1. RowsInv'
    BY <1>3, PhonesKeepRows DEF ResolveCompany, KeepTables
  <2>2. PICK next : next # "commit" /\ doing' = [doing EXCEPT ![v] = next]
    BY <1>3 DEF ResolveCompany, To
  <2> QED BY <1>1, <1>3, <2>1, <2>2, VisitMoves DEF ResolveCompany, KeepTables
<1>4. CASE CheckPhone(v) \/ CheckEmail(v)
  <2>1. RowsInv'
    BY <1>4, PhonesKeepRows DEF CheckPhone, CheckEmail, KeepTables
  <2>2. PICK next : next # "commit" /\ doing' = [doing EXCEPT ![v] = next]
    BY <1>4 DEF CheckPhone, CheckEmail, To
  <2> QED BY <1>1, <1>4, <2>1, <2>2, VisitMoves DEF CheckPhone, CheckEmail, KeepTables
<1>5. CASE SignUp(v)
  <2>1. RowsInv'
    BY <1>5, PhonesKeepRows DEF SignUp
  <2>2. PICK next : next # "commit" /\ doing' = [doing EXCEPT ![v] = next]
    BY <1>5 DEF SignUp, To
  <2> QED BY <1>1, <1>5, <2>1, <2>2, VisitMoves DEF SignUp
<1>6. CASE GoogleSignIn(v)
  <2>1. RowsInv'
    BY <1>6, PhonesKeepRows DEF GoogleSignIn
  <2>2. PICK next : next # "commit" /\ doing' = [doing EXCEPT ![v] = next]
    BY <1>6 DEF GoogleSignIn, To, Hooked
  <2> QED BY <1>1, <1>6, <2>1, <2>2, VisitMoves DEF GoogleSignIn
<1>15. CASE NativeSignUp(v)
  <2>1. RowsInv'
    BY <1>15, PhonesKeepRows DEF NativeSignUp
  <2>2. PICK next : next # "commit" /\ doing' = [doing EXCEPT ![v] = next]
    BY <1>15 DEF NativeSignUp, To, Hooked
  <2> QED BY <1>1, <1>15, <2>1, <2>2, VisitMoves DEF NativeSignUp
<1>7. CASE SetPhone(v)
  <2>1. RowsInv'
    BY <1>7, PhonesKeepRows DEF SetPhone
  <2>2. PICK next : next # "commit" /\ doing' = [doing EXCEPT ![v] = next]
    BY <1>7 DEF SetPhone, To
  <2> QED BY <1>1, <1>7, <2>1, <2>2, VisitMoves DEF SetPhone
<1>8. CASE WriteLoose(v) \/ WriteLink(v)
  <2>1. RowsInv'
    BY <1>8, PhonesKeepRows DEF WriteLoose, WriteLink
  <2>2. PICK next : next # "commit" /\ doing' = [doing EXCEPT ![v] = next]
    BY <1>8 DEF WriteLoose, WriteLink, To
  <2> QED BY <1>1, <1>8, <2>1, <2>2, VisitMoves DEF WriteLoose, WriteLink
<1>9. CASE Purge(v)
  <2>1. RowsInv'
    BY <1>9, PhonesKeepRows DEF Purge, KeepTables
  <2> QED BY <1>1, <1>9, <2>1, VisitMoves DEF Purge, To, KeepTables
<1>10. CASE ProvisionFails(v) \/ DropCompany(v) \/ DeletionFails(v)
  <2>1. PICK next : next # "commit" /\ doing' = [doing EXCEPT ![v] = next]
    BY <1>10 DEF ProvisionFails, DropCompany, DeletionFails, To
  <2>2. holder' = [u \in Ids |-> holder'[u]]
    BY <1>10 DEF ProvisionFails, DropCompany, DeletionFails, IInv, ShapeInv
  <2>3. \A w \in Visits \ {v} : \A u \in Ids : holder[u] = w => holder'[u] = w
    BY <1>10, NilIsNothing DEF ProvisionFails, DropCompany, DeletionFails, IInv,
      ShapeInv
  <2> QED BY <1>10, <2>1, <2>2, <2>3, HoldersMove DEF ProvisionFails, DropCompany,
    DeletionFails
<1>11. CASE Provision(v)
  BY <1>11, ProvisionKeeps
<1>12. CASE CommitCompany(v)
  BY <1>12, CommitCompanyKeeps
<1>13. CASE CommitDrop(v)
  BY <1>13, CommitDropKeeps
<1>14. CASE DropUser(v)
  BY <1>14, DropUserKeeps
<1> QED BY <1>2, <1>3, <1>4, <1>5, <1>6, <1>7, <1>8, <1>9, <1>10, <1>11, <1>12, <1>13, <1>14, <1>15

(* Rows keep their shape, and whoever is about to commit a provisioning      *)
(* still has the row of the user, as it was when it was read.                *)
THEOREM Invariance == AccountSpec => []IInv
<1>1. AccountInit => IInv
  BY InitHolds
<1>2. IInv /\ [AccountNext]_accountVars => IInv'
  <2>1. ASSUME IInv, UNCHANGED accountVars PROVE IInv'
    BY <2>1 DEF IInv, ShapeInv, RowsInv, HoldInv, accountVars
  <2> QED BY <2>1, NextKeeps
<1> QED BY <1>1, <1>2, PTL DEF AccountSpec

(* Whatever requests of one person overlap, a company that stays keeps the   *)
(* acceptance of its terms (provisionEnterpriseForUser).                     *)
THEOREM TermsAreKept == AccountSpec => TermsNeverErased
<1>1. IInv /\ [AccountNext]_accountVars => [KeepsTerms]_accountVars
  BY NextKeeps
<1> QED BY <1>1, Invariance, PTL DEF AccountSpec, TermsNeverErased

-----------------------------------------------------------------------------
\* NoCompanyHasACause: a visit that provisions or deletes leaves its step
\* only with a company written, the user gone, or the user among `stranded',
\* and a user is taken from there only with a company written.
Mends(u) == \E v \in Visits : user[v] = u /\ doing[v] \in {"provision", "commit", "dropUser"}

LEMMA OthersMend ==
  ASSUME IInv, NEW v \in Visits, NEW next, doing' = [doing EXCEPT ![v] = next],
         NEW u, Mends(u),
         \A w \in Visits \ {v} : user'[w] = user[w],
         \/ doing[v] \notin {"provision", "commit", "dropUser"}
         \/ user[v] # u
         \/ user'[v] = user[v] /\ next \in {"provision", "commit", "dropUser"}
  PROVE  Mends(u)'
BY DEF IInv, ShapeInv, Mends

LEMMA NextMends ==
  ASSUME IInv, NoCompanyHasACause, AccountNext
  PROVE  NoCompanyHasACause'
<1> SUFFICES ASSUME NEW v \in Visits,
                    \/ Arrive(v) \/ ResolveCompany(v) \/ CheckPhone(v) \/ CheckEmail(v)
                    \/ SignUp(v) \/ NativeSignUp(v) \/ GoogleSignIn(v) \/ SetPhone(v)
                    \/ Provision(v) \/ CommitCompany(v) \/ ProvisionFails(v)
                    \/ WriteLoose(v) \/ WriteLink(v)
                    \/ Purge(v) \/ DropCompany(v) \/ CommitDrop(v) \/ DropUser(v)
                    \/ DeletionFails(v),
                    NEW u \in Live', company'[u] = Nil, u \notin stranded'
             PROVE  Mends(u)'
  BY DEF AccountNext, NoCompanyHasACause, Mends
<1>1. ASSUME u \in Live, company[u] = Nil, u \notin stranded PROVE Mends(u)
  BY <1>1 DEF NoCompanyHasACause, Mends
<1>2. CASE Arrive(v)
  <2>1. PICK next : doing' = [doing EXCEPT ![v] = next]
    BY <1>2 DEF Arrive, To
  <2>2. Mends(u)
    BY <1>1, <1>2 DEF Arrive, KeepTables, Live
  <2> QED BY <1>2, <2>1, <2>2, OthersMend DEF Arrive, IInv, ShapeInv
<1>3. CASE ResolveCompany(v) \/ CheckPhone(v) \/ CheckEmail(v) \/ WriteLoose(v)
           \/ WriteLink(v) \/ Purge(v) \/ DropCompany(v)
  <2>1. PICK next : doing' = [doing EXCEPT ![v] = next]
    BY <1>3 DEF ResolveCompany, CheckPhone, CheckEmail, WriteLoose, WriteLink, Purge,
      DropCompany, To
  <2>2. UNCHANGED <<users, company, user, stranded>> /\ doing[v] \notin {"provision", "commit", "dropUser"}
    BY <1>3 DEF ResolveCompany, CheckPhone, CheckEmail, WriteLoose, WriteLink, Purge,
      DropCompany,
                KeepTables
  <2>3. Mends(u)
    BY <1>1, <2>2 DEF Live
  <2> QED BY <2>1, <2>2, <2>3, OthersMend
<1>4. CASE SignUp(v) \/ GoogleSignIn(v)
  <2>1. PICK next : doing' = [doing EXCEPT ![v] = next]
    BY <1>4 DEF SignUp, GoogleSignIn, To
  <2>2. /\ \A w \in Visits \ {v} : user'[w] = user[w]
        /\ doing[v] \in {"signUp", "google"} /\ UNCHANGED <<company, stranded>>
    BY <1>4 DEF SignUp, GoogleSignIn, IInv, ShapeInv
  <2>3. CASE u \in Live
    BY <1>1, <2>1, <2>2, <2>3, OthersMend
  <2>4. CASE u \notin Live
    <3>1. \E phone : NewUser(v, phone)
      BY <1>4, <2>4 DEF SignUp, GoogleSignIn, Live
    <3>2. u = v
      BY <3>1, <2>4 DEF NewUser, Live, IInv, RowsInv
    <3>3. user'[v] = v /\ doing'[v] = "provision"
      <4>1. CASE SignUp(v) /\ UNCHANGED users
        BY <2>4, <4>1 DEF Live
      <4>2. CASE SignUp(v) /\ ~UNCHANGED users
        BY <4>2 DEF SignUp, To, IInv, ShapeInv
      <4>3. CASE GoogleSignIn(v)
        BY <2>4, <4>3 DEF GoogleSignIn, To, Hooked, Live, IInv, ShapeInv
      <4> QED BY <1>4, <4>1, <4>2, <4>3
    <3> QED BY <3>2, <3>3 DEF Mends
  <2> QED BY <2>3, <2>4
<1>11. CASE NativeSignUp(v)
  <2>1. PICK next : doing' = [doing EXCEPT ![v] = next]
    BY <1>11 DEF NativeSignUp, To
  <2>2. /\ \A w \in Visits \ {v} : user'[w] = user[w]
        /\ doing[v] = "nativeSignUp" /\ UNCHANGED company /\ u \notin stranded
    BY <1>11 DEF NativeSignUp, IInv, ShapeInv
  <2>3. CASE u \in Live
    BY <1>1, <2>1, <2>2, <2>3, OthersMend
  <2>4. CASE u \notin Live
    <3>1. u = v
      BY <1>11, <2>4 DEF NativeSignUp, NewUser, Live, IInv, RowsInv
    <3>2. u \in stranded'
      BY <1>11, <2>4, <3>1 DEF NativeSignUp, Live
    <3> QED BY <3>2
  <2> QED BY <2>3, <2>4
<1>5. CASE SetPhone(v)
  <2>1. PICK next : doing' = [doing EXCEPT ![v] = next]
    BY <1>5 DEF SetPhone, To
  <2>2. UNCHANGED <<company, user, stranded>> /\ doing[v] = "setPhone"
    BY <1>5 DEF SetPhone
  <2>3. u \in Live
    BY <1>5 DEF SetPhone, Live, IInv, RowsInv
  <2> QED BY <1>1, <2>1, <2>2, <2>3, OthersMend
<1>6. CASE Provision(v)
  <2>1. doing' = [doing EXCEPT ![v] = "commit"] /\ UNCHANGED <<users, company, user, stranded>>
    BY <1>6 DEF Provision, To
  <2> QED BY <1>1, <2>1, OthersMend DEF Live
<1>7. CASE CommitCompany(v)
  <2>1. PICK next : doing' = [doing EXCEPT ![v] = next]
    BY <1>7 DEF CommitCompany, To
  <2>2. /\ UNCHANGED <<users, user>> /\ stranded' = stranded \ {user[v]}
        /\ company' = [company EXCEPT ![user[v]] = draft[v]]
    BY <1>7 DEF CommitCompany
  <2>3. draft[v] # Nil
    BY <1>7, NilIsNothing DEF CommitCompany, IInv, HoldInv
  <2>4. u \in Ids
    BY <2>2, LiveIsId DEF Live
  <2>5. user[v] # u /\ company[u] = Nil
    BY <2>2, <2>3, <2>4 DEF IInv, ShapeInv
  <2> QED BY <1>1, <2>1, <2>2, <2>5, OthersMend DEF Live
<1>8. CASE ProvisionFails(v) \/ DeletionFails(v)
  <2>1. PICK next : doing' = [doing EXCEPT ![v] = next]
    BY <1>8 DEF ProvisionFails, DeletionFails, To
  <2>2. /\ UNCHANGED <<users, company, user>> /\ u \notin stranded
        /\ doing[v] \in {"provision", "commit", "dropUser"} => user[v] # u
    BY <1>8 DEF ProvisionFails, DeletionFails
  <2> QED BY <1>1, <2>1, <2>2, OthersMend DEF Live
<1>9. CASE CommitDrop(v)
  <2>1. doing' = [doing EXCEPT ![v] = "dropUser"] /\ UNCHANGED <<users, user, stranded>>
        /\ doing[v] = "commitDrop"
    BY <1>9 DEF CommitDrop, To
  <2>2. CASE user[v] = u
    BY <2>1, <2>2 DEF Mends, IInv, ShapeInv
  <2>3. CASE user[v] # u
    <3>1. u \in Live /\ u \in Ids
      BY <2>1, LiveIsId DEF Live
    <3>2. company[u] = Nil
      BY <1>9, <2>3, <3>1 DEF CommitDrop, IInv, ShapeInv
    <3> QED BY <1>1, <2>1, <3>1, <3>2, OthersMend
  <2> QED BY <2>2, <2>3
<1>10. CASE DropUser(v)
  <2>1. doing' = [doing EXCEPT ![v] = "done"] /\ UNCHANGED <<user, stranded>>
    BY <1>10 DEF DropUser, To
  <2>2. u \in Live /\ u # user[v]
    BY <1>10 DEF DropUser, Live
  <2>3. company[u] = Nil
    BY <1>10, <2>2 DEF DropUser, IInv, ShapeInv
  <2> QED BY <1>1, <2>1, <2>2, <2>3, OthersMend
<1> QED BY <1>2, <1>3, <1>4, <1>5, <1>6, <1>7, <1>8, <1>9, <1>10, <1>11

(* A user without company is being provisioned or deleted; or signed up at    *)
(* Better Auth's own route, or one of the two stopped half-way, and no        *)
(* provisioning has been committed since: no order of the requests loses the *)
(* company of a user who keeps the account, and registerBetter and the hook  *)
(* of Google leave nobody without.                                           *)
THEOREM NobodyIsForgotten == AccountSpec => []NoCompanyHasACause
<1>1. AccountInit => NoCompanyHasACause
  <2> SUFFICES ASSUME AccountInit, NEW u \in Live, company[u] = Nil PROVE u \in stranded
    BY DEF NoCompanyHasACause
  <2>1. PICK first \in {"nobody", "member", "unprovisioned"}, p \in People :
          /\ users = [q \in People |-> IF q = p /\ first # "nobody" THEN [id |-> OldUser, phone |-> Nil] ELSE Nil]
          /\ company = [x \in Ids |-> IF x = OldUser /\ first = "member"
                                        THEN [id |-> OldCompany, terms |-> TRUE] ELSE Nil]
          /\ stranded = IF first = "unprovisioned" THEN {OldUser} ELSE {}
    BY DEF AccountInit
  <2>2. PICK q \in People : users[q] # Nil /\ u = users[q].id
    BY DEF Live
  <2>3. first # "nobody" /\ u = OldUser
    <3>1. users[q] = IF q = p /\ first # "nobody" THEN [id |-> OldUser, phone |-> Nil] ELSE Nil
      BY <2>1
    <3>2. q = p /\ first # "nobody"
      BY <2>2, <3>1
    <3> QED BY <2>2, <3>1, <3>2
  <2>4. [id |-> OldCompany, terms |-> TRUE] # Nil /\ OldUser \in Ids
    <3>1. [id |-> OldCompany, terms |-> TRUE] \in [id : Ids, terms : BOOLEAN]
      BY DEF Ids
    <3> QED BY <3>1, NilIsNothing DEF Ids
  <2>5. first # "member"
    BY <2>1, <2>3, <2>4
  <2> QED BY <2>1, <2>3, <2>5
<1>2. IInv /\ NoCompanyHasACause /\ [AccountNext]_accountVars => NoCompanyHasACause'
  <2>1. ASSUME NoCompanyHasACause, UNCHANGED accountVars
        PROVE NoCompanyHasACause'
    BY <2>1 DEF NoCompanyHasACause, Live, accountVars
  <2> QED BY <2>1, NextMends
<1> QED BY <1>1, <1>2, Invariance, PTL DEF AccountSpec

-----------------------------------------------------------------------------
\* LeftoversMeanOverlap: a deletion purges when it begins and drops the company
\* and the user later.  What is written in between is by visits that it met,
\* for they are of the same person; what was there before is in its hands.
Busy(v) == doing[v] \notin {"new"} \cup AccountEnds
Deleting(v) == doing[v] \in {"purge", "drop", "commitDrop", "dropUser"}
Drops(v) == doing[v] \in {"drop", "commitDrop", "dropUser"}

\* What a visit writes without foreign key, or has written.
Leaves(v) == IF plan[v].kind = "forgot" THEN user[v] ELSE owned[v]
Writing(v) == doing[v] \in {"write", "link"}

\* The rest of the shapes; what is asked for is one of Plans.
FormInv ==
  /\ DOMAIN owned = Visits /\ DOMAIN plan = Visits /\ DOMAIN doomed = Visits
  /\ \A v \in Visits : doing[v] # "new" => plan[v] \in Plans /\ Who(v) \in People

\* The user of a visit is Nil until it is read or created; a user that a visit
\* created is that visit's own.
UserInv ==
  /\ \A v \in Visits : user[v] \in Ids \cup {Nil} /\ (user[v] \in Visits => user[user[v]] = user[v])
  /\ \A p \in People : users[p] # Nil /\ users[p].id \in Visits => user[users[p].id] = users[p].id
  /\ \A v \in Visits :
       \/ doing[v] \notin {"new", "google", "checkPhone", "checkEmail", "signUp", "nativeSignUp"}
       \/ doing[v] = "checkPhone" /\ plan[v].kind # "register"
       \/ user[v] = Nil
  /\ \A v \in Visits : Writing(v) \/ Deleting(v) \/ doing[v] = "company" => user[v] # Nil

\* Whoever reads a user reads it by the address of the person.
PersonInv ==
  /\ \A v, w \in Visits : user[v] = user[w] /\ user[v] # Nil => Who(v) = Who(w)
  /\ \A v \in Visits, p \in People : users[p] # Nil /\ users[p].id = user[v] => Who(v) = p
  /\ \A p, q \in People : users[p] # Nil /\ users[q] # Nil /\ users[p].id = users[q].id => p = q

\* Visits of one person that are in progress together have met.
MeetInv ==
  /\ \A v, w \in Visits : v # w /\ Busy(v) /\ Busy(w) /\ Who(v) = Who(w) => {v, w} \in meetings
  /\ \A v, w \in Visits : {v, w} \in meetings => doing[v] # "new"

\* The company c was, or is, that of the user u.
CompanyOf(c, u) ==
  \/ c = OldCompany /\ u = OldUser
  \/ c \in Visits /\ user[c] = u /\ u # Nil /\ doing[c] \in AccountEnds

\* Rows and what was read of them name the company of their user, and a draft
\* without a row to update is a company of its own.
CompanyInv ==
  /\ \A u \in Ids : company[u] # Nil => CompanyOf(company[u].id, u)
  /\ \A v \in Visits : owned[v] # Nil => CompanyOf(owned[v], user[v])
  /\ \A v \in Visits : doing[v] = "commit" /\ company[user[v]] = Nil => draft[v].id = v

\* What is about to be written has an owner still, or met the deletion.
WriteInv ==
  /\ \A v \in Visits : Writing(v) =>
       (doing[v] = "link" <=> plan[v].kind = "forgot") /\ Leaves(v) # Nil
  /\ \A v \in Visits : doing[v] = "company" => plan[v].kind # "forgot"
  /\ \A v \in Visits : Writing(v) => Belongs(v, Leaves(v)) \/ Met(v, "delete")

\* Who wrote a row has ended, and the row names what it read.
LooseInv ==
  \A x \in loose : x.by \in Visits /\ doing[x.by] \in AccountEnds /\ x.of = Leaves(x.by) /\ x.of # Nil

\* Since its purge, a deletion has in hand, or has deleted, all that was written
\* for its user by whom it did not meet.
DropInv ==
  \A v \in Visits : Deleting(v) =>
    /\ plan[v].kind = "delete"
    /\ Drops(v) => \A x \in loose : user[x.by] = user[v] =>
         Met(x.by, "delete") \/ (doing[v] # "dropUser" /\ x \in doomed[v])

\* LeftoversMeanOverlap with what it needs, beside IInv.
LeftInv ==
  /\ FormInv /\ UserInv /\ PersonInv /\ MeetInv /\ CompanyInv /\ WriteInv /\ LooseInv /\ DropInv
  /\ LeftoversMeanOverlap

\* The disjuncts of AccountNext.
VisitStep(v) ==
  \/ Arrive(v) \/ ResolveCompany(v) \/ CheckPhone(v) \/ CheckEmail(v) \/ SignUp(v) \/ NativeSignUp(v)
  \/ GoogleSignIn(v) \/ SetPhone(v) \/ Provision(v) \/ CommitCompany(v) \/ ProvisionFails(v)
  \/ WriteLoose(v) \/ WriteLink(v)
  \/ Purge(v) \/ DropCompany(v) \/ CommitDrop(v) \/ DropUser(v) \/ DeletionFails(v)

\* What every step leaves alone, of other visits and of its own.
Frame(v) ==
  /\ \A w \in Visits \ {v} :
       /\ user'[w] = user[w] /\ owned'[w] = owned[w] /\ plan'[w] = plan[w]
       /\ doing'[w] = doing[w] /\ doomed'[w] = doomed[w] /\ draft'[w] = draft[w]
  /\ doing[v] \notin AccountEnds /\ doing'[v] # "new"
  /\ doing[v] # "new" => plan'[v] = plan[v] /\ UNCHANGED meetings
  /\ meetings \subseteq meetings'
  /\ user[v] # Nil => user'[v] = user[v]
  /\ doing[v] # "company" => owned'[v] = owned[v]

LEMMA FrameHolds ==
  ASSUME IInv, LeftInv, NEW v \in Visits, VisitStep(v)
  PROVE  Frame(v)
<1> USE DEF IInv, ShapeInv, LeftInv, FormInv, UserInv, Frame, To, KeepTables,
      KeepVisit, AccountEnds
<1>1. CASE Arrive(v) BY <1>1 DEF Arrive
<1>2. CASE ResolveCompany(v) BY <1>2 DEF ResolveCompany
<1>3. CASE CheckPhone(v) BY <1>3 DEF CheckPhone
<1>4. CASE CheckEmail(v) BY <1>4 DEF CheckEmail
<1>5. CASE SignUp(v) BY <1>5 DEF SignUp
<1>18. CASE NativeSignUp(v) BY <1>18 DEF NativeSignUp, Hooked
<1>6. CASE GoogleSignIn(v) BY <1>6 DEF GoogleSignIn, Hooked
<1>7. CASE SetPhone(v) BY <1>7 DEF SetPhone
<1>8. CASE Provision(v) BY <1>8 DEF Provision
<1>9. CASE CommitCompany(v) BY <1>9 DEF CommitCompany
<1>10. CASE ProvisionFails(v) BY <1>10 DEF ProvisionFails
<1>11. CASE WriteLoose(v) BY <1>11 DEF WriteLoose
<1>12. CASE WriteLink(v) BY <1>12 DEF WriteLink
<1>13. CASE Purge(v) BY <1>13 DEF Purge
<1>14. CASE DropCompany(v) BY <1>14 DEF DropCompany
<1>15. CASE CommitDrop(v) BY <1>15 DEF CommitDrop
<1>16. CASE DropUser(v) BY <1>16 DEF DropUser
<1>17. CASE DeletionFails(v) BY <1>17 DEF DeletionFails
<1> QED BY <1>1, <1>2, <1>3, <1>4, <1>5, <1>6, <1>7, <1>8, <1>9, <1>10, <1>11, <1>12, <1>13,
           <1>14, <1>15, <1>16, <1>17, <1>18 DEF VisitStep

LEMMA FormStays ==
  ASSUME IInv, LeftInv, NEW v \in Visits, VisitStep(v)
  PROVE  FormInv'
<1>1. DOMAIN owned' = Visits /\ DOMAIN plan' = Visits /\ DOMAIN doomed' = Visits
  BY DEF LeftInv, FormInv, VisitStep, Arrive, ResolveCompany, CheckPhone, CheckEmail,
    SignUp, NativeSignUp,
     GoogleSignIn, SetPhone, Provision, CommitCompany, ProvisionFails, WriteLoose,
     WriteLink,
     Purge, DropCompany, CommitDrop, DropUser, DeletionFails, KeepVisit
<1>2. Frame(v) BY FrameHolds
<1>3. ASSUME doing[v] = "new" PROVE plan'[v] \in Plans /\ Who(v)' \in People
  <2>1. Arrive(v)
    BY <1>3 DEF VisitStep, Arrive, ResolveCompany, CheckPhone, CheckEmail, SignUp, NativeSignUp,
     GoogleSignIn, SetPhone, Provision, CommitCompany, ProvisionFails, WriteLoose,
     WriteLink,
     Purge, DropCompany, CommitDrop, DropUser, DeletionFails
  <2> QED BY <2>1, PlansAssumption DEF Arrive, LeftInv, FormInv, Who
<1> QED BY <1>1, <1>2, <1>3 DEF Frame, FormInv, LeftInv, Who

KeepsIds == \A p \in People : users'[p] # Nil => users[p] # Nil /\ users'[p].id = users[p].id

\* A user is kept, read by address, or created: or SignUp made an id up.
LEMMA UsersMove ==
  ASSUME IInv, LeftInv, NEW v \in Visits, VisitStep(v)
  PROVE  \/ user'[v] = user[v] /\ KeepsIds
         \/ /\ user[v] = Nil /\ UNCHANGED users
            /\ Who(v)' \in People /\ users[Who(v)'] # Nil /\ user'[v] = users[Who(v)'].id
         \/ /\ user[v] = Nil /\ user'[v] = v /\ Who(v)' \in People
            /\ \/ UNCHANGED users
               \/ /\ users[Who(v)'] = Nil /\ \A p \in People : p # Who(v)' => users'[p] = users[p]
                  /\ users'[Who(v)'].id = v
<1>0. FormInv' BY FormStays
<1> USE DEF IInv, ShapeInv, LeftInv, FormInv, UserInv, To, KeepTables, KeepVisit,
      KeepsIds, RowsInv
<1>1. CASE Arrive(v)
  <2>1. UNCHANGED users /\ doing'[v] # "new" /\ user[v] = Nil BY <1>1 DEF Arrive
  <2>2. user'[v] = Nil \/ user'[v] = IF users[Who(v)'] = Nil THEN Nil ELSE users[Who(v)'].id
    BY <1>1 DEF Arrive, Who
  <2> QED BY <1>0, <2>1, <2>2 DEF FormInv
<1>2. CASE SignUp(v)
  <2>1. doing[v] = "signUp" /\ Who(v) \in People /\ Who(v)' = Who(v) /\ user[v] = Nil
    BY <1>2 DEF SignUp, NativeSignUp, Who
  <2> QED BY <1>2, <2>1 DEF SignUp, NativeSignUp, NewUser
<1>7. CASE NativeSignUp(v)
  <2>1. doing[v] = "nativeSignUp" /\ Who(v) \in People /\ Who(v)' = Who(v) /\ user[v] = Nil
    BY <1>7 DEF NativeSignUp, Who
  <2> QED BY <1>7, <2>1 DEF NativeSignUp, NewUser
<1>3. CASE GoogleSignIn(v)
  <2>1. doing[v] = "google" /\ Who(v) \in People /\ Who(v)' = Who(v) /\ user[v] = Nil
    BY <1>3 DEF GoogleSignIn, Who
  <2> QED BY <1>3, <2>1 DEF GoogleSignIn, NewUser
<1>4. CASE SetPhone(v) BY <1>4 DEF SetPhone
<1>5. CASE DropUser(v) BY <1>5 DEF DropUser
<1>6. CASE ~(\/ Arrive(v) \/ SignUp(v) \/ NativeSignUp(v) \/ GoogleSignIn(v) \/ SetPhone(v)
             \/ DropUser(v))
  BY <1>6 DEF VisitStep, ResolveCompany, CheckPhone, CheckEmail, Provision,
    CommitCompany,
     ProvisionFails, WriteLoose, WriteLink, Purge, DropCompany, CommitDrop,
     DeletionFails
<1> QED BY <1>1, <1>2, <1>3, <1>4, <1>5, <1>6, <1>7

LEMMA StagesOfUsers ==
  ASSUME IInv, LeftInv, NEW v \in Visits, VisitStep(v)
  PROVE  /\ \/ doing'[v] \notin {"new", "google", "checkPhone", "checkEmail", "signUp", "nativeSignUp"}
            \/ doing'[v] = "checkPhone" /\ plan'[v].kind # "register"
            \/ user'[v] = Nil
         /\ (Writing(v) \/ Deleting(v) \/ doing[v] = "company")' => user'[v] # Nil
         /\ Deleting(v)' => Deleting(v) \/ (doing[v] = "new" /\ plan'[v].kind = "delete")
         /\ Drops(v)' => Drops(v) \/ Purge(v)
         /\ doing'[v] = "dropUser" => CommitDrop(v)
<1> USE DEF IInv, ShapeInv, LeftInv, FormInv, UserInv, To, KeepTables, KeepVisit,
      AccountEnds,
     Writing, Deleting, Drops
<1>1. CASE Arrive(v) BY <1>1 DEF Arrive
<1>2. CASE ResolveCompany(v) BY <1>2 DEF ResolveCompany
<1>3. CASE CheckPhone(v) BY <1>3 DEF CheckPhone
<1>4. CASE CheckEmail(v) BY <1>4 DEF CheckEmail
<1>5. CASE SignUp(v) BY <1>5 DEF SignUp
<1>18. CASE NativeSignUp(v) BY <1>18 DEF NativeSignUp, Hooked
<1>6. CASE GoogleSignIn(v) BY <1>6 DEF GoogleSignIn, Hooked
<1>7. CASE SetPhone(v) BY <1>7 DEF SetPhone
<1>8. CASE Provision(v) BY <1>8 DEF Provision
<1>9. CASE CommitCompany(v) BY <1>9 DEF CommitCompany
<1>10. CASE ProvisionFails(v)
  <2>1. PICK end \in AccountEnds : doing' = [doing EXCEPT ![v] = end]
    BY <1>10 DEF ProvisionFails
  <2>2. doing'[v] \in AccountEnds
    BY <2>1
  <2> QED BY <2>2
<1>11. CASE WriteLoose(v) BY <1>11 DEF WriteLoose
<1>12. CASE WriteLink(v) BY <1>12 DEF WriteLink
<1>13. CASE Purge(v) BY <1>13 DEF Purge
<1>14. CASE DropCompany(v) BY <1>14 DEF DropCompany
<1>15. CASE CommitDrop(v) BY <1>15 DEF CommitDrop
<1>16. CASE DropUser(v) BY <1>16 DEF DropUser
<1>17. CASE DeletionFails(v) BY <1>17 DEF DeletionFails
<1> QED BY <1>1, <1>2, <1>3, <1>4, <1>5, <1>6, <1>7, <1>8, <1>9, <1>10, <1>11, <1>12, <1>13,
           <1>14, <1>15, <1>16, <1>17, <1>18 DEF VisitStep

LEMMA UsersStay ==
  ASSUME IInv, LeftInv, NEW v \in Visits, VisitStep(v)
  PROVE  UserInv'
<1>1. Frame(v) BY FrameHolds
<1>2. \A w \in Visits \ {v} : user'[w] = user[w] /\ doing'[w] = doing[w] /\ plan'[w] = plan[w]
  BY <1>1 DEF Frame
<1>5. \A w \in Visits : user'[w] \in Ids \cup {Nil}
  BY <1>2, UsersMove DEF LeftInv, UserInv, IInv, RowsInv, Ids
<1>3. \A w \in Visits : user'[w] \in Visits => user'[user'[w]] = user'[w]
  BY <1>2, UsersMove, NilIsNothing DEF LeftInv, UserInv, KeepsIds
<1>4. \A p \in People : users'[p] # Nil /\ users'[p].id \in Visits => user'[users'[p].id] = users'[p].id
  BY <1>2, UsersMove, NilIsNothing DEF LeftInv, UserInv, KeepsIds
<1> QED BY <1>2, <1>3, <1>4, <1>5, StagesOfUsers DEF LeftInv, UserInv, Writing,
  Deleting

LEMMA PersonsStay ==
  ASSUME IInv, LeftInv, NEW v \in Visits, VisitStep(v)
  PROVE  PersonInv'
<1>1. Frame(v) BY FrameHolds
<1>2. \A w \in Visits \ {v} : user'[w] = user[w] /\ Who(w)' = Who(w)
  BY <1>1 DEF Frame, Who
<1>3. user[v] # Nil => Who(v)' = Who(v)
  BY <1>1, StagesOfUsers DEF Frame, Who, LeftInv, UserInv
<1>4. CASE user'[v] = user[v] /\ KeepsIds
  <2>1. \A p \in People : users[p] # Nil => users[p].id # Nil
    BY NilIsNothing DEF IInv, RowsInv
  <2> QED BY <1>2, <1>3, <1>4, <2>1 DEF LeftInv, PersonInv, KeepsIds
<1>5. CASE /\ user[v] = Nil /\ UNCHANGED users
           /\ Who(v)' \in People /\ users[Who(v)'] # Nil /\ user'[v] = users[Who(v)'].id
  BY <1>2, <1>5 DEF LeftInv, PersonInv
<1>6. CASE /\ user[v] = Nil /\ user'[v] = v /\ Who(v)' \in People
           /\ \/ UNCHANGED users
              \/ /\ users[Who(v)'] = Nil /\ \A p \in People : p # Who(v)' => users'[p] = users[p]
                 /\ users'[Who(v)'].id = v
  <2>1. \A w \in Visits \ {v} : user[w] # v
    BY <1>6, NilIsNothing DEF LeftInv, UserInv
  <2>2. \A p \in People : users[p] # Nil => users[p].id # v
    BY <1>6, NilIsNothing DEF LeftInv, UserInv
  <2> QED BY <1>2, <1>6, <2>1, <2>2 DEF LeftInv, PersonInv
<1> QED BY <1>4, <1>5, <1>6, UsersMove

LEMMA MeetingsStay ==
  ASSUME IInv, LeftInv, NEW v \in Visits, VisitStep(v)
  PROVE  MeetInv'
<1>1. Frame(v) BY FrameHolds
<1>2. \A w \in Visits \ {v} : doing'[w] = doing[w] /\ plan'[w] = plan[w]
  BY <1>1 DEF Frame
<1>3. CASE Arrive(v)
  <2>1. \A q \in Visits \ {v} : Who(q)' = Who(q)
    BY <1>2 DEF Who
  <2>2. doing[v] = "new" /\ DOMAIN plan = Visits
        /\ meetings' = meetings \cup {{q, v} : q \in {x \in Visits :
                        doing[x] \notin {"new"} \cup AccountEnds /\ Who(x) = Who(v)'}}
    BY <1>3 DEF Arrive, LeftInv, FormInv, Who
  <2>3. \A q \in Visits \ {v} : Busy(q) /\ Who(q) = Who(v)' => {q, v} \in meetings' /\ {v, q} \in meetings'
    <3> SUFFICES ASSUME NEW q \in Visits \ {v}, Busy(q), Who(q) = Who(v)'
          PROVE {q, v} \in meetings'
      OBVIOUS
    <3> QED BY <2>2 DEF Busy
  <2>4. ASSUME NEW q \in Visits, NEW w \in Visits, {q, w} \in meetings'
        PROVE doing'[q] # "new"
    <3>1. CASE {q, w} \in meetings BY <1>1, <1>2, <3>1 DEF LeftInv, MeetInv, Frame
    <3>2. CASE {q, w} \notin meetings
      <4>1. PICK x \in Visits : doing[x] # "new" /\ {q, w} = {x, v}
        BY <2>2, <2>4, <3>2
      <4>2. q \in {x, v} BY <4>1
      <4> QED BY <1>1, <1>2, <4>1, <4>2 DEF Frame
    <3> QED BY <3>1, <3>2
  <2>5. ASSUME NEW q \in Visits, NEW w \in Visits, q # w, Busy(q)', Busy(w)',
    Who(q)' = Who(w)'
        PROVE  {q, w} \in meetings'
    <3>1. CASE q # v /\ w # v
      BY <1>1, <1>2, <2>1, <2>5, <3>1 DEF LeftInv, MeetInv, Frame, Busy
    <3>2. CASE q = v \/ w = v
      BY <1>2, <2>1, <2>3, <2>5, <3>2 DEF Busy
    <3> QED BY <3>1, <3>2
  <2> QED BY <2>4, <2>5 DEF MeetInv
<1>4. CASE ~Arrive(v)
  <2>1. doing[v] # "new"
    BY <1>4 DEF VisitStep, ResolveCompany, CheckPhone, CheckEmail, SignUp, NativeSignUp,
      GoogleSignIn, SetPhone,
       Provision, CommitCompany, ProvisionFails, WriteLoose, WriteLink, Purge,
       DropCompany,
       CommitDrop, DropUser, DeletionFails
  <2>2. UNCHANGED meetings /\ \A w \in Visits : Who(w)' = Who(w)
    BY <1>1, <1>2, <2>1 DEF Frame, Who
  <2>3. \A w \in Visits : (Busy(w)' => Busy(w)) /\ (doing[w] # "new" => doing'[w] # "new")
    BY <1>1, <1>2, <2>1 DEF Frame, Busy
  <2> QED BY <2>2, <2>3 DEF LeftInv, MeetInv
<1> QED BY <1>3, <1>4

LEMMA CompanyOfStays ==
  ASSUME IInv, LeftInv, NEW v \in Visits, VisitStep(v), NEW c, NEW u, CompanyOf(c, u)
  PROVE  CompanyOf(c, u)'
BY FrameHolds DEF CompanyOf, Frame

LEMMA MetStays ==
  ASSUME IInv, LeftInv, NEW v \in Visits, VisitStep(v), NEW w \in Visits, Met(w,
    "delete")
  PROVE  Met(w, "delete")'
BY FrameHolds DEF Met, Frame, LeftInv, MeetInv

\* The steps that write companies.
LEMMA CompaniesMove ==
  ASSUME IInv, LeftInv, NEW v \in Visits, VisitStep(v)
  PROVE  \/ UNCHANGED company
         \/ CommitCompany(v)
         \/ /\ doing[v] \in {"commitDrop", "dropUser"} /\ company' = [company EXCEPT ![user[v]] = Nil]
            /\ holder[user[v]] \in {v, Nil}
BY DEF VisitStep, Arrive, ResolveCompany, CheckPhone, CheckEmail, SignUp, NativeSignUp,
  GoogleSignIn, SetPhone,
   Provision, ProvisionFails, WriteLoose, WriteLink, Purge, DropCompany, CommitDrop,
   DropUser,
   DeletionFails, KeepTables

LEMMA DraftsStay ==
  ASSUME IInv, LeftInv, NEW v \in Visits, VisitStep(v), NEW w \in Visits,
         doing'[w] = "commit", company'[user'[w]] = Nil
  PROVE  draft'[w].id = w
<1>1. CASE Provision(v) /\ w = v
  <2>1. UNCHANGED <<company, user>> /\ company[user[v]] = Nil
    BY <1>1 DEF Provision
  <2>2. draft'[v] = [id |-> v, terms |-> plan[v].kind # "google"]
    BY <1>1, <2>1 DEF Provision, IInv, ShapeInv
  <2> QED BY <1>1, <2>2
<1>2. CASE ~Provision(v) /\ w = v
  <2>1. doing'[v] # "commit"
    <3> USE DEF IInv, ShapeInv, To
    <3>1. CASE ProvisionFails(v)
      <4>1. PICK end \in AccountEnds : doing' = [doing EXCEPT ![v] = end]
        BY <3>1 DEF ProvisionFails, AccountEnds
      <4> QED BY <4>1 DEF AccountEnds
    <3> QED BY <1>2, <3>1 DEF VisitStep, Arrive, ResolveCompany, CheckPhone,
      CheckEmail, SignUp, NativeSignUp,
      GoogleSignIn, Hooked, SetPhone, CommitCompany, WriteLoose, WriteLink, Purge,
      DropCompany,
      CommitDrop, DropUser, DeletionFails
  <2> QED BY <1>2, <2>1
<1>3. CASE w # v
  <2>1. /\ user'[w] = user[w] /\ draft'[w] = draft[w] /\ doing[w] = "commit"
    BY <1>3, FrameHolds DEF Frame
  <2>2. user[w] \in Ids /\ holder[user[w]] = w
    BY <2>1 DEF IInv, HoldInv
  <2>3. CommitCompany(v) => user[v] # user[w] /\ company' = [company EXCEPT ![user[v]] = draft[v]]
    BY <1>3, <2>2 DEF CommitCompany, IInv, HoldInv
  <2>4. company'[user[w]] = company[user[w]]
    BY <1>3, <2>2, <2>3, CompaniesMove, NilIsNothing DEF IInv, ShapeInv
  <2> QED BY <2>1, <2>4 DEF LeftInv, CompanyInv
<1> QED BY <1>1, <1>2, <1>3

LEMMA CompaniesStay ==
  ASSUME IInv, LeftInv, NEW v \in Visits, VisitStep(v)
  PROVE  CompanyInv'
<1>1. ASSUME NEW u \in Ids, company'[u] # Nil PROVE CompanyOf(company[u].id, u)'
  <2>1. CASE company[u] # Nil /\ company'[u].id = company[u].id
    BY <2>1, CompanyOfStays DEF LeftInv, CompanyInv, CompanyOf
  <2>2. CASE ~(company[u] # Nil /\ company'[u].id = company[u].id)
    <3>1. CommitCompany(v)
      BY <1>1, <2>2, CompaniesMove DEF IInv, ShapeInv
    <3>2. /\ user[v] \in Ids /\ doing[v] = "commit" /\ company'[u] = IF u = user[v] THEN draft[v] ELSE company[u]
          /\ company[user[v]] # Nil => draft[v].id = company[user[v]].id
      BY <3>1 DEF CommitCompany, IInv, ShapeInv, HoldInv
    <3>3. u = user[v] /\ company[u] = Nil /\ company'[u].id = v
      BY <1>1, <2>2, <3>2 DEF LeftInv, CompanyInv
    <3>4. doing'[v] \in AccountEnds /\ user'[v] = u /\ u # Nil
      BY <3>1, <3>3, NilIsNothing DEF CommitCompany, To, AccountEnds, IInv, ShapeInv
    <3> QED BY <3>3, <3>4 DEF CompanyOf
  <2> QED BY <2>1, <2>2
<1>2. ASSUME NEW w \in Visits, owned'[w] # Nil PROVE CompanyOf(owned[w], user[w])'
  <2>1. CASE ResolveCompany(v) /\ w = v
    <3>1. /\ company[user[v]] # Nil /\ owned'[v] = company[user[v]].id /\ user'[v] = user[v]
      BY <1>2, <2>1 DEF ResolveCompany, LeftInv, FormInv
    <3>2. user[v] \in Ids
      BY <2>1 DEF ResolveCompany, LeftInv, UserInv
    <3>3. CompanyOf(owned'[v], user[v])
      BY <3>1, <3>2 DEF LeftInv, CompanyInv
    <3> QED BY <2>1, <3>1, <3>3, CompanyOfStays DEF CompanyOf
  <2>2. CASE ~(ResolveCompany(v) /\ w = v)
    <3>1. owned'[w] = owned[w]
      <4>1. CASE w = v /\ doing[v] = "company"
        BY <2>2, <4>1 DEF VisitStep, Arrive, CheckPhone, CheckEmail, SignUp, NativeSignUp,
          GoogleSignIn, SetPhone,
          Provision, CommitCompany, ProvisionFails, WriteLoose, WriteLink, Purge,
          DropCompany,
          CommitDrop, DropUser, DeletionFails
      <4> QED BY <4>1, FrameHolds DEF Frame
    <3>2. CompanyOf(owned[w], user[w])
      BY <1>2, <3>1 DEF LeftInv, CompanyInv
    <3>3. user'[w] = user[w]
      BY <3>2, FrameHolds, IdsAssumption DEF Frame, CompanyOf, Ids
    <3> QED BY <3>1, <3>2, <3>3, CompanyOfStays DEF CompanyOf
  <2> QED BY <2>1, <2>2
<1> QED BY <1>1, <1>2, DraftsStay DEF CompanyInv

\* A visit of the user whom v deletes is of the same person, and was in
\* progress with v if both are.
LEMMA Clash ==
  ASSUME IInv, LeftInv, NEW v \in Visits, NEW w \in Visits, w # v,
         Deleting(v), Busy(w), user[w] = user[v]
  PROVE  Met(w, "delete")
<1>1. Busy(v) /\ user[v] # Nil /\ plan[v].kind = "delete"
  BY DEF Deleting, Busy, AccountEnds, LeftInv, UserInv, DropInv
<1>2. {v, w} \in meetings
  BY <1>1 DEF LeftInv, PersonInv, MeetInv
<1> QED BY <1>1, <1>2 DEF Met

\* A company is of one user, whether it is there or gone.
LEMMA OneUser ==
  ASSUME LeftInv, NEW c, NEW u, NEW x, CompanyOf(c, u), CompanyOf(c, x)
  PROVE  u = x
BY IdsAssumption DEF CompanyOf

\* What is written for somebody loses its owner only to a deletion of the user.
LEMMA Lasting ==
  ASSUME IInv, LeftInv, NEW v \in Visits, VisitStep(v), NEW w \in Visits,
    doing[w] # "new",
         Leaves(w) # Nil, Belongs(w, Leaves(w)), user[w] # user[v] \/ doing[v] \notin {"commitDrop", "dropUser"}
  PROVE  Belongs(w, Leaves(w))'
<1>1. plan'[w] = plan[w] /\ Who(w)' = Who(w)
  BY FrameHolds DEF Frame, Who
<1>2. CASE plan[w].kind = "forgot"
  <2>1. user[w] # Nil /\ user'[w] = user[w]
    BY <1>2, FrameHolds DEF Frame, Leaves
  <2>2. PICK p \in People : users[p] # Nil /\ users[p].id = user[w]
    BY <1>2 DEF Belongs, Leaves, Live
  <2>3. users'[p] # Nil /\ users'[p].id = user[w]
    <3> USE DEF IInv, ShapeInv, RowsInv
    <3>1. CASE DropUser(v) BY <2>2, <3>1 DEF DropUser
    <3>2. CASE SetPhone(v)
      <4>1. \/ users'[p] = users[p]
            \/ users'[p] = [users[p] EXCEPT !.phone = plan[v].phone]
        BY <2>2, <3>2 DEF SetPhone
      <4>2. plan[v] \in Plans /\ users[p].id \in Ids /\ users[p] = [id |-> users[p].id, phone |-> users[p].phone]
        BY <2>2, <3>2 DEF SetPhone, LeftInv, FormInv
      <4>3. [id |-> users[p].id, phone |-> plan[v].phone] # Nil
        BY <4>2, IdsAssumption
      <4>4. [users[p] EXCEPT !.phone = plan[v].phone] = [id |-> users[p].id, phone |-> plan[v].phone]
        BY <4>2
      <4> QED BY <2>2, <4>1, <4>3, <4>4
    <3>3. CASE ~DropUser(v) /\ ~SetPhone(v)
      <4>1. UNCHANGED users \/ (users[Who(v)] = Nil /\ \E y : users' = [users EXCEPT ![Who(v)] = y])
        BY <3>3 DEF VisitStep, Arrive, ResolveCompany, CheckPhone, CheckEmail,
          SignUp, NativeSignUp, GoogleSignIn,
          NewUser, Provision, CommitCompany, ProvisionFails, WriteLoose, WriteLink,
          Purge, DropCompany,
          CommitDrop, DeletionFails, KeepTables
      <4> QED BY <2>2, <4>1
    <3> QED BY <3>1, <3>2, <3>3
  <2> QED BY <1>1, <1>2, <2>1, <2>3 DEF Belongs, Leaves, Live
<1>3. CASE plan[w].kind # "forgot"
  <2>1. owned[w] # Nil /\ CompanyOf(owned[w], user[w])
    BY <1>3 DEF Leaves, LeftInv, CompanyInv
  <2>2. PICK u \in Ids : company[u] # Nil /\ company[u].id = owned[w]
    BY <1>3 DEF Belongs, Leaves
  <2>3. u = user[w]
    BY <2>1, <2>2, OneUser DEF LeftInv, CompanyInv
  <2>4. company'[u] # Nil /\ company'[u].id = owned[w]
    <3>1. CASE CommitCompany(v)
      <4>1. /\ user[v] \in Ids /\ draft[v] # Nil
            /\ company[user[v]] # Nil => draft[v].id = company[user[v]].id
        BY <3>1, NilIsNothing DEF CommitCompany, IInv, HoldInv
      <4>2. company'[u] = IF u = user[v] THEN draft[v] ELSE company[u]
        BY <3>1 DEF CommitCompany, IInv, ShapeInv
      <4> QED BY <2>2, <4>1, <4>2
    <3>2. CASE ~CommitCompany(v)
      BY <2>2, <2>3, <3>2, CompaniesMove DEF IInv, ShapeInv
    <3> QED BY <3>1, <3>2
  <2>5. owned'[w] = owned[w]
    <3>1. CASE ResolveCompany(v) /\ w = v
      BY <2>2, <2>3, <3>1 DEF ResolveCompany, LeftInv, FormInv
    <3>2. CASE ~(ResolveCompany(v) /\ w = v)
      BY <3>2, FrameHolds DEF Frame, VisitStep, Arrive, CheckPhone, CheckEmail,
        SignUp, NativeSignUp, GoogleSignIn,
        SetPhone, Provision, CommitCompany, ProvisionFails, WriteLoose, WriteLink,
        Purge, DropCompany,
        CommitDrop, DropUser, DeletionFails
    <3> QED BY <3>1, <3>2
  <2> QED BY <1>1, <1>3, <2>4, <2>5 DEF Belongs, Leaves
<1> QED BY <1>2, <1>3

LEMMA StillTheirs ==
  ASSUME IInv, LeftInv, NEW v \in Visits, VisitStep(v), NEW w \in Visits, w # v,
         Leaves(w) # Nil, doing[w] # "new"
  PROVE  user'[w] = user[w] /\ Leaves(w)' = Leaves(w) /\ user[w] # Nil
<1>1. plan'[w] = plan[w] /\ user'[w] = user[w] /\ owned'[w] = owned[w]
  BY FrameHolds DEF Frame
<1>2. user[w] # Nil
  BY IdsAssumption DEF Leaves, LeftInv, CompanyInv, CompanyOf, Ids
<1> QED BY <1>1, <1>2 DEF Leaves

LEMMA WritersStay ==
  ASSUME IInv, LeftInv, NEW v \in Visits, VisitStep(v)
  PROVE  WriteInv'
<1>1. ASSUME NEW w \in Visits, w # v, Writing(w)'
      PROVE  /\ (doing[w] = "link" <=> plan[w].kind = "forgot")' /\ (Leaves(w) # Nil)'
             /\ Belongs(w, Leaves(w))' \/ Met(w, "delete")'
  <2>1. doing'[w] = doing[w] /\ plan'[w] = plan[w] /\ Writing(w)
    BY <1>1, FrameHolds DEF Frame, Writing
  <2>2. /\ (doing[w] = "link" <=> plan[w].kind = "forgot") /\ Leaves(w) # Nil
        /\ Belongs(w, Leaves(w)) \/ Met(w, "delete")
    BY <2>1 DEF LeftInv, WriteInv
  <2>3. Leaves(w)' = Leaves(w) BY <1>1, <2>1, <2>2, StillTheirs DEF Writing
  <2>4. Busy(w) /\ doing[w] # "new" BY <2>1 DEF Writing, Busy, AccountEnds
  <2>5. ASSUME user[w] = user[v], doing[v] \in {"commitDrop", "dropUser"}
        PROVE Met(w, "delete")
    <3>1. Deleting(v) BY <2>5 DEF Deleting
    <3> QED BY <1>1, <2>4, <2>5, <3>1, Clash
  <2>6. ASSUME ~Met(w, "delete") PROVE Belongs(w, Leaves(w))'
    <3>1. user[w] # user[v] \/ doing[v] \notin {"commitDrop", "dropUser"} BY <2>5, <2>6
    <3> QED BY <2>2, <2>4, <2>6, <3>1, Lasting
  <2> QED BY <2>1, <2>2, <2>3, <2>6, MetStays
<1>2. ASSUME Writing(v)'
      PROVE  /\ (doing[v] = "link" <=> plan[v].kind = "forgot")' /\ (Leaves(v) # Nil)'
             /\ Belongs(v, Leaves(v))'
  <2>1. CASE Arrive(v)
    <3>1. /\ doing'[v] = "link" /\ plan'[v].kind = "forgot" /\ UNCHANGED users
          /\ user'[v] # Nil /\ Who(v)' \in People
      <4>1. doing'[v] = "link" /\ plan'[v].kind = "forgot" /\ UNCHANGED users
        BY <1>2, <2>1 DEF Arrive, To, Writing, IInv, ShapeInv, LeftInv, FormInv,
          KeepTables
      <4> QED BY <1>2, <4>1, FormStays, StagesOfUsers DEF FormInv
    <3>2. users[Who(v)'] # Nil /\ user'[v] = users[Who(v)'].id
      BY <2>1, <3>1 DEF Arrive, Who, IInv, ShapeInv, LeftInv, FormInv
    <3> QED BY <3>1, <3>2 DEF Leaves, Belongs, Live
  <2>2. CASE ResolveCompany(v)
    <3>1. /\ doing'[v] = "write" /\ company[user[v]] # Nil /\ owned'[v] = company[user[v]].id
          /\ UNCHANGED <<company, user, plan>>
      BY <1>2, <2>2 DEF ResolveCompany, To, Writing, IInv, ShapeInv, LeftInv,
        FormInv, KeepTables, KeepVisit
    <3>2. user[v] \in Ids /\ plan[v].kind # "forgot"
      BY <2>2 DEF ResolveCompany, LeftInv, UserInv, WriteInv
    <3>3. company[user[v]].id # Nil
      BY <3>1, <3>2, NilIsNothing DEF IInv, RowsInv
    <3> QED BY <3>1, <3>2, <3>3 DEF Leaves, Belongs
  <2>3. CASE ~Arrive(v) /\ ~ResolveCompany(v)
    <3>1. doing'[v] \notin {"write", "link"}
      <4> USE DEF IInv, ShapeInv, To
      <4>1. CASE ProvisionFails(v)
        <5>1. PICK end \in AccountEnds : doing' = [doing EXCEPT ![v] = end]
          BY <4>1 DEF ProvisionFails, AccountEnds
        <5> QED BY <5>1 DEF AccountEnds
      <4>2. CASE ~ProvisionFails(v)
        BY <2>3, <4>2 DEF VisitStep, CheckPhone, CheckEmail, SignUp, NativeSignUp, GoogleSignIn,
          Hooked, SetPhone,
          Provision, CommitCompany, WriteLoose, WriteLink, Purge, DropCompany,
          CommitDrop, DropUser,
          DeletionFails
      <4> QED BY <4>1, <4>2
    <3> QED BY <1>2, <3>1 DEF Writing
  <2> QED BY <2>1, <2>2, <2>3
<1>3. ASSUME NEW w \in Visits, doing'[w] = "company" PROVE plan'[w].kind # "forgot"
  <2>1. CASE w # v
    BY <1>3, <2>1, FrameHolds DEF Frame, LeftInv, WriteInv
  <2>2. CASE w = v
    <3>1. Arrive(v)
      <4> USE DEF IInv, ShapeInv, To
      <4>1. CASE ProvisionFails(v)
        <5>1. PICK end \in AccountEnds : doing' = [doing EXCEPT ![v] = end]
          BY <4>1 DEF ProvisionFails, AccountEnds
        <5> QED BY <1>3, <2>2, <5>1 DEF AccountEnds
      <4>2. CASE ~ProvisionFails(v)
        BY <1>3, <2>2, <4>2 DEF VisitStep, ResolveCompany, CheckPhone, CheckEmail,
          SignUp, NativeSignUp, GoogleSignIn,
          Hooked, SetPhone, Provision, CommitCompany, WriteLoose, WriteLink, Purge,
          DropCompany,
          CommitDrop, DropUser, DeletionFails
      <4> QED BY <4>1, <4>2
    <3> QED BY <1>3, <2>2, <3>1 DEF Arrive, To, IInv, ShapeInv, LeftInv, FormInv
  <2> QED BY <2>1, <2>2
<1> QED BY <1>1, <1>2, <1>3 DEF WriteInv

\* A row that stays, and one that is new.
LEMMA LooseMoves ==
  ASSUME IInv, LeftInv, NEW v \in Visits, VisitStep(v), NEW x \in loose'
  PROVE  \/ x \in loose /\ ~(CommitDrop(v) /\ x \in doomed[v])
         \/ /\ Writing(v) /\ x.by = v /\ x.of = Leaves(v) /\ x.of # Nil
            /\ doing'[v] \in AccountEnds /\ UNCHANGED <<users, company, user, owned, plan>>
<1>1. CASE WriteLoose(v) \/ WriteLink(v)
  <2>1. Writing(v) /\ (doing[v] = "link" <=> plan[v].kind = "forgot") /\ Leaves(v) # Nil
    BY <1>1 DEF WriteLoose, WriteLink, Writing, LeftInv, WriteInv
  <2>2. x \in loose \/ (x.by = v /\ x.of = Leaves(v))
    BY <1>1, <2>1 DEF WriteLoose, WriteLink, Leaves
  <2>3. doing'[v] \in AccountEnds /\ ~CommitDrop(v) /\ UNCHANGED <<users, company, user, owned, plan>>
    BY <1>1 DEF WriteLoose, WriteLink, CommitDrop, To, AccountEnds, IInv, ShapeInv,
      KeepVisit
  <2> QED BY <2>1, <2>2, <2>3
<1>2. CASE ~(WriteLoose(v) \/ WriteLink(v))
  BY <1>2 DEF VisitStep, Arrive, ResolveCompany, CheckPhone, CheckEmail, SignUp, NativeSignUp,
    GoogleSignIn, SetPhone,
    Provision, CommitCompany, ProvisionFails, Purge, DropCompany, CommitDrop,
    DropUser, DeletionFails,
    KeepTables
<1> QED BY <1>1, <1>2

LEMMA LooseStays ==
  ASSUME IInv, LeftInv, NEW v \in Visits, VisitStep(v)
  PROVE  LooseInv'
<1> SUFFICES ASSUME NEW x \in loose'
             PROVE  x.by \in Visits /\ doing'[x.by] \in AccountEnds /\ x.of = Leaves(x.by)' /\ x.of # Nil
  BY DEF LooseInv
<1>1. CASE x \in loose
  <2>1. x.by \in Visits /\ doing[x.by] \in AccountEnds /\ x.of = Leaves(x.by) /\ x.of # Nil
    BY <1>1 DEF LeftInv, LooseInv
  <2>2. x.by # v /\ doing'[x.by] = doing[x.by]
    BY <2>1, FrameHolds DEF Frame
  <2> QED BY <2>1, <2>2, StillTheirs DEF AccountEnds
<1>2. CASE x \notin loose
  BY <1>2, LooseMoves DEF Leaves
<1> QED BY <1>1, <1>2

\* Of whom a row is, no step changes.
LEMMA OldRows ==
  ASSUME IInv, LeftInv, NEW v \in Visits, VisitStep(v), NEW x \in loose
  PROVE  /\ x.by \in Visits \ {v} /\ doing[x.by] # "new" /\ user'[x.by] = user[x.by]
         /\ x.of = Leaves(x.by) /\ x.of = Leaves(x.by)' /\ x.of # Nil
<1>1. x.by \in Visits /\ doing[x.by] \in AccountEnds /\ x.of = Leaves(x.by) /\ x.of # Nil
  BY DEF LeftInv, LooseInv
<1>2. x.by # v
  BY <1>1, FrameHolds DEF Frame
<1> QED BY <1>1, <1>2, StillTheirs DEF AccountEnds

LEMMA DropsStay ==
  ASSUME IInv, LeftInv, NEW v \in Visits, VisitStep(v)
  PROVE  DropInv'
<1>1. ASSUME NEW w \in Visits, Deleting(w)' PROVE plan'[w].kind = "delete"
  <2>1. CASE w # v
    BY <1>1, <2>1, FrameHolds DEF Frame, Deleting, LeftInv, DropInv
  <2>2. CASE w = v /\ Deleting(v)
    BY <2>2, FrameHolds DEF Frame, Deleting, LeftInv, DropInv
  <2>3. CASE w = v /\ ~Deleting(v)
    BY <1>1, <2>3, StagesOfUsers
  <2> QED BY <2>1, <2>2, <2>3
<1>2. ASSUME NEW w \in Visits, Deleting(w)', Drops(w)', NEW x \in loose',
  user'[x.by] = user'[w]
      PROVE  Met(x.by, "delete")' \/ (doing'[w] # "dropUser" /\ x \in doomed'[w])
  <2>1. CASE x \notin loose
    <3>1. Writing(v) /\ x.by = v /\ user'[v] = user[v]
      BY <2>1, LooseMoves
    <3>2. CASE w = v
      BY <3>1, <3>2, <1>2, StagesOfUsers DEF Writing, Deleting, Purge
    <3>3. CASE w # v
      <4>1. Deleting(w) /\ user'[w] = user[w]
        BY <1>2, <3>3, FrameHolds DEF Frame, Deleting
      <4>2. Busy(v) BY <3>1 DEF Writing, Busy, AccountEnds
      <4> QED BY <1>2, <3>1, <3>3, <4>1, <4>2, Clash, MetStays
    <3> QED BY <3>2, <3>3
  <2>2. CASE x \in loose
    <3>1. x.by \in Visits \ {v} /\ user'[x.by] = user[x.by]
      BY <2>2, OldRows
    <3>2. SUFFICES ASSUME ~Met(x.by, "delete")
          PROVE doing'[w] # "dropUser" /\ x \in doomed'[w]
      BY <3>1, MetStays
    <3>3. CASE w # v
      <4>1. /\ Deleting(w) /\ Drops(w) /\ user'[w] = user[w] /\ doing'[w] = doing[w] /\ doomed'[w] = doomed[w]
        BY <1>2, <3>3, FrameHolds DEF Frame, Deleting, Drops
      <4> QED BY <1>2, <2>2, <3>1, <3>2, <4>1 DEF LeftInv, DropInv
    <3>4. CASE w = v /\ Purge(v)
      <4>1. doing'[v] = "drop" /\ doomed'[v] = Purged(user[v]) /\ user'[v] = user[v] /\ user[v] \in Ids
        BY <3>4 DEF Purge, To, IInv, ShapeInv, LeftInv, FormInv, UserInv, Deleting
      <4>2. Belongs(x.by, x.of) /\ x.of = Leaves(x.by) /\ user[x.by] = user[v] /\ x.of # Nil
        BY <1>2, <2>2, <3>1, <3>2, <3>4, <4>1, OldRows DEF LeftInv,
          LeftoversMeanOverlap
      <4>3. x \in Purged(user[v])
        <5>1. CASE plan[x.by].kind = "forgot"
          BY <2>2, <4>2, <5>1 DEF Leaves, Purged
        <5>2. CASE plan[x.by].kind # "forgot"
          <6>1. PICK u \in Ids : company[u] # Nil /\ company[u].id = x.of
            BY <4>2, <5>2 DEF Belongs
          <6>2. CompanyOf(x.of, user[v]) /\ CompanyOf(x.of, u)
            BY <3>1, <4>2, <5>2, <6>1 DEF Leaves, LeftInv, CompanyInv
          <6>3. u = user[v] BY <6>2, OneUser
          <6> QED BY <2>2, <6>1, <6>3 DEF Purged
        <5> QED BY <5>1, <5>2
      <4> QED BY <3>4, <4>1, <4>3
    <3>5. CASE w = v /\ ~Purge(v)
      <4>1. Drops(v) /\ Deleting(v) BY <1>2, <3>5, StagesOfUsers DEF Drops, Deleting
      <4>2. user'[v] = user[v] BY <4>1, FrameHolds DEF Frame, LeftInv, UserInv
      <4>3. doing[v] # "dropUser" /\ x \in doomed[v]
        BY <1>2, <2>2, <3>1, <3>2, <3>5, <4>1, <4>2 DEF LeftInv, DropInv
      <4>4. ~CommitDrop(v) BY <2>2, <4>3, LooseMoves DEF CommitDrop, Writing
      <4>5. doing'[v] # "dropUser" BY <4>4, StagesOfUsers
      <4>6. UNCHANGED doomed
        BY <3>5, <4>1 DEF VisitStep, Arrive, ResolveCompany, CheckPhone, CheckEmail,
          SignUp, NativeSignUp, GoogleSignIn,
          SetPhone, Provision, CommitCompany, ProvisionFails, WriteLoose, WriteLink,
          Drops, DropCompany,
          CommitDrop, DropUser, DeletionFails
      <4> QED BY <3>5, <4>3, <4>5, <4>6
    <3> QED BY <3>3, <3>4, <3>5
  <2> QED BY <2>1, <2>2
<1> QED BY <1>1, <1>2 DEF DropInv

LEMMA LeftoversStay ==
  ASSUME IInv, LeftInv, NEW v \in Visits, VisitStep(v)
  PROVE  LeftoversMeanOverlap'
<1> SUFFICES ASSUME NEW x \in loose', ~Met(x.by, "delete")' PROVE Belongs(x.by, x.of)'
  BY DEF LeftoversMeanOverlap
<1>1. CASE x \in loose
  <2>1. /\ x.by \in Visits \ {v} /\ doing[x.by] # "new" /\ user'[x.by] = user[x.by]
        /\ x.of = Leaves(x.by) /\ x.of = Leaves(x.by)' /\ x.of # Nil
    BY <1>1, OldRows
  <2>2. ~Met(x.by, "delete") BY <2>1, MetStays
  <2>3. Belongs(x.by, Leaves(x.by))
    BY <1>1, <2>1, <2>2 DEF LeftInv, LeftoversMeanOverlap
  <2>4. ASSUME user[x.by] = user[v], doing[v] \in {"commitDrop", "dropUser"}
        PROVE  doing[v] = "commitDrop" /\ x \in doomed[v]
    <3>1. Deleting(v) /\ Drops(v) BY <2>4 DEF Deleting, Drops
    <3> QED BY <1>1, <2>2, <2>4, <3>1 DEF LeftInv, DropInv
  <2>5. CASE user[x.by] # user[v] \/ doing[v] \notin {"commitDrop", "dropUser"}
    <3>1. Belongs(x.by, Leaves(x.by))'
      BY <2>1, <2>3, <2>5, Lasting
    <3> QED BY <2>1, <3>1 DEF Belongs
  <2>6. CASE user[x.by] = user[v] /\ doing[v] = "commitDrop" /\ x \in doomed[v]
    <3>1. ~CommitDrop(v) BY <1>1, <2>6, LooseMoves DEF CommitDrop, Writing
    <3>2. DeletionFails(v)
      BY <2>6, <3>1 DEF VisitStep, Arrive, ResolveCompany, CheckPhone, CheckEmail,
        SignUp, NativeSignUp, GoogleSignIn,
        SetPhone, Provision, CommitCompany, ProvisionFails, WriteLoose, WriteLink,
        Purge, DropCompany,
        DropUser
    <3>3. UNCHANGED <<users, company, plan>> BY <3>2 DEF DeletionFails, KeepVisit
    <3> QED BY <2>1, <2>3, <3>3 DEF Belongs, Live
  <2> QED BY <2>4, <2>5, <2>6
<1>2. CASE x \notin loose
  <2>1. /\ Writing(v) /\ x.by = v /\ x.of = Leaves(v) /\ UNCHANGED <<users, company, user, owned, plan>>
    BY <1>2, LooseMoves
  <2>2. ~Met(v, "delete") BY <2>1, MetStays
  <2>3. Belongs(v, Leaves(v)) BY <2>1, <2>2 DEF LeftInv, WriteInv
  <2> QED BY <2>1, <2>3 DEF Belongs, Live
<1> QED BY <1>1, <1>2

LEMMA InitLeft == AccountInit => LeftInv
<1> SUFFICES ASSUME AccountInit PROVE LeftInv OBVIOUS
<1>1. PICK first \in {"nobody", "member", "unprovisioned"}, p \in People :
        /\ users = [q \in People |->
             IF q = p /\ first # "nobody" THEN [id |-> OldUser, phone |-> Nil] ELSE Nil]
        /\ company = [u \in Ids |->
             IF u = OldUser /\ first = "member" THEN [id |-> OldCompany, terms |-> TRUE] ELSE Nil]
  BY DEF AccountInit
<1>2. /\ \A v \in Visits : user[v] = Nil /\ owned[v] = Nil /\ doing[v] = "new"
      /\ loose = {} /\ meetings = {} /\ DOMAIN owned = Visits /\ DOMAIN plan = Visits /\ DOMAIN doomed = Visits
  BY DEF AccountInit
<1>3. \A q \in People : users[q] # Nil => q = p /\ users[q].id = OldUser
  BY <1>1
<1>4. FormInv /\ UserInv /\ PersonInv
  BY <1>2, <1>3, IdsAssumption, NilIsNothing DEF FormInv, UserInv, PersonInv,
    Writing, Deleting, Ids
<1>5. MeetInv /\ WriteInv /\ LooseInv /\ DropInv /\ LeftoversMeanOverlap
  BY <1>2 DEF MeetInv, WriteInv, LooseInv, DropInv, LeftoversMeanOverlap, Busy,
    Writing, Deleting
<1>6. CompanyInv
  BY <1>1, <1>2 DEF CompanyInv, CompanyOf
<1> QED BY <1>4, <1>5, <1>6 DEF LeftInv

(* The deletion of an account leaves nothing behind that was written for the *)
(* user or the company, but what a request wrote that was in progress with   *)
(* it (deleteEnterpriseOfUser), whatever else overlaps.                      *)
THEOREM NothingIsLeft == AccountSpec => []LeftoversMeanOverlap
<1>1. AccountInit => IInv /\ LeftInv
  BY InitHolds, InitLeft
<1>2. IInv /\ LeftInv /\ [AccountNext]_accountVars => (IInv /\ LeftInv)'
  <2>1. ASSUME IInv, LeftInv, UNCHANGED accountVars PROVE (IInv /\ LeftInv)'
    <3>1. IInv'
      BY <2>1 DEF accountVars, IInv, ShapeInv, RowsInv, HoldInv
    <3>2. (FormInv /\ UserInv /\ PersonInv /\ MeetInv)'
      BY <2>1 DEF accountVars, LeftInv, FormInv, UserInv, PersonInv, MeetInv, Busy,
        Writing, Deleting, Who
    <3>3. (CompanyInv /\ LooseInv)'
      BY <2>1 DEF accountVars, LeftInv, CompanyInv, CompanyOf, LooseInv, Leaves
    <3>4. WriteInv' /\ LeftoversMeanOverlap'
      <4>1. WriteInv'
        BY <2>1 DEF accountVars, LeftInv, WriteInv, Writing, Leaves, Belongs, Met, Live
      <4>2. LeftoversMeanOverlap'
        BY <2>1 DEF accountVars, LeftInv, Leaves, Belongs, Met, Live, LeftoversMeanOverlap
      <4> QED BY <4>1, <4>2
    <3>5. DropInv'
      BY <2>1 DEF accountVars, LeftInv, DropInv, Deleting, Drops, Met
    <3> QED BY <3>1, <3>2, <3>3, <3>4, <3>5 DEF LeftInv
  <2>2. ASSUME IInv, LeftInv, NEW v \in Visits, VisitStep(v) PROVE LeftInv'
    BY <2>2, FormStays, UsersStay, PersonsStay, MeetingsStay, CompaniesStay,
      WritersStay, LooseStays,
      DropsStay, LeftoversStay DEF LeftInv
  <2> QED BY <2>1, <2>2, NextKeeps DEF AccountNext, VisitStep
<1>3. LeftInv => LeftoversMeanOverlap
  BY DEF LeftInv
<1> QED BY <1>1, <1>2, <1>3, PTL DEF AccountSpec

-----------------------------------------------------------------------------
(* ResendLimit.                                                              *)

Row == [used : Nat, expires : Nat]
Grant == [at : Nat, done : Nat, ip : Ips, ipEnds : Nat, emailEnds : Nat]

TableInv ==
  /\ second \in Nat
  /\ limits \in [LimitKeys -> Row \cup {Nothing}]
  /\ locks = [k \in LimitKeys |-> locks[k]]
  /\ stage = [r \in Resends |-> stage[r]] /\ wrote = [r \in Resends |-> wrote[r]]
  /\ began \in [Resends -> Nat] /\ \A r \in Resends : began[r] <= second
  /\ ends \in [Resends -> [ip : Nat, email : Nat]]
  /\ locks[CooldownKey] # Nothing => locks[EmailKey] = locks[CooldownKey]
  /\ grants \in Seq(Grant)
  /\ \A i \in DOMAIN grants : grants[i].done <= second

Stale(k, r) == limits[k] = Nothing \/ limits[k].expires <= began[r]
FirstOf(r, window) == [used |-> 1, expires |-> began[r] + window]
OneMore(row, limit) == [used |-> IF row.used < limit THEN row.used + 1 ELSE limit + 1, expires |-> row.expires]

\* What r would write: one more of the window that lasts, or a new one.
IpRow(r) ==
  LET k == IpOf[r] IN
  /\ k \in DOMAIN wrote[r] /\ ends[r].ip = wrote[r][k].expires
  /\ \/ Stale(k, r) /\ wrote[r][k] = FirstOf(r, IpWindow)
     \/ ~Stale(k, r) /\ wrote[r][k] = OneMore(limits[k], IpMax)
  /\ stage[r] # "limited" => wrote[r][k].used <= IpMax

EmailRow(r) ==
  /\ EmailKey \in DOMAIN wrote[r] /\ CooldownKey \in DOMAIN wrote[r]
  /\ ends[r].email = wrote[r][EmailKey].expires
  /\ \/ Stale(EmailKey, r) /\ wrote[r][EmailKey] = FirstOf(r, EmailWindow)
     \/ /\ ~Stale(EmailKey, r) /\ limits[EmailKey].used < EmailMax
        /\ wrote[r][EmailKey] = OneMore(limits[EmailKey], EmailMax)
  /\ Stale(CooldownKey, r) /\ wrote[r][CooldownKey] = FirstOf(r, Cooldown)

Counting == {"seed", "lock", "decide", "granted", "limited"}

TxInv(r) ==
  /\ DOMAIN wrote[r] \subseteq {IpOf[r], EmailKey, CooldownKey}
  /\ \A k \in DOMAIN wrote[r] : locks[k] = r
  /\ stage[r] \notin Counting => DOMAIN wrote[r] = {}
  /\ stage[r] \in Counting => IpRow(r)
  /\ stage[r] = "seed" => EmailKey \notin DOMAIN wrote[r]
  /\ stage[r] \in {"decide", "granted"} => locks[EmailKey] = r
  /\ stage[r] = "granted" => EmailRow(r)
  /\ stage[r] # "granted" =>
       /\ CooldownKey \notin DOMAIN wrote[r]
       /\ EmailKey \in DOMAIN wrote[r] =>
            /\ limits[EmailKey] = Nothing
            /\ wrote[r][EmailKey] = [used |-> 0, expires |-> began[r] + EmailWindow]
  /\ stage[r] = "decide" => limits[EmailKey] # Nothing \/ EmailKey \in DOMAIN wrote[r]

LEMMA Numbers == /\ IpMax \in Nat /\ IpWindow \in Nat /\ EmailMax \in Nat /\ EmailWindow \in Nat
                 /\ Cooldown \in Nat /\ EmailMax > 0
BY ResendLimitsAssumption

LEMMA KeysDiffer ==
  ASSUME NEW r \in Resends
  PROVE  /\ IpOf[r] \in Ips /\ IpOf[r] # EmailKey /\ IpOf[r] # CooldownKey /\ EmailKey # CooldownKey
         /\ IpOf[r] \in LimitKeys /\ EmailKey \in LimitKeys /\ CooldownKey \in LimitKeys
BY ResendLimitsAssumption DEF LimitKeys, EmailKey, CooldownKey

LEMMA RowIsSomething == \A row \in Row : row # Nothing
BY ResendLimitsAssumption DEF Row

LEMMA ConsumedRow ==
  ASSUME NEW row \in Row \cup {Nothing}, NEW at \in Nat, NEW limit \in Nat, NEW window \in Nat
  PROVE  /\ row = Nothing \/ row.expires <= at =>
              Consumed(row, at, limit, window) = [used |-> 1, expires |-> at + window]
         /\ ~(row = Nothing \/ row.expires <= at) =>
              Consumed(row, at, limit, window) = OneMore(row, limit)
<1>1. CASE row = Nothing \/ row.expires <= at
  BY <1>1 DEF Consumed
<1>2. CASE ~(row = Nothing \/ row.expires <= at)
  <2>1. row = [used |-> row.used, expires |-> row.expires] /\ row.used \in Nat
    BY <1>2 DEF Row
  <2>2. Consumed(row, at, limit, window) =
          [row EXCEPT !.used = IF row.used + 1 < limit + 1 THEN row.used + 1 ELSE limit + 1]
    BY <1>2 DEF Consumed
  <2>3. row.used + 1 < limit + 1 <=> row.used < limit
    BY <2>1
  <2> QED BY <1>2, <2>1, <2>2, <2>3 DEF OneMore
<1> QED BY <1>1, <1>2

LEMMA WroteIsRow ==
  ASSUME TableInv, NEW r \in Resends, TxInv(r), NEW k \in DOMAIN wrote[r]
  PROVE  wrote[r][k] \in Row
<1>1. k \in {IpOf[r], EmailKey, CooldownKey} /\ began[r] \in Nat
  BY DEF TxInv, TableInv
<1>2. \A x \in LimitKeys : limits[x] # Nothing => limits[x].used \in Nat /\ limits[x].expires \in Nat
  BY DEF TableInv, Row
<1>3. CASE k = IpOf[r]
  <2>1. IpRow(r)
    BY <1>3 DEF TxInv
  <2> QED BY <1>1, <1>2, <1>3, <2>1, KeysDiffer, Numbers DEF IpRow, Stale, FirstOf, OneMore, Row
<1>4. CASE k = EmailKey /\ stage[r] # "granted"
  BY <1>1, <1>4, Numbers DEF TxInv, Row
<1>5. CASE stage[r] = "granted" /\ k # IpOf[r]
  <2>1. EmailRow(r)
    BY <1>5 DEF TxInv
  <2> QED BY <1>1, <1>2, <1>5, <2>1, KeysDiffer, Numbers DEF EmailRow, Stale, FirstOf, OneMore,
    Row
<1>6. CASE k = CooldownKey /\ stage[r] # "granted"
  BY <1>6 DEF TxInv
<1> QED BY <1>1, <1>3, <1>4, <1>5, <1>6

\* What a transaction wrote rests on rows that it locks.
LEMMA OthersKeep ==
  ASSUME NEW q \in Resends, TxInv(q),
         wrote'[q] = wrote[q], stage'[q] = stage[q], began'[q] = began[q], ends'[q] = ends[q],
         \A k \in LimitKeys : locks[k] = q => locks'[k] = q /\ limits'[k] = limits[k]
  PROVE  TxInv(q)'
<1> USE KeysDiffer
<1>1. stage[q] \in Counting => IpRow(q)'
  BY DEF TxInv, IpRow, Stale, FirstOf, OneMore
<1>2. stage[q] = "granted" => EmailRow(q)'
  BY DEF TxInv, EmailRow, Stale, FirstOf, OneMore
<1> QED BY <1>1, <1>2 DEF TxInv

\* A transaction writes and locks only rows that are its own.
LEMMA StepKeepsOthers ==
  ASSUME TableInv, NEW r \in Resends, NEW q \in Resends \ {r}, \A x \in Resends : TxInv(x),
         \/ BeginResend(r) \/ ConsumeIp(r) \/ SeedEmail(r) \/ LockEmail(r) \/ Decide(r)
         \/ CommitResend(r) \/ AbortResend(r) \/ Cleanup(r)
  PROVE  TxInv(q)'
<1>1. /\ wrote'[q] = wrote[q] /\ stage'[q] = stage[q] /\ began'[q] = began[q] /\ ends'[q] = ends[q]
  BY DEF TableInv, BeginResend, ConsumeIp, SeedEmail, LockEmail, Decide, CommitResend, AbortResend, Cleanup,
         Moves, Writes
<1>2. ASSUME NEW k \in LimitKeys, locks[k] = q PROVE locks'[k] = q /\ limits'[k] = limits[k]
  <2> USE DEF TableInv, Holds, Free
  <2>1. q # Nothing /\ q # r
    BY ResendLimitsAssumption
  <2>2. CASE BeginResend(r)
    BY <1>2, <2>2 DEF BeginResend
  <2>3. CASE ConsumeIp(r)
    BY <1>2, <2>1, <2>3 DEF ConsumeIp
  <2>4. CASE SeedEmail(r)
    BY <1>2, <2>1, <2>4 DEF SeedEmail
  <2>5. CASE LockEmail(r)
    BY <1>2, <2>1, <2>5 DEF LockEmail
  <2>6. CASE AbortResend(r)
    BY <1>2, <2>1, <2>6 DEF AbortResend
  <2>7. CASE Decide(r)
    <3>1. locks[EmailKey] = r
      BY <2>7 DEF Decide, TxInv
    <3>2. k # CooldownKey
      BY <1>2, <2>1, <3>1
    <3> QED BY <1>2, <2>1, <2>7, <3>2 DEF Decide
  <2>8. CASE CommitResend(r)
    <3>1. k \notin DOMAIN wrote[r]
      BY <1>2, <2>1 DEF TxInv
    <3> QED BY <1>2, <2>1, <2>8, <3>1 DEF CommitResend, Seen
  <2>9. CASE Cleanup(r)
    BY <1>2, <2>1, <2>9 DEF Cleanup
  <2> QED BY <2>2, <2>3, <2>4, <2>5, <2>6, <2>7, <2>8, <2>9
<1> QED BY <1>1, <1>2, OthersKeep

\* Each step of a transaction does to it what TxInv says.
LEMMA BeginOwn ==
  ASSUME TableInv, NEW r \in Resends, TxInv(r), BeginResend(r) PROVE TxInv(r)'
<1>1. /\ stage[r] = "idle" /\ stage'[r] = "ip" /\ UNCHANGED <<wrote, locks, limits>>
  BY DEF TableInv, BeginResend, Moves
<1>2. DOMAIN wrote[r] = {}
  BY <1>1 DEF TxInv, Counting
<1> QED BY <1>1, <1>2 DEF TxInv, Counting

LEMMA EndOwn ==
  ASSUME NEW r, DOMAIN wrote'[r] = {}, stage'[r] \in {"unavailable", "cleanup", "answered"}
  PROVE  TxInv(r)'
BY DEF TxInv, Counting

LEMMA ConsumeIpOwn ==
  ASSUME TableInv, NEW r \in Resends, TxInv(r), ConsumeIp(r) PROVE TxInv(r)'
<1> DEFINE k == IpOf[r]  row == Consumed(limits[k], began[r], IpMax, IpWindow)
<1>1. stage[r] = "ip" /\ DOMAIN wrote[r] = {}
  BY DEF ConsumeIp, TxInv, Counting
<1>2. Seen(r, k) = limits[k]
  BY <1>1 DEF Seen
<1>3. /\ wrote'[r] = [x \in {k} |-> row] /\ ends'[r].ip = row.expires
      /\ stage'[r] = IF row.used <= IpMax THEN "seed" ELSE "limited"
      /\ locks'[k] = r /\ UNCHANGED <<limits, began>>
  <2>1. /\ Writes(r, One(k, row)) /\ ends' = [ends EXCEPT ![r].ip = row.expires]
        /\ Moves(r, IF row.used <= IpMax THEN "seed" ELSE "limited") /\ Holds(r, {k})
        /\ UNCHANGED <<limits, began>>
    BY <1>2 DEF ConsumeIp
  <2>2. wrote'[r] = [x \in {k} |-> row]
    BY <1>1, <2>1 DEF TableInv, Writes, One
  <2>3. ends'[r].ip = row.expires
    BY <2>1 DEF TableInv
  <2> QED BY <2>1, <2>2, <2>3, KeysDiffer DEF TableInv, Moves, Holds
<1>4. /\ Stale(k, r) => row = FirstOf(r, IpWindow)
      /\ ~Stale(k, r) => row = OneMore(limits[k], IpMax)
  <2> DEFINE l == limits[k]  b == began[r]
  <2>1. l \in Row \cup {Nothing} /\ b \in Nat
    BY KeysDiffer DEF TableInv
  <2>2. /\ l = Nothing \/ l.expires <= b =>
             Consumed(l, b, IpMax, IpWindow) = [used |-> 1, expires |-> b + IpWindow]
        /\ ~(l = Nothing \/ l.expires <= b) => Consumed(l, b, IpMax, IpWindow) = OneMore(l, IpMax)
    <3> HIDE DEF l, b, k
    <3> QED BY <2>1, ConsumedRow, Numbers
  <2> QED BY <2>2 DEF Stale, FirstOf
<1> HIDE DEF row
<1>5. IpRow(r)'
  BY <1>3, <1>4 DEF IpRow, Stale, FirstOf, OneMore
<1> QED BY <1>3, <1>5, KeysDiffer DEF TxInv, Counting
LEMMA SeedEmailOwn ==
  ASSUME TableInv, NEW r \in Resends, TxInv(r), SeedEmail(r) PROVE TxInv(r)'
<1>1. /\ stage[r] = "seed" /\ stage'[r] = "lock" /\ UNCHANGED <<limits, began, ends>>
      /\ EmailKey \notin DOMAIN wrote[r] /\ CooldownKey \notin DOMAIN wrote[r]
  BY DEF SeedEmail, Moves, TableInv, TxInv
<1>2. IpRow(r) /\ DOMAIN wrote[r] \subseteq {IpOf[r]} /\ \A k \in DOMAIN wrote[r] : locks[k] = r
  BY <1>1 DEF TxInv, Counting
<1>3. CASE limits[EmailKey] # Nothing
  <2>1. UNCHANGED <<wrote, locks>>
    BY <1>3 DEF SeedEmail
  <2>2. IpRow(r)'
    BY <1>1, <1>2, <2>1 DEF IpRow, Stale, FirstOf, OneMore
  <2> QED BY <1>1, <1>2, <2>1, <2>2 DEF TxInv, Counting
<1>4. CASE limits[EmailKey] = Nothing
  <2> DEFINE seed == [used |-> 0, expires |-> began[r] + EmailWindow]
  <2>1. Holds(r, {EmailKey}) /\ Writes(r, One(EmailKey, seed))
    BY <1>4 DEF SeedEmail
  <2> HIDE DEF seed
  <2>2. /\ DOMAIN wrote'[r] = DOMAIN wrote[r] \cup {EmailKey} /\ wrote'[r][EmailKey] = seed
        /\ \A k \in DOMAIN wrote[r] : wrote'[r][k] = wrote[r][k]
    BY <1>1, <2>1 DEF Writes, One, TableInv
  <2>3. \A k \in DOMAIN wrote'[r] : locks'[k] = r
    BY <1>2, <2>1, <2>2, KeysDiffer DEF Holds
  <2>4. IpRow(r)'
    BY <1>1, <1>2, <2>2 DEF IpRow, Stale, FirstOf, OneMore
  <2> QED BY <1>1, <1>2, <1>4, <2>2, <2>3, <2>4, KeysDiffer DEF TxInv, Counting, seed
<1> QED BY <1>3, <1>4

LEMMA LockEmailOwn ==
  ASSUME TableInv, NEW r \in Resends, TxInv(r), LockEmail(r) PROVE TxInv(r)'
<1>1. stage[r] = "lock" /\ UNCHANGED <<limits, began, ends>>
  BY DEF LockEmail
<1>2. CASE Seen(r, EmailKey) = Nothing
  <2>1. wrote'[r] = [k \in {} |-> Nothing] /\ stage'[r] = "unavailable"
    BY <1>2 DEF LockEmail, Moves, TableInv
  <2> QED BY <2>1, EndOwn
<1>3. CASE Seen(r, EmailKey) # Nothing
  <2>1. stage'[r] = "decide" /\ Holds(r, {EmailKey}) /\ UNCHANGED wrote
    BY <1>3 DEF LockEmail, Moves, TableInv
  <2>2. locks'[EmailKey] = r /\ \A k \in LimitKeys : locks[k] = r => locks'[k] = r
    BY <2>1, KeysDiffer DEF Holds
  <2>3. IpRow(r)'
    BY <1>1, <2>1 DEF TxInv, Counting, IpRow, Stale, FirstOf, OneMore
  <2>4. limits[EmailKey] # Nothing \/ EmailKey \in DOMAIN wrote[r]
    BY <1>3 DEF Seen
  <2> QED BY <1>1, <2>1, <2>2, <2>3, <2>4, KeysDiffer DEF TxInv, Counting
<1> QED BY <1>2, <1>3

LEMMA DecideOwn ==
  ASSUME TableInv, NEW r \in Resends, TxInv(r), Decide(r) PROVE TxInv(r)'
<1>1. /\ stage[r] = "decide" /\ locks[EmailKey] = r /\ UNCHANGED <<limits, began>>
      /\ IpRow(r) /\ wrote[r][IpOf[r]].used <= IpMax
  BY DEF Decide, TxInv, Counting, IpRow
<1>2. CASE Cooling(r) \/ QuotaSpent(r)
  <2>1. stage'[r] = "limited" /\ UNCHANGED <<wrote, locks, ends>>
    BY <1>2 DEF Decide, Moves, TableInv
  <2>2. IpRow(r)'
    BY <1>1, <2>1 DEF IpRow, Stale, FirstOf, OneMore
  <2> QED BY <1>1, <2>1, <2>2 DEF TxInv, Counting
<1>3. CASE ~(Cooling(r) \/ QuotaSpent(r))
  <2> DEFINE old == Seen(r, EmailKey)  row == Consumed(old, began[r], EmailMax, EmailWindow)
             cool == [used |-> 1, expires |-> began[r] + Cooldown]
  <2>1. /\ stage'[r] = "granted" /\ ends' = [ends EXCEPT ![r].email = row.expires]
        /\ Writes(r, [k \in {EmailKey, CooldownKey} |-> IF k = EmailKey THEN row ELSE cool])
        /\ Holds(r, {CooldownKey})
    BY <1>3 DEF Decide, Moves, TableInv
  <2> HIDE DEF row, cool
  <2>2. /\ DOMAIN wrote'[r] = DOMAIN wrote[r] \cup {EmailKey, CooldownKey}
        /\ wrote'[r][EmailKey] = row /\ wrote'[r][CooldownKey] = cool
        /\ \A k \in DOMAIN wrote[r] \ {EmailKey, CooldownKey} : wrote'[r][k] = wrote[r][k]
    BY <2>1, KeysDiffer DEF Writes, TableInv
  <2>3. ends'[r].ip = ends[r].ip /\ ends'[r].email = row.expires
    BY <2>1 DEF TableInv
  <2>4. \A k \in DOMAIN wrote'[r] : locks'[k] = r
    BY <1>1, <2>1, <2>2, KeysDiffer DEF Holds, TxInv
  <2>5. IpRow(r)'
    BY <1>1, <2>2, <2>3, KeysDiffer DEF IpRow, Stale, FirstOf, OneMore
  <2>6. Stale(CooldownKey, r) /\ cool = FirstOf(r, Cooldown)
    <3>1. began[r] \in Nat
          /\ (limits[CooldownKey] # Nothing => limits[CooldownKey].expires \in Nat)
      BY KeysDiffer DEF TableInv, Row
    <3> QED BY <1>3, <3>1 DEF Cooling, Stale, FirstOf, cool
  <2>7. \/ Stale(EmailKey, r) /\ row = FirstOf(r, EmailWindow)
        \/ /\ ~Stale(EmailKey, r) /\ limits[EmailKey].used < EmailMax
           /\ row = OneMore(limits[EmailKey], EmailMax)
    <3> DEFINE b == began[r]
    <3>1. old \in Row /\ old # Nothing /\ b \in Nat
      <4>1. old \in Row
        BY <1>1, KeysDiffer, WroteIsRow DEF Seen, TxInv, TableInv
      <4> QED BY <4>1, RowIsSomething DEF TableInv
    <3>2. /\ old.expires <= b => row = [used |-> 1, expires |-> b + EmailWindow]
          /\ ~(old.expires <= b) => row = OneMore(old, EmailMax) /\ old.used < EmailMax
      <4>1. ~(old.expires <= b) => old.used < EmailMax
        BY <1>3, <3>1, Numbers DEF QuotaSpent, Row
      <4>2. row = Consumed(old, b, EmailMax, EmailWindow)
        BY DEF row
      <4> HIDE DEF old, b
      <4> QED BY <3>1, <4>1, <4>2, ConsumedRow, Numbers
    <3>3. CASE EmailKey \notin DOMAIN wrote[r]
      <4>1. old = limits[EmailKey]
        BY <3>3 DEF Seen
      <4> QED BY <3>1, <3>2, <4>1 DEF Stale, FirstOf
    <3>4. CASE EmailKey \in DOMAIN wrote[r]
      <4>1. limits[EmailKey] = Nothing /\ old = [used |-> 0, expires |-> b + EmailWindow]
        BY <1>1, <3>4 DEF TxInv, Seen
      <4>2. row = [used |-> 1, expires |-> b + EmailWindow]
        BY <3>1, <3>2, <4>1, Numbers DEF OneMore
      <4> QED BY <4>1, <4>2 DEF Stale, FirstOf
    <3> QED BY <3>3, <3>4
  <2>8. EmailRow(r)'
    BY <1>1, <2>2, <2>3, <2>6, <2>7 DEF EmailRow, Stale, FirstOf, OneMore
  <2> QED BY <1>1, <2>1, <2>2, <2>4, <2>5, <2>8, KeysDiffer DEF TxInv, Counting, Holds
<1> QED BY <1>2, <1>3

LEMMA OwnKept ==
  ASSUME TableInv, \A x \in Resends : TxInv(x), [LimitNext]_limitVars
  PROVE  \A x \in Resends : TxInv(x)'
<1>1. CASE UNCHANGED <<limits, wrote, locks, stage, began, ends>>
  BY <1>1, OthersKeep
<1>2. ASSUME NEW r \in Resends,
             \/ BeginResend(r) \/ ConsumeIp(r) \/ SeedEmail(r) \/ LockEmail(r) \/ Decide(r)
             \/ CommitResend(r) \/ AbortResend(r) \/ Cleanup(r)
      PROVE  TxInv(r)'
  <2>1. CommitResend(r) \/ AbortResend(r) => wrote'[r] = [k \in {} |-> Nothing] /\ stage'[r] \in {"cleanup", "unavailable"}
    BY DEF CommitResend, AbortResend, Moves, TableInv
  <2>2. Cleanup(r) => DOMAIN wrote'[r] = {} /\ stage'[r] = "answered"
    BY DEF Cleanup, Moves, TableInv, TxInv, Counting
  <2> QED BY <1>2, <2>1, <2>2, BeginOwn, ConsumeIpOwn, SeedEmailOwn, LockEmailOwn, DecideOwn, EndOwn
<1> QED BY <1>1, <1>2, StepKeepsOthers DEF LimitNext, limitVars, ResendTick

LEMMA SeenRow ==
  ASSUME TableInv, NEW r \in Resends, TxInv(r), NEW k \in LimitKeys
  PROVE  Seen(r, k) \in Row \cup {Nothing}
BY WroteIsRow DEF Seen, TableInv

LEMMA GrantMade ==
  ASSUME TableInv, NEW r \in Resends
  PROVE  [at |-> began[r], done |-> second, ip |-> IpOf[r],
          ipEnds |-> ends[r].ip, emailEnds |-> ends[r].email] \in Grant
BY KeysDiffer DEF TableInv, Grant

LEMMA EndsTyped ==
  ASSUME TableInv, NEW r \in Resends, NEW n \in Nat
  PROVE  /\ [ends EXCEPT ![r].ip = n] \in [Resends -> [ip : Nat, email : Nat]]
         /\ [ends EXCEPT ![r].email = n] \in [Resends -> [ip : Nat, email : Nat]]
BY DEF TableInv

LEMMA ConsumedEnds ==
  ASSUME NEW row \in Row \cup {Nothing}, NEW at \in Nat, NEW limit \in Nat, NEW window \in Nat
  PROVE  Consumed(row, at, limit, window).expires \in Nat
<1>1. CASE row = Nothing \/ row.expires <= at
  <2>1. Consumed(row, at, limit, window) = [used |-> 1, expires |-> at + window] /\ at + window \in Nat
    BY <1>1, ConsumedRow
  <2> QED BY <2>1
<1>2. CASE ~(row = Nothing \/ row.expires <= at)
  <2>1. row.expires \in Nat /\ OneMore(row, limit).expires = row.expires
    BY <1>2 DEF Row, OneMore
  <2> QED BY <1>2, <2>1, ConsumedRow
<1> QED BY <1>1, <1>2

LEMMA TableKept ==
  ASSUME TableInv, \A x \in Resends : TxInv(x), \A x \in Resends : TxInv(x)',
         [LimitNext]_limitVars
  PROVE  TableInv'
<1>1. CASE UNCHANGED limitVars
  BY <1>1 DEF limitVars, TableInv
<1>2. CASE ResendTick
  <2>1. second' = second + 1 /\ second \in Nat
        /\ UNCHANGED <<limits, wrote, locks, stage, began, ends, grants>>
    BY <1>2 DEF ResendTick, TableInv
  <2>2. /\ \A r \in Resends : began[r] \in Nat /\ began[r] <= second
        /\ \A i \in DOMAIN grants : grants[i].done \in Nat /\ grants[i].done <= second
    <3>1. \A i \in DOMAIN grants : grants[i] \in Grant
      BY DEF TableInv
    <3> QED BY <3>1 DEF TableInv, Grant
  <2>3. /\ \A r \in Resends : began[r] <= second + 1
        /\ \A i \in DOMAIN grants : grants[i].done <= second + 1
    BY <2>1, <2>2
  <2>4. second + 1 \in Nat
    BY <2>1
  <2> QED BY <2>1, <2>3, <2>4 DEF TableInv
<1>3. ASSUME NEW r \in Resends, BeginResend(r) PROVE TableInv'
  <2>1. began' = [began EXCEPT ![r] = second] /\ stage' = [stage EXCEPT ![r] = "ip"]
        /\ UNCHANGED <<limits, wrote, locks, ends, second, grants>>
    BY <1>3 DEF BeginResend, Moves
  <2>2. began' \in [Resends -> Nat] /\ \A x \in Resends : began'[x] <= second
    BY <2>1 DEF TableInv
  <2> QED BY <2>1, <2>2 DEF TableInv
<1>4. ASSUME NEW r \in Resends, ConsumeIp(r) PROVE TableInv'
  <2> DEFINE row == Consumed(Seen(r, IpOf[r]), began[r], IpMax, IpWindow)
  <2>1. /\ Writes(r, One(IpOf[r], row)) /\ ends' = [ends EXCEPT ![r].ip = row.expires]
        /\ stage' = [stage EXCEPT ![r] = IF row.used <= IpMax THEN "seed" ELSE "limited"]
        /\ Holds(r, {IpOf[r]}) /\ UNCHANGED <<limits, began, second, grants>>
    BY <1>4 DEF ConsumeIp, Moves
  <2>2. row.expires \in Nat
    <3> DEFINE old == Seen(r, IpOf[r])  b == began[r]
    <3>1. old \in Row \cup {Nothing} /\ b \in Nat
      BY SeenRow, KeysDiffer DEF TableInv
    <3>2. row = Consumed(old, b, IpMax, IpWindow)
      OBVIOUS
    <3> HIDE DEF row, old, b
    <3> QED BY <3>1, <3>2, ConsumedEnds, Numbers
  <2> HIDE DEF row
  <2>3. locks' = [k \in LimitKeys |-> locks'[k]] /\ UNCHANGED <<locks[CooldownKey], locks[EmailKey]>>
    BY <2>1, KeysDiffer DEF Holds
  <2> QED BY <2>1, <2>2, <2>3, EndsTyped DEF TableInv, Writes
<1>5. ASSUME NEW r \in Resends, SeedEmail(r) PROVE TableInv'
  <2>1. locks' = [k \in LimitKeys |-> locks'[k]] /\ wrote' = [x \in Resends |-> wrote'[x]]
        /\ (locks'[CooldownKey] # Nothing => locks'[EmailKey] = locks'[CooldownKey])
    BY <1>5, KeysDiffer DEF SeedEmail, TableInv, Holds, Writes, Free
  <2> QED BY <1>5, <2>1 DEF SeedEmail, Moves, TableInv
<1>6. ASSUME NEW r \in Resends, LockEmail(r) PROVE TableInv'
  <2>1. locks' = [k \in LimitKeys |-> locks'[k]] /\ wrote' = [x \in Resends |-> wrote'[x]]
        /\ (locks'[CooldownKey] # Nothing => locks'[EmailKey] = locks'[CooldownKey])
    BY <1>6, KeysDiffer, ResendLimitsAssumption DEF LockEmail, TableInv, Holds, Free
  <2> QED BY <1>6, <2>1 DEF LockEmail, Moves, TableInv
<1>7. ASSUME NEW r \in Resends, Decide(r) PROVE TableInv'
  <2>1. locks' = [k \in LimitKeys |-> locks'[k]] /\ wrote' = [x \in Resends |-> wrote'[x]]
    BY <1>7 DEF Decide, TableInv, Holds, Writes
  <2>2. locks[EmailKey] = r
    BY <1>7 DEF Decide, TxInv
  <2>3. locks'[CooldownKey] # Nothing => locks'[EmailKey] = locks'[CooldownKey]
    BY <1>7, <2>2, KeysDiffer DEF Decide, TableInv, Holds
  <2>4. ends' \in [Resends -> [ip : Nat, email : Nat]]
    <3>1. CASE Cooling(r) \/ QuotaSpent(r)
      BY <1>7, <3>1 DEF Decide, TableInv
    <3>2. CASE ~(Cooling(r) \/ QuotaSpent(r))
      <4> DEFINE old == Seen(r, EmailKey)  b == began[r]
                 row == Consumed(old, b, EmailMax, EmailWindow)
      <4>1. old \in Row \cup {Nothing} /\ b \in Nat
        BY SeenRow, KeysDiffer DEF TableInv
      <4>2. ends' = [ends EXCEPT ![r].email = row.expires]
        BY <1>7, <3>2 DEF Decide
      <4>3. row.expires \in Nat
        <5>1. row = Consumed(old, b, EmailMax, EmailWindow)
          OBVIOUS
        <5> HIDE DEF row, old, b
        <5> QED BY <4>1, <5>1, ConsumedEnds, Numbers
      <4> HIDE DEF row
      <4> QED BY <4>2, <4>3, EndsTyped
    <3> QED BY <3>1, <3>2
  <2> QED BY <1>7, <2>1, <2>3, <2>4 DEF Decide, Moves, TableInv
<1>8. ASSUME NEW r \in Resends, CommitResend(r) PROVE TableInv'
  <2>1. limits' \in [LimitKeys -> Row \cup {Nothing}]
    BY <1>8, SeenRow DEF CommitResend
  <2>2. /\ grants' \in Seq(Grant)
        /\ \A i \in DOMAIN grants' : grants'[i].done <= second
    <3> DEFINE g == [at |-> began[r], done |-> second, ip |-> IpOf[r],
                     ipEnds |-> ends[r].ip, emailEnds |-> ends[r].email]
    <3>1. g \in Grant /\ g.done = second
      BY GrantMade
    <3>2. grants' = Append(grants, g) \/ grants' = grants
      BY <1>8 DEF CommitResend
    <3> HIDE DEF g
    <3>3. CASE grants' = Append(grants, g)
      <4>1. /\ Len(grants') = Len(grants) + 1 /\ grants' \in Seq(Grant)
            /\ \A i \in 1 .. Len(grants) : grants'[i] = grants[i]
            /\ grants'[Len(grants) + 1] = g
        BY <3>1, <3>3 DEF TableInv
      <4>2. DOMAIN grants' = 1 .. Len(grants) + 1 /\ DOMAIN grants = 1 .. Len(grants)
            /\ Len(grants) \in Nat
        BY <4>1 DEF TableInv
      <4>3. ASSUME NEW i \in DOMAIN grants' PROVE grants'[i].done <= second
        <5>1. CASE i = Len(grants) + 1
          BY <3>1, <4>1, <5>1 DEF TableInv
        <5>2. CASE i # Len(grants) + 1
          BY <4>1, <4>2, <5>2 DEF TableInv
        <5> QED BY <5>1, <5>2
      <4> QED BY <4>1, <4>3
    <3> QED BY <3>2, <3>3 DEF TableInv
  <2>3. /\ stage' = [x \in Resends |-> stage'[x]] /\ wrote' = [x \in Resends |-> wrote'[x]]
        /\ locks' = [k \in LimitKeys |-> locks'[k]] /\ UNCHANGED <<began, ends, second>>
        /\ (locks'[CooldownKey] # Nothing => locks'[EmailKey] = locks'[CooldownKey])
    BY <1>8, KeysDiffer DEF CommitResend, Moves, TableInv
  <2> QED BY <2>1, <2>2, <2>3 DEF TableInv
<1>9. ASSUME NEW r \in Resends, AbortResend(r) PROVE TableInv'
  <2>1. /\ stage' = [x \in Resends |-> stage'[x]] /\ wrote' = [x \in Resends |-> wrote'[x]]
        /\ locks' = [k \in LimitKeys |-> locks'[k]]
        /\ (locks'[CooldownKey] # Nothing => locks'[EmailKey] = locks'[CooldownKey])
    BY <1>9, KeysDiffer DEF AbortResend, Moves, TableInv
  <2> QED BY <1>9, <2>1 DEF AbortResend, TableInv
<1>10. ASSUME NEW r \in Resends, Cleanup(r) PROVE TableInv'
  BY <1>10 DEF Cleanup, Moves, TableInv
<1> QED BY <1>1, <1>2, <1>3, <1>4, <1>5, <1>6, <1>7, <1>8, <1>9, <1>10 DEF LimitNext

Windows == Ips \cup {EmailKey}
Quota(k) == IF k = EmailKey THEN EmailMax ELSE IpMax
EndOf(g, k) == IF k = EmailKey THEN g.emailEnds ELSE g.ipEnds
Marks(k, end) == {i \in DOMAIN grants : (k = EmailKey \/ grants[i].ip = k) /\ EndOf(grants[i], k) = end}
Early(k, end) == {i \in Marks(k, end) : grants[i].done < end}

\* A window grants no more than its quota; while it lasts, its row counts its grants.
WindowAt(k, end) ==
  /\ Cardinality(Early(k, end)) <= Quota(k)
  /\ end > second /\ Marks(k, end) # {} =>
       /\ limits[k] # Nothing /\ limits[k].expires = end
       /\ Cardinality(Marks(k, end)) <= limits[k].used

CoolInv ==
  \A i \in DOMAIN grants : grants[i].at + Cooldown > second =>
    limits[CooldownKey] # Nothing /\ limits[CooldownKey].expires >= grants[i].at + Cooldown

PairInv ==
  \A j \in DOMAIN grants : \A i \in 1 .. j - 1 :
    /\ grants[j].done >= grants[i].at + Cooldown
    /\ grants[i].emailEnds # grants[j].emailEnds => grants[j].done >= grants[i].emailEnds

ResendInv ==
  /\ TableInv /\ \A r \in Resends : TxInv(r)
  /\ \A k \in Windows, end \in Nat : WindowAt(k, end)
  /\ CoolInv /\ PairInv

LEMMA GrantTyped ==
  ASSUME TableInv
  PROVE  /\ Len(grants) \in Nat /\ DOMAIN grants = 1 .. Len(grants)
         /\ \A i \in DOMAIN grants :
              /\ grants[i] \in Grant /\ grants[i].at \in Nat /\ grants[i].done \in Nat
              /\ grants[i].emailEnds \in Nat /\ grants[i].ipEnds \in Nat /\ grants[i].ip \in Ips
<1>1. \A i \in DOMAIN grants : grants[i] \in Grant
  BY DEF TableInv
<1>2. Len(grants) \in Nat /\ DOMAIN grants = 1 .. Len(grants)
  BY DEF TableInv
<1> QED BY <1>1, <1>2 DEF Grant

LEMMA MarksFinite ==
  ASSUME TableInv, NEW k, NEW end
  PROVE  /\ IsFiniteSet(Marks(k, end)) /\ Cardinality(Marks(k, end)) \in Nat
         /\ IsFiniteSet(Early(k, end)) /\ Cardinality(Early(k, end)) \in Nat
         /\ Cardinality(Early(k, end)) <= Cardinality(Marks(k, end))
<1>1. IsFiniteSet(1 .. Len(grants)) /\ Marks(k, end) \subseteq 1 .. Len(grants)
  BY GrantTyped, FS_Interval DEF Marks
<1>2. IsFiniteSet(Marks(k, end)) /\ Early(k, end) \subseteq Marks(k, end)
  BY <1>1, FS_Subset DEF Early
<1> QED BY <1>2, FS_Subset, FS_CardinalityType

\* While a window lasts, all its grants are early.
LEMMA LastingIsEarly ==
  ASSUME TableInv, NEW k, NEW end \in Nat, end > second PROVE Early(k, end) = Marks(k, end)
<1>1. \A i \in DOMAIN grants : grants[i].done < end
  <2>1. \A i \in DOMAIN grants : grants[i].done <= second /\ grants[i].done \in Nat
    BY GrantTyped DEF TableInv
  <2> QED BY <2>1 DEF TableInv
<1> QED BY <1>1 DEF Early, Marks

\* Nothing is granted in the window: what its row loses is not missed.
LEMMA WindowKept ==
  ASSUME TableInv, TableInv', NEW k \in Windows, NEW end \in Nat, WindowAt(k, end),
         second' >= second, Marks(k, end)' = Marks(k, end), Early(k, end)' = Early(k, end),
         \/ limits'[k] = limits[k] \/ limits[k] = Nothing \/ limits[k].expires <= second
         \/ /\ limits'[k] # Nothing /\ limits'[k].expires = limits[k].expires
            /\ limits'[k].used >= limits[k].used \/ limits'[k].used >= Quota(k)
  PROVE  WindowAt(k, end)'
<1> DEFINE c == Cardinality(Marks(k, end))  q == Quota(k)
<1>1. c \in Nat /\ q \in Nat
  BY MarksFinite, Numbers DEF Quota
<1>2. Cardinality(Early(k, end)') <= q /\ q' = q
  BY DEF WindowAt, Quota
<1>3. ASSUME end > second', Marks(k, end) # {}
      PROVE  limits'[k] # Nothing /\ limits'[k].expires = end /\ c <= limits'[k].used
  <2>1. second \in Nat /\ second' \in Nat /\ end > second
    BY <1>3 DEF TableInv
  <2>2. limits[k] # Nothing /\ limits[k].expires = end /\ c <= limits[k].used
    BY <1>3, <2>1 DEF WindowAt
  <2>3. c <= q
    BY <2>1, LastingIsEarly DEF WindowAt
  <2>4. k \in LimitKeys
    BY DEF Windows, LimitKeys
  <2>5. limits[k] \in Row /\ (limits'[k] # Nothing => limits'[k] \in Row)
    BY <2>2, <2>4 DEF TableInv
  <2>6. limits[k].used \in Nat /\ (limits'[k] # Nothing => limits'[k].used \in Nat)
    BY <2>5 DEF Row
  <2> HIDE DEF c, q
  <2> QED BY <1>1, <2>1, <2>2, <2>3, <2>6 DEF q
<1>4. Cardinality(Marks(k, end)') = c
  OBVIOUS
<1> HIDE DEF c, q
<1>5. Cardinality(Early(k, end)') <= Quota(k)'
  BY <1>2 DEF q
<1> QED BY <1>3, <1>4, <1>5 DEF WindowAt

\* One grant more.
LEMMA AppendedMarks ==
  ASSUME TableInv, NEW g \in Grant, grants' = Append(grants, g), NEW k, NEW end
  PROVE  LET n == Len(grants) + 1
             its == (k = EmailKey \/ g.ip = k) /\ EndOf(g, k) = end IN
         /\ n \notin DOMAIN grants /\ DOMAIN grants' = DOMAIN grants \cup {n}
         /\ grants'[n] = g /\ \A i \in DOMAIN grants : grants'[i] = grants[i]
         /\ Marks(k, end)' = IF its THEN Marks(k, end) \cup {n} ELSE Marks(k, end)
         /\ Early(k, end)' = IF its /\ g.done < end THEN Early(k, end) \cup {n} ELSE Early(k, end)
<1> DEFINE n == Len(grants) + 1
           its == (k = EmailKey \/ g.ip = k) /\ EndOf(g, k) = end
<1>1. /\ n \notin DOMAIN grants /\ DOMAIN grants' = DOMAIN grants \cup {n}
      /\ grants'[n] = g /\ \A i \in DOMAIN grants : grants'[i] = grants[i]
  BY DEF TableInv
<1> HIDE DEF n
<1>2. Marks(k, end)' = IF its THEN Marks(k, end) \cup {n} ELSE Marks(k, end)
  BY <1>1 DEF Marks, EndOf
<1>3. Early(k, end)' = IF its /\ g.done < end THEN Early(k, end) \cup {n} ELSE Early(k, end)
  <2>1. Marks(k, end) \subseteq DOMAIN grants
    BY DEF Marks
  <2> QED BY <1>1, <1>2, <2>1 DEF Early
<1> QED BY <1>1, <1>2, <1>3 DEF n

\* A grant of the window that lasts is one more in its row; another starts a window.
LEMMA WindowGrants ==
  ASSUME TableInv, TableInv', NEW k \in Windows, NEW end \in Nat, WindowAt(k, end),
         NEW g \in Grant, grants' = Append(grants, g), g.done = second, second' = second,
         k = EmailKey \/ g.ip = k, NEW row \in Row, limits'[k] = row, EndOf(g, k) = row.expires,
         1 <= row.used, row.used <= Quota(k),
         limits[k] # Nothing /\ limits[k].expires > second =>
           row.expires = limits[k].expires /\ row.used = limits[k].used + 1
  PROVE  WindowAt(k, end)'
<1> DEFINE n == Len(grants) + 1
<1>1. /\ n \notin DOMAIN grants
      /\ Marks(k, end)' = IF row.expires = end THEN Marks(k, end) \cup {n} ELSE Marks(k, end)
      /\ Early(k, end)' = IF row.expires = end /\ second < end THEN Early(k, end) \cup {n} ELSE Early(k, end)
  BY AppendedMarks
<1> HIDE DEF n
<1>2. /\ row # Nothing /\ row.used \in Nat /\ row.expires \in Nat /\ second \in Nat
      /\ Quota(k)' = Quota(k) /\ Quota(k) \in Nat
  BY RowIsSomething, Numbers DEF Row, TableInv, Quota
<1>3. limits[k] # Nothing => limits[k].used \in Nat /\ limits[k].expires \in Nat
  BY DEF TableInv, Row, Windows, LimitKeys
<1>4. CASE row.expires # end
  <2>1. Marks(k, end)' = Marks(k, end) /\ Early(k, end)' = Early(k, end)
    BY <1>1, <1>4
  <2>2. ~(end > second /\ Marks(k, end) # {})
    BY <1>4 DEF WindowAt
  <2> QED BY <1>2, <2>1, <2>2 DEF WindowAt
<1>5. CASE row.expires = end /\ ~(second < end)
  <2>1. Early(k, end)' = Early(k, end) /\ ~(end > second')
    BY <1>1, <1>2, <1>5
  <2> QED BY <1>2, <2>1 DEF WindowAt
<1>6. CASE row.expires = end /\ second < end
  <2>1. Early(k, end) = Marks(k, end)
    BY <1>6, LastingIsEarly
  <2>2. Marks(k, end)' = Marks(k, end) \cup {n} /\ Early(k, end)' = Marks(k, end) \cup {n}
    BY <1>1, <1>6, <2>1
  <2>3. n \notin Marks(k, end) /\ IsFiniteSet(Marks(k, end)) /\ Cardinality(Marks(k, end)) \in Nat
    BY <1>1, MarksFinite DEF Marks
  <2>4. Cardinality(Marks(k, end) \cup {n}) = Cardinality(Marks(k, end)) + 1
    BY <2>3, FS_AddElement
  <2>5. Cardinality(Marks(k, end)) + 1 <= row.used
    <3>1. CASE Marks(k, end) = {}
      <4>1. Cardinality(Marks(k, end)) = 0
        BY <3>1, FS_EmptySet
      <4> QED BY <4>1
    <3>2. CASE Marks(k, end) # {}
      <4>1. /\ limits[k] # Nothing /\ limits[k].expires = end
            /\ Cardinality(Marks(k, end)) <= limits[k].used
        BY <1>6, <3>2 DEF WindowAt
      <4> QED BY <1>3, <1>6, <2>3, <4>1
    <3> QED BY <3>1, <3>2
  <2>6. Cardinality(Marks(k, end)') <= row.used /\ Cardinality(Early(k, end)') <= Quota(k)
    BY <1>2, <2>2, <2>3, <2>4, <2>5
  <2> QED BY <1>2, <1>6, <2>6 DEF WindowAt
<1> QED BY <1>4, <1>5, <1>6

\* The rows that a granted request commits.
LEMMA GrantedIp ==
  ASSUME TableInv, NEW r \in Resends, TxInv(r), stage[r] = "granted"
  PROVE  LET k == IpOf[r]  row == wrote[r][k] IN
         /\ k \in DOMAIN wrote[r] /\ row \in Row /\ ends[r].ip = row.expires
         /\ 1 <= row.used /\ row.used <= IpMax
         /\ limits[k] # Nothing /\ limits[k].expires > second =>
              row.expires = limits[k].expires /\ row.used = limits[k].used + 1
<1> DEFINE k == IpOf[r]  row == wrote[r][k]  l == limits[k]
<1>1. /\ k \in DOMAIN wrote[r] /\ row \in Row /\ ends[r].ip = row.expires /\ row.used <= IpMax
      /\ \/ Stale(k, r) /\ row = FirstOf(r, IpWindow)
         \/ ~Stale(k, r) /\ row = OneMore(l, IpMax)
  <2>1. IpRow(r)
    BY DEF TxInv, Counting
  <2> QED BY <2>1, WroteIsRow DEF IpRow
<1>2. l \in Row \cup {Nothing} /\ began[r] \in Nat /\ second \in Nat /\ began[r] <= second
  BY KeysDiffer DEF TableInv
<1>3. l # Nothing => l.used \in Nat /\ l.expires \in Nat
  BY <1>2 DEF Row
<1>4. CASE Stale(k, r) /\ row = FirstOf(r, IpWindow)
  BY <1>1, <1>2, <1>3, <1>4 DEF Stale, FirstOf
<1>5. CASE ~Stale(k, r) /\ row = OneMore(l, IpMax)
  <2>1. l # Nothing /\ row.expires = l.expires /\ row.used = IF l.used < IpMax THEN l.used + 1 ELSE IpMax + 1
    BY <1>5 DEF Stale, OneMore
  <2>2. 1 <= row.used /\ row.used = l.used + 1
    <3> HIDE DEF row, l, k
    <3> QED BY <1>1, <1>3, <2>1, Numbers
  <2> QED BY <1>1, <2>1, <2>2
<1> QED BY <1>1, <1>4, <1>5

LEMMA GrantedEmail ==
  ASSUME TableInv, NEW r \in Resends, TxInv(r), stage[r] = "granted"
  PROVE  LET k == EmailKey  row == wrote[r][k] IN
         /\ k \in DOMAIN wrote[r] /\ row \in Row /\ ends[r].email = row.expires
         /\ 1 <= row.used /\ row.used <= EmailMax
         /\ limits[k] # Nothing /\ limits[k].expires > second =>
              row.expires = limits[k].expires /\ row.used = limits[k].used + 1
<1> DEFINE k == EmailKey  row == wrote[r][k]  l == limits[k]
<1>1. /\ k \in DOMAIN wrote[r] /\ row \in Row /\ ends[r].email = row.expires
      /\ \/ Stale(k, r) /\ row = FirstOf(r, EmailWindow)
         \/ ~Stale(k, r) /\ l.used < EmailMax /\ row = OneMore(l, EmailMax)
  <2>1. EmailRow(r)
    BY DEF TxInv
  <2> QED BY <2>1, WroteIsRow DEF EmailRow
<1>2. l \in Row \cup {Nothing} /\ began[r] \in Nat /\ second \in Nat /\ began[r] <= second
  BY KeysDiffer DEF TableInv
<1>3. l # Nothing => l.used \in Nat /\ l.expires \in Nat
  BY <1>2 DEF Row
<1>4. CASE Stale(k, r) /\ row = FirstOf(r, EmailWindow)
  BY <1>1, <1>2, <1>3, <1>4, Numbers DEF Stale, FirstOf
<1>5. CASE ~Stale(k, r) /\ l.used < EmailMax /\ row = OneMore(l, EmailMax)
  <2>1. l # Nothing /\ row.expires = l.expires /\ row.used = l.used + 1
    BY <1>5 DEF Stale, OneMore
  <2>2. 1 <= row.used /\ row.used <= EmailMax
    <3>1. l.used < EmailMax
      BY <1>5
    <3> HIDE DEF row, l, k
    <3> QED BY <1>3, <2>1, <3>1, Numbers
  <2> QED BY <1>1, <2>1, <2>2
<1> QED BY <1>1, <1>4, <1>5

LEMMA GrantedCool ==
  ASSUME TableInv, NEW r \in Resends, TxInv(r), stage[r] = "granted"
  PROVE  /\ CooldownKey \in DOMAIN wrote[r]
         /\ wrote[r][CooldownKey] = [used |-> 1, expires |-> began[r] + Cooldown]
         /\ limits[CooldownKey] = Nothing \/ limits[CooldownKey].expires <= second
<1>1. EmailRow(r)
  BY DEF TxInv
<1>2. /\ limits[CooldownKey] \in Row \cup {Nothing} /\ began[r] \in Nat /\ second \in Nat
      /\ began[r] <= second
  BY KeysDiffer DEF TableInv
<1> QED BY <1>1, <1>2 DEF EmailRow, Stale, FirstOf, Row

\* What a request that is limited commits.
LEMMA LimitedRow ==
  ASSUME TableInv, NEW r \in Resends, TxInv(r), stage[r] = "limited", NEW k \in Windows
  PROVE  \/ Seen(r, k) = limits[k] \/ limits[k] = Nothing \/ limits[k].expires <= second
         \/ /\ Seen(r, k) # Nothing /\ Seen(r, k).expires = limits[k].expires
            /\ Seen(r, k).used >= limits[k].used \/ Seen(r, k).used >= Quota(k)
<1>1. CASE k \notin DOMAIN wrote[r]
  BY <1>1 DEF Seen
<1>2. CASE k \in DOMAIN wrote[r] /\ k = EmailKey
  BY <1>2 DEF TxInv
<1>3. CASE k \in DOMAIN wrote[r] /\ k # EmailKey
  <2> DEFINE row == wrote[r][k]  l == limits[k]
  <2>1. k = IpOf[r] /\ IpRow(r) /\ Seen(r, k) = row /\ Quota(k) = IpMax
    BY <1>3 DEF TxInv, Counting, Seen, Quota
  <2>2. l \in Row \cup {Nothing} /\ began[r] \in Nat /\ second \in Nat /\ began[r] <= second
    BY KeysDiffer DEF TableInv, Windows, LimitKeys
  <2>3. l # Nothing => l.used \in Nat /\ l.expires \in Nat
    BY <2>2 DEF Row
  <2>4. CASE Stale(k, r)
    BY <2>2, <2>3, <2>4 DEF Stale
  <2>5. CASE ~Stale(k, r)
    <3>1. l # Nothing /\ row = OneMore(l, IpMax)
      BY <2>1, <2>5 DEF IpRow, Stale
    <3>2. /\ row.expires = l.expires
          /\ row.used = IF l.used < IpMax THEN l.used + 1 ELSE IpMax + 1
      BY <3>1 DEF OneMore
    <3>3. row # Nothing
      BY <1>3, WroteIsRow, RowIsSomething
    <3> HIDE DEF row, l
    <3>4. row.used >= l.used \/ row.used >= IpMax
      BY <2>3, <3>1, <3>2, Numbers
    <3> QED BY <2>1, <3>2, <3>3, <3>4 DEF l
  <2> QED BY <2>4, <2>5
<1> QED BY <1>1, <1>2, <1>3

\* Each step commits nothing, or what a request wrote, or removes what expired.
LEMMA StepCommits ==
  ASSUME TableInv, [LimitNext]_limitVars
  PROVE  \/ UNCHANGED <<limits, grants>> /\ second' >= second
         \/ \E r \in Resends : CommitResend(r)
         \/ /\ UNCHANGED <<grants, second>>
            /\ \A k \in LimitKeys :
                 limits'[k] = limits[k] \/ limits[k] = Nothing \/ limits[k].expires <= second
<1>1. second \in Nat
  BY DEF TableInv
<1>2. CASE UNCHANGED limitVars
  BY <1>1, <1>2 DEF limitVars
<1>3. CASE ResendTick
  BY <1>1, <1>3 DEF ResendTick
<1>4. ASSUME NEW r \in Resends,
             BeginResend(r) \/ ConsumeIp(r) \/ SeedEmail(r) \/ LockEmail(r) \/ Decide(r) \/ AbortResend(r)
      PROVE  UNCHANGED <<limits, grants, second>>
  BY <1>4 DEF BeginResend, ConsumeIp, SeedEmail, LockEmail, Decide, AbortResend
<1>5. ASSUME NEW r \in Resends, Cleanup(r)
      PROVE  /\ UNCHANGED <<grants, second>>
             /\ \A k \in LimitKeys :
                  limits'[k] = limits[k] \/ limits[k] = Nothing \/ limits[k].expires <= second
  BY <1>5 DEF Cleanup
<1> QED BY <1>1, <1>2, <1>3, <1>4, <1>5 DEF LimitNext

LEMMA SameMarks ==
  ASSUME UNCHANGED grants, NEW k, NEW end
  PROVE  Marks(k, end)' = Marks(k, end) /\ Early(k, end)' = Early(k, end)
BY DEF Marks, Early, EndOf

LEMMA CommitShape ==
  ASSUME TableInv, NEW r \in Resends, CommitResend(r)
  PROVE  /\ stage[r] \in {"granted", "limited"} /\ second' = second
         /\ \A k \in LimitKeys : limits'[k] = Seen(r, k)
         /\ stage[r] = "limited" => grants' = grants
         /\ stage[r] = "granted" =>
              grants' = Append(grants, [at |-> began[r], done |-> second, ip |-> IpOf[r],
                                        ipEnds |-> ends[r].ip, emailEnds |-> ends[r].email])
BY DEF CommitResend

LEMMA WindowsKept ==
  ASSUME ResendInv, TableInv', [LimitNext]_limitVars, NEW k \in Windows, NEW end \in Nat
  PROVE  WindowAt(k, end)'
<1> USE DEF ResendInv
<1>0. k \in LimitKeys /\ second \in Nat
  BY DEF Windows, LimitKeys, TableInv
<1>1. CASE UNCHANGED <<limits, grants>> /\ second' >= second
  BY <1>1, SameMarks, WindowKept
<1>2. CASE /\ UNCHANGED <<grants, second>>
           /\ \A x \in LimitKeys :
                limits'[x] = limits[x] \/ limits[x] = Nothing \/ limits[x].expires <= second
  BY <1>0, <1>2, SameMarks, WindowKept
<1>3. ASSUME NEW r \in Resends, CommitResend(r) PROVE WindowAt(k, end)'
  <2>1. TxInv(r) /\ second' = second /\ limits'[k] = Seen(r, k)
    BY <1>0, <1>3, CommitShape
  <2>2. CASE stage[r] = "limited"
    <3>1. UNCHANGED grants
      BY <1>3, <2>2, CommitShape
    <3>2. \/ Seen(r, k) = limits[k] \/ limits[k] = Nothing \/ limits[k].expires <= second
          \/ /\ Seen(r, k) # Nothing /\ Seen(r, k).expires = limits[k].expires
             /\ Seen(r, k).used >= limits[k].used \/ Seen(r, k).used >= Quota(k)
      BY <2>1, <2>2, LimitedRow
    <3>3. Marks(k, end)' = Marks(k, end) /\ Early(k, end)' = Early(k, end)
      BY <3>1, SameMarks
    <3> QED BY <1>0, <2>1, <3>2, <3>3, WindowKept
  <2>3. CASE stage[r] = "granted"
    <3> DEFINE g == [at |-> began[r], done |-> second, ip |-> IpOf[r],
                     ipEnds |-> ends[r].ip, emailEnds |-> ends[r].email]
    <3>1. /\ g \in Grant /\ g.done = second /\ g.ip = IpOf[r]
          /\ g.ipEnds = ends[r].ip /\ g.emailEnds = ends[r].email
      BY GrantMade
    <3>2. grants' = Append(grants, g)
      BY <1>3, <2>3, CommitShape
    <3> HIDE DEF g
    <3>3. CASE k = EmailKey
      <4>1. /\ k \in DOMAIN wrote[r] /\ wrote[r][k] \in Row /\ EndOf(g, k) = wrote[r][k].expires
            /\ 1 <= wrote[r][k].used /\ wrote[r][k].used <= Quota(k)
            /\ limits[k] # Nothing /\ limits[k].expires > second =>
                 wrote[r][k].expires = limits[k].expires /\ wrote[r][k].used = limits[k].used + 1
        BY <2>1, <2>3, <3>1, <3>3, GrantedEmail DEF EndOf, Quota
      <4>2. limits'[k] = wrote[r][k]
        BY <2>1, <4>1 DEF Seen
      <4> QED BY <2>1, <3>1, <3>2, <3>3, <4>1, <4>2, WindowGrants
    <3>4. CASE k = IpOf[r]
      <4>1. /\ k \in DOMAIN wrote[r] /\ wrote[r][k] \in Row /\ EndOf(g, k) = wrote[r][k].expires
            /\ 1 <= wrote[r][k].used /\ wrote[r][k].used <= Quota(k)
            /\ limits[k] # Nothing /\ limits[k].expires > second =>
                 wrote[r][k].expires = limits[k].expires /\ wrote[r][k].used = limits[k].used + 1
        BY <2>1, <2>3, <3>1, <3>4, GrantedIp, KeysDiffer DEF EndOf, Quota
      <4>2. limits'[k] = wrote[r][k]
        BY <2>1, <4>1 DEF Seen
      <4> QED BY <2>1, <3>1, <3>2, <3>4, <4>1, <4>2, WindowGrants
    <3>5. CASE k # EmailKey /\ k # IpOf[r]
      <4>1. Marks(k, end)' = Marks(k, end) /\ Early(k, end)' = Early(k, end)
        BY <3>1, <3>2, <3>5, AppendedMarks
      <4>2. k # CooldownKey
        BY <3>5, ResendLimitsAssumption, KeysDiffer DEF Windows
      <4>3. limits'[k] = limits[k]
        BY <2>1, <3>5, <4>2 DEF TxInv, Seen
      <4> QED BY <1>0, <2>1, <4>1, <4>3, WindowKept
    <3> QED BY <3>3, <3>4, <3>5
  <2> QED BY <1>3, <2>2, <2>3, CommitShape
<1> QED BY <1>1, <1>2, <1>3, StepCommits

LEMMA CoolKept ==
  ASSUME ResendInv, TableInv', [LimitNext]_limitVars PROVE CoolInv'
<1> USE DEF ResendInv
<1>0. /\ \A i \in DOMAIN grants : grants[i].at \in Nat
      /\ second \in Nat /\ second' \in Nat /\ Cooldown \in Nat
  BY GrantTyped, Numbers DEF TableInv
<1>1. CASE UNCHANGED <<limits, grants>> /\ second' >= second
  <2>1. \A n \in Nat : n + Cooldown > second' => n + Cooldown > second
    BY <1>0, <1>1
  <2> QED BY <1>0, <1>1, <2>1 DEF CoolInv
<1>2. ASSUME \A i \in DOMAIN grants : ~(grants[i].at + Cooldown > second),
             UNCHANGED <<grants, second>>
      PROVE  CoolInv'
  BY <1>2 DEF CoolInv
<1>3. ASSUME limits[CooldownKey] = Nothing \/ limits[CooldownKey].expires <= second,
             NEW i \in DOMAIN grants
      PROVE  ~(grants[i].at + Cooldown > second)
  <2>1. limits[CooldownKey] # Nothing => limits[CooldownKey].expires \in Nat
    BY KeysDiffer DEF TableInv, Row, LimitKeys
  <2> QED BY <1>0, <1>3, <2>1 DEF CoolInv
<1>4. CASE /\ UNCHANGED <<grants, second>>
           /\ \A x \in LimitKeys :
                limits'[x] = limits[x] \/ limits[x] = Nothing \/ limits[x].expires <= second
  <2>1. CASE limits'[CooldownKey] = limits[CooldownKey]
    BY <1>4, <2>1 DEF CoolInv
  <2>2. CASE limits'[CooldownKey] # limits[CooldownKey]
    <3>1. limits[CooldownKey] = Nothing \/ limits[CooldownKey].expires <= second
      BY <1>4, <2>2 DEF LimitKeys
    <3> QED BY <1>2, <1>3, <1>4, <3>1
  <2> QED BY <2>1, <2>2
<1>5. ASSUME NEW r \in Resends, CommitResend(r) PROVE CoolInv'
  <2>1. TxInv(r) /\ second' = second /\ limits'[CooldownKey] = Seen(r, CooldownKey)
    BY <1>5, CommitShape DEF LimitKeys
  <2>2. CASE stage[r] = "limited"
    <3>1. UNCHANGED grants /\ limits'[CooldownKey] = limits[CooldownKey]
      BY <1>5, <2>1, <2>2, CommitShape DEF TxInv, Seen
    <3> QED BY <2>1, <3>1 DEF CoolInv
  <2>3. CASE stage[r] = "granted"
    <3> DEFINE g == [at |-> began[r], done |-> second, ip |-> IpOf[r],
                     ipEnds |-> ends[r].ip, emailEnds |-> ends[r].email]
               n == Len(grants) + 1
    <3>1. g \in Grant /\ g.at = began[r] /\ grants' = Append(grants, g)
      BY <1>5, <2>3, CommitShape, GrantMade
    <3> HIDE DEF g
    <3>2. /\ DOMAIN grants' = DOMAIN grants \cup {n}
          /\ grants'[n] = g /\ \A i \in DOMAIN grants : grants'[i] = grants[i]
      BY <3>1, AppendedMarks
    <3>3. /\ limits[CooldownKey] = Nothing \/ limits[CooldownKey].expires <= second
          /\ limits'[CooldownKey] = [used |-> 1, expires |-> began[r] + Cooldown]
      BY <2>1, <2>3, GrantedCool DEF Seen
    <3>4. limits'[CooldownKey] # Nothing /\ began[r] \in Nat
      <4>1. [used |-> 1, expires |-> began[r] + Cooldown] \in Row /\ began[r] \in Nat
        BY Numbers DEF Row, TableInv
      <4> QED BY <3>3, <4>1, RowIsSomething
    <3>5. \A i \in DOMAIN grants : ~(grants[i].at + Cooldown > second)
      BY <1>3, <3>3
    <3> HIDE DEF n
    <3>6. ASSUME NEW i \in DOMAIN grants', grants'[i].at + Cooldown > second'
          PROVE  limits'[CooldownKey].expires >= grants'[i].at + Cooldown
      <4>1. i = n
        BY <2>1, <3>2, <3>5, <3>6
      <4> QED BY <1>0, <3>1, <3>2, <3>3, <3>4, <4>1
    <3> QED BY <3>4, <3>6 DEF CoolInv
  <2> QED BY <1>5, <2>2, <2>3, CommitShape
<1> QED BY <1>1, <1>4, <1>5, StepCommits

LEMMA PairKept ==
  ASSUME ResendInv, TableInv', [LimitNext]_limitVars PROVE PairInv'
<1> USE DEF ResendInv
<1>1. CASE UNCHANGED grants
  BY <1>1 DEF PairInv
<1>2. ASSUME NEW r \in Resends, CommitResend(r), stage[r] = "granted" PROVE PairInv'
  <2> DEFINE g == [at |-> began[r], done |-> second, ip |-> IpOf[r],
                   ipEnds |-> ends[r].ip, emailEnds |-> ends[r].email]
             n == Len(grants) + 1
  <2>1. g \in Grant /\ g.done = second /\ g.emailEnds = ends[r].email /\ grants' = Append(grants, g)
    BY <1>2, CommitShape, GrantMade
  <2> HIDE DEF g
  <2>2. /\ DOMAIN grants' = DOMAIN grants \cup {n}
        /\ grants'[n] = g /\ \A i \in DOMAIN grants : grants'[i] = grants[i]
    BY <2>1, AppendedMarks
  <2>3. /\ second \in Nat /\ Cooldown \in Nat /\ EmailKey \in Windows
        /\ EmailKey \in LimitKeys /\ CooldownKey \in LimitKeys
    BY Numbers DEF TableInv, Windows, LimitKeys
  <2>4. ASSUME NEW i \in DOMAIN grants
        PROVE  /\ second >= grants[i].at + Cooldown
               /\ grants[i].emailEnds # g.emailEnds => second >= grants[i].emailEnds
    <3>1. grants[i].at \in Nat /\ grants[i].emailEnds \in Nat
      BY GrantTyped
    <3>2. second >= grants[i].at + Cooldown
      <4>1. limits[CooldownKey] = Nothing \/ limits[CooldownKey].expires <= second
        BY <1>2, GrantedCool
      <4>2. limits[CooldownKey] # Nothing => limits[CooldownKey].expires \in Nat
        BY <2>3 DEF TableInv, Row
      <4> QED BY <2>3, <3>1, <4>1, <4>2 DEF CoolInv
    <3>3. ASSUME grants[i].emailEnds > second PROVE grants[i].emailEnds = g.emailEnds
      <4> DEFINE e == grants[i].emailEnds
      <4>1. i \in Marks(EmailKey, e)
        BY DEF Marks, EndOf
      <4>2. limits[EmailKey] # Nothing /\ limits[EmailKey].expires = e
        BY <2>3, <3>1, <3>3, <4>1 DEF WindowAt
      <4> QED BY <1>2, <2>1, <3>3, <4>2, GrantedEmail
    <3> QED BY <2>3, <3>1, <3>2, <3>3
  <2>5. ASSUME NEW j \in DOMAIN grants', NEW i \in 1 .. j - 1
        PROVE  /\ grants'[j].done >= grants'[i].at + Cooldown
               /\ grants'[i].emailEnds # grants'[j].emailEnds => grants'[j].done >= grants'[i].emailEnds
    <3>1. DOMAIN grants = 1 .. Len(grants) /\ Len(grants) \in Nat
      BY GrantTyped
    <3>2. i \in DOMAIN grants
      BY <2>2, <3>1
    <3>3. CASE j = n
      BY <2>1, <2>2, <2>4, <3>2, <3>3
    <3>4. CASE j # n
      <4>1. j \in DOMAIN grants
        BY <2>2, <3>4
      <4> QED BY <2>2, <3>2, <4>1 DEF PairInv
    <3> QED BY <3>3, <3>4
  <2> QED BY <2>5 DEF PairInv
<1> QED BY <1>1, <1>2, StepCommits, CommitShape

LEMMA ResendStart == LimitInit => ResendInv
<1> SUFFICES ASSUME LimitInit PROVE ResendInv
  OBVIOUS
<1>1. DOMAIN grants = {} /\ grants \in Seq(Grant)
  BY DEF LimitInit
<1>2. TableInv
  <2>1. /\ second = 0 /\ began = [r \in Resends |-> 0]
        /\ ends \in [Resends -> [ip : Nat, email : Nat]]
        /\ limits \in [LimitKeys -> Row \cup {Nothing}]
    BY DEF LimitInit
  <2>2. /\ locks = [k \in LimitKeys |-> locks[k]] /\ locks[CooldownKey] = Nothing
        /\ stage = [r \in Resends |-> stage[r]] /\ wrote = [r \in Resends |-> wrote[r]]
    BY DEF LimitInit, LimitKeys
  <2> QED BY <1>1, <2>1, <2>2 DEF TableInv
<1>3. \A r \in Resends : stage[r] = "idle" /\ DOMAIN wrote[r] = {}
  BY DEF LimitInit
<1>4. \A r \in Resends : TxInv(r)
  BY <1>3 DEF TxInv, Counting
<1>5. ASSUME NEW k \in Windows, NEW end \in Nat PROVE WindowAt(k, end)
  <2>1. Marks(k, end) = {} /\ Early(k, end) = {}
    BY <1>1 DEF Marks, Early
  <2>2. Cardinality(Early(k, end)) = 0
    BY <2>1, FS_EmptySet
  <2> QED BY <2>1, <2>2, Numbers DEF WindowAt, Quota
<1>6. CoolInv /\ PairInv
  BY <1>1 DEF CoolInv, PairInv
<1> QED BY <1>2, <1>4, <1>5, <1>6 DEF ResendInv

LEMMA ResendStep == ResendInv /\ [LimitNext]_limitVars => ResendInv'
<1> SUFFICES ASSUME ResendInv, [LimitNext]_limitVars PROVE ResendInv'
  OBVIOUS
<1>1. \A r \in Resends : TxInv(r)'
  BY OwnKept DEF ResendInv
<1>2. TableInv'
  BY <1>1, TableKept DEF ResendInv
<1>3. \A k \in Windows, end \in Nat : WindowAt(k, end)'
  BY <1>2, WindowsKept
<1>4. CoolInv' /\ PairInv'
  BY <1>2, CoolKept, PairKept
<1> QED BY <1>1, <1>2, <1>3, <1>4 DEF ResendInv, Windows

LEMMA ResendInvHolds == ResendInv => ResendLimitsHold
<1> SUFFICES ASSUME ResendInv, NEW j \in DOMAIN grants
             PROVE  /\ Cardinality(Counted("emailEnds", grants[j].emailEnds)) <= EmailMax
                    /\ Cardinality({i \in Counted("ipEnds", grants[j].ipEnds) : grants[i].ip = grants[j].ip}) <= IpMax
                    /\ \A i \in 1 .. j - 1 :
                         /\ grants[j].done >= grants[i].at + Cooldown
                         /\ grants[i].emailEnds # grants[j].emailEnds => grants[j].done >= grants[i].emailEnds
  BY DEF ResendLimitsHold
<1>1. /\ grants[j].emailEnds \in Nat /\ grants[j].ipEnds \in Nat /\ grants[j].ip \in Ips
      /\ grants[j].ip # EmailKey
  BY GrantTyped, ResendLimitsAssumption DEF ResendInv
<1>2. Counted("emailEnds", grants[j].emailEnds) = Early(EmailKey, grants[j].emailEnds)
  BY DEF Counted, Early, Marks, EndOf
<1>3. {i \in Counted("ipEnds", grants[j].ipEnds) : grants[i].ip = grants[j].ip}
        = Early(grants[j].ip, grants[j].ipEnds)
  BY <1>1 DEF Counted, Early, Marks, EndOf
<1>4. /\ WindowAt(EmailKey, grants[j].emailEnds) /\ WindowAt(grants[j].ip, grants[j].ipEnds)
      /\ PairInv
  BY <1>1 DEF ResendInv, Windows
<1> QED BY <1>1, <1>2, <1>3, <1>4 DEF WindowAt, Quota, PairInv

\* No two confirmations of an e-mail are nearer than the cooldown, and no window
\* of an e-mail or of an IP has more of them than its limit, as reserveResend
\* counts them: whatever transactions wait for each other with the now() of
\* their beginning, and whatever rows the cleanup deletes in between.
THEOREM ResendLimitsKept == LimitSpec => []ResendLimitsHold
<1>1. LimitSpec => []ResendInv
  BY ResendStart, ResendStep, PTL DEF LimitSpec
<1> QED BY <1>1, ResendInvHolds, PTL

-----------------------------------------------------------------------------
(* RateBudget.                                                               *)

LockInv ==
  /\ \A d \in Days : dayLock[d] # Nobody => RPD > 0 /\ dayUsed[d] < RPD
  /\ \A m \in Minutes : minuteLock[m] # Nobody => RPM > 0 /\ minuteUsed[m] < RPM

BudgetInv == TypeOK /\ LimitsHold /\ LockInv

LEMMA BudgetInitHolds == Init => BudgetInv
BY LimitsAssumption, ClockAssumption
DEF Init, BudgetInv, TypeOK, Minutes, Pcs, LimitsHold, LockInv

LEMMA DayInRange == ASSUME NEW m \in Minutes PROVE DayOf(m) \in Days
BY DEF Days

\* What every step but a commit does to the two windows: a lock is taken on a
\* row with room, or given back.
LEMMA RowsUntouched ==
  ASSUME BudgetInv, TypeOK', dayUsed' = dayUsed, minuteUsed' = minuteUsed,
         \A d \in Days : dayLock'[d] \in {dayLock[d], Nobody}
                         \/ (RPD > 0 /\ dayUsed[d] < RPD),
         \A m \in Minutes : minuteLock'[m] \in {minuteLock[m], Nobody}
                            \/ (RPM > 0 /\ minuteUsed[m] < RPM)
  PROVE  BudgetInv'
BY DEF BudgetInv, LimitsHold, LockInv

LEMMA BeginKeeps == ASSUME BudgetInv, NEW p \in Callers, Begin(p) PROVE BudgetInv'
<1>1. TypeOK'
  BY DEF BudgetInv, TypeOK, Begin, GoTo, Pcs
<1> QED BY <1>1, RowsUntouched DEF Begin

LEMMA RollbackKeeps ==
  ASSUME BudgetInv, NEW p \in Callers, NEW answer \in Pcs, Rollback(p, answer),
         UNCHANGED <<now, start>>
  PROVE  BudgetInv'
<1>1. TypeOK'
  BY DEF BudgetInv, TypeOK, Rollback, Unlock, GoTo
<1> QED BY <1>1, RowsUntouched DEF Rollback, Unlock

LEMMA ReserveDayKeeps == ASSUME BudgetInv, NEW p \in Callers, ReserveDay(p) PROVE BudgetInv'
<1> DEFINE d == DayOf(start[p])
<1>1. CASE Spent(dayUsed[d], RPD)
  BY <1>1, RollbackKeeps DEF ReserveDay, Pcs
<1>2. CASE ~Spent(dayUsed[d], RPD)
  <2>1. d \in Days
    BY DayInRange DEF BudgetInv, TypeOK
  <2>2. TypeOK'
    BY <1>2, <2>1 DEF BudgetInv, TypeOK, ReserveDay, GoTo, Pcs
  <2>3. RPD > 0 => dayUsed[d] < RPD
    BY <1>2, <2>1, LimitsAssumption DEF BudgetInv, TypeOK, Spent
  <2>4. \A x \in Days : dayLock'[x] \in {dayLock[x], Nobody} \/ (RPD > 0 /\ dayUsed[x] < RPD)
    BY <1>2, <2>1, <2>3 DEF ReserveDay, BudgetInv, TypeOK
  <2> QED BY <1>2, <2>2, <2>4, RowsUntouched DEF ReserveDay
<1> QED BY <1>1, <1>2

LEMMA ReserveMinuteKeeps ==
  ASSUME BudgetInv, NEW p \in Callers, ReserveMinute(p)
  PROVE  BudgetInv'
<1> DEFINE m == start[p]
<1>1. CASE Spent(minuteUsed[m], RPM)
  BY <1>1, RollbackKeeps DEF ReserveMinute, Pcs
<1>2. CASE ~Spent(minuteUsed[m], RPM)
  <2>1. m \in Minutes
    BY DEF BudgetInv, TypeOK
  <2>2. TypeOK'
    BY <1>2, <2>1 DEF BudgetInv, TypeOK, ReserveMinute, GoTo, Pcs
  <2>3. RPM > 0 => minuteUsed[m] < RPM
    BY <1>2, <2>1, LimitsAssumption DEF BudgetInv, TypeOK, Spent
  <2>4. \A x \in Minutes :
          minuteLock'[x] \in {minuteLock[x], Nobody} \/ (RPM > 0 /\ minuteUsed[x] < RPM)
    BY <1>2, <2>1, <2>3 DEF ReserveMinute, BudgetInv, TypeOK
  <2> QED BY <1>2, <2>2, <2>4, RowsUntouched DEF ReserveMinute
<1> QED BY <1>1, <1>2

LEMMA CommitKeeps == ASSUME BudgetInv, NEW p \in Callers, Commit(p) PROVE BudgetInv'
<1>1. TypeOK'
  BY DEF BudgetInv, TypeOK, Commit, Unlock, GoTo, Pcs
<1>2. \A d \in Days :
        dayUsed'[d] = dayUsed[d] \/ (dayLock[d] = p /\ dayUsed'[d] = dayUsed[d] + 1)
  BY DEF Commit, BudgetInv, TypeOK
<1>3. \A m \in Minutes :
        minuteUsed'[m] = minuteUsed[m] \/ (minuteLock[m] = p /\ minuteUsed'[m] = minuteUsed[m] + 1)
  BY DEF Commit, BudgetInv, TypeOK
<1>4. LimitsHold'
  BY <1>2, <1>3, LimitsAssumption, NobodyAssumption DEF BudgetInv, TypeOK, LimitsHold, LockInv
<1>5. LockInv'
  BY NobodyAssumption DEF Commit, Unlock, BudgetInv, TypeOK, LockInv
<1> QED BY <1>1, <1>4, <1>5 DEF BudgetInv

LEMMA BudgetNextKeeps == BudgetInv /\ [Next]_vars => BudgetInv'
<1> SUFFICES ASSUME BudgetInv, [Next]_vars PROVE BudgetInv'
  OBVIOUS
<1>1. CASE UNCHANGED vars
  BY <1>1 DEF vars, BudgetInv, TypeOK, LimitsHold, LockInv
<1>2. CASE Tick
  BY <1>2, ClockAssumption DEF Tick, Minutes, BudgetInv, TypeOK, LimitsHold, LockInv
<1>3. ASSUME NEW p \in Callers, Abort(p) PROVE BudgetInv'
  BY <1>3, RollbackKeeps DEF Abort, Pcs
<1>4. ASSUME NEW p \in Callers,
             Begin(p) \/ ReserveDay(p) \/ ReserveMinute(p) \/ Commit(p)
      PROVE  BudgetInv'
  BY <1>4, BeginKeeps, ReserveDayKeeps, ReserveMinuteKeeps, CommitKeeps
<1> QED BY <1>1, <1>2, <1>3, <1>4 DEF Next

\* No interleaving of transactions, and no lost connection, lets a window of
\* reserveIaBudget count more calls than its limit.
THEOREM LimitsAlwaysHold == Spec => []LimitsHold
<1>1. BudgetInv => LimitsHold
  BY DEF BudgetInv
<1> QED BY <1>1, BudgetInitHolds, BudgetNextKeeps, PTL DEF Spec
-----------------------------------------------------------------------------
(* Tokens.  A commit adds one to the row of the day and one to the row of    *)
(* the minute only if the caller holds both, and holds no other: OwnInv.     *)

OwnInv ==
  /\ \A p \in Callers :
       /\ RPD > 0 /\ pc[p] \in {"minute", "commit"} => dayLock[DayOf(start[p])] = p
       /\ RPM > 0 /\ pc[p] = "commit" => minuteLock[start[p]] = p
  /\ \A d \in Days : dayLock[d] # Nobody =>
       pc[dayLock[d]] \in {"minute", "commit"} /\ DayOf(start[dayLock[d]]) = d
  /\ \A m \in Minutes : minuteLock[m] # Nobody =>
       pc[minuteLock[m]] = "commit" /\ start[minuteLock[m]] = m

TokenInv == OwnInv /\ NoLeakedToken

LEMMA TokensAreFinite ==
  ASSUME NEW d PROVE IsFiniteSet(TokensOf(d)) /\ Cardinality(TokensOf(d)) \in Nat
<1>1. IsFiniteSet(Minutes) /\ IsFiniteSet(1 .. RPM)
  BY FS_Interval, LimitsAssumption, ClockAssumption DEF Minutes
<1>2. IsFiniteSet(Minutes \X (1 .. RPM))
  BY <1>1, FS_Product
<1>3. TokensOf(d) \subseteq Minutes \X (1 .. RPM)
  BY DEF TokensOf
<1> QED BY <1>2, <1>3, FS_Subset, FS_CardinalityType

LEMMA InitHasNoTokens == Init => TokenInv
<1> SUFFICES ASSUME Init PROVE OwnInv /\ NoLeakedToken
  BY DEF TokenInv
<1>1. OwnInv
  BY DayInRange DEF Init, OwnInv
<1>2. ASSUME NEW d \in Days PROVE dayUsed[d] = Cardinality(TokensOf(d))
  <2>1. \A t \in Minutes \X (1 .. RPM) : ~(t[2] <= minuteUsed[t[1]])
    BY LimitsAssumption DEF Init
  <2>2. TokensOf(d) = {}
    BY <2>1 DEF TokensOf
  <2> QED BY <2>2, FS_EmptySet DEF Init
<1> QED BY <1>1, <1>2 DEF NoLeakedToken

LEMMA SameTokens ==
  ASSUME NoLeakedToken, dayUsed' = dayUsed, minuteUsed' = minuteUsed PROVE NoLeakedToken'
BY DEF NoLeakedToken, TokensOf

\* Whoever is not in a transaction holds no row.
LEMMA RollbackOwns ==
  ASSUME BudgetInv, OwnInv, NEW p \in Callers, NEW answer \in Pcs \ {"minute", "commit"},
         Unlock(p), GoTo(p, answer), UNCHANGED start
  PROVE  OwnInv'
BY NobodyAssumption, DayInRange DEF BudgetInv, TypeOK, OwnInv, Unlock, GoTo

LEMMA BeginOwns ==
  ASSUME BudgetInv, OwnInv, NEW p \in Callers, Begin(p) PROVE OwnInv'
<1>1. /\ pc[p] \notin {"minute", "commit"} /\ UNCHANGED <<dayLock, minuteLock>>
      /\ \E label \in {"ok", "day"} : pc' = [pc EXCEPT ![p] = label]
      /\ \A q \in Callers \ {p} : start'[q] = start[q]
  BY DEF Begin, GoTo, BudgetInv, TypeOK
<1>2. /\ \A d \in Days : dayLock[d] # p /\ dayLock[d] \in Callers \cup {Nobody}
      /\ \A m \in Minutes : minuteLock[m] # p /\ minuteLock[m] \in Callers \cup {Nobody}
  BY <1>1, NobodyAssumption DEF OwnInv, BudgetInv, TypeOK
<1>3. \A q \in Callers \ {p} : pc'[q] = pc[q]
  BY <1>1 DEF BudgetInv, TypeOK
<1>4. pc'[p] \in {"ok", "day"}
  BY <1>1 DEF BudgetInv, TypeOK
<1> QED BY <1>1, <1>2, <1>3, <1>4, NobodyAssumption DEF OwnInv

LEMMA ReserveDayOwns ==
  ASSUME BudgetInv, OwnInv, NEW p \in Callers, ReserveDay(p) PROVE OwnInv'
<1>1. CASE Rollback(p, "no_day")
  BY <1>1, RollbackOwns DEF Rollback, ReserveDay, Pcs
<1>2. CASE ~Rollback(p, "no_day")
  <2>1. /\ pc[p] = "day" /\ pc' = [pc EXCEPT ![p] = "minute"] /\ UNCHANGED <<minuteLock, start>>
        /\ \/ /\ RPD > 0 /\ dayLock[DayOf(start[p])] = Nobody
              /\ dayLock' = [dayLock EXCEPT ![DayOf(start[p])] = p]
           \/ ~(RPD > 0) /\ dayLock' = dayLock
    BY <1>2 DEF ReserveDay, GoTo
  <2>2. start[p] \in Minutes /\ DayOf(start[p]) \in Days
    BY DayInRange DEF BudgetInv, TypeOK
  <2>3. /\ pc'[p] = "minute" /\ \A q \in Callers \ {p} : pc'[q] = pc[q]
        /\ \A d \in Days : dayLock[d] # p
        /\ \A m \in Minutes : minuteLock[m] # p
    BY <2>1, NobodyAssumption DEF OwnInv, BudgetInv, TypeOK
  <2>4. CASE RPD > 0
    BY <2>1, <2>2, <2>3, <2>4, DayInRange, NobodyAssumption DEF OwnInv, BudgetInv, TypeOK
  <2>5. CASE ~(RPD > 0)
    BY <2>1, <2>3, <2>5, NobodyAssumption DEF OwnInv, BudgetInv, TypeOK
  <2> QED BY <2>4, <2>5
<1> QED BY <1>1, <1>2

LEMMA ReserveMinuteOwns ==
  ASSUME BudgetInv, OwnInv, NEW p \in Callers, ReserveMinute(p) PROVE OwnInv'
<1>1. CASE Rollback(p, "no_minute")
  BY <1>1, RollbackOwns DEF Rollback, ReserveMinute, Pcs
<1>2. CASE ~Rollback(p, "no_minute")
  <2>1. /\ pc[p] = "minute" /\ pc' = [pc EXCEPT ![p] = "commit"] /\ UNCHANGED <<dayLock, start>>
        /\ \/ /\ RPM > 0 /\ minuteLock[start[p]] = Nobody
              /\ minuteLock' = [minuteLock EXCEPT ![start[p]] = p]
           \/ ~(RPM > 0) /\ minuteLock' = minuteLock
    BY <1>2 DEF ReserveMinute, GoTo
  <2>2. start[p] \in Minutes
    BY DEF BudgetInv, TypeOK
  <2>3. /\ pc'[p] = "commit" /\ \A q \in Callers \ {p} : pc'[q] = pc[q]
        /\ \A m \in Minutes : minuteLock[m] # p
    BY <2>1, NobodyAssumption DEF OwnInv, BudgetInv, TypeOK
  <2>4. CASE RPM > 0
    BY <2>1, <2>2, <2>3, <2>4, NobodyAssumption DEF OwnInv, BudgetInv, TypeOK
  <2>5. CASE ~(RPM > 0)
    BY <2>1, <2>3, <2>5, NobodyAssumption DEF OwnInv, BudgetInv, TypeOK
  <2> QED BY <2>4, <2>5
<1> QED BY <1>1, <1>2

\* One more of its minute and one more of the day of that minute.
LEMMA CommitCounts ==
  ASSUME BudgetInv, OwnInv, NoLeakedToken, RPD > 0, RPM > 0, NEW p \in Callers, Commit(p)
  PROVE  NoLeakedToken'
<1> DEFINE m == start[p]  d == DayOf(m)  token == <<m, minuteUsed[m] + 1>>
<1>1. m \in Minutes /\ d \in Days /\ p # Nobody
  BY DayInRange, NobodyAssumption DEF BudgetInv, TypeOK
<1>2. dayLock[d] = p /\ minuteLock[m] = p
  BY <1>1 DEF OwnInv, Commit
<1>3. /\ \A x \in Days \ {d} : dayUsed'[x] = dayUsed[x]
      /\ \A x \in Minutes \ {m} : minuteUsed'[x] = minuteUsed[x]
      /\ dayUsed'[d] = dayUsed[d] + 1 /\ minuteUsed'[m] = minuteUsed[m] + 1
  <2>1. /\ dayUsed' = [x \in Days |-> dayUsed[x] + IF dayLock[x] = p THEN 1 ELSE 0]
        /\ minuteUsed' = [x \in Minutes |-> minuteUsed[x] + IF minuteLock[x] = p THEN 1 ELSE 0]
    BY DEF Commit
  <2>2. /\ \A x \in Days \ {d} : dayLock[x] # p
        /\ \A x \in Minutes \ {m} : minuteLock[x] # p
    BY <1>1 DEF OwnInv
  <2> QED BY <1>1, <1>2, <2>1, <2>2 DEF BudgetInv, TypeOK
<1>4. minuteUsed[m] \in Nat /\ minuteUsed[m] < RPM /\ DayOf(m) = d
  BY <1>1, <1>2 DEF BudgetInv, TypeOK, LockInv
<1> HIDE DEF m, d
<1>5. ASSUME NEW x \in Days PROVE dayUsed'[x] = Cardinality(TokensOf(x)')
  <2>1. CASE x = d
    <3>1. /\ token \in Minutes \X (1 .. RPM) /\ token[1] = m /\ token[2] = minuteUsed[m] + 1
      BY <1>1, <1>4, LimitsAssumption
    <3>2. ASSUME NEW t \in Minutes \X (1 .. RPM)
          PROVE  t \in TokensOf(x)' <=> t \in TokensOf(x) \cup {token}
      <4>1. CASE t[1] = m
        <5>1. t[2] <= minuteUsed'[m] <=> t[2] <= minuteUsed[m] \/ t[2] = minuteUsed[m] + 1
          BY <1>3, <1>4, LimitsAssumption
        <5>2. t = token <=> t[2] = minuteUsed[m] + 1
          BY <4>1
        <5> QED BY <1>4, <2>1, <4>1, <5>1, <5>2 DEF TokensOf
      <4>2. CASE t[1] # m
        BY <1>3, <3>1, <4>2 DEF TokensOf
      <4> QED BY <4>1, <4>2
    <3>3. TokensOf(x)' = TokensOf(x) \cup {token}
      BY <3>1, <3>2 DEF TokensOf
    <3>4. token \notin TokensOf(x)
      BY <1>4, <3>1 DEF TokensOf
    <3>5. Cardinality(TokensOf(x)') = Cardinality(TokensOf(x)) + 1
      BY <3>3, <3>4, TokensAreFinite, FS_AddElement
    <3> QED BY <1>3, <2>1, <3>5 DEF NoLeakedToken
  <2>2. CASE x # d
    <3>1. DayOf(m) # x
      BY <2>2 DEF d
    <3>2. TokensOf(x)' = TokensOf(x)
      BY <1>3, <3>1 DEF TokensOf
    <3> QED BY <1>3, <2>2, <3>2 DEF NoLeakedToken
  <2> QED BY <2>1, <2>2
<1> QED BY <1>5 DEF NoLeakedToken

LEMMA RowsKept == ASSUME BudgetInv, OwnInv, [Next]_vars PROVE OwnInv'
<1>1. CASE UNCHANGED vars \/ Tick
  <2>1. UNCHANGED <<dayLock, minuteLock, pc, start>>
    BY <1>1 DEF vars, Tick
  <2> QED BY <2>1 DEF OwnInv
<1>2. ASSUME NEW p \in Callers, Begin(p) \/ ReserveDay(p) \/ ReserveMinute(p) PROVE OwnInv'
  BY <1>2, BeginOwns, ReserveDayOwns, ReserveMinuteOwns
<1>3. ASSUME NEW p \in Callers, Abort(p) \/ Commit(p) PROVE OwnInv'
  BY <1>3, RollbackOwns DEF Abort, Rollback, Commit, Pcs
<1> QED BY <1>1, <1>2, <1>3 DEF Next

LEMMA TokensKept == ASSUME BudgetInv, TokenInv, [Next]_vars PROVE TokenInv'
<1>1. OwnInv /\ NoLeakedToken /\ OwnInv'
  BY RowsKept DEF TokenInv
<1>2. CASE RPD > 0 /\ RPM > 0
  <2>1. CASE dayUsed' = dayUsed /\ minuteUsed' = minuteUsed
    BY <1>1, <2>1, SameTokens DEF TokenInv
  <2>2. ASSUME NEW p \in Callers, Commit(p) PROVE TokenInv'
    BY <1>1, <1>2, <2>2, CommitCounts DEF TokenInv
  <2> QED BY <2>1, <2>2
      DEF Next, vars, Tick, Begin, ReserveDay, ReserveMinute, Abort, Rollback
<1>3. CASE ~(RPD > 0 /\ RPM > 0)
  BY <1>1, <1>3 DEF TokenInv, NoLeakedToken
<1> QED BY <1>2, <1>3

\* What a day counts is what its minutes count, for any callers, limits and
\* clock: a token that was not granted is in neither window (reserveIaBudget).
THEOREM TokensAddUp == Spec => []NoLeakedToken
<1>1. TokenInv => NoLeakedToken
  BY DEF TokenInv
<1> QED BY <1>1, BudgetInitHolds, BudgetNextKeeps, InitHasNoTokens, TokensKept, PTL DEF Spec

-----------------------------------------------------------------------------
(* Refinement.  A transaction is one step of TokenBudget, at its commit or   *)
(* when it is refused; what the caller found in the windows it has locked is *)
(* still there at the commit (LockInv), and they are its own (OwnInv).       *)

BudgetStep == [Budget!BudgetNext]_(Budget!budgetVars)

\* Only the caller that moves changes its state in the abstract.
LEMMA CallMoves ==
  ASSUME BudgetInv, NEW p \in Callers, NEW label \in Pcs, GoTo(p, label)
  PROVE  /\ pc'[p] = label /\ \A q \in Callers \ {p} : pc'[q] = pc[q]
         /\ callOf' = [callOf EXCEPT ![p] = IF label \in {"day", "minute", "commit"}
                                              THEN "asking" ELSE label]
<1>1. pc'[p] = label /\ \A q \in Callers \ {p} : pc'[q] = pc[q]
  BY DEF BudgetInv, TypeOK, GoTo
<1> QED BY <1>1 DEF callOf, InTransaction

LEMMA BeginRefines == ASSUME BudgetInv, NEW p \in Callers, Begin(p) PROVE BudgetStep
<1> DEFINE label == IF RPM = 0 /\ RPD = 0 THEN "ok" ELSE "day"
<1>1. callOf' = [callOf EXCEPT ![p] = IF RPM = 0 /\ RPD = 0 THEN "ok" ELSE "asking"]
  BY CallMoves DEF Begin, Pcs
<1>2. callOf[p] # "asking"
  BY DEF Begin, callOf, InTransaction, BudgetInv, TypeOK, Pcs
<1>3. Budget!Ask(p)
  BY <1>1, <1>2 DEF Begin, Budget!Ask, Budget!Answer
<1> QED BY <1>3 DEF BudgetStep, Budget!BudgetNext

\* A refusal, or the end of a connection.
LEMMA RollbackRefines ==
  ASSUME BudgetInv, NEW p \in Callers, InTransaction(p),
         NEW answer \in {"no_day", "no_minute", "error"}, Rollback(p, answer),
         UNCHANGED <<now, start>>,
         answer = "no_day" => Spent(dayUsed[DayOf(start[p])], RPD),
         answer = "no_minute" => Spent(minuteUsed[start[p]], RPM)
  PROVE  BudgetStep
<1>1. /\ callOf' = [callOf EXCEPT ![p] = answer] /\ callOf[p] = "asking"
      /\ UNCHANGED <<now, dayUsed, minuteUsed, start>>
  BY CallMoves DEF Rollback, Pcs, callOf
<1>2. CASE answer = "error"
  BY <1>1, <1>2 DEF BudgetStep, Budget!BudgetNext, Budget!Fail, Budget!Answer
<1>3. CASE answer # "error"
  <2>1. Budget!Refuse(p)
    BY <1>1, <1>3 DEF Budget!Refuse, Budget!Answer, Budget!Full, Budget!Day, Spent, DayOf
  <2> QED BY <2>1 DEF BudgetStep, Budget!BudgetNext
<1> QED BY <1>2, <1>3

\* An upsert that finds room shows in no window yet.
LEMMA UpsertStutters ==
  ASSUME BudgetInv, NEW p \in Callers, InTransaction(p), NEW label \in {"minute", "commit"},
         GoTo(p, label), UNCHANGED <<now, dayUsed, minuteUsed, start>>
  PROVE  BudgetStep
<1>1. callOf' = [callOf EXCEPT ![p] = "asking"]
  BY CallMoves DEF Pcs
<1>2. callOf' = callOf
  BY <1>1 DEF callOf
<1> QED BY <1>2 DEF BudgetStep, Budget!budgetVars

LEMMA CommitRefines ==
  ASSUME BudgetInv, OwnInv, NEW p \in Callers, Commit(p) PROVE BudgetStep
<1> DEFINE m == start[p]  d == DayOf(m)
<1>1. m \in Minutes /\ d \in Days /\ p # Nobody /\ pc[p] = "commit"
  BY DayInRange, NobodyAssumption DEF BudgetInv, TypeOK, Commit
<1>2. /\ \A x \in Days : dayLock[x] = p <=> RPD > 0 /\ x = d
      /\ \A x \in Minutes : minuteLock[x] = p <=> RPM > 0 /\ x = m
  BY <1>1 DEF OwnInv, BudgetInv, LockInv
<1>3. ~Budget!Full(dayUsed[d], RPD) /\ ~Budget!Full(minuteUsed[m], RPM)
  BY <1>1, <1>2, LimitsAssumption DEF BudgetInv, TypeOK, LockInv, Budget!Full
<1>4. dayUsed' = [dayUsed EXCEPT ![d] = @ + Budget!OneMore(RPD)]
  <2>1. dayUsed' = [x \in Days |-> dayUsed[x] + IF dayLock[x] = p THEN 1 ELSE 0]
    BY DEF Commit
  <2>2. dayUsed \in [Days -> Nat]
    BY DEF BudgetInv, TypeOK
  <2>3. \A x \in Days : dayUsed'[x] = IF x = d THEN dayUsed[x] + Budget!OneMore(RPD) ELSE dayUsed[x]
    BY <1>1, <1>2, <2>1, <2>2 DEF Budget!OneMore
  <2> HIDE DEF d
  <2> QED BY <2>1, <2>2, <2>3
<1>5. minuteUsed' = [minuteUsed EXCEPT ![m] = @ + Budget!OneMore(RPM)]
  <2>1. minuteUsed' = [x \in Minutes |-> minuteUsed[x] + IF minuteLock[x] = p THEN 1 ELSE 0]
    BY DEF Commit
  <2>2. minuteUsed \in [Minutes -> Nat]
    BY DEF BudgetInv, TypeOK
  <2>3. \A x \in Minutes :
          minuteUsed'[x] = IF x = m THEN minuteUsed[x] + Budget!OneMore(RPM) ELSE minuteUsed[x]
    BY <1>1, <1>2, <2>1, <2>2 DEF Budget!OneMore
  <2> HIDE DEF m
  <2> QED BY <2>1, <2>2, <2>3
<1>6. /\ callOf[p] = "asking"
      /\ \/ callOf' = [callOf EXCEPT ![p] = "ok"]
         \/ callOf' = [callOf EXCEPT ![p] = "error"]
  BY <1>1, CallMoves DEF Commit, Pcs, callOf, InTransaction
<1>7. Budget!Grant(p)
  BY <1>3, <1>4, <1>5, <1>6
     DEF Commit, Budget!Grant, Budget!Answer, Budget!Day, DayOf
<1> QED BY <1>7 DEF BudgetStep, Budget!BudgetNext

LEMMA NextRefines == ASSUME BudgetInv, OwnInv, [Next]_vars PROVE BudgetStep
<1>1. CASE UNCHANGED vars
  BY <1>1 DEF vars, BudgetStep, Budget!budgetVars, callOf, InTransaction
<1>2. CASE Tick
  <2>1. callOf' = callOf
    BY <1>2 DEF Tick, callOf, InTransaction
  <2> QED BY <1>2, <2>1 DEF Tick, BudgetStep, Budget!BudgetNext, Budget!MinutePasses
<1>3. ASSUME NEW p \in Callers, ReserveDay(p) PROVE BudgetStep
  <2>1. CASE Spent(dayUsed[DayOf(start[p])], RPD)
    BY <1>3, <2>1, RollbackRefines DEF ReserveDay, InTransaction
  <2>2. CASE ~Spent(dayUsed[DayOf(start[p])], RPD)
    BY <1>3, <2>2, UpsertStutters DEF ReserveDay, InTransaction
  <2> QED BY <2>1, <2>2
<1>4. ASSUME NEW p \in Callers, ReserveMinute(p) PROVE BudgetStep
  <2>1. CASE Spent(minuteUsed[start[p]], RPM)
    BY <1>4, <2>1, RollbackRefines DEF ReserveMinute, InTransaction
  <2>2. CASE ~Spent(minuteUsed[start[p]], RPM)
    BY <1>4, <2>2, UpsertStutters DEF ReserveMinute, InTransaction
  <2> QED BY <2>1, <2>2
<1>5. ASSUME NEW p \in Callers, Abort(p) PROVE BudgetStep
  BY <1>5, RollbackRefines DEF Abort
<1> QED BY <1>1, <1>2, <1>3, <1>4, <1>5, BeginRefines, CommitRefines DEF Next

LEMMA InitRefines == Init => Budget!BudgetInit
BY DEF Init, Budget!BudgetInit, Budget!Instants, Budget!Day, callOf, InTransaction,
       Minutes, Days, DayOf

\* The transaction of reserveIaBudget, which locks one window after the other,
\* implements the budget that takes a token in both in one step.
THEOREM AtomicBudget == Spec => ImplementsBudget
<1>1. BudgetInv /\ OwnInv /\ [Next]_vars => [Budget!BudgetNext]_(Budget!budgetVars)
  BY NextRefines DEF BudgetStep
<1>2. Init => OwnInv
  BY DayInRange DEF Init, OwnInv
<1> QED BY <1>1, <1>2, BudgetInitHolds, BudgetNextKeeps, RowsKept, InitRefines, PTL
        DEF Spec, ImplementsBudget, Budget!BudgetSpec
=============================================================================
