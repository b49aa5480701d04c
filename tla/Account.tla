------------------------------- MODULE Account -------------------------------
(***************************************************************************)
(* Accounts: sign-up with a password, by the API or by the route of Better   *)
(* Auth itself, or with Google, the completion of the profile, the change   *)
(* of the phone, and the deletion of the account, in requests that overlap, *)
(* against what is written meanwhile for a company in tables that have no   *)
(* foreign key to it.                                                      *)
(*                                                                         *)
(* provisionEnterpriseForUser and deleteEnterpriseOfUser are transactions:  *)
(* a company is in `company' once committed, and `holder' is the            *)
(* transaction that wrote it.  The default questions are inserted with it.  *)
(* The four statements that delete rows without foreign key are one step:   *)
(* a row is in one table, and what matters is when that table is purged.    *)
(* The id of a user, and that of a company, is the visit that created it.   *)
(* Better Auth (users, sessions, accounts, links) is external.              *)
(*                                                                         *)
(* An operator F_Bug is F with a plausible bug.  No specification uses it:  *)
(* put in the place of F, it shows that the properties notice.              *)
(***************************************************************************)
EXTENDS Naturals, FiniteSets

CONSTANTS
  Visits,      \* the requests
  People,      \* their e-mails
  Plans,       \* what they may ask for: [kind, who, phone]
  Nil, OldUser, OldCompany

Ids == Visits \cup {OldUser, OldCompany}

\* NULL is no id and no row; what was there before was created by no visit.
ASSUME IdsAssumption ==
  /\ Nil \notin Ids \cup [id : Ids, terms : BOOLEAN]
  /\ Nil \notin [id : Ids, phone : {wanted.phone : wanted \in Plans}]
  /\ OldUser \notin Visits /\ OldCompany \notin Visits
ASSUME PlansAssumption == \A wanted \in Plans : wanted.who \in People

VARIABLES
  users,    \* table user: e-mail |-> [id, phone], or Nil
  company,  \* table enterprise: user id |-> [id, terms], or Nil
  holder,   \* user id |-> the transaction that wrote its company, or Nil
  loose,    \* rows without foreign key: [of, by], by is history
  plan,     \* of each visit, or Nil
  doing,
  user, owned, draft, doomed, \* of each visit: user and company it read; what its transaction wrote
  meetings, \* history: visits of one person in progress together
  stranded  \* history: users left without a company, see NoCompanyHasACause

accountVars == <<users, company, holder, loose, plan, doing, user, owned, draft, doomed, meetings, stranded>>

AccountEnds == {"done", "confirmation_required", "phone_taken", "database_error", "failed"}
Live == {users[p].id : p \in {q \in People : users[q] # Nil}}
Who(v) == plan[v].who
HasPhone(p, x) == users[p] # Nil /\ users[p].phone = x

\* Nobody yet, a member, or a user left without a company.
AccountInit ==
  /\ \E first \in {"nobody", "member", "unprovisioned"}, p \in People :
       /\ users = [q \in People |->
            IF q = p /\ first # "nobody" THEN [id |-> OldUser, phone |-> Nil] ELSE Nil]
       /\ company = [u \in Ids |->
            IF u = OldUser /\ first = "member" THEN [id |-> OldCompany, terms |-> TRUE] ELSE Nil]
       /\ stranded = IF first = "unprovisioned" THEN {OldUser} ELSE {}
  /\ holder = [u \in Ids |-> Nil] /\ loose = {}
  /\ plan = [v \in Visits |-> Nil] /\ doing = [v \in Visits |-> "new"]
  /\ user = [v \in Visits |-> Nil] /\ owned = [v \in Visits |-> Nil]
  /\ draft = [v \in Visits |-> Nil] /\ doomed = [v \in Visits |-> {}]
  /\ meetings = {}

To(v, next) == doing' = [doing EXCEPT ![v] = next]
KeepTables == UNCHANGED <<users, company, holder, loose>>
KeepVisit == UNCHANGED <<plan, meetings>>

-----------------------------------------------------------------------------
\* A request arrives; those of a session have a user (getSession), a password
\* link is asked for an address, a feedback is for the company of a QR code.
Arrive(v) ==
  /\ doing[v] = "new"
  /\ \E wanted \in Plans :
       LET u == IF users[wanted.who] = Nil THEN Nil ELSE users[wanted.who].id IN
       /\ plan' = [plan EXCEPT ![v] = wanted]
       /\ user' = [user EXCEPT ![v] = IF wanted.kind \in {"register", "native", "google"} THEN Nil ELSE u]
       /\ meetings' = meetings \cup {{q, v} : q \in {x \in Visits :
                        doing[x] \notin {"new"} \cup AccountEnds /\ Who(x) = wanted.who}}
       /\ \/ wanted.kind = "register" /\ To(v, "checkPhone")
          \/ wanted.kind = "native" /\ To(v, "nativeSignUp")
          \/ wanted.kind = "google" /\ To(v, "google")
          \/ wanted.kind \in {"complete", "phone", "profile"} /\ u # Nil /\ To(v, "company")
          \/ wanted.kind = "feedback" /\ u # Nil /\ company[u] # Nil /\ To(v, "company")
          \/ wanted.kind = "delete" /\ u # Nil /\ To(v, "purge")
          \/ wanted.kind = "forgot" /\ u # Nil /\ To(v, "link")
  /\ KeepTables /\ UNCHANGED <<owned, draft, doomed, stranded>>

\* requireAuth, and resolveEnterpriseIdByUser.
ResolveCompany(v) ==
  /\ doing[v] = "company"
  /\ LET found == company[user[v]] IN
     /\ owned' = [owned EXCEPT ![v] = IF found = Nil THEN Nil ELSE found.id]
     /\ To(v, CASE plan[v].kind = "complete"     -> "checkPhone"
                [] plan[v].kind = "phone"        -> "setPhone"
                [] OTHER -> IF found = Nil THEN "failed" ELSE "write")
  /\ KeepTables /\ KeepVisit /\ UNCHANGED <<user, draft, doomed, stranded>>

\* A phone that somebody else has: in registerBetter, anybody.
CheckPhone(v) ==
  /\ doing[v] = "checkPhone"
  /\ To(v, IF \E p \in People : HasPhone(p, plan[v].phone) /\ users[p].id # user[v] THEN "phone_taken"
           ELSE IF plan[v].kind = "register" THEN "checkEmail" ELSE "setPhone")
  /\ KeepTables /\ KeepVisit /\ UNCHANGED <<user, owned, draft, doomed, stranded>>

CheckEmail(v) ==
  /\ doing[v] = "checkEmail"
  /\ To(v, IF users[Who(v)] # Nil THEN "confirmation_required" ELSE "signUp")
  /\ KeepTables /\ KeepVisit /\ UNCHANGED <<user, owned, draft, doomed, stranded>>

NewUser(v, phone) == users' = [users EXCEPT ![Who(v)] = [id |-> v, phone |-> phone]]

\* signUpEmail: of an address that has a user meanwhile it tells, or answers
\* with an id that is nobody's.
SignUp(v) ==
  /\ doing[v] = "signUp"
  /\ \/ /\ users[Who(v)] = Nil /\ \A p \in People : ~HasPhone(p, plan[v].phone)
        /\ NewUser(v, plan[v].phone) /\ To(v, "provision") /\ user' = [user EXCEPT ![v] = v]
     \/ /\ users[Who(v)] # Nil /\ UNCHANGED users
        /\ \/ To(v, "confirmation_required") /\ UNCHANGED user
           \/ To(v, "provision") /\ user' = [user EXCEPT ![v] = v]
     \/ To(v, "failed") /\ UNCHANGED <<users, user>>
  /\ UNCHANGED <<company, holder, loose>> /\ KeepVisit /\ UNCHANGED <<owned, draft, doomed, stranded>>

Hooked_Credential(provider) == IF provider = "credential" THEN "provision" ELSE "done"
\* provisionEnterpriseForSocialAccount: not for an account with a password.
Hooked(provider) == IF provider = "credential" THEN "done" ELSE "provision"

\* POST /api/auth/sign-up/email, which index.ts mounts with every route of Better
\* Auth: the phone is optional, and the hook of the account makes no company.
\* The answer for an address that has a user tells nothing.
NativeSignUp(v) ==
  /\ doing[v] = "nativeSignUp"
  /\ \/ /\ users[Who(v)] = Nil
        /\ \E given \in {Nil, plan[v].phone} :
             /\ given # Nil => \A p \in People : ~HasPhone(p, given)
             /\ NewUser(v, given)
        /\ user' = [user EXCEPT ![v] = v] /\ To(v, Hooked("credential"))
        /\ stranded' = stranded \cup {v}
     \/ users[Who(v)] # Nil /\ To(v, "done") /\ UNCHANGED <<users, user, stranded>>
     \/ To(v, "failed") /\ UNCHANGED <<users, user, stranded>>
  /\ UNCHANGED <<company, holder, loose>> /\ KeepVisit /\ UNCHANGED <<owned, draft, doomed>>

\* The first sign-in with Google: a user, or another account of the user of
\* that address; then the hook of the account.
GoogleSignIn(v) ==
  /\ doing[v] = "google" /\ To(v, Hooked("google"))
  /\ IF users[Who(v)] = Nil
       THEN NewUser(v, Nil) /\ user' = [user EXCEPT ![v] = v]
       ELSE UNCHANGED users /\ user' = [user EXCEPT ![v] = users[Who(v)].id]
  /\ UNCHANGED <<company, holder, loose>> /\ KeepVisit /\ UNCHANGED <<owned, draft, doomed, stranded>>

\* One UPDATE; the unique index refuses the phone of another.
SetPhone(v) ==
  /\ doing[v] = "setPhone"
  /\ IF \E p \in People : HasPhone(p, plan[v].phone) /\ users[p].id # user[v]
       THEN To(v, IF plan[v].kind = "complete" THEN "phone_taken" ELSE "failed") /\ UNCHANGED users
       ELSE /\ users' = [p \in People |-> IF users[p] # Nil /\ users[p].id = user[v]
                                            THEN [users[p] EXCEPT !.phone = plan[v].phone] ELSE users[p]]
            /\ To(v, IF plan[v].kind = "complete" THEN "provision" ELSE "done")
  /\ UNCHANGED <<company, holder, loose>> /\ KeepVisit /\ UNCHANGED <<user, owned, draft, doomed, stranded>>

-----------------------------------------------------------------------------
(* provisionEnterpriseForUser                                                *)

Terms_Replaced(old, given) == given
\* COALESCE
Terms(old, given) == old \/ given

\* INSERT ... ON CONFLICT DO UPDATE: waits for another that writes the row, and
\* needs the user.  Google brings no terms.
Provision(v) ==
  /\ doing[v] = "provision" /\ user[v] \in Live /\ holder[user[v]] = Nil
  /\ holder' = [holder EXCEPT ![user[v]] = v]
  /\ LET given == plan[v].kind # "google"  row == company[user[v]] IN
     draft' = [draft EXCEPT ![v] = IF row = Nil THEN [id |-> v, terms |-> given]
                                   ELSE [row EXCEPT !.terms = Terms(@, given)]]
  /\ To(v, "commit")
  /\ UNCHANGED <<users, company, loose, user, owned, doomed, stranded>> /\ KeepVisit

CommitCompany(v) ==
  /\ doing[v] = "commit"
  /\ company' = [company EXCEPT ![user[v]] = draft[v]] /\ holder' = [holder EXCEPT ![user[v]] = Nil]
  /\ To(v, IF plan[v].kind = "register" THEN "confirmation_required" ELSE "done")
  /\ stranded' = stranded \ {user[v]}
  /\ UNCHANGED <<users, loose, user, owned, draft, doomed>> /\ KeepVisit

\* A statement fails, always so without the user; the hook says nothing.
ProvisionFails(v) ==
  /\ doing[v] \in {"provision", "commit"}
  /\ holder' = [u \in Ids |-> IF holder[u] = v THEN Nil ELSE holder[u]]
  /\ stranded' = stranded \cup {user[v]}
  /\ To(v, CASE plan[v].kind = "register" -> "database_error"
             [] plan[v].kind = "google"   -> "done"
             [] OTHER                     -> "failed")
  /\ UNCHANGED <<users, company, loose, user, owned, draft, doomed>> /\ KeepVisit

-----------------------------------------------------------------------------
(* Rows without foreign key.                                                 *)

\* insertCustomer, saveCollectingDataPatch and the like, of a company read before.
WriteLoose(v) ==
  /\ doing[v] = "write" /\ (To(v, "done") \/ To(v, "failed"))
  /\ loose' = loose \cup {[of |-> owned[v], by |-> v]}
  /\ UNCHANGED <<users, company, holder, user, owned, draft, doomed, stranded>> /\ KeepVisit

\* requestPasswordReset: verification.value is the user.
WriteLink(v) ==
  /\ doing[v] = "link" /\ To(v, "done")
  /\ loose' = loose \cup {[of |-> user[v], by |-> v]}
  /\ UNCHANGED <<users, company, holder, user, owned, draft, doomed, stranded>> /\ KeepVisit

(* deleteUser of Better Auth: beforeDelete is deleteEnterpriseOfUser.        *)

Purged_WithoutCompany(u) == {x \in loose : x.of = u}
Purged(u) == {x \in loose : x.of = u \/ (company[u] # Nil /\ x.of = company[u].id)}

Purge(v) ==
  /\ doing[v] = "purge" /\ doomed' = [doomed EXCEPT ![v] = Purged(user[v])]
  /\ To(v, "drop")
  /\ KeepTables /\ KeepVisit /\ UNCHANGED <<user, owned, draft, stranded>>

\* DELETE sees committed companies, and waits for who is writing one.
DropCompany(v) ==
  /\ doing[v] = "drop" /\ To(v, "commitDrop")
  /\ \/ company[user[v]] = Nil /\ UNCHANGED holder
     \/ company[user[v]] # Nil /\ holder[user[v]] = Nil /\ holder' = [holder EXCEPT ![user[v]] = v]
  /\ UNCHANGED <<users, company, loose, user, owned, draft, doomed, stranded>> /\ KeepVisit

CommitDrop(v) ==
  /\ doing[v] = "commitDrop" /\ To(v, "dropUser")
  /\ loose' = loose \ doomed[v]
  /\ IF holder[user[v]] = v
       THEN company' = [company EXCEPT ![user[v]] = Nil] /\ holder' = [holder EXCEPT ![user[v]] = Nil]
       ELSE UNCHANGED <<company, holder>>
  /\ UNCHANGED <<users, user, owned, draft, doomed, stranded>> /\ KeepVisit

\* DELETE of the user, with what cascades: waits for who is provisioning.
DropUser(v) ==
  /\ doing[v] = "dropUser" /\ holder[user[v]] = Nil /\ To(v, "done")
  /\ users' = [p \in People |-> IF users[p] # Nil /\ users[p].id = user[v] THEN Nil ELSE users[p]]
  /\ company' = [company EXCEPT ![user[v]] = Nil]
  /\ UNCHANGED <<holder, loose, user, owned, draft, doomed, stranded>> /\ KeepVisit

\* Before the commit all is as it was; after it the user has no company.
DeletionFails(v) ==
  /\ doing[v] \in {"purge", "drop", "commitDrop", "dropUser"} /\ To(v, "failed")
  /\ holder' = [u \in Ids |-> IF holder[u] = v THEN Nil ELSE holder[u]]
  /\ stranded' = IF doing[v] = "dropUser" THEN stranded \cup {user[v]} ELSE stranded
  /\ UNCHANGED <<users, company, loose, user, owned, draft, doomed>> /\ KeepVisit

AccountNext ==
  \E v \in Visits :
    \/ Arrive(v) \/ ResolveCompany(v) \/ CheckPhone(v) \/ CheckEmail(v) \/ SignUp(v) \/ NativeSignUp(v)
    \/ GoogleSignIn(v) \/ SetPhone(v) \/ Provision(v) \/ CommitCompany(v) \/ ProvisionFails(v)
    \/ WriteLoose(v) \/ WriteLink(v)
    \/ Purge(v) \/ DropCompany(v) \/ CommitDrop(v) \/ DropUser(v) \/ DeletionFails(v)

AccountSpec == AccountInit /\ [][AccountNext]_accountVars

-----------------------------------------------------------------------------
Met(v, kind) == \E q \in Visits : {q, v} \in meetings /\ plan[q].kind = kind

\* A step leaves the acceptance of a company that stays.
KeepsTerms ==
  \A u \in Ids : company[u] # Nil /\ company'[u] # Nil /\ company[u].id = company'[u].id
                  /\ company[u].terms => company'[u].terms

(* Whoever accepted the terms keeps the acceptance as long as the company    *)
(* exists, whatever sign-in or completion of the profile comes late.         *)
TermsNeverErased == [][KeepsTerms]_accountVars

(* A user without company has a visit that still makes it or that deletes    *)
(* the user; or signed up at Better Auth's own route, or had a provisioning   *)
(* or a deletion that stopped half-way, and nobody has made the company       *)
(* since.  So the hook of Google and registerBetter leave no one behind.     *)
NoCompanyHasACause ==
  \A u \in Live : company[u] = Nil =>
    u \in stranded \/ \E v \in Visits : user[v] = u /\ doing[v] \in {"provision", "commit", "dropUser"}

\* What a visit writes belongs to a user if it is a password link, or to a company.
Belongs(v, id) == IF plan[v].kind = "forgot" THEN id \in Live
                  ELSE \E u \in Ids : company[u] # Nil /\ company[u].id = id

(* The deletion of an account leaves no customer, profile, quota or password *)
(* link behind, except what a request wrote that was in progress with it.    *)
LeftoversMeanOverlap == \A x \in loose : Belongs(x.by, x.of) \/ Met(x.by, "delete")
=============================================================================
