------------------------------ MODULE MCCompany ------------------------------
(* Instances of CollectionPoints, CatalogQuestions, IaConfig, ResendLimit and *)
(* Account for TLC.  Their tables are disjoint: each behaviour is one of      *)
(* them, and the others stay as they were created.                           *)
EXTENDS CollectionPoints, CatalogQuestions, IaConfig, ResendLimit, Account, TLC

CONSTANTS
  r1, r2, r3, i1,
  s1, s2,
  c1, c2, c3, k1, k2, m1, m2,
  e1, e2, e3, here, there,
  v1, v2, v3, ana, bia, phone

VARIABLE part

\* A key that is saved or connected, a model that is changed, a removal, the screen.
Wish(kind, key, model) == [kind |-> kind, key |-> key, model |-> model]
Look == Wish("get", None, None)
Remove == Wish("remove", None, None)
Change(m) == Wish("patch", None, m)
MCWishes ==
  {c1 :> w[1] @@ c2 :> w[2] @@ c3 :> w[3] : w \in
    {<<Look, Wish("put", k2, m1), Look>>,
     <<Change(m2), Wish("put", k2, m1), Look>>,
     <<Change(m2), Wish("connect", k2, m2), Change(m1)>>,
     <<Change(m2), Remove, Wish("put", k1, m1)>>,
     <<Look, Remove, Wish("connect", k1, m2)>>}}
MCAccount == k1 :> {m1, m2} @@ k2 :> {m1} @@ Public :> {m1, m2}
MCChanged == {<<k1, None>>}

\* Two of three requests for the e-mail come from one IP.
MCIpOf == e1 :> here @@ e2 :> here @@ e3 :> there

MCPlans ==
  {[kind |-> k, who |-> ana, phone |-> phone] :
     k \in {"register", "native", "google", "complete", "delete", "profile", "feedback", "forgot"}}
  \cup {[kind |-> k, who |-> bia, phone |-> phone] : k \in {"phone", "register"}}

\* What does not run stays as it was created.
QuestionsIdle == SaveInit /\ \A x \in SlotRows : stored[x] = NoRow
ConfigIdle == ConfigInit /\ row = None /\ wish = CHOOSE w \in Wishes : TRUE
AccountsIdle == AccountInit /\ Live = {}

CompanyInit ==
  \/ part = "points" /\ Init /\ QuestionsIdle /\ ConfigIdle /\ LimitInit /\ AccountsIdle
  \/ part = "questions" /\ SaveInit /\ Init /\ ConfigIdle /\ LimitInit /\ AccountsIdle
  \/ part = "config" /\ ConfigInit /\ Init /\ QuestionsIdle /\ LimitInit /\ AccountsIdle
  \/ part = "limits" /\ LimitInit /\ Init /\ QuestionsIdle /\ ConfigIdle /\ AccountsIdle
  \/ part = "accounts" /\ AccountInit /\ Init /\ QuestionsIdle /\ ConfigIdle /\ LimitInit

CompanyNext ==
  /\ UNCHANGED part
  /\ \/ part = "points" /\ Next /\ UNCHANGED <<saveVars, configVars, limitVars, accountVars>>
     \/ part = "questions" /\ SaveNext /\ UNCHANGED <<vars, configVars, limitVars, accountVars>>
     \/ part = "config" /\ ConfigNext /\ UNCHANGED <<vars, saveVars, limitVars, accountVars>>
     \/ part = "limits" /\ LimitNext /\ UNCHANGED <<vars, saveVars, configVars, accountVars>>
     \/ part = "accounts" /\ AccountNext /\ UNCHANGED <<vars, saveVars, configVars, limitVars>>

companyVars == <<part, vars, saveVars, configVars, limitVars, accountVars>>
CompanySpec == CompanyInit /\ [][CompanyNext]_companyVars
=============================================================================
