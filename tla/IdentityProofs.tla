--------------------------- MODULE IdentityProofs ---------------------------
(***************************************************************************)
(* For every set of people and of concurrent handlers: the types of        *)
(* Identity, that a CLI login flow implements LoginGrant, and that the     *)
(* platform keeps an administrator when the sign-ups and changes that the  *)
(* code does not protect from each other do not overlap.                   *)
(***************************************************************************)
EXTENDS Identity, FiniteSetTheorems, TLAPS

-----------------------------------------------------------------------------
(* Types.                                                                  *)

\* Every request but those that only fail a flow is about somebody.
About(r) == reqs[r].step \notin {"idle", "fail"} => reqs[r].u \in Users

TInv == TypeOK /\ \A r \in Requests : About(r)

\* A request that begins.
BeginAny(r) ==
    \/ \E u \in Users : RegisterBegin(r, u) \/ ApproveBegin(r, u)
    \/ \E u \in Users, forCli \in BOOLEAN : OauthBegin(r, u, forCli)
    \/ \E a, t \in Users : DeleteBegin(r, a, t)
    \/ \E a, t \in Users, flag \in BOOLEAN : StatusBegin(r, a, t, flag)
    \/ FailBegin(r) \/ ExchangeBegin(r)

LEMMA TypeBegin ==
    ASSUME TInv, NEW r \in Requests, BeginAny(r)
    PROVE  TInv'
<1> USE IdentityAssumption DEF TInv, TypeOK, About, Begin, Request, RequestSteps, Oauth, AdminChange,
                               Existing, Exists
<1>1. CASE \E u \in Users : RegisterBegin(r, u)
  BY <1>1 DEF RegisterBegin
<1>2. CASE \E u \in Users : ApproveBegin(r, u)
  BY <1>2 DEF ApproveBegin
<1>3. CASE \E u \in Users, forCli \in BOOLEAN : OauthBegin(r, u, forCli)
  BY <1>3 DEF OauthBegin
<1>4. CASE \E a, t \in Users : DeleteBegin(r, a, t)
  BY <1>4 DEF DeleteBegin
<1>5. CASE \E a, t \in Users, flag \in BOOLEAN : StatusBegin(r, a, t, flag)
  BY <1>5 DEF StatusBegin
<1>6. CASE FailBegin(r)
  BY <1>6 DEF FailBegin
<1>7. CASE ExchangeBegin(r)
  BY <1>7 DEF ExchangeBegin, Exchangeable
<1>8. QED
  BY <1>1, <1>2, <1>3, <1>4, <1>5, <1>6, <1>7 DEF BeginAny

\* What an exchange leaves in the flow and among the tokens.
ExchangeTyped ==
    /\ flow' \in [status : FlowStatus, user : Users \cup {Nobody}]
    /\ flow'.status \in {"approved", "used"} => flow'.user \in Existing
    /\ tokens' \in Seq(Users)

LEMMA ExchangeTypes ==
    ASSUME TInv, NEW u \in Users, Exchange(u) \/ UNCHANGED <<flow, tokens>>
    PROVE  ExchangeTyped
<1> USE DEF TInv, TypeOK, ExchangeTyped, FlowStatus
<1>1. CASE StillApproved /\ Exchange(u)
  <2>1. flow' = [flow EXCEPT !.status = "used"] /\ tokens' = Append(tokens, u) /\ flow.status = "approved"
    BY <1>1 DEF Exchange, StillApproved
  <2>2. flow' \in [status : FlowStatus, user : Users \cup {Nobody}] /\ flow'.user = flow.user
    BY <2>1
  <2>3. tokens' \in Seq(Users)
    BY <2>1
  <2>4. QED
    BY <2>1, <2>2, <2>3
<1>2. CASE UNCHANGED <<flow, tokens>>
  BY <1>2
<1>3. QED
  BY <1>1, <1>2 DEF Exchange

LEMMA TypeRequest ==
    ASSUME TInv, NEW r \in Requests, RequestStep(r) \/ RequestLost(r)
    PROVE  TInv'
<1> USE IdentityAssumption DEF TInv, TypeOK, About, End, Go, Idle, RequestSteps, Oauth, AdminChange,
                               Existing, Exists, Accounts, NoAccount, FlowStatus
<1>1. CASE RegisterCommit(r)
  BY <1>1 DEF RegisterCommit
<1>2. CASE OauthCreate(r)
  <2> DEFINE u == reqs[r].u
  <2>1. u \in Users /\ users[u] \in Accounts /\ UNCHANGED <<flow, expired, begun, cli, tokens>>
    BY <1>2 DEF OauthCreate
  <2>2. CASE users[u].state = "none"
    <3>1. /\ users' = [users EXCEPT ![u] = [state |-> "active", admin |-> FALSE, linked |-> TRUE]]
          /\ reqs' = [reqs EXCEPT ![r].step = "promote"]
      BY <1>2, <2>2 DEF OauthCreate
    <3>2. QED
      BY <2>1, <2>2, <3>1
  <2>3. CASE Exists(u)
    <3>1. users' = [users EXCEPT ![u].linked = TRUE] /\ reqs' = [reqs EXCEPT ![r].step = "finish"]
      BY <1>2, <2>3 DEF OauthCreate
    <3>2. users' = [users EXCEPT ![u] = [users[u] EXCEPT !.linked = TRUE]]
      BY <2>1, <3>1
    <3>3. /\ users' \in [Users -> Accounts]
          /\ \A v \in Users : users'[v].state = users[v].state
      BY <2>1, <3>2
    <3>4. QED
      BY <2>1, <2>3, <3>1, <3>3
  <2>4. CASE users[u].state # "none" /\ ~Exists(u)
    <3>1. users' = users /\ reqs' = [reqs EXCEPT ![r].step = "idle"]
      BY <1>2, <2>4 DEF OauthCreate
    <3>2. QED
      BY <2>1, <3>1
  <2>5. QED
    BY <2>2, <2>3, <2>4
<1>3. CASE OauthPromote(r)
  <2>1. /\ reqs[r].u \in Users /\ users[reqs[r].u] \in Accounts
        /\ reqs' = [reqs EXCEPT ![r].step = "finish"]
        /\ UNCHANGED <<flow, expired, begun, cli, tokens>>
    BY <1>3 DEF OauthPromote
  <2>2. CASE OnlyUser /\ Exists(reqs[r].u)
    <3>1. users' = [users EXCEPT ![reqs[r].u] = [users[reqs[r].u] EXCEPT !.admin = TRUE]]
      BY <1>3, <2>1, <2>2 DEF OauthPromote
    <3>2. /\ users' \in [Users -> Accounts]
          /\ \A v \in Users : users'[v].state = users[v].state
      BY <2>1, <3>1
    <3>3. flow'.status \in {"approved", "used"} => flow'.user \in Existing'
      BY <2>1, <3>2
    <3>4. QED
      BY <2>1, <3>2, <3>3
  <2>3. CASE ~(OnlyUser /\ Exists(reqs[r].u))
    <3>1. users' = users
      BY <1>3, <2>3 DEF OauthPromote
    <3>2. QED
      BY <2>1, <3>1
  <2>4. QED
    BY <2>2, <2>3
<1>4. CASE Finish(r)
  BY <1>4 DEF Finish, StillPending
<1>5. CASE FailCommit(r)
  BY <1>5 DEF FailCommit
<1>6. CASE StatusCommit(r)
  <2>1. /\ reqs[r].u \in Users /\ reqs' = [reqs EXCEPT ![r] = Idle]
        /\ UNCHANGED <<flow, expired, begun, cli, tokens>>
    BY <1>6 DEF StatusCommit
  <2>2. users' = users \/ \E state \in {"active", "disabled"} :
           Exists(reqs[r].u) /\ users' = [users EXCEPT ![reqs[r].u] = [users[reqs[r].u] EXCEPT !.state = state]]
    BY <1>6, <2>1 DEF StatusCommit
  <2>3. users' \in [Users -> Accounts] /\ \A u \in Users : Exists(u) => users'[u].state \in {"active", "disabled"}
    <3>1. CASE users' = users
      BY <3>1
    <3>2. ASSUME NEW state \in {"active", "disabled"},
                 users' = [users EXCEPT ![reqs[r].u] = [users[reqs[r].u] EXCEPT !.state = state]]
          PROVE  users' \in [Users -> Accounts] /\ \A u \in Users : Exists(u) => users'[u].state \in {"active", "disabled"}
      <4>1. [users[reqs[r].u] EXCEPT !.state = state] \in Accounts
        BY <2>1
      <4>2. QED
        BY <2>1, <3>2, <4>1
    <3>3. QED
      BY <2>2, <3>1, <3>2
  <2>4. QED
    BY <2>1, <2>3
<1>7. CASE DeleteCommit(r)
  BY <1>7 DEF DeleteCommit, FlowAfterDelete
<1>8. CASE RequestLost(r)
  BY <1>8 DEF RequestLost
<1>9. CASE ExchangeCommit(r)
  <2>1. /\ reqs[r].u \in Users /\ Exchange(reqs[r].u) /\ reqs' = [reqs EXCEPT ![r] = Idle]
        /\ UNCHANGED <<users, expired, begun, cli>>
    BY <1>9 DEF ExchangeCommit
  <2>2. ExchangeTyped
    BY <2>1, ExchangeTypes
  <2>3. QED
    BY <2>1, <2>2 DEF ExchangeTyped
<1>10. QED
  BY <1>1, <1>2, <1>3, <1>4, <1>5, <1>6, <1>7, <1>8, <1>9 DEF RequestStep

LEMMA TypeCli ==
    ASSUME TInv, CliBegin \/ Expire \/ Cli
    PROVE  TInv'
<1> USE IdentityAssumption DEF TInv, TypeOK, About, Existing, Exists, FlowStatus, CliSteps
<1>1. CASE CliBegin
  BY <1>1 DEF CliBegin
<1>2. CASE Expire
  BY <1>2 DEF Expire
<1>3. CASE CliPoll
  BY <1>3 DEF CliPoll
<1>4. CASE CliGivesUp
  BY <1>4 DEF CliGivesUp
<1>5. CASE ExchangeRead
  BY <1>5 DEF ExchangeRead, Exchangeable
<1>6. CASE ExchangeConsume
  <2>1. /\ UNCHANGED <<users, expired, reqs, begun>> /\ cli.step = "consume"
        /\ Exchange(cli.user) \/ UNCHANGED <<flow, tokens>>
        /\ \E step \in {"done", "failed"} : cli' = [cli EXCEPT !.step = step]
    BY <1>6 DEF ExchangeConsume
  <2>2. ExchangeTyped
    BY <2>1, ExchangeTypes
  <2>3. cli' \in [step : CliSteps, user : Users \cup {Nobody}] /\ cli'.user \in Users
    BY <2>1
  <2>4. QED
    BY <2>1, <2>2, <2>3 DEF ExchangeTyped
<1>7. QED
  BY <1>1, <1>2, <1>3, <1>4, <1>5, <1>6 DEF Cli

LEMMA TypeInit == Init => TInv
<1> SUFFICES ASSUME Init PROVE TInv
  OBVIOUS
<1>1. users \in [Users -> Accounts]
  BY DEF Init, NoAccount, Accounts
<1>2. reqs \in [Requests -> [step : RequestSteps, u : Users \cup {Nobody}, cli : BOOLEAN, flag : BOOLEAN]]
  BY DEF Init, Idle, RequestSteps
<1>3. \A r \in Requests : About(r)
  BY DEF Init, Idle, About
<1>4. /\ flow \in [status : FlowStatus, user : Users \cup {Nobody}]
      /\ flow.status \notin {"approved", "used"}
  BY DEF Init, FlowStatus
<1>5. /\ cli \in [step : CliSteps, user : Users \cup {Nobody}]
      /\ cli.step \notin {"consume", "done"}
  BY DEF Init, CliSteps
<1>6. begun \in 0..MaxRequests /\ tokens \in Seq(Users)
  BY IdentityAssumption DEF Init
<1>7. expired \in BOOLEAN
  BY Zenon DEF Init
<1>8. QED
  BY <1>1, <1>2, <1>3, <1>4, <1>5, <1>6, <1>7 DEF TInv, TypeOK

LEMMA TypeNext == TInv /\ [Next]_vars => TInv'
<1> SUFFICES ASSUME TInv, [Next]_vars PROVE TInv'
  OBVIOUS
<1>1. CASE \E r \in Requests : BeginAny(r) \/ RequestStep(r) \/ RequestLost(r)
  BY <1>1, TypeBegin, TypeRequest
<1>2. CASE CliBegin \/ Expire \/ Cli
  BY <1>2, TypeCli
<1>3. CASE UNCHANGED vars
  BY <1>3 DEF vars, TInv, TypeOK, About, Existing, Exists
<1>4. QED
  BY <1>1, <1>2, <1>3 DEF Next, BeginAny

\* No interleaving of sign-ups, approvals, administrators and the CLI takes a
\* variable out of its type, and the user of an approved flow always has a row
\* (auth.py, cli_auth.py, the foreign key of CliLoginFlow.user_id).
THEOREM IdentityTypes == Spec => []TypeOK
<1>1. TInv => TypeOK
  BY DEF TInv
<1>2. QED
  BY <1>1, TypeInit, TypeNext, PTL DEF Spec
-----------------------------------------------------------------------------
(* A CLI login flow implements LoginGrant.                                 *)

\* Nobody holds a flow before it is approved, the CLI has a flow from its
\* first request on, only a flow that exists is failed, and what an exchange
\* has read is what the flow still says, however long ago it read it.
HeldOnce ==
    /\ flow.status \in {"none", "pending"} => flow.user = Nobody
    /\ flow.status = "none" <=> cli.step = "start"
    /\ \A r \in Requests : reqs[r].step = "fail" => flow.status # "none"
    /\ cli.step = "consume" => cli.user = flow.user /\ flow.status \notin {"none", "pending"}
    /\ \A r \in Requests :
          reqs[r].step = "exchange" => reqs[r].u = flow.user /\ flow.status \notin {"none", "pending"}

GInv == TInv /\ HeldOnce

LEMMA HeldInit == Init => HeldOnce
  BY DEF Init, HeldOnce, Idle

LEMMA HeldNext ==
    ASSUME GInv, [Next]_vars
    PROVE  HeldOnce'
<1>1. ASSUME NEW r \in Requests, BeginAny(r) PROVE HeldOnce'
  <2>1. UNCHANGED <<flow, cli>>
    BY <1>1 DEF BeginAny, RegisterBegin, ApproveBegin, OauthBegin, DeleteBegin, StatusBegin, FailBegin,
                ExchangeBegin, Begin
  <2>2. ASSUME NEW u \in Users, NEW forCli \in BOOLEAN, NEW flag \in BOOLEAN,
               NEW step \in {"register", "finish", "create", "delete", "status"},
               Begin(r, Request(step, u, forCli, flag))
        PROVE  HeldOnce'
    <3>1. reqs' = [reqs EXCEPT ![r] = Request(step, u, forCli, flag)] /\ step \notin {"fail", "exchange"}
      BY <2>2 DEF Begin
    <3>2. QED
      BY <2>1, <3>1 DEF Request, GInv, TInv, TypeOK, HeldOnce
  <2>3. CASE \E u \in Users : RegisterBegin(r, u) \/ ApproveBegin(r, u)
    <3>1. (Existing = {}) \in BOOLEAN
      OBVIOUS
    <3>2. QED
      BY <2>2, <2>3, <3>1 DEF RegisterBegin, ApproveBegin
  <2>4. CASE \E u \in Users, forCli \in BOOLEAN : OauthBegin(r, u, forCli)
    BY <2>2, <2>4 DEF OauthBegin
  <2>5. CASE \E a, t \in Users : DeleteBegin(r, a, t)
    BY <2>2, <2>5 DEF DeleteBegin
  <2>6. CASE \E a, t \in Users, flag \in BOOLEAN : StatusBegin(r, a, t, flag)
    BY <2>2, <2>6 DEF StatusBegin
  <2>7. CASE FailBegin(r)
    <3>1. reqs' = [reqs EXCEPT ![r] = Request("fail", Nobody, TRUE, FALSE)] /\ flow.status = "pending"
      BY <2>7 DEF FailBegin, Begin
    <3>2. QED
      BY <2>1, <3>1 DEF Request, GInv, TInv, TypeOK, HeldOnce
  <2>8. CASE ExchangeBegin(r)
    <3>1. /\ reqs' = [reqs EXCEPT ![r] = Request("exchange", flow.user, TRUE, FALSE)]
          /\ flow.status = "approved"
      BY <2>8 DEF ExchangeBegin, Exchangeable, Begin
    <3>2. QED
      BY <2>1, <3>1 DEF Request, GInv, TInv, TypeOK, HeldOnce
  <2>9. QED
    BY <1>1, <2>3, <2>4, <2>5, <2>6, <2>7, <2>8 DEF BeginAny
<1> USE IdentityAssumption DEF GInv, TInv, TypeOK, HeldOnce, About
<1>2. ASSUME NEW r \in Requests, RequestStep(r) \/ RequestLost(r) PROVE HeldOnce'
  <2> USE DEF End, Go, Idle
  <2>1. CASE RegisterCommit(r) \/ StatusCommit(r) \/ RequestLost(r)
    <3>1. UNCHANGED <<flow, cli>> /\ reqs' = [reqs EXCEPT ![r] = Idle]
      BY <2>1 DEF RegisterCommit, StatusCommit, RequestLost
    <3>2. QED
      BY <3>1
  <2>2. CASE OauthCreate(r) \/ OauthPromote(r)
    <3>1. UNCHANGED <<flow, cli>> /\ \E step \in {"promote", "finish", "idle"} : Go(r, step)
      BY <2>2 DEF OauthCreate, OauthPromote
    <3>2. QED
      BY <3>1
  <2>3. CASE Finish(r)
    BY <2>3 DEF Finish, StillPending
  <2>4. CASE FailCommit(r)
    BY <2>4 DEF FailCommit
  <2>5. CASE DeleteCommit(r)
    BY <2>5 DEF DeleteCommit, FlowAfterDelete
  <2>6. CASE ExchangeCommit(r)
    BY <2>6 DEF ExchangeCommit, Exchange, StillApproved
  <2>7. QED
    BY <1>2, <2>1, <2>2, <2>3, <2>4, <2>5, <2>6 DEF RequestStep
<1>3. CASE CliBegin \/ Expire \/ Cli
  <2>1. CASE CliBegin \/ Expire
    BY <2>1 DEF CliBegin, Expire
  <2>2. CASE CliPoll \/ CliGivesUp
    BY <2>2 DEF CliPoll, CliGivesUp
  <2>3. CASE ExchangeRead
    BY <2>3 DEF ExchangeRead, Exchangeable
  <2>4. CASE ExchangeConsume
    BY <2>4 DEF ExchangeConsume, Exchange, StillApproved
  <2>5. QED
    BY <1>3, <2>1, <2>2, <2>3, <2>4 DEF Cli
<1>4. CASE UNCHANGED vars
  BY <1>4 DEF vars
<1>5. QED
  BY <1>1, <1>2, <1>3, <1>4 DEF Next, BeginAny

Failing == \E r \in Requests : reqs[r].step = "fail"

\* The steps that touch neither the flow nor its tokens: they leave LoginGrant
\* where it is, or make an account.
LEMMA AccountStep ==
    ASSUME GInv, [Next]_vars, UNCHANGED <<flow, tokens, Failing>>,
           Existing' = Existing \/ \E u \in Users : Existing' = Existing \cup {u}
    PROVE  [Grant!Next]_(Grant!vars)
BY DEF Failing, Grant!Next, Grant!vars, Grant!Joins

\* A step of Identity is a step of LoginGrant or leaves it where it is.
LEMMA GrantStep ==
    ASSUME GInv, [Next]_vars
    PROVE  [Grant!Next]_(Grant!vars)
<1> USE IdentityAssumption DEF GInv, TInv, TypeOK, HeldOnce, About, FlowStatus
<1>1. ASSUME NEW r \in Requests, BeginAny(r) PROVE [Grant!Next]_(Grant!vars)
  <2>1. UNCHANGED <<users, flow, tokens>>
    BY <1>1 DEF BeginAny, RegisterBegin, ApproveBegin, OauthBegin, DeleteBegin, StatusBegin, FailBegin,
                ExchangeBegin, Begin
  <2>2. Existing' = Existing
    BY <2>1 DEF Existing, Exists
  <2>3. CASE FailBegin(r)
    <3>1. Failing' /\ flow.status = "pending"
      BY <2>3 DEF FailBegin, Begin, Request, Failing
    <3>2. QED
      BY <2>1, <2>2, <3>1 DEF Failing, Grant!Next, Grant!SignInFails
  <2>4. CASE ~FailBegin(r)
    <3>1. /\ reqs[r].step = "idle" /\ reqs'[r].step # "fail"
          /\ \A x \in Requests : x # r => reqs'[x] = reqs[x]
      <4> USE DEF Begin, Request
      <4>1. CASE \E u \in Users : RegisterBegin(r, u) \/ ApproveBegin(r, u)
        BY <4>1 DEF RegisterBegin, ApproveBegin
      <4>2. CASE \E u \in Users, forCli \in BOOLEAN : OauthBegin(r, u, forCli)
        BY <4>2 DEF OauthBegin
      <4>3. CASE \E a, t \in Users : DeleteBegin(r, a, t)
        BY <4>3 DEF DeleteBegin
      <4>4. CASE \E a, t \in Users, flag \in BOOLEAN : StatusBegin(r, a, t, flag)
        BY <4>4 DEF StatusBegin
      <4>5. CASE ExchangeBegin(r)
        BY <4>5 DEF ExchangeBegin
      <4>6. QED
        BY <1>1, <2>4, <4>1, <4>2, <4>3, <4>4, <4>5 DEF BeginAny
    <3>2. \A x \in Requests : reqs'[x].step = "fail" <=> reqs[x].step = "fail"
      BY <3>1
    <3>3. Failing' <=> Failing
      BY <3>2 DEF Failing
    <3>4. QED
      BY <2>1, <2>2, <3>3, AccountStep
  <2>5. QED
    BY <2>3, <2>4
<1>2. ASSUME NEW r \in Requests, RequestStep(r) \/ RequestLost(r) PROVE [Grant!Next]_(Grant!vars)
  <2> USE DEF End, Go, Idle
  <2>1. CASE RegisterCommit(r) \/ OauthCreate(r) \/ OauthPromote(r) \/ StatusCommit(r)
    <3>1. UNCHANGED <<flow, tokens>>
      BY <2>1 DEF RegisterCommit, OauthCreate, OauthPromote, StatusCommit
    <3>2. \A x \in Requests : reqs'[x].step = "fail" <=> reqs[x].step = "fail"
      BY <2>1 DEF RegisterCommit, OauthCreate, OauthPromote, StatusCommit
    <3>3. Failing' <=> Failing
      BY <3>2 DEF Failing
    <3>4. Existing' = Existing \/ \E u \in Users : Existing' = Existing \cup {u}
      <4>1. /\ reqs[r].u \in Users
            /\ \A u \in Users : u # reqs[r].u => users'[u] = users[u]
            /\ Exists(reqs[r].u) => users'[reqs[r].u].state \in {"active", "disabled"}
        BY <2>1 DEF RegisterCommit, OauthCreate, OauthPromote, StatusCommit, Exists, Accounts
      <4>2. QED
        BY <4>1 DEF Existing, Exists
    <3>5. QED
      BY <3>1, <3>3, <3>4, AccountStep
  <2>2. CASE Finish(r)
    <3>1. UNCHANGED <<users, tokens>> /\ \A x \in Requests : reqs'[x].step = "fail" <=> reqs[x].step = "fail"
      BY <2>2 DEF Finish
    <3>2. Existing' = Existing /\ (Failing' <=> Failing)
      BY <3>1 DEF Existing, Exists, Failing
    <3>3. CASE flow' = flow
      BY <3>1, <3>2, <3>3, AccountStep
    <3>4. CASE flow' # flow
      <4>1. flow.status = "pending" /\ flow' = [status |-> "approved", user |-> reqs[r].u]
            /\ reqs[r].u \in Existing
        BY <2>2, <3>4 DEF Finish, StillPending, Existing
      <4>2. QED
        BY <3>1, <3>2, <4>1 DEF Failing, Grant!Next, Grant!Grant
    <3>5. QED
      BY <3>3, <3>4
  <2>3. CASE FailCommit(r)
    <3>1. UNCHANGED <<users, tokens>> /\ Failing
      BY <2>3 DEF FailCommit, Failing
    <3>2. Existing' = Existing
      BY <3>1 DEF Existing, Exists
    <3>3. flow'.user = flow.user /\ flow'.status \in {"failed", "removed"}
      BY <2>3 DEF FailCommit
    <3>4. QED
      BY <3>1, <3>2, <3>3 DEF Failing, Grant!Next, Grant!Close
  <2>4. CASE RequestLost(r)
    <3>1. UNCHANGED <<users, flow, tokens>> /\ (Failing' => Failing)
      BY <2>4 DEF RequestLost, Failing
    <3>2. Existing' = Existing
      BY <3>1 DEF Existing, Exists
    <3>3. CASE Failing
      BY <3>1, <3>2, <3>3 DEF Failing, Grant!Next, Grant!Close
    <3>4. CASE ~Failing
      <4>1. UNCHANGED <<flow, tokens>> /\ (Failing' <=> Failing)
        BY <3>1, <3>4
      <4>2. QED
        BY <3>2, <4>1, AccountStep
    <3>5. QED
      BY <3>3, <3>4
  <2>5. CASE ExchangeCommit(r)
    <3>1. UNCHANGED users /\ \A x \in Requests : reqs'[x].step = "fail" <=> reqs[x].step = "fail"
      BY <2>5 DEF ExchangeCommit
    <3>2. Existing' = Existing /\ (Failing' <=> Failing)
      BY <3>1 DEF Existing, Exists, Failing
    <3>3. Exchange(flow.user)
      BY <2>5 DEF ExchangeCommit
    <3>4. CASE StillApproved
      BY <3>2, <3>3, <3>4 DEF Exchange, StillApproved, Failing, Grant!Next, Grant!Issue
    <3>5. CASE ~StillApproved
      BY <3>2, <3>3, <3>5, AccountStep DEF Exchange
    <3>6. QED
      BY <3>4, <3>5
  <2>6. CASE DeleteCommit(r)
    <3> DEFINE u == reqs[r].u
    <3>1. /\ u \in Users /\ UNCHANGED tokens
          /\ \A x \in Requests : reqs'[x].step = "fail" <=> reqs[x].step = "fail"
      BY <2>6 DEF DeleteCommit
    <3>2. Failing' <=> Failing
      BY <3>1 DEF Failing
    <3>3. Existing' = Existing \ {u}
      BY <2>6, <3>1 DEF DeleteCommit, Existing, Exists, NoAccount
    <3>4. flow' = IF flow.user = u THEN [flow EXCEPT !.status = "removed"] ELSE flow
      BY <2>6 DEF DeleteCommit, FlowAfterDelete
    <3>5. Grant!Goes(u)
      BY <3>1, <3>2, <3>3, <3>4 DEF Failing, Grant!Goes
    <3>6. QED
      BY <3>1, <3>5 DEF Grant!Next
  <2>7. QED
    BY <1>2, <2>1, <2>2, <2>3, <2>4, <2>5, <2>6 DEF RequestStep
<1>3. CASE CliBegin
  <2>1. UNCHANGED <<users, reqs, tokens>> /\ flow.status = "none" /\ flow' = [flow EXCEPT !.status = "pending"]
    BY <1>3 DEF CliBegin
  <2>2. Existing' = Existing
    BY <2>1 DEF Existing, Exists
  <2>3. QED
    BY <2>1, <2>2 DEF Grant!vars
<1>4. CASE Expire \/ CliPoll \/ CliGivesUp \/ ExchangeRead \/ UNCHANGED vars
  <2>1. UNCHANGED <<users, flow, reqs, tokens>>
    BY <1>4 DEF Expire, CliPoll, CliGivesUp, ExchangeRead, vars
  <2>2. Existing' = Existing /\ (Failing' <=> Failing)
    BY <2>1 DEF Existing, Exists, Failing
  <2>3. QED
    BY <2>1, <2>2, AccountStep
<1>5. CASE ExchangeConsume
  <2>1. UNCHANGED <<users, reqs>> /\ (Exchange(flow.user) \/ UNCHANGED <<flow, tokens>>)
    BY <1>5 DEF ExchangeConsume
  <2>2. Existing' = Existing /\ (Failing' <=> Failing)
    BY <2>1 DEF Existing, Exists, Failing
  <2>3. CASE UNCHANGED <<flow, tokens>>
    BY <2>2, <2>3, AccountStep
  <2>4. CASE StillApproved /\ Exchange(flow.user)
    BY <2>1, <2>2, <2>4 DEF Exchange, StillApproved, Failing, Grant!Next, Grant!Issue
  <2>5. QED
    BY <2>1, <2>3, <2>4 DEF Exchange
<1>6. QED
  BY <1>1, <1>2, <1>3, <1>4, <1>5 DEF Next, BeginAny, Cli

\* The flow of a CLI login implements LoginGrant, whatever requests approve it,
\* fail it, delete its user and exchange it at the same time: it is granted at
\* most once, by somebody who has an account, of all those who exchange it one is
\* given a token, and that token is for whoever approved it (approve_cli_flow,
\* consume_cli_flow, _fail_cli_flow, delete_user).
THEOREM IdentityImplementsGrant == Spec => ImplementsGrant
<1>1. Init => GInv
  BY TypeInit, HeldInit DEF GInv
<1>2. GInv /\ [Next]_vars => GInv'
  BY TypeNext, HeldNext DEF GInv
<1>3. Init => Grant!Init
  <2> SUFFICES ASSUME Init PROVE Grant!Init
    OBVIOUS
  <2>1. Existing = {} /\ \A r \in Requests : reqs[r].step # "fail"
    BY DEF Init, Existing, Exists, NoAccount, Idle
  <2>2. QED
    BY <2>1 DEF Init, Grant!Init
<1>4. GInv /\ [Next]_vars => [Grant!Next]_(Grant!vars)
  BY GrantStep
<1>5. QED
  BY <1>1, <1>2, <1>3, <1>4, PTL DEF Spec, ImplementsGrant, Grant!Spec

\* While the flow can still be exchanged, no token has been issued for it.
OneToken == Len(tokens) <= 1 /\ (flow.status \in {"none", "pending", "approved"} => tokens = <<>>)

\* A CLI login yields one session token at most, however many handlers of
\* exchange_cli_flow have read the flow as approved, and although a failure may
\* overwrite its status after it was used (consume_cli_flow, _fail_cli_flow).
THEOREM OneTokenIssued == Spec => [](Len(tokens) <= 1)
<1>1. Init => OneToken
  BY DEF Init, OneToken
<1>2. ASSUME GInv, OneToken, [Next]_vars PROVE OneToken'
  <2> USE DEF OneToken
  <2>1. CASE UNCHANGED <<flow, tokens>>
    BY <1>2, <2>1
  <2>2. ASSUME UNCHANGED tokens, flow'.status \notin {"none", "pending", "approved"} PROVE OneToken'
    BY <1>2, <2>2
  <2>3. ASSUME NEW u, Exchange(u) PROVE OneToken'
    <3>1. CASE StillApproved
      <4>1. tokens = <<>> /\ tokens' = Append(tokens, u) /\ flow'.status = "used"
        BY <1>2, <2>3, <3>1 DEF Exchange, StillApproved, GInv, TInv, TypeOK
      <4>2. Len(tokens') = 1
        BY <4>1
      <4>3. QED
        BY <4>1, <4>2
    <3>2. CASE ~StillApproved
      BY <2>1, <2>3, <3>2 DEF Exchange
    <3>3. QED
      BY <3>1, <3>2
  <2>4. ASSUME NEW r \in Requests, BeginAny(r) PROVE UNCHANGED <<flow, tokens>>
    BY <2>4 DEF BeginAny, RegisterBegin, ApproveBegin, OauthBegin, DeleteBegin, StatusBegin, FailBegin,
                ExchangeBegin, Begin
  <2>5. ASSUME NEW r \in Requests, RequestStep(r) \/ RequestLost(r) PROVE OneToken'
    <3>1. CASE RegisterCommit(r) \/ OauthCreate(r) \/ OauthPromote(r) \/ StatusCommit(r) \/ RequestLost(r)
      BY <2>1, <3>1 DEF RegisterCommit, OauthCreate, OauthPromote, StatusCommit, RequestLost
    <3>2. CASE Finish(r)
      BY <1>2, <3>2 DEF Finish, StillPending
    <3>3. CASE FailCommit(r)
      BY <2>2, <3>3 DEF FailCommit, GInv, TInv, TypeOK
    <3>4. CASE DeleteCommit(r)
      BY <1>2, <3>4 DEF DeleteCommit, FlowAfterDelete, GInv, TInv, TypeOK
    <3>5. CASE ExchangeCommit(r)
      BY <2>3, <3>5 DEF ExchangeCommit
    <3>6. QED
      BY <2>5, <3>1, <3>2, <3>3, <3>4, <3>5 DEF RequestStep
  <2>6. CASE CliBegin
    BY <1>2, <2>6 DEF CliBegin, GInv, HeldOnce, TInv, TypeOK
  <2>7. CASE ExchangeConsume
    BY <2>1, <2>3, <2>7 DEF ExchangeConsume
  <2>8. CASE Expire \/ CliPoll \/ CliGivesUp \/ ExchangeRead \/ UNCHANGED vars
    BY <2>1, <2>8 DEF Expire, CliPoll, CliGivesUp, ExchangeRead, vars
  <2>9. QED
    BY <1>2, <2>1, <2>4, <2>5, <2>6, <2>7, <2>8 DEF Next, BeginAny, Cli
<1>3. Init => GInv
  BY TypeInit, HeldInit DEF GInv
<1>4. GInv /\ [Next]_vars => GInv'
  BY TypeNext, HeldNext DEF GInv
<1>5. OneToken => Len(tokens) <= 1
  BY DEF OneToken
<1>6. QED
  BY <1>1, <1>2, <1>3, <1>4, <1>5, PTL DEF Spec

-----------------------------------------------------------------------------
(* An administrator remains.                                               *)

\* One sign-up by OAuth and one change by an administrator at a time; the
\* change leaves another active administrator; a sign-up that is not the first
\* finds one; and a user who is about to be promoted is the only one if nobody
\* administers the platform.
Kept ==
    /\ \A r, s \in Requests : reqs[r].step \in Oauth /\ reqs[s].step \in Oauth => r = s
    /\ \A r, s \in Requests : reqs[r].step \in AdminChange /\ reqs[s].step \in AdminChange => r = s
    /\ \A r \in Requests : reqs[r].step \in AdminChange => \E a \in ActiveAdmins : a # reqs[r].u
    /\ \A r \in Requests : reqs[r].step = "register" /\ ~reqs[r].flag => ActiveAdmins # {}
    /\ \A r \in Requests :
          reqs[r].step = "promote" =>
             ActiveAdmins # {} \/ (Existing = {reqs[r].u} /\ reqs[r].u \in Users
                                   /\ users[reqs[r].u].state = "active")

AInv == TInv /\ Kept /\ AdminRemains

\* A request that begins has read the accounts; the guards of Apart say what
\* else is under way.
LEMMA KeptBegin ==
    ASSUME ~Races, AInv, NEW r \in Requests, BeginAny(r)
    PROVE  Kept' /\ AdminRemains'
<1> USE IdentityAssumption DEF AInv, TInv, TypeOK, Kept, AdminRemains, Begin, Request, Apart, Oauth, AdminChange
<1>1. users' = users
  BY DEF BeginAny, RegisterBegin, ApproveBegin, OauthBegin, DeleteBegin, StatusBegin, FailBegin, ExchangeBegin
<1>2. ActiveAdmins' = ActiveAdmins /\ Existing' = Existing
  BY <1>1 DEF ActiveAdmins, Admins, Existing, Exists
<1>3. CASE \E u \in Users : RegisterBegin(r, u)
  <2>1. PICK u \in Users : RegisterBegin(r, u)
    BY <1>3
  <2>2. /\ \A s \in Requests : s # r => reqs'[s] = reqs[s] /\ reqs[s].step # "promote"
        /\ reqs[r].step = "idle" /\ reqs'[r].step = "register"
    BY <2>1 DEF RegisterBegin
  <2>3. reqs'[r].flag \/ Existing # {}
    <3>1. CASE Existing = {}
      BY <2>1, <3>1 DEF RegisterBegin
    <3>2. QED
      BY <3>1
  <2>4. QED
    BY <1>1, <1>2, <2>2, <2>3
<1>4. CASE \E u \in Users : ApproveBegin(r, u)
  BY <1>1, <1>2, <1>4 DEF ApproveBegin
<1>5. CASE \E u \in Users, forCli \in BOOLEAN : OauthBegin(r, u, forCli)
  BY <1>1, <1>2, <1>5 DEF OauthBegin
<1>6. CASE \E a, t \in Users : DeleteBegin(r, a, t)
  BY <1>1, <1>2, <1>6 DEF DeleteBegin, Another
<1>7. CASE \E a, t \in Users, flag \in BOOLEAN : StatusBegin(r, a, t, flag)
  BY <1>1, <1>2, <1>7 DEF StatusBegin, Another
<1>8. CASE FailBegin(r) \/ ExchangeBegin(r)
  <2>1. /\ reqs[r].step = "idle" /\ reqs'[r].step \in {"fail", "exchange"}
        /\ \A s \in Requests : s # r => reqs'[s] = reqs[s]
    BY <1>8 DEF FailBegin, ExchangeBegin
  <2>2. \A s \in Requests :
           reqs'[s].step \in Oauth \cup AdminChange \cup {"register"} => s # r /\ reqs'[s] = reqs[s]
    BY <2>1
  <2>3. Kept'
    BY <1>1, <1>2, <2>2
  <2>4. AdminRemains'
    BY <1>2, <2>1
  <2>5. QED
    BY <2>3, <2>4
<1>9. QED
  BY <1>3, <1>4, <1>5, <1>6, <1>7, <1>8 DEF BeginAny

LEMMA KeptRequest ==
    ASSUME ~Races, AInv, NEW r \in Requests, RequestStep(r) \/ RequestLost(r)
    PROVE  Kept' /\ AdminRemains'
<1> USE IdentityAssumption DEF AInv, TInv, TypeOK, About, Kept, AdminRemains, End, Go, Idle, Oauth, AdminChange
<1>1. CASE RegisterCommit(r)
  <2> DEFINE u == reqs[r].u
  <2>1. u \in Users /\ reqs' = [reqs EXCEPT ![r] = Idle]
    BY <1>1 DEF RegisterCommit
  <2>2. CASE users[u].state = "none"
    <3>1. users' = [users EXCEPT ![u] = [state |-> "active", admin |-> reqs[r].flag, linked |-> FALSE]]
      BY <1>1, <2>2 DEF RegisterCommit
    <3>2. ActiveAdmins \subseteq ActiveAdmins'
      BY <2>1, <2>2, <3>1 DEF ActiveAdmins, Admins, Existing, Exists
    <3>3. reqs[r].flag => u \in ActiveAdmins'
      BY <2>1, <3>1 DEF ActiveAdmins, Admins, Existing, Exists
    <3>4. ActiveAdmins' # {}
      BY <1>1, <3>2, <3>3 DEF RegisterCommit
    <3>5. QED
      BY <2>1, <3>2, <3>4
  <2>3. CASE users[u].state # "none"
    <3>1. users' = users
      BY <1>1, <2>3 DEF RegisterCommit
    <3>2. ActiveAdmins' = ActiveAdmins /\ Existing' = Existing
      BY <3>1 DEF ActiveAdmins, Admins, Existing, Exists
    <3>3. QED
      BY <1>1, <2>1, <3>1, <3>2 DEF RegisterCommit
  <2>4. QED
    BY <2>2, <2>3
<1>2. CASE OauthCreate(r)
  <2> DEFINE u == reqs[r].u
  <2>1. u \in Users /\ users[u] \in Accounts /\ reqs[r].step = "create"
    BY <1>2 DEF OauthCreate
  <2>2. CASE users[u].state = "none"
    <3>1. /\ users' = [users EXCEPT ![u] = [state |-> "active", admin |-> FALSE, linked |-> TRUE]]
          /\ reqs' = [reqs EXCEPT ![r].step = "promote"]
      BY <1>2, <2>2 DEF OauthCreate, Exists
    <3>2. /\ ActiveAdmins' = ActiveAdmins
          /\ Existing' = Existing \cup {u} /\ users'[u].state = "active"
      BY <2>1, <2>2, <3>1 DEF ActiveAdmins, Admins, Existing, Exists
    <3>3. Existing # {} => ActiveAdmins # {}
      BY <2>1
    <3>4. \A s \in Requests : reqs[s].step = "promote" => s = r
      BY <2>1
    <3>5. QED
      BY <2>1, <3>1, <3>2, <3>3, <3>4
  <2>3. CASE Exists(u)
    <3>1. users' = [users EXCEPT ![u].linked = TRUE] /\ reqs' = [reqs EXCEPT ![r].step = "finish"]
      BY <1>2, <2>3 DEF OauthCreate, Exists
    <3>2. users' = [users EXCEPT ![u] = [users[u] EXCEPT !.linked = TRUE]]
      BY <2>1, <3>1
    <3>3. \A v \in Users : users'[v].state = users[v].state /\ users'[v].admin = users[v].admin
      BY <2>1, <3>2 DEF Accounts
    <3>4. ActiveAdmins' = ActiveAdmins /\ Existing' = Existing
      BY <3>3 DEF ActiveAdmins, Admins, Existing, Exists
    <3>5. QED
      BY <2>1, <3>1, <3>3, <3>4
  <2>4. CASE users[u].state # "none" /\ ~Exists(u)
    <3>1. users' = users /\ reqs' = [reqs EXCEPT ![r].step = "idle"]
      BY <1>2, <2>4 DEF OauthCreate
    <3>2. ActiveAdmins' = ActiveAdmins /\ Existing' = Existing
      BY <3>1 DEF ActiveAdmins, Admins, Existing, Exists
    <3>3. QED
      BY <2>1, <3>1, <3>2
  <2>5. QED
    BY <2>2, <2>3, <2>4
<1>3. CASE OauthPromote(r)
  <2> DEFINE u == reqs[r].u
  <2>1. /\ u \in Users /\ users[u] \in Accounts /\ reqs[r].step = "promote"
        /\ reqs' = [reqs EXCEPT ![r].step = "finish"]
    BY <1>3 DEF OauthPromote
  <2>2. /\ ActiveAdmins \subseteq ActiveAdmins' /\ ActiveAdmins' # {}
        /\ Existing' = Existing
    <3>1. CASE OnlyUser /\ Exists(u)
      <4>1. users' = [users EXCEPT ![u] = [users[u] EXCEPT !.admin = TRUE]]
        BY <1>3, <2>1, <3>1 DEF OauthPromote
      <4>2. /\ \A v \in Users : users'[v].state = users[v].state
            /\ \A v \in Users : users[v].admin => users'[v].admin
            /\ users'[u].admin
        BY <2>1, <4>1 DEF Accounts
      <4>3. ActiveAdmins \subseteq ActiveAdmins' /\ Existing' = Existing
        BY <4>2 DEF ActiveAdmins, Admins, Existing, Exists
      <4>4. users[u].state = "active" => u \in ActiveAdmins'
        BY <2>1, <4>2 DEF ActiveAdmins, Admins, Existing, Exists
      <4>5. QED
        BY <2>1, <4>3, <4>4
    <3>2. CASE ~(OnlyUser /\ Exists(u))
      <4>1. users' = users
        BY <1>3, <3>2 DEF OauthPromote
      <4>2. ActiveAdmins' = ActiveAdmins /\ Existing' = Existing
        BY <4>1 DEF ActiveAdmins, Admins, Existing, Exists
      <4>3. ASSUME Existing = {u} PROVE FALSE
        BY <2>1, <3>2, <4>3, FS_Singleton DEF OnlyUser, Existing
      <4>4. QED
        BY <2>1, <4>2, <4>3
    <3>3. QED
      BY <3>1, <3>2
  <2>3. QED
    BY <2>1, <2>2
<1>4. CASE Finish(r) \/ FailCommit(r) \/ ExchangeCommit(r) \/ RequestLost(r)
  <2>1. users' = users /\ reqs' = [reqs EXCEPT ![r] = Idle] /\ reqs[r].step # "promote"
    BY <1>4 DEF Finish, FailCommit, ExchangeCommit, RequestLost
  <2>2. ActiveAdmins' = ActiveAdmins /\ Existing' = Existing
    BY <2>1 DEF ActiveAdmins, Admins, Existing, Exists
  <2>3. QED
    BY <2>1, <2>2
<1>5. CASE StatusCommit(r) \/ DeleteCommit(r)
  <2> DEFINE u == reqs[r].u
  <2>1. /\ u \in Users /\ reqs[r].step \in AdminChange
        /\ reqs' = [reqs EXCEPT ![r] = Idle]
    BY <1>5 DEF StatusCommit, DeleteCommit
  <2>2. \A v \in Users : v # u => users'[v] = users[v]
    BY <1>5, <2>1 DEF StatusCommit, DeleteCommit
  <2>3. PICK a \in ActiveAdmins : a # u
    BY <2>1
  <2>4. a \in ActiveAdmins'
    BY <2>2, <2>3 DEF ActiveAdmins, Admins, Existing, Exists
  <2>5. \A s \in Requests : s # r => reqs[s].step \notin AdminChange
    BY <2>1
  <2>6. QED
    BY <2>1, <2>4, <2>5
<1>6. QED
  BY <1>1, <1>2, <1>3, <1>4, <1>5 DEF RequestStep

LEMMA KeptNext ==
    ASSUME ~Races, AInv, [Next]_vars
    PROVE  Kept' /\ AdminRemains'
<1>1. CASE \E r \in Requests : BeginAny(r) \/ RequestStep(r) \/ RequestLost(r)
  BY <1>1, KeptBegin, KeptRequest
<1>2. CASE UNCHANGED <<users, reqs>>
  BY <1>2 DEF AInv, Kept, AdminRemains, ActiveAdmins, Admins, Existing, Exists
<1>3. CASE CliBegin \/ Expire \/ Cli \/ UNCHANGED vars
  BY <1>2, <1>3 DEF CliBegin, Expire, Cli, CliPoll, CliGivesUp, ExchangeRead, ExchangeConsume, vars
<1>4. QED
  BY <1>1, <1>3 DEF Next, BeginAny

\* As long as anybody has an account somebody can administer the platform, if
\* no sign-up begins between the two commits of another one by OAuth, no process
\* dies there and the changes of administrators do not overlap (register,
\* on_after_register, update_user_status, delete_user): the code holds no lock
\* that would exclude these.
THEOREM AdminsKept == ASSUME ~Races PROVE Spec => []AdminRemains
<1>1. Init => AInv
  <2> SUFFICES ASSUME Init PROVE Kept /\ AdminRemains
    BY TypeInit DEF AInv
  <2>1. Existing = {} /\ \A r \in Requests : reqs[r].step = "idle"
    BY DEF Init, Existing, Exists, NoAccount, Idle
  <2>2. QED
    BY <2>1 DEF Kept, AdminRemains, Oauth, AdminChange
<1>2. AInv /\ [Next]_vars => AInv'
  BY TypeNext, KeptNext DEF AInv
<1>3. AInv => AdminRemains
  BY DEF AInv
<1>4. QED
  BY <1>1, <1>2, <1>3, PTL DEF Spec

=============================================================================
