------------------------------ MODULE Identity ------------------------------
(***************************************************************************)
(* Accounts and the browser login of the CLI.                              *)
(*                                                                         *)
(* Sign-up (register, OAuth), the administrator's changes to accounts, the *)
(* three ways to approve a CLI login flow and the one to fail it are       *)
(* requests: each reads, checks, and later writes, with the other requests *)
(* in between.  An UPDATE with a condition, and its commit, is one step.   *)
(* The CLI polls its flow and exchanges it for a session token, and so may *)
(* anybody else who has the flow's secret, at the same time and repeatedly.*)
(***************************************************************************)
EXTENDS Integers, Sequences, FiniteSets

CONSTANTS
    Users,          \* people, by e-mail address
    Nobody,
    Requests,       \* request handlers that may run at the same time
    MaxRequests,    \* bound: requests that are begun
    Races           \* TRUE: a sign-up begins between the commits of another by OAuth,
                    \* a process dies there, and administrators' changes overlap

ASSUME IdentityAssumption ==
    Nobody \notin Users /\ MaxRequests \in Nat /\ Races \in BOOLEAN

VARIABLES
    users,     \* the user rows
    flow,      \* the CLI login flow's row
    expired,   \* its gmt_expires has passed
    reqs,      \* the handlers
    begun,     \* requests begun so far
    cli,       \* where _browser_login is
    tokens     \* whom session tokens were issued for, one after the other

vars == <<users, flow, expired, reqs, begun, cli, tokens>>

Accounts == [state : {"none", "active", "disabled", "gone"}, admin : BOOLEAN, linked : BOOLEAN]
NoAccount == [state |-> "none", admin |-> FALSE, linked |-> FALSE]
FlowStatus == {"none", "pending", "approved", "used", "failed", "removed"}

Exists(u) == users[u].state \in {"active", "disabled"}
Existing == {u \in Users : Exists(u)}
Admins == {u \in Existing : users[u].admin}
ActiveAdmins == {u \in Admins : users[u].state = "active"}

Idle == [step |-> "idle", u |-> Nobody, cli |-> FALSE, flag |-> FALSE]
Request(step, u, forCli, flag) == [step |-> step, u |-> u, cli |-> forCli, flag |-> flag]

\* Steps of an OAuth sign-up, and those in which an administrator changes an
\* account.
Oauth == {"create", "promote"}
AdminChange == {"status", "delete"}

Apart(steps) == Races \/ \A r \in Requests : reqs[r].step \notin steps

Begin(r, request) ==
    /\ reqs[r].step = "idle" /\ begun < MaxRequests
    /\ reqs' = [reqs EXCEPT ![r] = request] /\ begun' = begun + 1
    /\ UNCHANGED <<users, flow, expired, cli, tokens>>

Go(r, step) == reqs' = [reqs EXCEPT ![r].step = step]
End(r) == reqs' = [reqs EXCEPT ![r] = Idle]

-----------------------------------------------------------------------------
(* Sign-up.                                                                *)

\* register: whether this is the first user is decided by a count at the start.
RegisterBegin(r, u) ==
    /\ users[u].state = "none" /\ Apart({"promote"})
    /\ Begin(r, Request("register", u, FALSE, Existing = {}))

\* The unique e-mail decides between two of them.
RegisterCommit(r) ==
    /\ reqs[r].step = "register" /\ End(r)
    /\ users' = IF users[reqs[r].u].state = "none"
                THEN [users EXCEPT ![reqs[r].u] =
                         [state |-> "active", admin |-> reqs[r].flag, linked |-> FALSE]]
                ELSE users
    /\ UNCHANGED <<flow, expired, begun, cli, tokens>>

\* _validate_cli_flow_pending, _effective_status.
Pending == flow.status = "pending" /\ ~expired

\* _oauth_callback, up to the call of fastapi-users, with or without a CLI
\* login in its state.
OauthBegin(r, u, forCli) ==
    /\ users[u].state # "gone" /\ Apart(Oauth)
    /\ forCli => Pending
    /\ Begin(r, Request("create", u, forCli, FALSE))

\* fastapi-users: the account found by OAuth account or by e-mail, or a new
\* one, which is committed before on_after_register is called.
OauthCreate(r) ==
    LET u == reqs[r].u IN
    /\ reqs[r].step = "create"
    /\ users' = CASE users[u].state = "none" ->
                       [users EXCEPT ![u] = [state |-> "active", admin |-> FALSE, linked |-> TRUE]]
                  [] Exists(u) -> [users EXCEPT ![u].linked = TRUE]
                  [] OTHER -> users
    /\ Go(r, CASE users[u].state = "none" -> "promote" [] Exists(u) -> "finish" [] OTHER -> "idle")
    /\ UNCHANGED <<flow, expired, begun, cli, tokens>>

OnlyUser == Cardinality(Existing) = 1

\* on_after_register.
OauthPromote(r) ==
    /\ reqs[r].step = "promote" /\ Go(r, "finish")
    /\ users' = IF OnlyUser /\ Exists(reqs[r].u)
                THEN [users EXCEPT ![reqs[r].u].admin = TRUE] ELSE users
    /\ UNCHANGED <<flow, expired, begun, cli, tokens>>

-----------------------------------------------------------------------------
(* Approving and failing a CLI login flow.                                 *)

\* approve_cli_flow (session cookie) and cli_login_submit (password).
ApproveBegin(r, u) ==
    /\ users[u].state = "active" /\ Pending
    /\ Begin(r, Request("finish", u, TRUE, FALSE))

\* services.approve_cli_flow: UPDATE ... WHERE status = 'pending'.
StillPending == flow.status = "pending"

\* The end of a sign-in; for a CLI login the flow is approved or the
\* transaction is rolled back.
Finish(r) ==
    /\ reqs[r].step = "finish" /\ End(r)
    /\ flow' = IF reqs[r].cli /\ StillPending /\ Exists(reqs[r].u)
               THEN [status |-> "approved", user |-> reqs[r].u] ELSE flow
    /\ UNCHANGED <<users, expired, begun, cli, tokens>>

\* _fail_cli_flow reads the flow; an expired one counts.
FailBegin(r) ==
    /\ flow.status = "pending"
    /\ Begin(r, Request("fail", Nobody, TRUE, FALSE))

\* It writes by id, whatever the status has become.
FailCommit(r) ==
    /\ reqs[r].step = "fail" /\ End(r)
    /\ flow' = IF flow.status = "removed" THEN flow ELSE [flow EXCEPT !.status = "failed"]
    /\ UNCHANGED <<users, expired, begun, cli, tokens>>

-----------------------------------------------------------------------------
(* Administrators.                                                         *)

\* Mutant: an administrator may choose herself.
Anybody(a, t) == TRUE

Another(a, t) == a # t

\* update_user_status; flag is body.is_active.
StatusBegin(r, a, t, flag) ==
    /\ a \in ActiveAdmins /\ Another(a, t) /\ Exists(t) /\ Apart(AdminChange)
    /\ ~flag /\ users[t].admin => Cardinality(ActiveAdmins) > 1
    /\ users[t].state # (IF flag THEN "active" ELSE "disabled")
    /\ Begin(r, Request("status", t, FALSE, flag))

StatusCommit(r) ==
    /\ reqs[r].step = "status" /\ End(r)
    /\ users' = IF Exists(reqs[r].u)
                THEN [users EXCEPT ![reqs[r].u].state = IF reqs[r].flag THEN "active" ELSE "disabled"]
                ELSE users
    /\ UNCHANGED <<flow, expired, begun, cli, tokens>>

\* delete_user.  The mapper would clear user_id of a linked OAuth account,
\* which the column refuses: such a user is not deleted.
DeleteBegin(r, a, t) ==
    /\ a \in ActiveAdmins /\ Another(a, t) /\ Exists(t) /\ Apart(AdminChange)
    /\ users[t].admin => Cardinality(Admins) > 1
    /\ ~users[t].linked
    /\ Begin(r, Request("delete", t, FALSE, FALSE))

\* Mutant: without ON DELETE CASCADE.
FlowKept(u) == flow

FlowAfterDelete(u) == IF flow.user = u THEN [flow EXCEPT !.status = "removed"] ELSE flow

\* The row goes, and with it (ON DELETE CASCADE) a flow the user approved.
DeleteCommit(r) ==
    /\ reqs[r].step = "delete" /\ End(r)
    /\ users' = IF Exists(reqs[r].u)
                THEN [users EXCEPT ![reqs[r].u] = [NoAccount EXCEPT !.state = "gone"]] ELSE users
    /\ flow' = FlowAfterDelete(reqs[r].u)
    /\ UNCHANGED <<expired, begun, cli, tokens>>

\* The process dies with the request, or the database refuses it.
RequestLost(r) ==
    /\ reqs[r].step # "idle" /\ (Races \/ reqs[r].step # "promote")
    /\ End(r)
    /\ UNCHANGED <<users, flow, expired, begun, cli, tokens>>

-----------------------------------------------------------------------------
(* The CLI.                                                                *)

\* create_cli_flow, called by _browser_login.
CliBegin ==
    /\ cli.step = "start" /\ cli' = [cli EXCEPT !.step = "polling"]
    /\ flow' = [flow EXCEPT !.status = "pending"]
    /\ UNCHANGED <<users, expired, reqs, begun, tokens>>

Expire ==
    /\ flow.status # "none" /\ ~expired /\ expired' = TRUE
    /\ UNCHANGED <<users, flow, reqs, begun, cli, tokens>>

\* poll_cli_flow.  While the flow is pending, or the call fails, the CLI goes
\* on polling.
CliPoll ==
    /\ cli.step = "polling"
    /\ \/ flow.status = "approved" /\ cli' = [cli EXCEPT !.step = "exchange"]
       \/ /\ flow.status \in {"used", "failed"} \/ (flow.status = "pending" /\ expired)
          /\ cli' = [cli EXCEPT !.step = "failed"]
    /\ UNCHANGED <<users, flow, expired, reqs, begun, tokens>>

\* Mutant: it polls for as long as the flow is not answered for.
PollsForEver == FALSE

\* _FLOW_MAX_POLLS polls take no less time than the flow's life.
PollsUsedUp == expired

CliGivesUp ==
    /\ cli.step = "polling" /\ PollsUsedUp
    /\ cli' = [cli EXCEPT !.step = "failed"]
    /\ UNCHANGED <<users, flow, expired, reqs, begun, tokens>>

\* exchange_cli_flow reads the flow and its user and writes the token for him ...
Exchangeable == flow.status = "approved" /\ Exists(flow.user)

\* Mutant: the flow is marked used without looking at it again.
ConsumesAnyway == flow.status # "removed"

\* consume_cli_flow: UPDATE ... WHERE status = 'approved'.
StillApproved == flow.status = "approved"

\* ... and answers with the token if it is the one who consumes the flow.
Exchange(u) ==
    IF StillApproved THEN flow' = [flow EXCEPT !.status = "used"] /\ tokens' = Append(tokens, u)
    ELSE UNCHANGED <<flow, tokens>>

\* Somebody else who has the secret.
ExchangeBegin(r) ==
    /\ Exchangeable
    /\ Begin(r, Request("exchange", flow.user, TRUE, FALSE))

ExchangeCommit(r) ==
    /\ reqs[r].step = "exchange" /\ End(r) /\ Exchange(reqs[r].u)
    /\ UNCHANGED <<users, expired, begun, cli>>

\* The CLI's own POST.
ExchangeRead ==
    /\ cli.step = "exchange"
    /\ cli' = IF Exchangeable THEN [step |-> "consume", user |-> flow.user]
              ELSE [cli EXCEPT !.step = "failed"]
    /\ UNCHANGED <<users, flow, expired, reqs, begun, tokens>>

\* The answer reaches the CLI or is lost, or the request dies before its commit.
ExchangeConsume ==
    /\ cli.step = "consume"
    /\ \/ Exchange(cli.user) /\ StillApproved /\ cli' = [cli EXCEPT !.step = "done"]
       \/ Exchange(cli.user) /\ cli' = [cli EXCEPT !.step = "failed"]
       \/ UNCHANGED <<flow, tokens>> /\ cli' = [cli EXCEPT !.step = "failed"]
    /\ UNCHANGED <<users, expired, reqs, begun>>

Cli == CliPoll \/ CliGivesUp \/ ExchangeRead \/ ExchangeConsume

-----------------------------------------------------------------------------
Init ==
    /\ users = [u \in Users |-> NoAccount]
    /\ flow = [status |-> "none", user |-> Nobody] /\ expired = FALSE
    /\ reqs = [r \in Requests |-> Idle] /\ begun = 0
    /\ cli = [step |-> "start", user |-> Nobody] /\ tokens = <<>>

RequestStep(r) ==
    \/ RegisterCommit(r) \/ OauthCreate(r) \/ OauthPromote(r) \/ Finish(r)
    \/ FailCommit(r) \/ ExchangeCommit(r) \/ StatusCommit(r) \/ DeleteCommit(r)

Next ==
    \/ \E r \in Requests :
          \/ \E u \in Users : RegisterBegin(r, u) \/ ApproveBegin(r, u)
          \/ \E u \in Users, forCli \in BOOLEAN : OauthBegin(r, u, forCli)
          \/ \E a, t \in Users : DeleteBegin(r, a, t)
          \/ \E a, t \in Users, flag \in BOOLEAN : StatusBegin(r, a, t, flag)
          \/ FailBegin(r) \/ ExchangeBegin(r) \/ RequestStep(r) \/ RequestLost(r)
    \/ CliBegin \/ Expire \/ Cli

Spec == Init /\ [][Next]_vars

\* Time passes, and the CLI polls while it waits.
FairSpec == Spec /\ WF_vars(Expire) /\ WF_vars(Cli)

-----------------------------------------------------------------------------
(* Properties.                                                             *)

RequestSteps == Oauth \cup AdminChange \cup {"idle", "register", "finish", "fail", "exchange"}
CliSteps == {"start", "polling", "exchange", "consume", "done", "failed"}

\* Every variable keeps its type, and the user of an approved flow has a row
\* (the foreign key of CliLoginFlow.user_id).
TypeOK ==
    /\ users \in [Users -> Accounts]
    /\ flow \in [status : FlowStatus, user : Users \cup {Nobody}]
    /\ flow.status \in {"approved", "used"} => flow.user \in Existing
    /\ expired \in BOOLEAN /\ begun \in 0..MaxRequests
    /\ reqs \in [Requests -> [step : RequestSteps, u : Users \cup {Nobody}, cli : BOOLEAN, flag : BOOLEAN]]
    /\ cli \in [step : CliSteps, user : Users \cup {Nobody}]
    /\ cli.step \in {"consume", "done"} => cli.user \in Users
    /\ tokens \in Seq(Users)

Grant == INSTANCE LoginGrant WITH
    state <- CASE flow.status \in {"none", "pending"} -> "open"
               [] flow.status = "approved" -> "granted"
               [] flow.status = "used" -> "spent"
               [] OTHER -> "closed",
    holder <- flow.user,
    accounts <- Existing,
    failing <- \E r \in Requests : reqs[r].step = "fail"

\* A CLI login flow is granted at most once, by somebody who has an account, and
\* yields at most one token, for whoever granted it, however many exchanges,
\* approvals and failures of it race with each other and with the deletion of
\* accounts (approve_cli_flow, consume_cli_flow, _fail_cli_flow, delete_user).
ImplementsGrant == Grant!Spec

\* As long as anybody has an account, somebody can administer the platform,
\* once the sign-up of the first user is over (register, on_after_register,
\* update_user_status, delete_user).
AdminRemains ==
    (Existing # {} /\ \A r \in Requests : reqs[r].step # "promote") => ActiveAdmins # {}

\* The CLI stops waiting: with a token, or with an error (_browser_login).
CliEnds == cli.step = "polling" ~> cli.step \in {"done", "failed"}
=============================================================================
