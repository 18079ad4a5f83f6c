------------------------------ MODULE WebAccess ------------------------------
(***************************************************************************)
(* Access to one sandbox through the proxy: its web link, the requests and *)
(* the WebSocket that come in through it, and what they do to the idle     *)
(* clock by which the lifecycle tick stops the sandbox.                    *)
(*                                                                         *)
(* A web link is one row per sandbox whose primary key is the link itself. *)
(* Requests read the row and write it later; the mapper writes WHERE id =  *)
(* the id that was read, and a write that finds no row fails.              *)
(***************************************************************************)
EXTENDS Integers, FiniteSets

CONSTANTS
    Requests,       \* web-link requests that may run at the same time
    MaxLinks,       \* bound: links that are issued
    TouchEvery,     \* WS_ACTIVITY_TOUCH_INTERVAL
    Threshold,      \* auto_stop_interval, in the same unit
    MaxDelay,       \* the longest a touch takes to be committed
    MaxStarts,      \* bound: times the sandbox is started again
    MaxMissed       \* bound: touches that fail

ASSUME AccessAssumption ==
    /\ {TouchEvery, Threshold, MaxDelay, MaxStarts, MaxMissed} \subseteq Nat
    /\ MaxLinks \in Nat \ {0}

\* What the interval has to leave room for: the value that a touch writes is as
\* old as its commit took, and the next one may take as long.
ASSUME IntervalFits == TouchEvery + 2 * MaxDelay <= Threshold

VARIABLES
    link,      \* the SandboxWebLink row: its id and gmt_deleted
    issued,    \* links made so far
    given,     \* links that were answered to somebody
    revoked,   \* links that a DELETE has been answered for
    overtaken, \* active links that a POST, too late to see them, has replaced
    reqs,      \* web-link requests and opened links
    ready,     \* the sandbox is READY; otherwise STOPPED
    starts,
    age,       \* time since gmt_last_active, up to Threshold + 1
    ws,        \* the WebSocket: "none", "connecting", "first" (touch) or "open"
    toucher,   \* its touches: "off", "touching" or "sleeping", and since when
    missed,    \* touches of this WebSocket that failed
    http,      \* a proxied request is being answered
    tick       \* the lifecycle tick has chosen the sandbox

links == <<link, issued, given, revoked, overtaken, reqs>>
socket == <<ws, toucher, missed>>
vars == <<links, ready, starts, age, socket, http, tick>>

Active(n) == link.id = n /\ ~link.deleted

-----------------------------------------------------------------------------
(* Web links.                                                              *)

Idle == [op |-> "idle", saw |-> 0]
End(r) == reqs' = [reqs EXCEPT ![r] = Idle]

\* create_sandbox_web_link looks for an active link (_normalize_active_web_link)
\* and answers it as it is ...
PostAnswers(r) ==
    /\ reqs[r].op = "idle" /\ Active(link.id)
    /\ given' = given \cup {link.id}
    /\ UNCHANGED <<link, issued, revoked, overtaken, reqs, ready, starts, age, socket, http, tick>>

\* ... or finds none.
PostBegin(r) ==
    /\ reqs[r].op = "idle" /\ issued < MaxLinks /\ ~Active(link.id)
    /\ reqs' = [reqs EXCEPT ![r].op = "lookup"]
    /\ UNCHANGED <<link, issued, given, revoked, overtaken, ready, starts, age, socket, http, tick>>

\* _upsert_web_link then reads the row, deleted or not: another POST may have
\* made it active by now.
PostRead(r) ==
    /\ reqs[r].op = "lookup"
    /\ reqs' = [reqs EXCEPT ![r] = [op |-> "post", saw |-> link.id]]
    /\ UNCHANGED <<link, issued, given, revoked, overtaken, ready, starts, age, socket, http, tick>>

\* build_open_link_token.
FreshId == issued + 1

\* The row is updated under the id that was read.  Somebody else's UPDATE in
\* between makes it fail.
PostWrite(r) ==
    /\ reqs[r].op = "post" /\ End(r)
    /\ IF link.id = reqs[r].saw /\ issued < MaxLinks
       THEN /\ link' = [id |-> FreshId, deleted |-> FALSE]
            /\ issued' = issued + 1 /\ given' = given \cup {FreshId}
            /\ overtaken' = IF Active(link.id) THEN overtaken \cup {link.id} ELSE overtaken
       ELSE UNCHANGED <<link, issued, given, overtaken>>
    /\ UNCHANGED <<revoked, ready, starts, age, socket, http, tick>>

\* delete_sandbox_web_link.
DeleteRead(r) ==
    /\ reqs[r].op = "idle" /\ Active(link.id)
    /\ reqs' = [reqs EXCEPT ![r] = [op |-> "delete", saw |-> link.id]]
    /\ UNCHANGED <<link, issued, given, revoked, overtaken, ready, starts, age, socket, http, tick>>

\* Mutant: the row is looked for by its sandbox.
OfSandbox(r) == TRUE

\* The mapper's WHERE id = ...
SameRow(r) == link.id = reqs[r].saw

DeleteWrite(r) ==
    /\ reqs[r].op = "delete" /\ End(r)
    /\ IF SameRow(r)
       THEN link' = [link EXCEPT !.deleted = TRUE] /\ revoked' = revoked \cup {reqs[r].saw}
       ELSE UNCHANGED <<link, revoked>>
    /\ UNCHANGED <<issued, given, overtaken, ready, starts, age, socket, http, tick>>

\* _exchange_open_credentials: a link that was given out is opened; its cookie
\* stands for it from then on.
OpenRead(r) ==
    /\ reqs[r].op = "idle" /\ Active(link.id) /\ link.id \in given
    /\ reqs' = [reqs EXCEPT ![r] = [op |-> "open", saw |-> link.id]]
    /\ UNCHANGED <<link, issued, given, revoked, overtaken, ready, starts, age, socket, http, tick>>

OpenWrite(r) ==
    /\ reqs[r].op = "open" /\ End(r)
    /\ age' = IF link.id = reqs[r].saw THEN 0 ELSE age
    /\ UNCHANGED <<link, issued, given, revoked, overtaken, ready, starts, socket, http, tick>>

\* Who is let in: the owner, by his session (a bootstrap cookie) or an API key,
\* and a visitor by the cookie of a link, for as long as the link is active
\* (_validate_sandbox_cookie).
LetIn(who) == who = "visitor" => \E n \in given : Active(n)

-----------------------------------------------------------------------------
(* The proxy.                                                              *)

\* _handle_http: a READY sandbox is asked, and touched once the answer has been
\* passed on.
HttpBegin(who) ==
    /\ LetIn(who) /\ ready /\ ~http /\ http' = TRUE
    /\ UNCHANGED <<links, ready, starts, age, socket, tick>>

\* The sandbox may have been stopped: an error is shown, nothing is touched.
HttpEnd ==
    /\ http /\ http' = FALSE
    /\ age' = IF ready THEN 0 ELSE age
    /\ UNCHANGED <<links, ready, starts, socket, tick>>

\* _handle_websocket, ws_proxy: checked once.
WsCheck(who) ==
    /\ LetIn(who) /\ ready /\ ws = "none" /\ ws' = "connecting" /\ missed' = 0
    /\ UNCHANGED <<links, ready, starts, age, toucher, http, tick>>

\* proxy_websocket: the upstream connection, then the first touch.
WsConnect ==
    /\ ws = "connecting"
    /\ IF ready
       THEN ws' = "first" /\ toucher' = [step |-> "touching", time |-> 0]
       ELSE ws' = "none" /\ UNCHANGED toucher
    /\ UNCHANGED <<links, ready, starts, age, missed, http, tick>>

Touched ==
    /\ toucher.step = "touching"
    /\ toucher' = [step |-> "sleeping", time |-> 0]
    /\ ws' = IF ws = "first" THEN "open" ELSE ws

\* on_activity commits the time at which it was called ...
Touch ==
    /\ Touched /\ age' = toucher.time
    /\ UNCHANGED <<links, ready, starts, missed, http, tick>>

\* ... or fails, and the session goes on.
TouchFails ==
    /\ Touched /\ missed < MaxMissed /\ missed' = missed + 1
    /\ UNCHANGED <<links, ready, starts, age, http, tick>>

\* Mutant: one touch in every auto-stop interval.
OncePerThreshold == Threshold

Interval == TouchEvery

\* periodic_activity_touch: asyncio.sleep is over.
TouchBegin ==
    /\ toucher.step = "sleeping" /\ toucher.time = Interval
    /\ toucher' = [step |-> "touching", time |-> 0]
    /\ UNCHANGED <<links, ready, starts, age, ws, missed, http, tick>>

NoToucher == [step |-> "off", time |-> 0]

\* Mutant: the other tasks are left running when the relay ends.
TasksLeft == toucher

TasksCancelled == NoToucher

\* Either side closes, or the pod is gone: FIRST_COMPLETED, the other tasks are
\* cancelled.
WsEnds ==
    /\ ws = "open" /\ ws' = "none" /\ toucher' = TasksCancelled
    /\ UNCHANGED <<links, ready, starts, age, missed, http, tick>>

-----------------------------------------------------------------------------
(* The lifecycle tick, the owner and time.                                 *)

\* check_idle_auto_stop loads the sandboxes and compares ...
TickLoad ==
    /\ ready /\ ~tick /\ age > Threshold /\ tick' = TRUE
    /\ UNCHANGED <<links, ready, starts, age, socket, http>>

\* ... and stops the idle ones, one after the other.
TickStop ==
    /\ tick /\ tick' = FALSE /\ ready' = FALSE
    /\ UNCHANGED <<links, starts, age, socket, http>>

\* start, which sets gmt_last_active.
Start ==
    /\ ~ready /\ starts < MaxStarts /\ ready' = TRUE /\ starts' = starts + 1 /\ age' = 0
    /\ UNCHANGED <<links, socket, http, tick>>

\* A unit of time, within which every step that is due is taken: a touch is
\* committed MaxDelay after it began, and a sleep is not longer than asked for.
Pass ==
    /\ toucher.step = "touching" => toucher.time < MaxDelay
    /\ toucher.step = "sleeping" => toucher.time < Interval
    /\ age' = IF age <= Threshold THEN age + 1 ELSE age
    /\ toucher' = [toucher EXCEPT !.time = IF toucher.step = "off" THEN 0 ELSE @ + 1]
    /\ UNCHANGED <<links, ready, starts, ws, missed, http, tick>>

-----------------------------------------------------------------------------
\* create made the sandbox and its link; its answer may have been lost.
Init ==
    /\ link = [id |-> 1, deleted |-> FALSE] /\ issued = 1 /\ given \in {{}, {1}} /\ revoked = {} /\ overtaken = {}
    /\ reqs = [r \in Requests |-> Idle]
    /\ ready = TRUE /\ starts = 0 /\ age = 0 /\ http = FALSE /\ tick = FALSE
    /\ ws = "none" /\ toucher = NoToucher /\ missed = 0

Links(r) ==
    \/ PostAnswers(r) \/ PostBegin(r) \/ PostRead(r) \/ PostWrite(r)
    \/ DeleteRead(r) \/ DeleteWrite(r) \/ OpenRead(r) \/ OpenWrite(r)

Next ==
    \/ \E r \in Requests : Links(r)
    \/ \E who \in {"owner", "visitor"} : HttpBegin(who) \/ WsCheck(who)
    \/ HttpEnd \/ WsConnect \/ Touch \/ TouchFails \/ TouchBegin \/ WsEnds
    \/ TickLoad \/ TickStop \/ Start \/ Pass

Spec == Init /\ [][Next]_vars

\* Time passes, and the leader's tick runs.
FairSpec == Spec /\ WF_vars(Pass) /\ WF_vars(TickLoad) /\ WF_vars(TickStop)

-----------------------------------------------------------------------------
(* Properties.                                                             *)

\* Every variable keeps its type, and nothing touches the sandbox for a
\* connection that has ended (proxy_websocket).
TypeOK ==
    /\ issued \in 1..MaxLinks /\ link \in [id : 1..issued, deleted : BOOLEAN]
    /\ {given, revoked, overtaken} \subseteq SUBSET (1..issued)
    /\ reqs \in [Requests -> [op : {"idle", "lookup", "post", "delete", "open"}, saw : 0..issued]]
    /\ ready \in BOOLEAN /\ http \in BOOLEAN /\ tick \in BOOLEAN
    /\ starts \in 0..MaxStarts /\ age \in 0..(Threshold + 1)
    /\ ws \in {"none", "connecting", "first", "open"} /\ missed \in 0..MaxMissed
    /\ toucher \in [step : {"off", "touching", "sleeping"}, time : 0..(Interval + MaxDelay)]
    /\ toucher.step # "off" => ws \in {"first", "open"}

\* A link that somebody was given works until it is deleted, and never again
\* after that, whatever requests race; only a second POST that did not see the
\* first one's link replaces it (create_sandbox_web_link, _upsert_web_link,
\* delete_sandbox_web_link).
LinkLives ==
    \A n \in given : /\ Active(n) => n \notin revoked
                     /\ ~Active(n) => n \in revoked \cup overtaken

\* While a WebSocket is open and its touches succeed, the sandbox never counts
\* as idle (proxy_websocket, check_idle_auto_stop).
KeepsAwake == ws = "open" /\ missed = 0 => age <= Threshold

InUse == http \/ ws # "none" \/ \E r \in Requests : reqs[r].op = "open"

\* A sandbox that nobody uses any more is stopped (check_idle_auto_stop; nothing
\* of an ended connection goes on touching it).
IdleStops == [](ready /\ ~InUse => <>(InUse \/ ~ready))
=============================================================================
