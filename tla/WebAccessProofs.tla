--------------------------- MODULE WebAccessProofs ---------------------------
(***************************************************************************)
(* For every number of concurrent requests and of links, and every touch   *)
(* interval that fits the auto-stop threshold: the types of WebAccess,     *)
(* that a web link lives until it is deleted, and that an open WebSocket   *)
(* keeps its sandbox awake.                                                *)
(***************************************************************************)
EXTENDS WebAccess, TLAPS

-----------------------------------------------------------------------------
(* Web links.                                                              *)

\* The types of the links.
LinkTypes ==
    /\ issued \in 1..MaxLinks /\ link \in [id : 1..issued, deleted : BOOLEAN]
    /\ {given, revoked, overtaken} \subseteq SUBSET (1..issued)
    /\ reqs \in [Requests -> [op : {"idle", "lookup", "post", "delete", "open"}, saw : 0..issued]]

\* LinkLives, and the deletion of the link in force, given to somebody or not.
LInv ==
    /\ LinkTypes
    /\ link.id \in revoked => link.deleted
    /\ LinkLives

LEMMA LinksInit == Init => LInv
<1> SUFFICES ASSUME Init PROVE LInv
  OBVIOUS
<1>1. LinkTypes
  <2>1. issued \in 1..MaxLinks /\ given \in SUBSET (1..issued) /\ revoked = {} /\ overtaken = {}
    BY AccessAssumption DEF Init
  <2>2. link \in [id : 1..issued, deleted : BOOLEAN]
    BY DEF Init
  <2>3. reqs \in [Requests -> [op : {"idle", "lookup", "post", "delete", "open"}, saw : 0..issued]]
    BY DEF Init, Idle
  <2>4. QED
    BY <2>1, <2>2, <2>3 DEF LinkTypes
<1>2. link.id = 1 /\ ~link.deleted /\ revoked = {} /\ given \subseteq {1}
  BY DEF Init
<1>3. QED
  BY <1>1, <1>2 DEF LInv, LinkLives, Active

LEMMA LinksStep ==
    ASSUME LInv, NEW r \in Requests, Links(r)
    PROVE  LInv'
<1> USE AccessAssumption DEF LInv, LinkTypes, LinkLives, Active, Idle, End
<1>1. CASE PostAnswers(r)
  BY <1>1 DEF PostAnswers
<1>2. CASE PostBegin(r)
  BY <1>2 DEF PostBegin
<1>3. CASE PostRead(r)
  BY <1>3 DEF PostRead
<1>4. CASE PostWrite(r)
  <2>1. CASE link.id = reqs[r].saw /\ issued < MaxLinks
    <3>1. /\ issued' = issued + 1 /\ link' = [id |-> issued + 1, deleted |-> FALSE]
          /\ given' = given \cup {issued + 1} /\ revoked' = revoked
          /\ overtaken' = IF Active(link.id) THEN overtaken \cup {link.id} ELSE overtaken
          /\ reqs' = [reqs EXCEPT ![r] = Idle]
      BY <1>4, <2>1 DEF PostWrite, FreshId
    <3>2. issued' \in 1..MaxLinks /\ 1..issued \subseteq 1..issued' /\ issued + 1 \notin 1..issued
      BY <2>1, <3>1
    <3>3. link' \in [id : 1..issued', deleted : BOOLEAN]
      BY <3>1, <3>2
    <3>4. given' \in SUBSET (1..issued') /\ revoked' \in SUBSET (1..issued') /\ overtaken' \in SUBSET (1..issued')
      BY <3>1, <3>2
    <3>5. reqs' \in [Requests -> [op : {"idle", "lookup", "post", "delete", "open"}, saw : 0..issued']]
      BY <3>1, <3>2
    <3>6. link'.id = issued + 1 /\ ~link'.deleted /\ issued + 1 \notin revoked /\ issued + 1 \notin given
      BY <3>1, <3>2
    <3>7. \A n \in given : ~Active(n)' /\ n \in revoked' \cup overtaken'
      BY <3>1, <3>2, <3>6
    <3>8. LinkLives'
      BY <3>1, <3>6, <3>7
    <3>9. QED
      BY <3>1, <3>2, <3>3, <3>4, <3>5, <3>6, <3>8
  <2>2. CASE ~(link.id = reqs[r].saw /\ issued < MaxLinks)
    BY <1>4, <2>2 DEF PostWrite
  <2>3. QED
    BY <2>1, <2>2
<1>5. CASE DeleteRead(r)
  BY <1>5 DEF DeleteRead
<1>6. CASE DeleteWrite(r)
  <2>1. CASE link.id = reqs[r].saw
    <3>1. /\ link' = [link EXCEPT !.deleted = TRUE] /\ revoked' = revoked \cup {link.id}
          /\ UNCHANGED <<issued, given, overtaken>> /\ reqs' = [reqs EXCEPT ![r] = Idle]
      BY <1>6, <2>1 DEF DeleteWrite, SameRow
    <3>2. link' \in [id : 1..issued, deleted : BOOLEAN] /\ link'.id = link.id /\ link'.deleted
      BY <3>1
    <3>3. LinkTypes'
      BY <3>1, <3>2
    <3>4. \A n \in given : ~Active(n)' /\ n \in revoked' \cup overtaken'
      BY <3>1, <3>2
    <3>5. QED
      BY <3>1, <3>2, <3>3, <3>4
  <2>2. CASE link.id # reqs[r].saw
    BY <1>6, <2>2 DEF DeleteWrite, SameRow
  <2>3. QED
    BY <2>1, <2>2
<1>7. CASE OpenRead(r)
  BY <1>7 DEF OpenRead
<1>8. CASE OpenWrite(r)
  BY <1>8 DEF OpenWrite
<1>9. QED
  BY <1>1, <1>2, <1>3, <1>4, <1>5, <1>6, <1>7, <1>8 DEF Links

\* The steps that are not about links.
Other ==
    \/ \E who \in {"owner", "visitor"} : HttpBegin(who) \/ WsCheck(who)
    \/ HttpEnd \/ WsConnect \/ Touch \/ TouchFails \/ TouchBegin \/ WsEnds
    \/ TickLoad \/ TickStop \/ Start \/ Pass

LEMMA LinksNext == LInv /\ [Next]_vars => LInv'
<1> SUFFICES ASSUME LInv, [Next]_vars PROVE LInv'
  OBVIOUS
<1>1. CASE UNCHANGED links
  BY <1>1 DEF links, LInv, LinkTypes, LinkLives, Active
<1>2. CASE Other
  BY <1>1, <1>2 DEF Other, HttpBegin, WsCheck, HttpEnd, WsConnect, Touch, TouchFails, TouchBegin, WsEnds,
     TickLoad, TickStop, Start, Pass
<1>3. CASE UNCHANGED vars
  BY <1>1, <1>3 DEF vars
<1>4. QED
  BY <1>2, <1>3, LinksStep DEF Next, Other

\* However POST, DELETE and opening requests race, a link that somebody was given
\* works until it is deleted and never again, and only a POST too late to see it
\* replaces it (create_sandbox_web_link, _upsert_web_link, delete_sandbox_web_link).
THEOREM LinksLive == Spec => []LinkLives
<1>1. LInv => LinkLives
  BY DEF LInv
<1>2. QED
  BY <1>1, LinksInit, LinksNext, PTL DEF Spec

-----------------------------------------------------------------------------
(* The idle clock.                                                         *)

\* The types of the rest.
ClockTypes ==
    /\ ready \in BOOLEAN /\ http \in BOOLEAN /\ tick \in BOOLEAN
    /\ starts \in 0..MaxStarts /\ age \in 0..(Threshold + 1)
    /\ ws \in {"none", "connecting", "first", "open"} /\ missed \in 0..MaxMissed
    /\ toucher \in [step : {"off", "touching", "sleeping"}, time : 0..(Interval + MaxDelay)]
    /\ toucher.step # "off" => ws \in {"first", "open"}

\* An open WebSocket has its touches; a touch and a sleep have their time; and
\* since the last touch was begun at most that much time has passed, plus the
\* delay with which it was committed.
Awake ==
    /\ ws = "open" => toucher.step # "off"
    /\ ws = "first" => toucher.step = "touching"
    /\ toucher.step = "touching" => toucher.time <= MaxDelay
    /\ toucher.step = "sleeping" => toucher.time <= TouchEvery
    /\ ws = "open" /\ missed = 0 /\ toucher.step = "sleeping" => age <= MaxDelay + toucher.time
    /\ ws = "open" /\ missed = 0 /\ toucher.step = "touching" => age <= MaxDelay + TouchEvery + toucher.time

CInv == ClockTypes /\ Awake

LEMMA ClockInit == Init => CInv
<1> SUFFICES ASSUME Init PROVE CInv
  OBVIOUS
<1>1. ready \in BOOLEAN /\ http \in BOOLEAN /\ tick \in BOOLEAN
  BY Zenon DEF Init
<1>2. /\ starts \in 0..MaxStarts /\ age \in 0..(Threshold + 1) /\ missed \in 0..MaxMissed
      /\ ws = "none" /\ toucher.step = "off"
      /\ toucher \in [step : {"off", "touching", "sleeping"}, time : 0..(Interval + MaxDelay)]
  BY AccessAssumption DEF Init, NoToucher, Interval
<1>3. QED
  BY <1>1, <1>2 DEF CInv, ClockTypes, Awake

LEMMA ClockStep ==
    ASSUME CInv, [Next]_vars
    PROVE  CInv'
<1> USE AccessAssumption, IntervalFits DEF CInv, ClockTypes, Awake, Interval, links, socket
<1>1. CASE UNCHANGED <<ready, starts, age, ws, toucher, missed, http, tick>>
  BY <1>1
<1>2. ASSUME NEW r \in Requests, Links(r) PROVE CInv'
  <2>1. CASE OpenWrite(r)
    BY <2>1 DEF OpenWrite
  <2>2. CASE ~OpenWrite(r)
    BY <1>1, <1>2, <2>2 DEF Links, PostAnswers, PostBegin, PostRead, PostWrite, DeleteRead, DeleteWrite, OpenRead
  <2>3. QED
    BY <2>1, <2>2
<1>3. ASSUME NEW who \in {"owner", "visitor"}, HttpBegin(who) PROVE CInv'
  BY <1>3 DEF HttpBegin
<1>4. ASSUME NEW who \in {"owner", "visitor"}, WsCheck(who) PROVE CInv'
  BY <1>4 DEF WsCheck
<1>5. CASE HttpEnd
  <2>1. http' \in BOOLEAN
    BY <1>5, Zenon DEF HttpEnd
  <2>2. (age' = 0 \/ age' = age) /\ UNCHANGED <<ready, starts, ws, toucher, missed, tick>>
    BY <1>5 DEF HttpEnd
  <2>3. QED
    BY <2>1, <2>2
<1>6. CASE WsConnect
  BY <1>6 DEF WsConnect
<1>7. CASE Touch
  BY <1>7 DEF Touch, Touched
<1>8. CASE TouchFails
  BY <1>8 DEF TouchFails, Touched
<1>9. CASE TouchBegin
  BY <1>9 DEF TouchBegin
<1>10. CASE WsEnds
  BY <1>10 DEF WsEnds, TasksCancelled, NoToucher
<1>11. CASE TickLoad \/ TickStop
  BY <1>11 DEF TickLoad, TickStop
<1>12. CASE Start
  BY <1>12 DEF Start
<1>13. CASE Pass
  <2>1. /\ age' = (IF age <= Threshold THEN age + 1 ELSE age) /\ age' \in 0..(Threshold + 1) /\ age' <= age + 1
        /\ toucher' \in [step : {"off", "touching", "sleeping"}, time : 0..(Interval + MaxDelay)]
        /\ toucher'.step = toucher.step
        /\ toucher.step # "off" => toucher'.time = toucher.time + 1
    BY <1>13 DEF Pass
  <2>2. QED
    BY <1>13, <2>1 DEF Pass
<1>14. CASE UNCHANGED vars
  BY <1>1, <1>14 DEF vars
<1>15. QED
  BY <1>2, <1>3, <1>4, <1>5, <1>6, <1>7, <1>8, <1>9, <1>10, <1>11, <1>12, <1>13, <1>14 DEF Next

\* While a WebSocket is open and none of its touches failed, its sandbox never
\* counts as idle, if the touch interval and twice the longest commit fit into
\* the auto-stop interval (proxy_websocket, check_idle_auto_stop).
THEOREM StaysAwake == Spec => []KeepsAwake
<1>1. CInv => KeepsAwake
  BY AccessAssumption, IntervalFits DEF CInv, ClockTypes, Awake, KeepsAwake, Interval
<1>2. CInv /\ [Next]_vars => CInv'
  BY ClockStep
<1>3. QED
  BY <1>1, <1>2, ClockInit, PTL DEF Spec

\* No interleaving takes a variable out of its type, and nothing touches the
\* sandbox for a connection that has ended (proxy_websocket cancels its tasks).
THEOREM AccessTypes == Spec => []TypeOK
<1>1. LInv /\ CInv => TypeOK
  BY DEF LInv, LinkTypes, CInv, ClockTypes, TypeOK
<1>2. CInv /\ [Next]_vars => CInv'
  BY ClockStep
<1>3. QED
  BY <1>1, <1>2, LinksInit, LinksNext, ClockInit, PTL DEF Spec
==============================================================================
