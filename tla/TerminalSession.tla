--------------------------- MODULE TerminalSession ---------------------------
(***************************************************************************)
(* One interactive terminal of the sandbox image (TerminalWsSession): the  *)
(* output of its pty, the session's asyncio.Lock, the one subscriber slot, *)
(* and the WebSocket endpoint of every client that connects.               *)
(*                                                                         *)
(* Each text read from the pty is handled by a task of its own; handlers   *)
(* and endpoints queue for session._lock, which is granted first come,     *)
(* first served.  A handler puts its text on the subscriber's bounded      *)
(* queue while it holds the lock, and `await queue.put' waits for room.    *)
(***************************************************************************)
EXTENDS Integers, Sequences, FiniteSets, SequencesExt

CONSTANTS
    Clients,        \* WebSocket connections
    Creator,        \* the connection that creates the session
    None,           \* no subscriber
    Cap,            \* asyncio.Queue(maxsize): 1000 in the code
    MaxOut,         \* bound: texts the pty writes
    Blanks,         \* the first texts, which are nothing but white space
    LeavesFull      \* TRUE: a client may leave, or be slow, with its queue full

ASSUME TerminalAssumption ==
    /\ Creator \in Clients /\ None \notin Clients
    /\ Cap \in Nat \ {0} /\ MaxOut \in Nat /\ Blanks \in Nat
    /\ LeavesFull \in BOOLEAN

VARIABLES
    outs,        \* texts read from the pty so far, numbered 1..outs
    active,      \* session.active
    lock,        \* session._lock: its holder, then the tasks that wait for it
    putting,     \* TRUE: the holder waits in queue.put
    buffer,      \* output_buffer
    subscriber,  \* char_subscriber_id
    queue,       \* the queue object each client was given
    hist,        \* how much history each client was sent
    got,         \* the live texts each client was sent
    pc           \* where each client's endpoint is

vars == <<outs, active, lock, putting, buffer, subscriber, queue, hist, got, pc>>

Out(n) == <<"out", n>>
Task(step, c) == <<step, c>>

Holds(task) == lock # <<>> /\ Head(lock) = task

\* Handlers that have the lock or wait for it.
Pending == Cardinality({i \in DOMAIN lock : lock[i][1] = "out"})

-----------------------------------------------------------------------------
(* Output.                                                                 *)

\* TerminadoClient.on_pty_read: create_task(_handle_terminado_output(text)).
PtyRead ==
    /\ active /\ outs < MaxOut
    /\ LeavesFull \/ Pending < Cap
    /\ outs' = outs + 1
    /\ lock' = Append(lock, Out(outs + 1))
    /\ UNCHANGED <<active, putting, buffer, subscriber, queue, hist, got, pc>>

\* Mutant: a text goes only to the subscriber when there is one.
AppendsUnlessLive(n) == IF subscriber = None THEN Append(buffer, n) ELSE buffer

\* _handle_terminado_output appends to the history first.
Buffered(n) == Append(buffer, n)

\* Mutant: a queue without maxsize.
AlwaysRoom == TRUE

HasRoom == Len(queue[subscriber]) < Cap

\* Mutant: put_nowait, with QueueFull ignored.
DropsWhenFull == lock' = Tail(lock) /\ UNCHANGED <<putting, queue>>

\* `await queue.put': without room the handler keeps the lock and waits.
AwaitPut == putting' = TRUE /\ UNCHANGED <<lock, queue>>

Put ==
    /\ queue' = [queue EXCEPT ![subscriber] = Append(@, Head(lock)[2])]
    /\ lock' = Tail(lock) /\ putting' = FALSE

\* The handler that holds the lock.
HandleOutput ==
    /\ lock # <<>> /\ Head(lock)[1] = "out" /\ ~putting
    /\ buffer' = Buffered(Head(lock)[2])
    /\ CASE subscriber = None -> lock' = Tail(lock) /\ UNCHANGED <<putting, queue>>
         [] subscriber # None /\ HasRoom -> Put
         [] OTHER -> AwaitPut
    /\ UNCHANGED <<outs, active, subscriber, hist, got, pc>>

PutResumes ==
    /\ putting /\ HasRoom /\ Put
    /\ UNCHANGED <<outs, active, buffer, subscriber, hist, got, pc>>

\* TerminadoClient.on_pty_died.
PtyDied ==
    /\ active /\ active' = FALSE
    /\ UNCHANGED <<outs, lock, putting, buffer, subscriber, queue, hist, got, pc>>

-----------------------------------------------------------------------------
(* websocket_shell_endpoint.                                               *)

\* Connect: an inactive session is refused before anything is subscribed.
Connect(c) ==
    /\ pc[c] = "new"
    /\ pc' = [pc EXCEPT ![c] = IF active THEN "subscribing" ELSE "closed"]
    /\ lock' = IF active THEN Append(lock, Task("sub", c)) ELSE lock
    /\ UNCHANGED <<outs, active, putting, buffer, subscriber, queue, hist, got>>

\* subscribe_char refuses a second connection.
SlotFree == subscriber = None

\* subscribe_char, with the lock.  The creator is greeted at once; every other
\* client waits for the lock again, behind the tasks that wait already.
Subscribe(c) ==
    /\ Holds(Task("sub", c))
    /\ IF SlotFree
       THEN /\ subscriber' = c
            /\ pc' = [pc EXCEPT ![c] = IF c = Creator THEN "greeting" ELSE "restoring"]
            /\ lock' = IF c = Creator THEN Tail(lock) ELSE Append(Tail(lock), Task("restore", c))
       ELSE /\ pc' = [pc EXCEPT ![c] = "closed"]
            /\ lock' = Tail(lock)
            /\ UNCHANGED subscriber
    /\ UNCHANGED <<outs, active, putting, buffer, queue, hist, got>>

\* historical_output.strip().
Visible == Len(buffer) > Blanks

\* The history, if there is anything to see in it, is sent with the lock held.
Restore(c) ==
    /\ Holds(Task("restore", c))
    /\ hist' = IF Visible THEN [hist EXCEPT ![c] = Len(buffer)] ELSE hist
    /\ pc' = [pc EXCEPT ![c] = "greeting"]
    /\ lock' = Tail(lock)
    /\ UNCHANGED <<outs, active, putting, buffer, subscriber, queue, got>>

\* The client is gone: the send raises before the endpoint's try block, whose
\* finally would have unsubscribed, and the slot stays taken.
RestoreRaises(c) ==
    /\ Holds(Task("restore", c)) /\ Visible
    /\ pc' = [pc EXCEPT ![c] = "dropped"]
    /\ lock' = Tail(lock)
    /\ UNCHANGED <<outs, active, putting, buffer, subscriber, queue, hist, got>>

\* `terminal_restored', or `ready' for the creator, is sent without the lock and
\* before the try block too; then the endpoint serves.
Greet(c) ==
    /\ pc[c] = "greeting"
    /\ pc' = [pc EXCEPT ![c] = "serving"]
    /\ UNCHANGED <<outs, active, lock, putting, buffer, subscriber, queue, hist, got>>

GreetRaises(c) ==
    /\ pc[c] = "greeting"
    /\ pc' = [pc EXCEPT ![c] = "dropped"]
    /\ UNCHANGED <<outs, active, lock, putting, buffer, subscriber, queue, hist, got>>

\* send_output: one text from the queue to the WebSocket.
SendOutput(c) ==
    /\ pc[c] = "serving" /\ queue[c] # <<>>
    /\ got' = [got EXCEPT ![c] = Append(@, Head(queue[c]))]
    /\ queue' = [queue EXCEPT ![c] = Tail(@)]
    /\ UNCHANGED <<outs, active, lock, putting, buffer, subscriber, hist, pc>>

\* The client disconnects: both tasks end, and the finally block asks for the
\* lock in order to unsubscribe.
Leave(c) ==
    /\ pc[c] = "serving"
    /\ LeavesFull \/ Len(queue[c]) + Pending <= Cap
    /\ pc' = [pc EXCEPT ![c] = "leaving"]
    /\ lock' = Append(lock, Task("unsub", c))
    /\ UNCHANGED <<outs, active, putting, buffer, subscriber, queue, hist, got>>

\* Mutant: unsubscribe_char of a dead terminal does nothing.
FreedWhileActive(c) == IF subscriber = c /\ active THEN None ELSE subscriber

Freed(c) == IF subscriber = c THEN None ELSE subscriber

\* unsubscribe_char.
Unsubscribe(c) ==
    /\ Holds(Task("unsub", c))
    /\ subscriber' = Freed(c)
    /\ pc' = [pc EXCEPT ![c] = "closed"]
    /\ lock' = Tail(lock)
    /\ UNCHANGED <<outs, active, putting, buffer, queue, hist, got>>

Endpoint(c) == Subscribe(c) \/ Restore(c) \/ Greet(c) \/ SendOutput(c) \/ Unsubscribe(c)

Raises(c) == RestoreRaises(c) \/ GreetRaises(c)

-----------------------------------------------------------------------------
Init ==
    /\ outs = 0 /\ active = TRUE /\ lock = <<>> /\ putting = FALSE
    /\ buffer = <<>> /\ subscriber = None
    /\ queue = [c \in Clients |-> <<>>] /\ got = [c \in Clients |-> <<>>]
    /\ hist = [c \in Clients |-> 0] /\ pc = [c \in Clients |-> "new"]

Next ==
    \/ PtyRead \/ HandleOutput \/ PutResumes \/ PtyDied
    \/ \E c \in Clients : Connect(c) \/ Endpoint(c) \/ Raises(c) \/ Leave(c)

Spec == Init /\ [][Next]_vars

\* The event loop runs every task that can go on.  Nobody has to connect, to
\* leave, or to type.
Fairness ==
    /\ WF_vars(HandleOutput \/ PutResumes)
    /\ \A c \in Clients : WF_vars(Endpoint(c))

FairSpec == Spec /\ Fairness

-----------------------------------------------------------------------------
(* Properties.                                                             *)

Steps == {"new", "subscribing", "restoring", "greeting", "serving", "leaving", "closed", "dropped"}

\* Every variable keeps its type, and a queue never holds more than maxsize.
TypeOK ==
    /\ outs \in 0..MaxOut /\ active \in BOOLEAN /\ putting \in BOOLEAN
    /\ subscriber \in Clients \cup {None}
    /\ lock \in Seq(({"out"} \X (1..outs)) \cup ({"sub", "restore", "unsub"} \X Clients))
    /\ buffer \in Seq(1..outs) /\ hist \in [Clients -> 0..outs]
    /\ queue \in [Clients -> Seq(1..outs)] /\ got \in [Clients -> Seq(1..outs)]
    /\ \A c \in Clients : Len(queue[c]) <= Cap
    /\ pc \in [Clients -> Steps]

\* What a client was sent live, what waits for it, and what is being put.
Live(c) ==
    got[c] \o queue[c] \o (IF putting /\ subscriber = c THEN <<Head(lock)[2]>> ELSE <<>>)

\* A client that joins a running terminal misses nothing: every text that is
\* not in the history it was sent, and is not blank, reaches it live, in the
\* pty's order (subscribe_char before restore_output, _handle_terminado_output).
NoGap ==
    \A c \in Clients \ {Creator} :
        pc[c] \in {"greeting", "serving"} =>
            /\ \A n \in (hist[c] + 1)..Len(buffer) : n > Blanks => n \in Range(Live(c))
            /\ \A i, j \in DOMAIN Live(c) : i < j => Live(c)[i] < Live(c)[j]

\* The slot of a connection that has ended becomes free, so that the terminal
\* can be opened again (websocket_shell_endpoint's finally; a client that went
\* while it was being restored or greeted never gets there).
SlotFreed == \A c \in Clients : pc[c] \in {"leaving", "closed"} ~> subscriber # c

\* Every text of the pty ends up in the history: no handler waits for ever,
\* unless such a client holds the slot (_handle_terminado_output).
OutputKept == <>[](Len(buffer) = outs \/ subscriber \in {c \in Clients : pc[c] = "dropped"})
=============================================================================
