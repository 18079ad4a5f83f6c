------------------------ MODULE TerminalSessionProofs ------------------------
(***************************************************************************)
(* For every number of clients, texts and queue places: the types of       *)
(* TerminalSession, and that a client that joins a running terminal misses *)
(* no text and gets them in order.                                         *)
(***************************************************************************)
EXTENDS TerminalSession, SequenceTheorems, TLAPS

-----------------------------------------------------------------------------
(* Sequences.                                                              *)

LEMMA AppendElements ==
    ASSUME NEW S, NEW s \in Seq(S), NEW e \in S
    PROVE  /\ Append(s, e) \in Seq(S) /\ Len(Append(s, e)) = Len(s) + 1
           /\ \A i \in 1..Len(s) : Append(s, e)[i] = s[i]
           /\ Append(s, e)[Len(s) + 1] = e
  OBVIOUS

LEMMA TailElements ==
    ASSUME NEW S, NEW s \in Seq(S), s # <<>>
    PROVE  /\ Len(s) \in Nat \ {0} /\ Head(s) = s[1]
           /\ Tail(s) \in Seq(S) /\ Len(Tail(s)) = Len(s) - 1
           /\ \A i \in 1..(Len(s) - 1) : Tail(s)[i] = s[i + 1]
  OBVIOUS

-----------------------------------------------------------------------------
(* What waits for the lock.                                                *)

Entries == ({"out"} \X Nat) \cup ({"sub", "restore", "unsub"} \X Clients)

\* The handlers in l are those of the texts first..last, in this order.
Queued(l, first, last) ==
    /\ \A i \in 1..Len(l) : l[i][1] = "out" => l[i][2] \in first..last
    /\ \A i, j \in 1..Len(l) : i < j /\ l[i][1] = "out" /\ l[j][1] = "out" => l[i][2] < l[j][2]
    /\ \A n \in first..last : \E i \in 1..Len(l) : l[i][1] = "out" /\ l[i][2] = n

LEMMA QueuedTask ==
    ASSUME NEW l \in Seq(Entries), NEW first \in Nat, NEW last \in Nat, Queued(l, first, last),
           NEW e \in Entries, e[1] # "out"
    PROVE  Queued(Append(l, e), first, last)
<1> DEFINE m == Append(l, e)
<1>1. /\ Len(m) = Len(l) + 1 /\ Len(l) \in Nat
      /\ \A i \in 1..Len(l) : m[i] = l[i]
      /\ m[Len(m)] = e
  BY AppendElements
<1> HIDE DEF m
<1>2. \A i \in 1..Len(m) : m[i][1] = "out" => i \in 1..Len(l) /\ m[i] = l[i]
  <2> SUFFICES ASSUME NEW i \in 1..Len(m), m[i][1] = "out" PROVE i \in 1..Len(l) /\ m[i] = l[i]
    OBVIOUS
  <2>1. i # Len(m)
    BY <1>1
  <2>2. QED
    BY <1>1, <2>1
<1>3. \A i \in 1..Len(m) : m[i][1] = "out" => m[i][2] \in first..last
  BY <1>2 DEF Queued
<1>4. \A i, j \in 1..Len(m) : i < j /\ m[i][1] = "out" /\ m[j][1] = "out" => m[i][2] < m[j][2]
  BY <1>2 DEF Queued
<1>5. \A n \in first..last : \E i \in 1..Len(m) : m[i][1] = "out" /\ m[i][2] = n
  BY <1>1 DEF Queued
<1>6. QED
  BY <1>3, <1>4, <1>5 DEF Queued, m

LEMMA QueuedText ==
    ASSUME NEW l \in Seq(Entries), NEW first \in Nat, NEW last \in Nat, first <= last + 1, Queued(l, first, last)
    PROVE  Queued(Append(l, <<"out", last + 1>>), first, last + 1)
<1> DEFINE e == <<"out", last + 1>>
           m == Append(l, e)
<1>1. e \in Entries /\ e[1] = "out" /\ e[2] = last + 1
  BY DEF Entries
<1>2. /\ Len(m) = Len(l) + 1 /\ Len(l) \in Nat
      /\ \A i \in 1..Len(l) : m[i] = l[i]
      /\ m[Len(m)] = e
  BY <1>1, AppendElements
<1> HIDE DEF e, m
<1>3. \A i \in 1..Len(m) : m[i][1] = "out" => m[i][2] \in first..(last + 1)
  BY <1>1, <1>2 DEF Queued
<1>4. \A i, j \in 1..Len(m) : i < j /\ m[i][1] = "out" /\ m[j][1] = "out" => m[i][2] < m[j][2]
  <2> SUFFICES ASSUME NEW i \in 1..Len(m), NEW j \in 1..Len(m), i < j, m[i][1] = "out", m[j][1] = "out"
               PROVE  m[i][2] < m[j][2]
    OBVIOUS
  <2>1. i \in 1..Len(l) /\ m[i] = l[i] /\ l[i][2] \in first..last
    BY <1>2 DEF Queued
  <2>2. CASE j = Len(m)
    BY <1>1, <1>2, <2>1, <2>2
  <2>3. CASE j # Len(m)
    <3>1. j \in 1..Len(l) /\ m[j] = l[j]
      BY <1>2, <2>3
    <3>2. QED
      BY <2>1, <3>1 DEF Queued
  <2>4. QED
    BY <2>2, <2>3
<1>5. \A n \in first..(last + 1) : \E i \in 1..Len(m) : m[i][1] = "out" /\ m[i][2] = n
  <2> SUFFICES ASSUME NEW n \in first..(last + 1)
               PROVE  \E i \in 1..Len(m) : m[i][1] = "out" /\ m[i][2] = n
    OBVIOUS
  <2>1. CASE n = last + 1
    BY <1>1, <1>2, <2>1
  <2>2. CASE n # last + 1
    <3>1. n \in first..last
      BY <2>2
    <3>2. PICK i \in 1..Len(l) : l[i][1] = "out" /\ l[i][2] = n
      BY <3>1 DEF Queued
    <3>3. i \in 1..Len(m) /\ m[i] = l[i]
      BY <1>2
    <3>4. QED
      BY <3>2, <3>3
  <2>3. QED
    BY <2>1, <2>2
<1>6. QED
  BY <1>3, <1>4, <1>5 DEF Queued, e, m

LEMMA QueuedDrop ==
    ASSUME NEW l \in Seq(Entries), l # <<>>, NEW first \in Nat, NEW last \in Nat, Queued(l, first, last),
           Head(l)[1] # "out"
    PROVE  Queued(Tail(l), first, last)
<1> DEFINE m == Tail(l)
<1>1. /\ Len(m) = Len(l) - 1 /\ Len(l) \in Nat \ {0} /\ l[1][1] # "out"
      /\ \A i \in 1..Len(m) : m[i] = l[i + 1]
  BY TailElements
<1> HIDE DEF m
<1>2. \A n \in first..last : \E i \in 1..Len(m) : m[i][1] = "out" /\ m[i][2] = n
  <2> SUFFICES ASSUME NEW n \in first..last
               PROVE  \E i \in 1..Len(m) : m[i][1] = "out" /\ m[i][2] = n
    OBVIOUS
  <2>1. PICK i \in 1..Len(l) : l[i][1] = "out" /\ l[i][2] = n
    BY DEF Queued
  <2>2. i - 1 \in 1..Len(m) /\ m[i - 1] = l[i]
    BY <1>1, <2>1
  <2>3. QED
    BY <2>1, <2>2
<1>3. QED
  BY <1>1, <1>2 DEF Queued, m

LEMMA QueuedHead ==
    ASSUME NEW l \in Seq(Entries), l # <<>>, NEW first \in Nat, NEW last \in Nat, Queued(l, first, last),
           Head(l)[1] = "out"
    PROVE  /\ Head(l)[2] = first /\ first <= last
           /\ Queued(Tail(l), first + 1, last)
<1> DEFINE m == Tail(l)
<1>1. /\ Len(m) = Len(l) - 1 /\ Len(l) \in Nat \ {0} /\ l[1][1] = "out" /\ l[1] = Head(l)
      /\ \A i \in 1..Len(m) : m[i] = l[i + 1]
  BY TailElements
<1> HIDE DEF m
<1>2. l[1][2] \in first..last
  BY <1>1 DEF Queued
<1>3. PICK k \in 1..Len(l) : l[k][1] = "out" /\ l[k][2] = first
  BY <1>2 DEF Queued
<1>4. l[1][2] = first
  BY <1>1, <1>2, <1>3 DEF Queued
<1>5. \A i \in 1..Len(m) : m[i][1] = "out" => m[i][2] \in (first + 1)..last
  <2> SUFFICES ASSUME NEW i \in 1..Len(m), m[i][1] = "out" PROVE m[i][2] \in (first + 1)..last
    OBVIOUS
  <2>1. i + 1 \in 1..Len(l) /\ 1 \in 1..Len(l) /\ 1 < i + 1 /\ m[i] = l[i + 1]
    BY <1>1
  <2>2. l[i + 1][2] \in first..last /\ l[1][2] < l[i + 1][2]
    BY <1>1, <2>1 DEF Queued
  <2>3. QED
    BY <1>4, <2>1, <2>2
<1>6. \A n \in (first + 1)..last : \E i \in 1..Len(m) : m[i][1] = "out" /\ m[i][2] = n
  <2> SUFFICES ASSUME NEW n \in (first + 1)..last
               PROVE  \E i \in 1..Len(m) : m[i][1] = "out" /\ m[i][2] = n
    OBVIOUS
  <2>1. PICK i \in 1..Len(l) : l[i][1] = "out" /\ l[i][2] = n
    BY DEF Queued
  <2>2. i # 1
    BY <1>4, <2>1
  <2>3. i - 1 \in 1..Len(m) /\ m[i - 1] = l[i]
    BY <1>1, <2>1, <2>2
  <2>4. QED
    BY <2>1, <2>3
<1>7. \A i, j \in 1..Len(m) : i < j /\ m[i][1] = "out" /\ m[j][1] = "out" => m[i][2] < m[j][2]
  <2> SUFFICES ASSUME NEW i \in 1..Len(m), NEW j \in 1..Len(m), i < j, m[i][1] = "out", m[j][1] = "out"
               PROVE  m[i][2] < m[j][2]
    OBVIOUS
  <2>1. i + 1 \in 1..Len(l) /\ m[i] = l[i + 1]
    BY <1>1
  <2>2. j + 1 \in 1..Len(l) /\ m[j] = l[j + 1]
    BY <1>1
  <2>3. i + 1 < j + 1
    OBVIOUS
  <2>4. QED
    BY <2>1, <2>2, <2>3 DEF Queued
<1>8. QED
  BY <1>1, <1>2, <1>4, <1>5, <1>6, <1>7 DEF Queued, m
Doing == [sub |-> "subscribing", restore |-> "restoring", unsub |-> "leaving"]

\* Every endpoint in l is where its task says, and is there once.
Waits(l, at) ==
    /\ \A i \in 1..Len(l) : l[i][1] # "out" => at[l[i][2]] = Doing[l[i][1]]
    /\ \A i, j \in 1..Len(l) : i # j /\ l[i][1] # "out" /\ l[j][1] # "out" => l[i][2] # l[j][2]

LEMMA WaitsText ==
    ASSUME NEW l \in Seq(Entries), NEW at, Waits(l, at), NEW n \in Nat
    PROVE  Waits(Append(l, <<"out", n>>), at)
<1> DEFINE e == <<"out", n>>
           m == Append(l, e)
<1>1. e \in Entries /\ e[1] = "out"
  BY DEF Entries
<1>2. /\ Len(m) = Len(l) + 1 /\ Len(l) \in Nat
      /\ \A i \in 1..Len(l) : m[i] = l[i]
      /\ m[Len(m)] = e
  BY <1>1, AppendElements
<1> HIDE DEF e, m
<1>3. \A i \in 1..Len(m) : i = Len(m) \/ i \in 1..Len(l)
  BY <1>2
<1>4. \A i \in 1..Len(m) : m[i][1] # "out" => i \in 1..Len(l) /\ m[i] = l[i]
  BY <1>1, <1>2, <1>3
<1>5. QED
  BY <1>4 DEF Waits, e, m

\* The holder goes, and its endpoint may be anywhere then.
LEMMA WaitsTail ==
    ASSUME NEW l \in Seq(Entries), l # <<>>, NEW at \in [Clients -> Steps], Waits(l, at),
           NEW now \in [Clients -> Steps],
           \A c \in Clients : now[c] = at[c] \/ (Head(l)[1] # "out" /\ Head(l)[2] = c)
    PROVE  /\ Waits(Tail(l), now)
           /\ Head(l)[1] # "out" => \A i \in 1..Len(Tail(l)) : Tail(l)[i][1] # "out" => Tail(l)[i][2] # Head(l)[2]
<1> DEFINE m == Tail(l)
<1>1. /\ Len(m) = Len(l) - 1 /\ Len(l) \in Nat \ {0} /\ l[1] = Head(l)
      /\ \A i \in 1..Len(m) : m[i] = l[i + 1]
  BY TailElements
<1>2. \A i \in 1..Len(l) : l[i][1] # "out" => l[i][2] \in Clients
  <2> SUFFICES ASSUME NEW i \in 1..Len(l), l[i][1] # "out" PROVE l[i][2] \in Clients
    OBVIOUS
  <2>1. l[i] \in Entries
    OBVIOUS
  <2>2. QED
    BY <2>1 DEF Entries
<1> HIDE DEF m
<1>3. ASSUME NEW i \in 1..Len(m), m[i][1] # "out"
      PROVE  /\ now[m[i][2]] = Doing[m[i][1]]
             /\ Head(l)[1] # "out" => m[i][2] # Head(l)[2]
  <2>1. i + 1 \in 1..Len(l) /\ 1 \in 1..Len(l) /\ 1 # i + 1 /\ m[i] = l[i + 1]
    BY <1>1
  <2>2. Head(l)[1] # "out" => m[i][2] # Head(l)[2]
    BY <1>1, <1>3, <2>1 DEF Waits
  <2>3. now[m[i][2]] = at[m[i][2]]
    BY <1>2, <1>3, <2>1, <2>2
  <2>4. QED
    BY <1>3, <2>1, <2>2, <2>3 DEF Waits
<1>4. ASSUME NEW i \in 1..Len(m), NEW j \in 1..Len(m), i # j, m[i][1] # "out", m[j][1] # "out"
      PROVE  m[i][2] # m[j][2]
  <2>1. i + 1 \in 1..Len(l) /\ j + 1 \in 1..Len(l) /\ i + 1 # j + 1 /\ m[i] = l[i + 1] /\ m[j] = l[j + 1]
    BY <1>1, <1>4
  <2>2. QED
    BY <1>4, <2>1 DEF Waits
<1>5. QED
  BY <1>3, <1>4 DEF Waits, m

\* A client that waits for nothing asks for the lock.
LEMMA WaitsTask ==
    ASSUME NEW l \in Seq(Entries), NEW at \in [Clients -> Steps], Waits(l, at),
           NEW t \in {"sub", "restore", "unsub"}, NEW c \in Clients,
           \A i \in 1..Len(l) : l[i][1] # "out" => l[i][2] # c,
           NEW now \in [Clients -> Steps], now = [at EXCEPT ![c] = Doing[t]]
    PROVE  Append(l, <<t, c>>) \in Seq(Entries) /\ Waits(Append(l, <<t, c>>), now)
<1> DEFINE e == <<t, c>>
           m == Append(l, e)
<1>1. e \in Entries /\ e[1] = t /\ e[2] = c /\ t # "out"
  BY DEF Entries
<1>2. /\ Len(m) = Len(l) + 1 /\ Len(l) \in Nat /\ m \in Seq(Entries)
      /\ \A i \in 1..Len(l) : m[i] = l[i]
      /\ m[Len(m)] = e
  BY <1>1, AppendElements
<1>3. \A i \in 1..Len(l) : l[i][1] # "out" => l[i][2] \in Clients
  <2> SUFFICES ASSUME NEW i \in 1..Len(l), l[i][1] # "out" PROVE l[i][2] \in Clients
    OBVIOUS
  <2>1. l[i] \in Entries
    OBVIOUS
  <2>2. QED
    BY <2>1 DEF Entries
<1> HIDE DEF e, m
<1>4. ASSUME NEW i \in 1..Len(m), m[i][1] # "out" PROVE now[m[i][2]] = Doing[m[i][1]]
  <2>1. CASE i = Len(m)
    BY <1>1, <1>2, <2>1
  <2>2. CASE i # Len(m)
    <3>1. i \in 1..Len(l) /\ m[i] = l[i]
      BY <1>2, <2>2
    <3>2. QED
      BY <1>3, <1>4, <3>1 DEF Waits
  <2>3. QED
    BY <2>1, <2>2
<1>5. ASSUME NEW i \in 1..Len(m), NEW j \in 1..Len(m), i # j, m[i][1] # "out", m[j][1] # "out"
      PROVE  m[i][2] # m[j][2]
  <2>1. \A k \in 1..Len(m) : k # Len(m) => k \in 1..Len(l) /\ m[k] = l[k]
    BY <1>2
  <2>2. CASE i = Len(m)
    BY <1>1, <1>2, <1>5, <2>1, <2>2
  <2>3. CASE j = Len(m)
    BY <1>1, <1>2, <1>5, <2>1, <2>3
  <2>4. CASE i # Len(m) /\ j # Len(m)
    BY <1>5, <2>1, <2>4 DEF Waits
  <2>5. QED
    BY <2>2, <2>3, <2>4
<1>6. QED
  BY <1>2, <1>4, <1>5 DEF Waits, e, m

-----------------------------------------------------------------------------
(* What a client was sent, and what waits in its queue.                    *)

\* Only texts up to last, in order, first those that were sent.
Ordered(g, q, last) ==
    /\ \A i \in 1..Len(g) : g[i] \in 1..last
    /\ \A i \in 1..Len(q) : q[i] \in 1..last
    /\ \A i, j \in 1..Len(g) : i < j => g[i] < g[j]
    /\ \A i, j \in 1..Len(q) : i < j => q[i] < q[j]
    /\ \A i \in 1..Len(g), j \in 1..Len(q) : g[i] < q[j]

Has(g, q, n) == (\E i \in 1..Len(g) : g[i] = n) \/ (\E i \in 1..Len(q) : q[i] = n)

LEMMA OrderedMore ==
    ASSUME NEW g \in Seq(Nat), NEW q \in Seq(Nat), NEW last \in Nat, Ordered(g, q, last)
    PROVE  Ordered(g, q, last + 1)
  BY DEF Ordered

LEMMA OrderedPut ==
    ASSUME NEW g \in Seq(Nat), NEW q \in Seq(Nat), NEW last \in Nat, Ordered(g, q, last)
    PROVE  /\ Ordered(g, Append(q, last + 1), last + 1)
           /\ \A n : Has(g, q, n) \/ n = last + 1 => Has(g, Append(q, last + 1), n)
<1> DEFINE p == Append(q, last + 1)
<1>1. /\ Len(p) = Len(q) + 1 /\ Len(q) \in Nat
      /\ \A i \in 1..Len(q) : p[i] = q[i]
      /\ p[Len(p)] = last + 1
  BY AppendElements
<1> HIDE DEF p
<1>2. \A i \in 1..Len(p) : i = Len(p) \/ (i \in 1..Len(q) /\ p[i] = q[i])
  BY <1>1
<1>3. \A i \in 1..Len(p) : p[i] \in 1..(last + 1)
  <2>1. last + 1 \in 1..(last + 1) /\ 1..last \subseteq 1..(last + 1)
    OBVIOUS
  <2>2. \A i \in 1..Len(q) : q[i] \in 1..last
    BY DEF Ordered
  <2>3. QED
    BY <1>1, <1>2, <2>1, <2>2
<1>4. \A i, j \in 1..Len(p) : i < j => p[i] < p[j]
  <2> SUFFICES ASSUME NEW i \in 1..Len(p), NEW j \in 1..Len(p), i < j PROVE p[i] < p[j]
    OBVIOUS
  <2>1. i \in 1..Len(q) /\ p[i] = q[i] /\ q[i] \in 1..last
    BY <1>1, <1>2 DEF Ordered
  <2>2. CASE j = Len(p)
    BY <1>1, <2>1, <2>2
  <2>3. CASE j # Len(p)
    BY <1>2, <2>1, <2>3 DEF Ordered
  <2>4. QED
    BY <2>2, <2>3
<1>5. \A i \in 1..Len(g), j \in 1..Len(p) : g[i] < p[j]
  <2> SUFFICES ASSUME NEW i \in 1..Len(g), NEW j \in 1..Len(p) PROVE g[i] < p[j]
    OBVIOUS
  <2>1. g[i] \in 1..last
    BY DEF Ordered
  <2>2. CASE j = Len(p)
    BY <1>1, <2>1, <2>2
  <2>3. CASE j # Len(p)
    BY <1>2, <2>3 DEF Ordered
  <2>4. QED
    BY <2>2, <2>3
<1>6. \A i \in 1..Len(g) : g[i] \in 1..(last + 1)
  BY DEF Ordered
<1>7. Ordered(g, p, last + 1)
  BY <1>3, <1>4, <1>5, <1>6 DEF Ordered
<1>8. \A n : Has(g, q, n) \/ n = last + 1 => Has(g, p, n)
  <2>1. Len(p) \in 1..Len(p) /\ 1..Len(q) \subseteq 1..Len(p)
    BY <1>1
  <2>2. QED
    BY <1>1, <2>1 DEF Has
<1>9. QED
  BY <1>7, <1>8 DEF p

LEMMA OrderedSend ==
    ASSUME NEW g \in Seq(Nat), NEW q \in Seq(Nat), q # <<>>, NEW last \in Nat, Ordered(g, q, last)
    PROVE  /\ Ordered(Append(g, Head(q)), Tail(q), last)
           /\ \A n : Has(g, q, n) => Has(Append(g, Head(q)), Tail(q), n)
<1> DEFINE h == Append(g, Head(q))
           t == Tail(q)
<1>1. /\ Len(t) = Len(q) - 1 /\ Len(q) \in Nat \ {0}
      /\ \A i \in 1..Len(t) : t[i] = q[i + 1]
      /\ Head(q) = q[1] /\ q[1] \in Nat
  BY TailElements
<1>2. /\ Len(h) = Len(g) + 1 /\ Len(g) \in Nat
      /\ \A i \in 1..Len(g) : h[i] = g[i]
      /\ h[Len(h)] = q[1]
  BY <1>1, AppendElements
<1> HIDE DEF h, t
<1>3. \A i \in 1..Len(h) : (i = Len(h) /\ h[i] = q[1]) \/ (i \in 1..Len(g) /\ h[i] = g[i])
  BY <1>2
<1>4. \A i \in 1..Len(t) : i + 1 \in 1..Len(q) /\ t[i] = q[i + 1] /\ q[1] < q[i + 1]
  <2> SUFFICES ASSUME NEW i \in 1..Len(t)
               PROVE  i + 1 \in 1..Len(q) /\ t[i] = q[i + 1] /\ q[1] < q[i + 1]
    OBVIOUS
  <2>1. i + 1 \in 1..Len(q) /\ 1 \in 1..Len(q) /\ 1 < i + 1
    BY <1>1
  <2>2. QED
    BY <1>1, <2>1 DEF Ordered
<1>5. q[1] \in 1..last /\ 1 \in 1..Len(q)
  BY <1>1 DEF Ordered
<1>6. \A i \in 1..Len(h) : h[i] \in 1..last
  BY <1>3, <1>5 DEF Ordered
<1>7. \A i \in 1..Len(t) : t[i] \in 1..last
  BY <1>4 DEF Ordered
<1>8. \A i, j \in 1..Len(h) : i < j => h[i] < h[j]
  <2> SUFFICES ASSUME NEW i \in 1..Len(h), NEW j \in 1..Len(h), i < j PROVE h[i] < h[j]
    OBVIOUS
  <2>1. i \in 1..Len(g) /\ h[i] = g[i]
    BY <1>2
  <2>2. CASE j = Len(h)
    BY <1>2, <1>5, <2>1, <2>2 DEF Ordered
  <2>3. CASE j # Len(h)
    BY <1>3, <2>1, <2>3 DEF Ordered
  <2>4. QED
    BY <2>2, <2>3
<1>9. \A i, j \in 1..Len(t) : i < j => t[i] < t[j]
  <2> SUFFICES ASSUME NEW i \in 1..Len(t), NEW j \in 1..Len(t), i < j PROVE t[i] < t[j]
    OBVIOUS
  <2>1. i + 1 \in 1..Len(q) /\ j + 1 \in 1..Len(q) /\ i + 1 < j + 1 /\ t[i] = q[i + 1] /\ t[j] = q[j + 1]
    BY <1>1
  <2>2. QED
    BY <2>1 DEF Ordered
<1>10. \A i \in 1..Len(h), j \in 1..Len(t) : h[i] < t[j]
  <2> SUFFICES ASSUME NEW i \in 1..Len(h), NEW j \in 1..Len(t) PROVE h[i] < t[j]
    OBVIOUS
  <2>1. CASE i = Len(h)
    BY <1>2, <1>4, <2>1
  <2>2. CASE i # Len(h)
    BY <1>3, <1>4, <2>2 DEF Ordered
  <2>3. QED
    BY <2>1, <2>2
<1>11. ASSUME NEW n, Has(g, q, n) PROVE Has(h, t, n)
  <2>1. CASE \E i \in 1..Len(g) : g[i] = n
    <3>1. 1..Len(g) \subseteq 1..Len(h)
      BY <1>2
    <3>2. QED
      BY <1>2, <2>1, <3>1 DEF Has
  <2>2. CASE \E i \in 1..Len(q) : q[i] = n
    <3>1. PICK i \in 1..Len(q) : q[i] = n
      BY <2>2
    <3>2. CASE i = 1
      <4>1. Len(h) \in 1..Len(h) /\ h[Len(h)] = n
        BY <1>2, <3>1, <3>2
      <4>2. QED
        BY <4>1 DEF Has
    <3>3. CASE i # 1
      <4>1. i - 1 \in 1..Len(t) /\ t[i - 1] = q[i]
        BY <1>1, <3>3
      <4>2. QED
        BY <3>1, <4>1 DEF Has
    <3>4. QED
      BY <3>2, <3>3
  <2>3. QED
    BY <1>11, <2>1, <2>2 DEF Has
<1>12. QED
  BY <1>6, <1>7, <1>8, <1>9, <1>10, <1>11 DEF Ordered, h, t

LEMMA JoinedPut ==
    ASSUME NEW g \in Seq(Nat), NEW q \in Seq(Nat), NEW n \in Nat
    PROVE  (g \o q) \o <<n>> = g \o Append(q, n)
<1>1. <<n>> \in Seq(Nat) /\ Append(q, n) = q \o <<n>>
  BY AppendIsConcat
<1>2. QED
  BY <1>1, ConcatAssociative

\* The texts that were sent, followed by the queue.
LEMMA Joined ==
    ASSUME NEW g \in Seq(Nat), NEW q \in Seq(Nat), NEW last, Ordered(g, q, last)
    PROVE  /\ \A n : Has(g, q, n) => n \in Range(g \o q)
           /\ \A i, j \in DOMAIN (g \o q) : i < j => (g \o q)[i] < (g \o q)[j]
<1> DEFINE s == g \o q
<1>1. /\ s \in Seq(Nat) /\ DOMAIN s = 1..Len(s) /\ Len(g) \in Nat /\ Len(q) \in Nat
      /\ Len(s) = Len(g) + Len(q)
      /\ \A i \in 1..Len(s) : s[i] = IF i <= Len(g) THEN g[i] ELSE q[i - Len(g)]
  BY ConcatProperties
<1> HIDE DEF s
<1>2. ASSUME NEW n, Has(g, q, n) PROVE n \in Range(s)
  <2>1. CASE \E i \in 1..Len(g) : g[i] = n
    <3>1. PICK i \in 1..Len(g) : g[i] = n
      BY <2>1
    <3>2. i \in DOMAIN s /\ s[i] = n
      BY <1>1, <3>1
    <3>3. QED
      BY <3>2 DEF Range
  <2>2. CASE \E i \in 1..Len(q) : q[i] = n
    <3>1. PICK i \in 1..Len(q) : q[i] = n
      BY <2>2
    <3>2. /\ Len(g) + i \in 1..Len(s) /\ ~(Len(g) + i <= Len(g)) /\ (Len(g) + i) - Len(g) = i
      BY <1>1, <3>1
    <3>3. Len(g) + i \in DOMAIN s /\ s[Len(g) + i] = n
      BY <1>1, <3>1, <3>2
    <3>4. QED
      BY <3>3 DEF Range
  <2>3. QED
    BY <1>2, <2>1, <2>2 DEF Has
<1>3. ASSUME NEW i \in DOMAIN s, NEW j \in DOMAIN s, i < j PROVE s[i] < s[j]
  <2>1. i \in 1..Len(s) /\ j \in 1..Len(s)
    BY <1>1
  <2>2. CASE j <= Len(g)
    <3>1. i \in 1..Len(g) /\ j \in 1..Len(g)
      BY <1>1, <1>3, <2>1, <2>2
    <3>2. s[i] = g[i] /\ s[j] = g[j]
      <4>1. i <= Len(g) /\ j <= Len(g)
        BY <3>1
      <4>2. QED
        BY <1>1, <2>1, <4>1
    <3>3. QED
      BY <1>3, <3>1, <3>2 DEF Ordered
  <2>3. CASE i <= Len(g) /\ ~(j <= Len(g))
    <3>1. i \in 1..Len(g) /\ s[i] = g[i]
      <4>1. i <= Len(g)
        BY <2>3
      <4>2. i \in 1..Len(g)
        BY <1>1, <2>1, <4>1
      <4>3. QED
        BY <1>1, <2>1, <4>1, <4>2
    <3>2. ~(j <= Len(g))
      BY <2>3
    <3>3. j - Len(g) \in 1..Len(q) /\ s[j] = q[j - Len(g)]
      BY <1>1, <1>3, <2>1, <3>2
    <3>4. QED
      BY <3>1, <3>3 DEF Ordered
  <2>4. CASE ~(i <= Len(g))
    <3>1. ~(j <= Len(g))
      BY <1>1, <1>3, <2>1, <2>4
    <3>2. i - Len(g) \in 1..Len(q) /\ s[i] = q[i - Len(g)]
      BY <1>1, <2>1, <2>4
    <3>3. j - Len(g) \in 1..Len(q) /\ s[j] = q[j - Len(g)]
      BY <1>1, <2>1, <3>1
    <3>4. i - Len(g) < j - Len(g)
      BY <1>1, <1>3, <2>1
    <3>5. QED
      BY <3>2, <3>3, <3>4 DEF Ordered
  <2>5. QED
    BY <2>2, <2>3, <2>4
<1>4. QED
  BY <1>2, <1>3 DEF s

-----------------------------------------------------------------------------
(* The inductive invariant.                                                *)

Types ==
    /\ outs \in 0..MaxOut /\ active \in BOOLEAN /\ putting \in BOOLEAN
    /\ subscriber \in Clients \cup {None} /\ lock \in Seq(Entries)
    /\ buffer \in Seq(Nat) /\ hist \in [Clients -> Nat]
    /\ queue \in [Clients -> Seq(Nat)] /\ got \in [Clients -> Seq(Nat)]
    /\ pc \in [Clients -> Steps]

\* The texts that have gone through their handler: all of the history but the
\* one that is being put.
Handled == IF putting THEN Len(buffer) - 1 ELSE Len(buffer)

\* The history is what the pty wrote, and the handlers wait with the rest.
HistoryInv ==
    /\ Len(buffer) <= outs
    /\ \A i \in 1..Len(buffer) : buffer[i] = i
    /\ putting => lock # <<>> /\ Head(lock)[1] = "out" /\ subscriber # None /\ Len(buffer) > 0
    /\ Queued(lock, Handled + 1, outs)

\* The endpoints queue once each, and the slot is theirs from subscribe_char to
\* unsubscribe_char.
SlotInv ==
    /\ Waits(lock, pc)
    /\ \A c \in Clients : pc[c] \in {"restoring", "greeting", "serving", "leaving"} => subscriber = c

\* A client in one of these misses nothing.
Joins == {"greeting", "serving"}

\* Queues are bounded and in order, and who joined has all since its history.
DeliveryInv ==
    \A c \in Clients :
       /\ Len(queue[c]) <= Cap /\ hist[c] <= Len(buffer)
       /\ Ordered(got[c], queue[c], Handled)
       /\ c # Creator /\ pc[c] \in Joins => \A n \in (hist[c] + 1)..Handled : n > Blanks => Has(got[c], queue[c], n)

TermInv == Types /\ HistoryInv /\ SlotInv /\ DeliveryInv

LEMMA HandledNat ==
    ASSUME Types, HistoryInv
    PROVE  /\ Len(buffer) \in Nat /\ Handled \in Nat /\ outs \in Nat /\ Handled + 1 <= outs + 1
           /\ lock # <<>> /\ Head(lock)[1] = "out" =>
                 /\ Head(lock)[2] = Handled + 1 /\ Handled + 1 <= outs
                 /\ Queued(Tail(lock), Handled + 2, outs)
           /\ lock # <<>> /\ Head(lock)[1] # "out" => ~putting /\ Handled = Len(buffer)
<1>1. Len(buffer) \in Nat /\ outs \in Nat
  BY TerminalAssumption DEF Types
<1>2. Handled \in Nat /\ Handled + 1 <= outs + 1
  BY <1>1 DEF HistoryInv, Handled
<1>3. lock # <<>> /\ Head(lock)[1] = "out" =>
         /\ Head(lock)[2] = Handled + 1 /\ Handled + 1 <= outs
         /\ Queued(Tail(lock), (Handled + 1) + 1, outs)
  BY <1>1, <1>2, QueuedHead, Handled + 1 \in Nat DEF Types, HistoryInv
<1>4. (Handled + 1) + 1 = Handled + 2
  BY <1>2
<1>5. lock # <<>> /\ Head(lock)[1] # "out" => ~putting /\ Handled = Len(buffer)
  BY DEF HistoryInv, Handled
<1>6. QED
  BY <1>1, <1>2, <1>3, <1>4, <1>5

\* A step that delivers nothing, and lets nobody but the creator join.
LEMMA DeliverySame ==
    ASSUME DeliveryInv, UNCHANGED <<buffer, putting, queue, got, hist>>,
           \A c \in Clients : pc'[c] \in Joins /\ c # Creator => pc[c] \in Joins
    PROVE  DeliveryInv'
  BY DEF DeliveryInv, Handled

\* Putting the next text on the subscriber's queue.
LEMMA PutDelivers ==
    ASSUME Types, HistoryInv, SlotInv, DeliveryInv,
           lock # <<>>, Head(lock)[1] = "out", subscriber \in Clients, HasRoom, Put,
           UNCHANGED <<outs, active, subscriber, hist, got, pc>>,
           buffer' \in Seq(Nat), Len(buffer') = Handled + 1, \A i \in 1..Len(buffer') : buffer'[i] = i
    PROVE  TermInv'
<1>1. /\ Head(lock)[2] = Handled + 1 /\ Handled + 1 <= outs /\ Queued(Tail(lock), Handled + 2, outs)
      /\ Handled \in Nat /\ Len(buffer) \in Nat
  BY HandledNat
<1>2. /\ lock' = Tail(lock) /\ lock' \in Seq(Entries) /\ ~putting' /\ putting' \in BOOLEAN
  BY TailElements DEF Put, Types
<1>3. Handled' = Handled + 1
  BY <1>2 DEF Handled
<1>4. Waits(lock', pc')
  BY <1>2, WaitsTail DEF Types, SlotInv
<1>5. /\ queue' = [queue EXCEPT ![subscriber] = Append(queue[subscriber], Handled + 1)]
      /\ queue[subscriber] \in Seq(Nat) /\ Len(queue[subscriber]) < Cap
  BY <1>1 DEF Put, Types, HasRoom
<1>6. /\ Append(queue[subscriber], Handled + 1) \in Seq(Nat)
      /\ Len(Append(queue[subscriber], Handled + 1)) = Len(queue[subscriber]) + 1
  BY <1>1, <1>5, AppendElements
<1>7. Types'
  BY <1>2, <1>5, <1>6 DEF Types
<1>8. HistoryInv'
  <2>1. (Handled + 1) + 1 = Handled + 2
    BY <1>1
  <2>2. QED
    BY <1>1, <1>2, <1>3, <2>1 DEF HistoryInv
<1>9. DeliveryInv'
  <2> SUFFICES ASSUME NEW c \in Clients
               PROVE  /\ Len(queue'[c]) <= Cap /\ hist[c] <= Len(buffer')
                      /\ Ordered(got[c], queue'[c], Handled + 1)
                      /\ c # Creator /\ pc[c] \in Joins =>
                            \A n \in (hist[c] + 1)..(Handled + 1) : n > Blanks => Has(got[c], queue'[c], n)
    BY <1>3 DEF DeliveryInv
  <2>1. /\ Len(queue[c]) <= Cap /\ hist[c] <= Len(buffer) /\ hist[c] \in Nat
        /\ Ordered(got[c], queue[c], Handled)
        /\ c # Creator /\ pc[c] \in Joins => \A n \in (hist[c] + 1)..Handled : n > Blanks => Has(got[c], queue[c], n)
        /\ got[c] \in Seq(Nat) /\ queue[c] \in Seq(Nat)
    BY DEF DeliveryInv, Types
  <2>2. hist[c] <= Len(buffer')
    BY <1>1, <2>1 DEF Handled
  <2>3. CASE c = subscriber
    <3>1. queue'[c] = Append(queue[c], Handled + 1)
      BY <1>5, <2>3 DEF Types
    <3>2. /\ Ordered(got[c], queue'[c], Handled + 1)
          /\ \A n : Has(got[c], queue[c], n) \/ n = Handled + 1 => Has(got[c], queue'[c], n)
      BY <1>1, <2>1, <3>1, OrderedPut
    <3>3. \A n \in (hist[c] + 1)..(Handled + 1) : n = Handled + 1 \/ n \in (hist[c] + 1)..Handled
      BY <1>1, <2>1
    <3>4. Len(queue'[c]) <= Cap
      BY <1>5, <1>6, <2>3, <3>1, TerminalAssumption
    <3>5. QED
      BY <2>1, <2>2, <3>2, <3>3, <3>4
  <2>4. CASE c # subscriber
    <3>1. queue'[c] = queue[c] /\ pc[c] \notin Joins
      BY <1>5, <2>4 DEF Types, SlotInv, Joins
    <3>2. QED
      BY <1>1, <2>1, <2>2, <3>1, OrderedMore
  <2>5. QED
    BY <2>3, <2>4
<1>10. QED
  BY <1>4, <1>7, <1>8, <1>9 DEF TermInv, SlotInv

LEMMA PtySteps ==
    ASSUME TermInv, PtyRead \/ HandleOutput \/ PutResumes \/ PtyDied
    PROVE  TermInv'
<1> USE DEF TermInv
<1>1. /\ Len(buffer) \in Nat /\ Handled \in Nat /\ outs \in Nat /\ Handled + 1 <= outs + 1
      /\ lock # <<>> /\ Head(lock)[1] = "out" =>
            /\ Head(lock)[2] = Handled + 1 /\ Handled + 1 <= outs
            /\ Queued(Tail(lock), Handled + 2, outs)
  BY HandledNat
<1>2. CASE PtyRead
  <2>1. /\ outs' = outs + 1 /\ outs' \in 0..MaxOut /\ lock' = Append(lock, <<"out", outs + 1>>)
        /\ UNCHANGED <<active, putting, buffer, subscriber, queue, hist, got, pc>>
    BY <1>2, TerminalAssumption DEF PtyRead, Out, Types
  <2>2. <<"out", outs + 1>> \in Entries
    BY <1>1 DEF Entries
  <2>3. lock' \in Seq(Entries) /\ (lock # <<>> => lock' # <<>> /\ Head(lock') = Head(lock))
    <3>1. lock \in Seq(Entries)
      BY DEF Types
    <3>2. QED
      BY <2>1, <2>2, <3>1
  <2>4. Queued(lock', Handled + 1, outs')
    BY <1>1, <2>1, QueuedText, Handled + 1 \in Nat DEF HistoryInv, Types
  <2>5. Waits(lock', pc')
    BY <1>1, <2>1, WaitsText, outs + 1 \in Nat DEF Types, SlotInv
  <2>6. Handled' = Handled
    BY <2>1 DEF Handled
  <2>7. Types'
    BY <2>1, <2>3 DEF Types
  <2>8. HistoryInv'
    BY <1>1, <2>1, <2>3, <2>4, <2>6 DEF HistoryInv
  <2>9. DeliveryInv'
    BY <2>1, DeliverySame DEF Joins
  <2>10. QED
    BY <2>1, <2>5, <2>7, <2>8, <2>9 DEF SlotInv
<1>3. CASE HandleOutput
  <2>1. /\ lock # <<>> /\ Head(lock)[1] = "out" /\ ~putting /\ Head(lock)[2] = Len(buffer) + 1
        /\ Handled = Len(buffer) /\ buffer' = Append(buffer, Len(buffer) + 1)
        /\ UNCHANGED <<outs, active, subscriber, hist, got, pc>>
    BY <1>1, <1>3 DEF HandleOutput, Buffered, Handled
  <2>2. /\ buffer' \in Seq(Nat) /\ Len(buffer') = Len(buffer) + 1
        /\ \A i \in 1..Len(buffer') : buffer'[i] = i
    <3>1. buffer \in Seq(Nat) /\ \A i \in 1..Len(buffer) : buffer[i] = i
      BY DEF Types, HistoryInv
    <3>2. /\ buffer' \in Seq(Nat) /\ Len(buffer') = Len(buffer) + 1
          /\ \A i \in 1..Len(buffer) : buffer'[i] = buffer[i]
          /\ buffer'[Len(buffer')] = Len(buffer) + 1
      BY <1>1, <2>1, <3>1, AppendElements
    <3>3. \A i \in 1..Len(buffer') : i = Len(buffer') \/ i \in 1..Len(buffer)
      BY <1>1, <3>2
    <3>4. QED
      BY <3>1, <3>2, <3>3
  <2>3. CASE subscriber = None
    <3>1. lock' = Tail(lock) /\ UNCHANGED <<putting, queue>>
      BY <1>3, <2>3 DEF HandleOutput
    <3>2. Handled' = Handled + 1 /\ (Handled + 1) + 1 = Handled + 2
      BY <1>1, <2>1, <2>2, <3>1 DEF Handled
    <3>3. lock' \in Seq(Entries) /\ Waits(lock', pc')
      BY <2>1, <3>1, WaitsTail, TailElements DEF Types, SlotInv
    <3>4. Types'
      BY <2>1, <2>2, <3>1, <3>3 DEF Types
    <3>5. HistoryInv'
      BY <1>1, <2>1, <2>2, <3>1, <3>2 DEF HistoryInv
    <3>6. DeliveryInv'
      <4> SUFFICES ASSUME NEW c \in Clients
                   PROVE  /\ Len(queue[c]) <= Cap /\ hist[c] <= Len(buffer')
                          /\ Ordered(got[c], queue[c], Handled + 1) /\ pc[c] \notin Joins
        BY <2>1, <3>1, <3>2 DEF DeliveryInv
      <4>1. pc[c] \notin Joins
        BY <2>3, TerminalAssumption DEF SlotInv, Joins
      <4>2. Len(queue[c]) <= Cap /\ hist[c] <= Len(buffer) /\ hist[c] \in Nat
        BY DEF DeliveryInv, Types
      <4>3. Ordered(got[c], queue[c], Handled + 1)
        BY <1>1, OrderedMore DEF DeliveryInv, Types
      <4>4. QED
        BY <1>1, <2>2, <4>1, <4>2, <4>3
    <3>7. QED
      BY <2>1, <3>3, <3>4, <3>5, <3>6 DEF SlotInv
  <2>4. CASE subscriber # None /\ HasRoom
    <3>1. Put /\ subscriber \in Clients
      BY <1>3, <2>4 DEF HandleOutput, Types
    <3>2. QED
      BY <2>1, <2>2, <2>4, <3>1, PutDelivers
  <2>5. CASE subscriber # None /\ ~HasRoom
    <3>1. putting' = TRUE /\ UNCHANGED <<lock, queue>>
      BY <1>3, <2>5 DEF HandleOutput, AwaitPut
    <3>2. Handled' = Handled
      BY <1>1, <2>1, <2>2, <3>1 DEF Handled
    <3>3. Types'
      <4>1. putting' \in BOOLEAN
        BY <3>1
      <4>2. QED
        BY <2>1, <2>2, <3>1, <4>1 DEF Types
    <3>4. HistoryInv'
      BY <1>1, <2>1, <2>2, <2>5, <3>1, <3>2 DEF HistoryInv
    <3>5. DeliveryInv'
      <4>1. \A c \in Clients : hist[c] \in Nat
        BY DEF Types
      <4>2. QED
        BY <1>1, <2>1, <2>2, <3>1, <3>2, <4>1 DEF DeliveryInv
    <3>6. QED
      BY <2>1, <3>1, <3>3, <3>4, <3>5 DEF SlotInv
  <2>6. QED
    BY <2>3, <2>4, <2>5
<1>4. CASE PutResumes
  <2>1. /\ putting /\ HasRoom /\ Put /\ lock # <<>> /\ Head(lock)[1] = "out" /\ subscriber \in Clients
        /\ UNCHANGED <<outs, active, buffer, subscriber, hist, got, pc>>
        /\ Len(buffer) = Handled + 1
    BY <1>1, <1>4 DEF PutResumes, HistoryInv, Types, Handled
  <2>2. buffer' \in Seq(Nat) /\ Len(buffer') = Handled + 1 /\ \A i \in 1..Len(buffer') : buffer'[i] = i
    BY <2>1 DEF Types, HistoryInv
  <2>3. QED
    BY <2>1, <2>2, PutDelivers
<1>5. CASE PtyDied
  <2>1. active' \in BOOLEAN
    BY <1>5, Zenon DEF PtyDied
  <2>2. UNCHANGED <<outs, lock, putting, buffer, subscriber, queue, hist, got, pc>>
    BY <1>5 DEF PtyDied
  <2>3. DeliveryInv'
    BY <2>2, DeliverySame DEF Joins
  <2>4. QED
    BY <2>1, <2>2, <2>3 DEF Types, HistoryInv, SlotInv, Handled
<1>6. QED
  BY <1>2, <1>3, <1>4, <1>5

\* The task of the endpoint that holds the lock.
LEMMA Holder ==
    ASSUME TermInv, NEW c \in Clients, NEW t \in {"sub", "restore", "unsub"}, Holds(Task(t, c))
    PROVE  /\ lock # <<>> /\ Head(lock)[1] = t /\ t # "out" /\ Head(lock)[2] = c
           /\ ~putting /\ Handled = Len(buffer) /\ pc[c] = Doing[t]
           /\ Tail(lock) \in Seq(Entries) /\ Queued(Tail(lock), Handled + 1, outs)
           /\ \A i \in 1..Len(Tail(lock)) : Tail(lock)[i][1] # "out" => Tail(lock)[i][2] # c
           /\ \A now \in [Clients -> Steps] :
                 (\A d \in Clients : d # c => now[d] = pc[d]) => Waits(Tail(lock), now)
<1> USE DEF TermInv
<1>1. lock # <<>> /\ Head(lock) = <<t, c>> /\ Head(lock)[1] = t /\ t # "out" /\ Head(lock)[2] = c
  BY DEF Holds, Task
<1>2. ~putting /\ Handled = Len(buffer) /\ Handled + 1 \in Nat /\ outs \in Nat
  BY <1>1, HandledNat
<1>3. Tail(lock) \in Seq(Entries) /\ lock[1] = Head(lock) /\ 1 \in 1..Len(lock)
  BY <1>1, TailElements DEF Types
<1>4. pc[c] = Doing[t]
  BY <1>1, <1>3 DEF SlotInv, Waits
<1>5. Queued(Tail(lock), Handled + 1, outs)
  BY <1>1, <1>2, QueuedDrop DEF Types, HistoryInv
<1>6. \A i \in 1..Len(Tail(lock)) : Tail(lock)[i][1] # "out" => Tail(lock)[i][2] # c
  <2>1. \A d \in Clients : pc[d] = pc[d] \/ (Head(lock)[1] # "out" /\ Head(lock)[2] = d)
    OBVIOUS
  <2>2. QED
    BY <1>1, <2>1, WaitsTail DEF Types, SlotInv
<1>7. ASSUME NEW now \in [Clients -> Steps], \A d \in Clients : d # c => now[d] = pc[d]
      PROVE  Waits(Tail(lock), now)
  <2>1. \A d \in Clients : now[d] = pc[d] \/ (Head(lock)[1] # "out" /\ Head(lock)[2] = d)
    BY <1>1, <1>7
  <2>2. QED
    BY <1>1, <2>1, WaitsTail DEF Types, SlotInv
<1>8. QED
  BY <1>1, <1>2, <1>3, <1>4, <1>5, <1>6, <1>7

\* Nothing waits for an endpoint that is not in one of the three places.
LEMMA NotWaiting ==
    ASSUME TermInv, NEW c \in Clients, pc[c] \in {"new", "greeting", "serving"}
    PROVE  \A i \in 1..Len(lock) : lock[i][1] # "out" => lock[i][2] # c
<1> SUFFICES ASSUME NEW i \in 1..Len(lock), lock[i][1] # "out", lock[i][2] = c PROVE FALSE
  OBVIOUS
<1>1. lock[i] \in Entries
  BY DEF TermInv, Types
<1>2. lock[i][1] \in {"sub", "restore", "unsub"}
  BY <1>1 DEF Entries
<1>3. QED
  BY <1>2 DEF TermInv, SlotInv, Waits, Doing

\* A step of an endpoint that leaves the output alone.
LEMMA EndpointKeeps ==
    ASSUME TermInv, UNCHANGED <<outs, active, putting, buffer, queue, got>>,
           subscriber' \in Clients \cup {None}, putting => subscriber' # None,
           hist' \in [Clients -> Nat], pc' \in [Clients -> Steps],
           lock' \in Seq(Entries), Queued(lock', Handled + 1, outs),
           putting => lock' # <<>> /\ Head(lock') = Head(lock)
    PROVE  Types' /\ HistoryInv'
<1>1. Handled' = Handled
  BY DEF Handled
<1>2. Types'
  BY DEF TermInv, Types
<1>3. HistoryInv'
  BY <1>1 DEF TermInv, HistoryInv
<1>4. QED
  BY <1>2, <1>3

LEMMA EndpointSteps ==
    ASSUME TermInv, NEW c \in Clients, Connect(c) \/ Endpoint(c) \/ Raises(c) \/ Leave(c)
    PROVE  TermInv'
<1> USE TerminalAssumption
<1>0. /\ Types /\ HistoryInv /\ SlotInv /\ DeliveryInv
      /\ lock \in Seq(Entries) /\ pc \in [Clients -> Steps] /\ hist \in [Clients -> Nat]
      /\ subscriber \in Clients \cup {None} /\ outs \in Nat /\ Handled + 1 \in Nat
      /\ Queued(lock, Handled + 1, outs) /\ Waits(lock, pc)
      /\ putting => lock # <<>> /\ subscriber # None
  <2>1. Types /\ HistoryInv /\ SlotInv /\ DeliveryInv
    BY DEF TermInv
  <2>2. outs \in Nat /\ Handled + 1 \in Nat
    BY <2>1, HandledNat
  <2>3. QED
    BY <2>1, <2>2 DEF Types, HistoryInv, SlotInv
<1>1. CASE Connect(c) /\ ~active
  <2>1. /\ pc' = [pc EXCEPT ![c] = "closed"] /\ lock' = lock
        /\ UNCHANGED <<outs, active, putting, buffer, subscriber, queue, hist, got>>
        /\ pc[c] = "new"
    BY <1>1 DEF Connect
  <2>2. pc' \in [Clients -> Steps] /\ \A d \in Clients : d # c => pc'[d] = pc[d]
    BY <1>0, <2>1 DEF Steps
  <2>3. Waits(lock', pc')
    <3>1. \A i \in 1..Len(lock) : lock[i][1] # "out" => lock[i][2] \in Clients /\ lock[i][2] # c
      <4>1. \A i \in 1..Len(lock) : lock[i][1] # "out" => lock[i][2] # c
        BY <2>1, NotWaiting
      <4>2. \A i \in 1..Len(lock) : lock[i] \in Entries
        BY <1>0
      <4>3. QED
        BY <4>1, <4>2 DEF Entries
    <3>2. QED
      BY <1>0, <2>1, <2>2, <3>1 DEF Waits
  <2>4. Types' /\ HistoryInv'
    BY <1>0, <2>1, <2>2, EndpointKeeps
  <2>5. DeliveryInv'
    BY <1>0, <2>1, <2>2, DeliverySame DEF Joins
  <2>6. QED
    BY <1>0, <2>1, <2>2, <2>3, <2>4, <2>5 DEF TermInv, SlotInv
<1>2. CASE Connect(c) /\ active
  <2>1. /\ pc' = [pc EXCEPT ![c] = Doing["sub"]] /\ lock' = Append(lock, <<"sub", c>>)
        /\ UNCHANGED <<outs, active, putting, buffer, subscriber, queue, hist, got>>
        /\ pc[c] = "new" /\ Doing["sub"] = "subscribing"
    BY <1>2 DEF Connect, Task, Doing
  <2>2. pc' \in [Clients -> Steps] /\ \A d \in Clients : d # c => pc'[d] = pc[d]
    BY <1>0, <2>1 DEF Steps
  <2>3. \A i \in 1..Len(lock) : lock[i][1] # "out" => lock[i][2] # c
    BY <2>1, NotWaiting
  <2>4. lock' \in Seq(Entries) /\ Waits(lock', pc')
    BY <1>0, <2>1, <2>2, <2>3, WaitsTask
  <2>5. <<"sub", c>> \in Entries /\ <<"sub", c>>[1] # "out"
    BY DEF Entries
  <2>6. Queued(lock', Handled + 1, outs)
    BY <1>0, <2>1, <2>5, QueuedTask
  <2>7. lock # <<>> => lock' # <<>> /\ Head(lock') = Head(lock)
    BY <1>0, <2>1, <2>5
  <2>8. Types' /\ HistoryInv'
    BY <1>0, <2>1, <2>2, <2>4, <2>6, <2>7, EndpointKeeps
  <2>9. DeliveryInv'
    BY <1>0, <2>1, <2>2, DeliverySame DEF Joins
  <2>10. QED
    BY <1>0, <2>1, <2>2, <2>4, <2>8, <2>9 DEF TermInv, SlotInv
<1>3. CASE Subscribe(c)
  <2>1. /\ Holds(Task("sub", c)) /\ UNCHANGED <<outs, active, putting, buffer, queue, hist, got>>
    BY <1>3 DEF Subscribe
  <2>2. /\ ~putting /\ Tail(lock) \in Seq(Entries) /\ Queued(Tail(lock), Handled + 1, outs)
        /\ \A i \in 1..Len(Tail(lock)) : Tail(lock)[i][1] # "out" => Tail(lock)[i][2] # c
        /\ \A now \in [Clients -> Steps] :
              (\A d \in Clients : d # c => now[d] = pc[d]) => Waits(Tail(lock), now)
        /\ pc[c] = "subscribing"
    BY <2>1, Holder DEF Doing
  <2>3. CASE subscriber # None
    <3>1. pc' = [pc EXCEPT ![c] = "closed"] /\ lock' = Tail(lock) /\ subscriber' = subscriber
      BY <1>3, <2>3 DEF Subscribe, SlotFree
    <3>2. pc' \in [Clients -> Steps] /\ \A d \in Clients : d # c => pc'[d] = pc[d]
      BY <1>0, <3>1 DEF Steps
    <3>3. Waits(lock', pc')
      BY <2>2, <3>1, <3>2
    <3>4. Types' /\ HistoryInv'
      BY <1>0, <2>1, <2>2, <3>1, <3>2, EndpointKeeps
    <3>5. DeliveryInv'
      BY <1>0, <2>1, <3>1, <3>2, DeliverySame DEF Joins
    <3>6. QED
      BY <1>0, <3>1, <3>2, <3>3, <3>4, <3>5 DEF TermInv, SlotInv
  <2>4. CASE subscriber = None /\ c = Creator
    <3>1. pc' = [pc EXCEPT ![c] = "greeting"] /\ lock' = Tail(lock) /\ subscriber' = c
      BY <1>3, <2>4 DEF Subscribe, SlotFree
    <3>2. pc' \in [Clients -> Steps] /\ \A d \in Clients : d # c => pc'[d] = pc[d]
      BY <1>0, <3>1 DEF Steps
    <3>3. Waits(lock', pc')
      BY <2>2, <3>1, <3>2
    <3>4. Types' /\ HistoryInv'
      BY <1>0, <2>1, <2>2, <3>1, <3>2, EndpointKeeps
    <3>5. DeliveryInv'
      BY <1>0, <2>1, <2>4, <3>1, <3>2, DeliverySame DEF Joins
    <3>6. \A d \in Clients : pc'[d] \in {"restoring", "greeting", "serving", "leaving"} => subscriber' = d
      BY <1>0, <2>4, <3>1, <3>2 DEF SlotInv
    <3>7. QED
      BY <3>3, <3>4, <3>5, <3>6 DEF TermInv, SlotInv
  <2>5. CASE subscriber = None /\ c # Creator
    <3>1. /\ pc' = [pc EXCEPT ![c] = "restoring"] /\ subscriber' = c
          /\ lock' = Append(Tail(lock), <<"restore", c>>)
      BY <1>3, <2>5 DEF Subscribe, SlotFree, Task
    <3>2. pc' \in [Clients -> Steps] /\ \A d \in Clients : d # c => pc'[d] = pc[d]
      BY <1>0, <3>1 DEF Steps
    <3>3. Waits(Tail(lock), pc)
      BY <1>0, <2>2
    <3>4. lock' \in Seq(Entries) /\ Waits(lock', pc')
      <4>1. pc' = [pc EXCEPT ![c] = Doing["restore"]]
        BY <3>1 DEF Doing
      <4>2. QED
        BY <1>0, <2>2, <3>1, <3>2, <3>3, <4>1, WaitsTask
    <3>5. <<"restore", c>> \in Entries /\ <<"restore", c>>[1] # "out"
      BY DEF Entries
    <3>6. Queued(lock', Handled + 1, outs)
      BY <1>0, <2>2, <3>1, <3>5, QueuedTask
    <3>7. Types' /\ HistoryInv'
      BY <1>0, <2>1, <2>2, <3>1, <3>2, <3>4, <3>6, EndpointKeeps
    <3>8. DeliveryInv'
      BY <1>0, <2>1, <3>1, <3>2, DeliverySame DEF Joins
    <3>9. \A d \in Clients : pc'[d] \in {"restoring", "greeting", "serving", "leaving"} => subscriber' = d
      BY <1>0, <2>5, <3>1, <3>2 DEF SlotInv
    <3>10. QED
      BY <3>4, <3>7, <3>8, <3>9 DEF TermInv, SlotInv
  <2>6. QED
    BY <2>3, <2>4, <2>5
<1>4. CASE Restore(c)
  <2>1. /\ Holds(Task("restore", c)) /\ UNCHANGED <<outs, active, putting, buffer, subscriber, queue, got>>
        /\ hist' = IF Visible THEN [hist EXCEPT ![c] = Len(buffer)] ELSE hist
        /\ pc' = [pc EXCEPT ![c] = "greeting"] /\ lock' = Tail(lock)
    BY <1>4 DEF Restore
  <2>2. /\ ~putting /\ Handled = Len(buffer) /\ Tail(lock) \in Seq(Entries)
        /\ Queued(Tail(lock), Handled + 1, outs)
        /\ \A now \in [Clients -> Steps] :
              (\A d \in Clients : d # c => now[d] = pc[d]) => Waits(Tail(lock), now)
        /\ pc[c] = "restoring"
    BY <2>1, Holder DEF Doing
  <2>3. /\ pc' \in [Clients -> Steps] /\ \A d \in Clients : d # c => pc'[d] = pc[d]
        /\ hist' \in [Clients -> Nat] /\ \A d \in Clients : d # c => hist'[d] = hist[d]
        /\ hist'[c] = Len(buffer) \/ (hist'[c] = hist[c] /\ Len(buffer) <= Blanks)
        /\ Len(buffer) \in Nat
    BY <1>0, <2>1 DEF Steps, Types, Visible
  <2>4. Waits(lock', pc')
    BY <2>1, <2>2, <2>3
  <2>5. Types' /\ HistoryInv'
    BY <1>0, <2>1, <2>2, <2>3, EndpointKeeps
  <2>6. DeliveryInv'
    <3>1. Handled' = Handled
      BY <2>1 DEF Handled
    <3>2. hist'[c] <= Len(buffer) /\ \A n \in (hist'[c] + 1)..Handled : n <= Blanks
      BY <1>0, <2>2, <2>3 DEF DeliveryInv
    <3>3. ~(\E n \in (hist'[c] + 1)..Handled : n > Blanks)
      BY <1>0, <2>2, <2>3, <3>2
    <3>4. QED
      BY <1>0, <2>1, <2>3, <3>1, <3>2, <3>3 DEF DeliveryInv
  <2>7. QED
    BY <1>0, <2>1, <2>2, <2>3, <2>4, <2>5, <2>6 DEF TermInv, SlotInv
<1>5. CASE RestoreRaises(c)
  <2>1. /\ Holds(Task("restore", c)) /\ UNCHANGED <<outs, active, putting, buffer, subscriber, queue, hist, got>>
        /\ pc' = [pc EXCEPT ![c] = "dropped"] /\ lock' = Tail(lock)
    BY <1>5 DEF RestoreRaises
  <2>2. /\ ~putting /\ Tail(lock) \in Seq(Entries) /\ Queued(Tail(lock), Handled + 1, outs)
        /\ \A now \in [Clients -> Steps] :
              (\A d \in Clients : d # c => now[d] = pc[d]) => Waits(Tail(lock), now)
    BY <2>1, Holder
  <2>3. pc' \in [Clients -> Steps] /\ \A d \in Clients : d # c => pc'[d] = pc[d]
    BY <1>0, <2>1 DEF Steps
  <2>4. Waits(lock', pc')
    BY <2>1, <2>2, <2>3
  <2>5. Types' /\ HistoryInv'
    BY <1>0, <2>1, <2>2, <2>3, EndpointKeeps
  <2>6. DeliveryInv'
    BY <1>0, <2>1, <2>3, DeliverySame DEF Joins
  <2>7. QED
    BY <1>0, <2>1, <2>3, <2>4, <2>5, <2>6 DEF TermInv, SlotInv
<1>6. CASE SendOutput(c)
  <2>1. /\ pc[c] = "serving" /\ queue[c] # <<>> /\ queue[c] \in Seq(Nat) /\ got[c] \in Seq(Nat)
        /\ got' = [got EXCEPT ![c] = Append(got[c], Head(queue[c]))]
        /\ queue' = [queue EXCEPT ![c] = Tail(queue[c])]
        /\ UNCHANGED <<outs, active, lock, putting, buffer, subscriber, hist, pc>>
    BY <1>0, <1>6 DEF SendOutput, Types
  <2>2. /\ Tail(queue[c]) \in Seq(Nat) /\ Append(got[c], Head(queue[c])) \in Seq(Nat)
        /\ Len(Tail(queue[c])) = Len(queue[c]) - 1 /\ Len(queue[c]) \in Nat
    BY <2>1, TailElements, AppendElements
  <2>3. Handled' = Handled /\ Handled \in Nat
    BY <1>0, <2>1, HandledNat DEF Handled
  <2>4. Types'
    BY <1>0, <2>1, <2>2 DEF Types
  <2>5. HistoryInv'
    BY <1>0, <2>1, <2>3 DEF HistoryInv
  <2>6. /\ Ordered(Append(got[c], Head(queue[c])), Tail(queue[c]), Handled)
        /\ \A n : Has(got[c], queue[c], n) => Has(Append(got[c], Head(queue[c])), Tail(queue[c]), n)
    BY <1>0, <2>1, <2>3, OrderedSend DEF DeliveryInv
  <2>7. /\ got'[c] = Append(got[c], Head(queue[c])) /\ queue'[c] = Tail(queue[c])
        /\ \A d \in Clients : d # c => got'[d] = got[d] /\ queue'[d] = queue[d]
    BY <1>0, <2>1 DEF Types
  <2>8. Len(queue'[c]) <= Cap
    BY <1>0, <2>2, <2>7 DEF DeliveryInv
  <2>9. DeliveryInv'
    <3> SUFFICES ASSUME NEW d \in Clients
                 PROVE  /\ Len(queue'[d]) <= Cap /\ hist[d] <= Len(buffer)
                        /\ Ordered(got'[d], queue'[d], Handled)
                        /\ d # Creator /\ pc[d] \in Joins =>
                              \A n \in (hist[d] + 1)..Handled : n > Blanks => Has(got'[d], queue'[d], n)
      BY <2>1, <2>3 DEF DeliveryInv
    <3>1. CASE d = c
      BY <1>0, <2>6, <2>7, <2>8, <3>1 DEF DeliveryInv
    <3>2. CASE d # c
      BY <1>0, <2>7, <3>2 DEF DeliveryInv
    <3>3. QED
      BY <3>1, <3>2
  <2>10. QED
    BY <1>0, <2>1, <2>4, <2>5, <2>9 DEF TermInv, SlotInv
<1>7. CASE Leave(c)
  <2>1. /\ pc' = [pc EXCEPT ![c] = Doing["unsub"]] /\ lock' = Append(lock, <<"unsub", c>>)
        /\ UNCHANGED <<outs, active, putting, buffer, subscriber, queue, hist, got>>
        /\ pc[c] = "serving" /\ Doing["unsub"] = "leaving"
    BY <1>7 DEF Leave, Task, Doing
  <2>2. pc' \in [Clients -> Steps] /\ \A d \in Clients : d # c => pc'[d] = pc[d]
    BY <1>0, <2>1 DEF Steps
  <2>3. \A i \in 1..Len(lock) : lock[i][1] # "out" => lock[i][2] # c
    BY <2>1, NotWaiting
  <2>4. lock' \in Seq(Entries) /\ Waits(lock', pc')
    BY <1>0, <2>1, <2>2, <2>3, WaitsTask
  <2>5. <<"unsub", c>> \in Entries /\ <<"unsub", c>>[1] # "out"
    BY DEF Entries
  <2>6. Queued(lock', Handled + 1, outs)
    BY <1>0, <2>1, <2>5, QueuedTask
  <2>7. lock # <<>> => lock' # <<>> /\ Head(lock') = Head(lock)
    BY <1>0, <2>1, <2>5
  <2>8. Types' /\ HistoryInv'
    BY <1>0, <2>1, <2>2, <2>4, <2>6, <2>7, EndpointKeeps
  <2>9. DeliveryInv'
    BY <1>0, <2>1, <2>2, DeliverySame DEF Joins
  <2>10. QED
    BY <1>0, <2>1, <2>2, <2>4, <2>8, <2>9 DEF TermInv, SlotInv
<1>8. CASE Unsubscribe(c)
  <2>1. /\ Holds(Task("unsub", c)) /\ UNCHANGED <<outs, active, putting, buffer, queue, hist, got>>
        /\ subscriber' = Freed(c) /\ pc' = [pc EXCEPT ![c] = "closed"] /\ lock' = Tail(lock)
    BY <1>8 DEF Unsubscribe
  <2>2. /\ ~putting /\ Tail(lock) \in Seq(Entries) /\ Queued(Tail(lock), Handled + 1, outs)
        /\ \A now \in [Clients -> Steps] :
              (\A d \in Clients : d # c => now[d] = pc[d]) => Waits(Tail(lock), now)
    BY <2>1, Holder
  <2>3. /\ pc' \in [Clients -> Steps] /\ pc'[c] = "closed" /\ \A d \in Clients : d # c => pc'[d] = pc[d]
        /\ subscriber' \in Clients \cup {None} /\ \A d \in Clients : d # c /\ subscriber = d => subscriber' = d
    BY <1>0, <2>1 DEF Steps, Freed
  <2>4. Waits(lock', pc')
    BY <2>1, <2>2, <2>3
  <2>5. Types' /\ HistoryInv'
    BY <1>0, <2>1, <2>2, <2>3, EndpointKeeps
  <2>6. DeliveryInv'
    BY <1>0, <2>1, <2>3, DeliverySame DEF Joins
  <2>7. QED
    BY <1>0, <2>3, <2>4, <2>5, <2>6 DEF TermInv, SlotInv
<1>9. CASE Greet(c) \/ GreetRaises(c)
  <2>1. /\ UNCHANGED <<outs, active, lock, putting, buffer, subscriber, queue, hist, got>>
        /\ pc[c] = "greeting" /\ \E step \in {"serving", "dropped"} : pc' = [pc EXCEPT ![c] = step]
    BY <1>9 DEF Greet, GreetRaises
  <2>2. /\ pc' \in [Clients -> Steps] /\ \A d \in Clients : d # c => pc'[d] = pc[d]
        /\ pc'[c] \in {"serving", "dropped"}
    BY <1>0, <2>1 DEF Steps
  <2>3. Waits(lock', pc')
    <3>1. \A i \in 1..Len(lock) : lock[i][1] # "out" => lock[i][2] \in Clients /\ lock[i][2] # c
      <4>1. \A i \in 1..Len(lock) : lock[i][1] # "out" => lock[i][2] # c
        BY <2>1, NotWaiting
      <4>2. \A i \in 1..Len(lock) : lock[i] \in Entries
        BY <1>0
      <4>3. QED
        BY <4>1, <4>2 DEF Entries
    <3>2. QED
      BY <1>0, <2>1, <2>2, <3>1 DEF Waits
  <2>4. Types' /\ HistoryInv'
    BY <1>0, <2>1, <2>2, EndpointKeeps
  <2>5. DeliveryInv'
    BY <1>0, <2>1, <2>2, DeliverySame DEF Joins
  <2>6. \A d \in Clients : pc'[d] \in {"restoring", "greeting", "serving", "leaving"} => subscriber' = d
    BY <1>0, <2>1, <2>2 DEF SlotInv
  <2>7. QED
    BY <2>3, <2>4, <2>5, <2>6 DEF TermInv, SlotInv
<1>10. QED
  BY <1>1, <1>2, <1>3, <1>4, <1>5, <1>6, <1>7, <1>8, <1>9 DEF Endpoint, Raises

LEMMA TermInit == Init => TermInv
<1> SUFFICES ASSUME Init PROVE TermInv
  OBVIOUS
<1>1. /\ outs = 0 /\ lock = <<>> /\ ~putting /\ buffer = <<>> /\ subscriber = None
      /\ \A c \in Clients : queue[c] = <<>> /\ got[c] = <<>> /\ hist[c] = 0 /\ pc[c] = "new"
  BY DEF Init
<1>2. active \in BOOLEAN /\ putting \in BOOLEAN
  BY Zenon DEF Init
<1>3. Types
  <2>1. /\ queue \in [Clients -> Seq(Nat)] /\ got \in [Clients -> Seq(Nat)]
        /\ hist \in [Clients -> Nat] /\ pc \in [Clients -> Steps]
    BY DEF Init, Steps
  <2>2. QED
    BY <1>1, <1>2, <2>1, TerminalAssumption DEF Types
<1>4. Handled = 0 /\ Len(lock) = 0 /\ Len(buffer) = 0
  BY <1>1 DEF Handled
<1>5. HistoryInv
  BY <1>1, <1>4 DEF HistoryInv, Queued
<1>6. SlotInv
  BY <1>1, <1>4 DEF SlotInv, Waits
<1>7. DeliveryInv
  BY <1>1, <1>4, TerminalAssumption DEF DeliveryInv, Ordered
<1>8. QED
  BY <1>3, <1>5, <1>6, <1>7 DEF TermInv

LEMMA TermNext == TermInv /\ [Next]_vars => TermInv'
<1> SUFFICES ASSUME TermInv, [Next]_vars PROVE TermInv'
  OBVIOUS
<1>1. CASE UNCHANGED vars
  BY <1>1 DEF vars, TermInv, Types, HistoryInv, SlotInv, DeliveryInv, Handled
<1>2. QED
  BY <1>1, PtySteps, EndpointSteps DEF Next

-----------------------------------------------------------------------------
(* The theorems.                                                           *)

\* A sequence of texts that are all in a set is a sequence over that set.
LEMMA SeqWithin ==
    ASSUME NEW S, NEW T, NEW s \in Seq(S), \A i \in 1..Len(s) : s[i] \in T
    PROVE  s \in Seq(T)
  OBVIOUS

LEMMA TermTypes == TermInv => TypeOK
<1> SUFFICES ASSUME TermInv PROVE TypeOK
  OBVIOUS
<1> USE DEF TermInv
<1>1. /\ Len(buffer) \in Nat /\ Handled \in Nat /\ outs \in Nat /\ Handled + 1 <= outs + 1
  BY HandledNat
<1>2. buffer \in Seq(1..outs)
  <2>1. \A i \in 1..Len(buffer) : buffer[i] \in 1..outs
    BY <1>1 DEF HistoryInv
  <2>2. QED
    BY <2>1, SeqWithin DEF Types
<1>3. lock \in Seq(({"out"} \X (1..outs)) \cup ({"sub", "restore", "unsub"} \X Clients))
  <2>1. ASSUME NEW i \in 1..Len(lock)
        PROVE  lock[i] \in ({"out"} \X (1..outs)) \cup ({"sub", "restore", "unsub"} \X Clients)
    <3>1. lock[i] \in Entries
      BY DEF Types
    <3>2. lock[i][1] = "out" => lock[i][2] \in 1..outs
      <4>1. lock[i][1] = "out" => lock[i][2] \in (Handled + 1)..outs
        BY DEF HistoryInv, Queued
      <4>2. QED
        BY <1>1, <4>1
    <3>3. QED
      BY <3>1, <3>2 DEF Entries
  <2>2. lock \in Seq(Entries)
    BY DEF Types
  <2>3. QED
    BY <2>1, <2>2, SeqWithin
<1>4. \A c \in Clients : queue[c] \in Seq(1..outs) /\ got[c] \in Seq(1..outs)
  <2> SUFFICES ASSUME NEW c \in Clients PROVE queue[c] \in Seq(1..outs) /\ got[c] \in Seq(1..outs)
    OBVIOUS
  <2>1. Ordered(got[c], queue[c], Handled) /\ queue[c] \in Seq(Nat) /\ got[c] \in Seq(Nat)
    BY DEF DeliveryInv, Types
  <2>2. /\ \A i \in 1..Len(got[c]) : got[c][i] \in 1..outs
        /\ \A i \in 1..Len(queue[c]) : queue[c][i] \in 1..outs
    <3>1. 1..Handled \subseteq 1..outs
      BY <1>1
    <3>2. QED
      BY <2>1, <3>1 DEF Ordered
  <2>3. QED
    BY <2>1, <2>2, SeqWithin
<1>5. queue \in [Clients -> Seq(1..outs)] /\ got \in [Clients -> Seq(1..outs)]
  BY <1>4 DEF Types
<1>6. hist \in [Clients -> 0..outs]
  <2>1. \A c \in Clients : hist[c] \in 0..outs
    BY <1>1 DEF DeliveryInv, Types, HistoryInv
  <2>2. QED
    BY <2>1 DEF Types
<1>7. QED
  BY <1>2, <1>3, <1>5, <1>6 DEF TypeOK, Types, DeliveryInv

\* No interleaving of the pty's output and the clients' endpoints takes a
\* variable out of its type, and no queue ever holds more than maxsize texts
\* (_handle_terminado_output waits in queue.put).
THEOREM TerminalTypes == Spec => []TypeOK
  BY TermInit, TermNext, TermTypes, PTL DEF Spec

LEMMA TermNoGap == TermInv => NoGap
<1> SUFFICES ASSUME TermInv, NEW c \in Clients, c # Creator, pc[c] \in Joins
             PROVE  /\ \A n \in (hist[c] + 1)..Len(buffer) : n > Blanks => n \in Range(Live(c))
                    /\ \A i, j \in DOMAIN Live(c) : i < j => Live(c)[i] < Live(c)[j]
  BY DEF NoGap, Joins
<1> USE DEF TermInv
<1> DEFINE g == got[c]
           q == queue[c]
           last == IF putting /\ subscriber = c THEN <<Head(lock)[2]>> ELSE <<>>
           live == g \o q \o last
<1>1. /\ Len(buffer) \in Nat /\ Handled \in Nat /\ hist[c] \in Nat
      /\ lock # <<>> /\ Head(lock)[1] = "out" => Head(lock)[2] = Handled + 1
  BY HandledNat DEF Types
<1>2. subscriber = c
  BY DEF SlotInv, Joins
<1>3. /\ g \in Seq(Nat) /\ q \in Seq(Nat) /\ Ordered(g, q, Handled)
      /\ \A n \in (hist[c] + 1)..Handled : n > Blanks => Has(g, q, n)
  BY DEF Types, DeliveryInv
<1>4. CASE ~putting
  <2>1. Handled = Len(buffer) /\ last = <<>>
    BY <1>4 DEF Handled
  <2>2. live = g \o q
    <3>1. g \o q \in Seq(Nat)
      BY <1>3, ConcatProperties
    <3>2. QED
      BY <2>1, <3>1, ConcatEmptySeq
  <2>3. QED
    BY <1>3, <2>1, <2>2, Joined DEF Live
<1>5. CASE putting
  <2>1. Len(buffer) = Handled + 1 /\ last = <<Handled + 1>>
    BY <1>1, <1>2, <1>5 DEF Handled, HistoryInv
  <2>2. live = g \o Append(q, Handled + 1)
    <3>1. Handled + 1 \in Nat
      BY <1>1
    <3>2. QED
      BY <1>3, <2>1, <3>1, JoinedPut
  <2>3. /\ Append(q, Handled + 1) \in Seq(Nat)
        /\ Ordered(g, Append(q, Handled + 1), Handled + 1)
        /\ \A n : Has(g, q, n) \/ n = Handled + 1 => Has(g, Append(q, Handled + 1), n)
    BY <1>1, <1>3, OrderedPut, AppendElements
  <2>4. \A n \in (hist[c] + 1)..(Handled + 1) : n > Blanks => Has(g, Append(q, Handled + 1), n)
    <3>1. \A n \in (hist[c] + 1)..(Handled + 1) : n = Handled + 1 \/ n \in (hist[c] + 1)..Handled
      BY <1>1
    <3>2. QED
      BY <1>3, <2>3, <3>1
  <2>5. QED
    BY <1>1, <1>3, <2>1, <2>2, <2>3, <2>4, Joined DEF Live
<1>6. QED
  BY <1>4, <1>5

\* A client that joins a running terminal misses nothing: every text that is not
\* in the history it was sent, and is not blank, reaches it live, in the pty's
\* order, however the handlers, the other clients and its own endpoint queue for
\* the lock
\* (subscribe_char before restore_output, _handle_terminado_output).
THEOREM NothingMissed == Spec => []NoGap
  BY TermInit, TermNext, TermNoGap, PTL DEF Spec

==============================================================================
