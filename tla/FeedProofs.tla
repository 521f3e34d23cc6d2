------------------------------ MODULE FeedProofs ------------------------------
(***************************************************************************)
(* Theorems about Feed, for any number of attempts, nodes and pages and    *)
(* any capacity of the connections: the inductive invariant Inv, that      *)
(* lists show what is logged, and that a connected client gets what its    *)
(* hub takes, once and in order.                                           *)
(***************************************************************************)
EXTENDS Feed, SequenceTheorems, TLAPS

------------------------------------------------------------------------------
(* Sequences: what moves a message from one place to the next.              *)

\* An appended message is one more element.
LEMMA AppendElements ==
  ASSUME NEW S, NEW s \in Seq(S), NEW x \in S
  PROVE  Append(s, x) \in Seq(S) /\ Elements(Append(s, x)) = Elements(s) \cup {x}
<1>1. /\ Append(s, x) \in Seq(S)
      /\ DOMAIN s = 1 .. Len(s)
      /\ Len(s) \in Nat
      /\ DOMAIN Append(s, x) = 1 .. Len(s) + 1
      /\ \A i \in 1 .. Len(s) : Append(s, x)[i] = s[i]
      /\ Append(s, x)[Len(s) + 1] = x
  BY AppendProperties, LenProperties
<1> QED
  BY <1>1 DEF Elements

LEMMA AppendWithin ==
  ASSUME NEW S, NEW s \in Seq(S), NEW x \in S, NEW T, Elements(s) \subseteq T, x \in T
  PROVE  Elements(Append(s, x)) \subseteq T
<1>1. Elements(Append(s, x)) = Elements(s) \cup {x}
  BY AppendElements
<1> QED
  BY <1>1

\* Taking the first message adds no element, and that message was one.
LEMMA TailElements ==
  ASSUME NEW S, NEW s \in Seq(S), s # <<>>
  PROVE  /\ Head(s) \in S /\ Tail(s) \in Seq(S)
         /\ Head(s) \in Elements(s)
         /\ Elements(Tail(s)) \subseteq Elements(s)
<1>1. /\ Head(s) \in S
      /\ Tail(s) \in Seq(S)
      /\ Len(Tail(s)) = Len(s) - 1
      /\ \A i \in 1 .. Len(Tail(s)) : Tail(s)[i] = s[i + 1]
  BY HeadTailProperties
<1>2. Len(s) \in Nat \ {0} /\ DOMAIN s = 1 .. Len(s) /\ DOMAIN Tail(s) = 1 .. Len(Tail(s))
  BY <1>1, EmptySeq, LenProperties
<1>3. Head(s) \in Elements(s)
  BY <1>2 DEF Elements
<1>4. Elements(Tail(s)) \subseteq Elements(s)
  BY <1>1, <1>2 DEF Elements
<1> QED
  BY <1>1, <1>3, <1>4

LEMMA EmptyElements == Elements(<<>>) = {}
  BY DEF Elements

\* Concatenation, kept closed: the provers meet it by these facts alone.
Cat(s, t) == s \o t

LEMMA CatFacts ==
  ASSUME NEW S
  PROVE  /\ <<>> \in Seq(S)
         /\ \A s, t \in Seq(S) : Cat(s, t) \in Seq(S)
         /\ \A s \in Seq(S) : Cat(s, <<>>) = s
         /\ \A s, t, u \in Seq(S) : Cat(Cat(s, t), u) = Cat(s, Cat(t, u))
         /\ \A x \in S : <<x>> \in Seq(S)
         /\ \A s \in Seq(S) : \A x \in S : Append(s, x) = Cat(s, <<x>>)
<1> USE DEF Cat
<1>1. <<>> \in Seq(S)
  BY EmptySeq
<1>2. \A s, t \in Seq(S) : Cat(s, t) \in Seq(S)
  BY ConcatProperties
<1>3. \A s \in Seq(S) : Cat(s, <<>>) = s
  BY ConcatEmptySeq
<1>4. \A s, t, u \in Seq(S) : Cat(Cat(s, t), u) = Cat(s, Cat(t, u))
  BY ConcatAssociative
<1>5. \A x \in S : <<x>> \in Seq(S)
  OBVIOUS
<1>6. \A s \in Seq(S) : \A x \in S : Append(s, x) = Cat(s, <<x>>)
  BY AppendIsConcat
<1> HIDE DEF Cat
<1> QED
  BY <1>1, <1>2, <1>3, <1>4, <1>5, <1>6

\* A sequence is its first message u and the others.
LEMMA HeadAndTail ==
  ASSUME NEW S, NEW s \in Seq(S), s # <<>>
  PROVE  \E u, t \in Seq(S) :
           Tail(s) = t /\ s = Cat(u, t) /\ \A l \in Seq(S) : Append(l, Head(s)) = Cat(l, u)
<1>1. Head(s) \in S /\ Tail(s) \in Seq(S) /\ <<Head(s)>> \in Seq(S)
  BY HeadTailProperties
<1>2. s = <<Head(s)>> \o Tail(s)
  BY <1>1, HeadTailProperties, EmptySeq, SeqEqual, ConcatProperties, LenProperties
<1>3. \A l \in Seq(S) : Append(l, Head(s)) = Cat(l, <<Head(s)>>)
  BY <1>1, CatFacts
<1>4. s = Cat(<<Head(s)>>, Tail(s))
  BY <1>2 DEF Cat
<1> QED
  BY <1>1, <1>3, <1>4

\* A message u that goes from the hub into the connection keeps its place.
LEMMA WritePreservesOrder ==
  ASSUME NEW S, NEW o \in Seq(S), NEW l \in Seq(S), NEW s \in Seq(S), NEW u \in Seq(S)
  PROVE  Cat(Cat(Cat(o, l), s), u) = Cat(Cat(Cat(o, l), Cat(s, u)), <<>>)
  BY CatFacts

\* So does one that goes from the connection into the list.
LEMMA ReceivePreservesOrder ==
  ASSUME NEW S, NEW o \in Seq(S), NEW l \in Seq(S), NEW u \in Seq(S), NEW t \in Seq(S)
  PROVE  Cat(Cat(o, l), Cat(u, t)) = Cat(Cat(o, Cat(l, u)), t)
  BY CatFacts

------------------------------------------------------------------------------
(* Init, and types.                                                         *)

LEMMA InitInv == Init => Inv
<1> SUFFICES ASSUME Init PROVE Inv
  OBVIOUS
<1>1. TypeOK
  BY DEF Init, TypeOK
<1>2. HubInv /\ QuietInv /\ InOrder
  BY FeedAssumption DEF Init, HubInv, QuietInv, InOrder
<1>3. SourceInv /\ NothingInvented
  BY EmptyElements DEF Init, SourceInv, NothingInvented
<1> QED
  BY <1>1, <1>2, <1>3 DEF Inv

LEMMA StepType ==
  ASSUME Inv, [Next]_vars
  PROVE  TypeOK'
<1> USE FeedAssumption DEF Inv, TypeOK, Goto, Await, hubVars, listVars
<1>1. ASSUME NEW a \in Attempts, Spawn(a) PROVE TypeOK'
  BY <1>1 DEF Spawn
<1>2. ASSUME NEW a \in Attempts, Logged(a) PROVE TypeOK'
  BY <1>2 DEF Logged
<1>3. ASSUME NEW a \in Attempts, NotLogged(a) PROVE TypeOK'
  BY <1>3 DEF NotLogged
<1>4. ASSUME NEW a \in Attempts, Take(a) PROVE TypeOK'
  <2>1. due' \in [Pages -> Seq(Attempts)]
    BY <1>4, AppendElements DEF Take
  <2> QED
    BY <1>4, <2>1 DEF Take
<1>5. ASSUME NEW n \in Nodes, RoundEnds(n) PROVE TypeOK'
  BY <1>5 DEF RoundEnds
<1>6. ASSUME NEW n \in Nodes, Start(n) PROVE TypeOK'
  BY <1>6 DEF Start
<1>7. ASSUME NEW n \in Nodes, Stop(n) PROVE TypeOK'
  BY <1>7 DEF Stop
<1>8. ASSUME NEW n \in Nodes, NEW p \in Pages, Write(n, p) PROVE TypeOK'
  <2>1. socket' \in [Pages -> Seq(Attempts)]
    BY <1>8, AppendElements DEF Write, HubInv
  <2> QED
    BY <1>8, <2>1 DEF Write
<1>9. ASSUME NEW n \in Nodes, NEW p \in Pages, WriteFails(n, p) PROVE TypeOK'
  BY <1>9 DEF WriteFails
<1>10. ASSUME NEW p \in Pages, Connect(p) PROVE TypeOK'
  BY <1>10 DEF Connect
<1>11. ASSUME NEW p \in Pages, Register(p) PROVE TypeOK'
  BY <1>11 DEF Register
<1>12. ASSUME NEW p \in Pages, Unregister(p) PROVE TypeOK'
  BY <1>12 DEF Unregister
<1>13. ASSUME NEW p \in Pages, ReadFails(p) PROVE TypeOK'
  <2>1. <<>> \in Seq(Attempts)
    BY EmptySeq
  <2>2. socket' \in [Pages -> Seq(Attempts)]
    BY <1>13, <2>1 DEF ReadFails
  <2>3. conn' \in [Pages -> {"none", "registering", "reading", "unregistering", "gone"}]
    BY <1>13 DEF ReadFails
  <2>4. due' \in [Pages -> Seq(Attempts)]
    BY <1>13, <2>1 DEF ReadFails
  <2> QED
    BY <1>13, <2>2, <2>3, <2>4 DEF ReadFails
<1>14. ASSUME NEW p \in Pages, Fetch(p) PROVE TypeOK'
  BY <1>14 DEF Fetch, Newest
<1>15. ASSUME NEW p \in Pages, Show(p) PROVE TypeOK'
  <2>1. overwritten[p] \o pushed[p] \in Seq(Attempts) /\ <<>> \in Seq(Attempts)
    BY ConcatProperties, EmptySeq
  <2> QED
    BY <1>15, <2>1 DEF Show
<1>16. ASSUME NEW p \in Pages, Receive(p) PROVE TypeOK'
  <2>1. Tail(socket[p]) \in Seq(Attempts) /\ Append(pushed[p], Head(socket[p])) \in Seq(Attempts)
    BY <1>16, TailElements, AppendElements DEF Receive
  <2> QED
    BY <1>16, <2>1 DEF Receive
<1>17. ASSUME NEW p \in Pages, Leave(p) PROVE TypeOK'
  BY <1>17, EmptySeq DEF Leave
<1>18. ASSUME UNCHANGED vars PROVE TypeOK'
  BY <1>18 DEF vars
<1> QED
  BY <1>1, <1>2, <1>3, <1>4, <1>5, <1>6, <1>7, <1>8, <1>9, <1>10, <1>11, <1>12, <1>13, <1>14,
     <1>15, <1>16, <1>17, <1>18 DEF Next

------------------------------------------------------------------------------
(* The hubs and their clients.                                              *)

LEMMA StepHub ==
  ASSUME Inv, [Next]_vars
  PROVE  HubInv'
<1> USE FeedAssumption DEF Inv, TypeOK, HubInv, Goto, Await, hubVars, listVars
<1>1. ASSUME NEW a \in Attempts, Spawn(a) PROVE HubInv'
  BY <1>1 DEF Spawn
<1>2. ASSUME NEW a \in Attempts, Logged(a) PROVE HubInv'
  BY <1>2 DEF Logged
<1>3. ASSUME NEW a \in Attempts, NotLogged(a) PROVE HubInv'
  BY <1>3 DEF NotLogged
<1>4. ASSUME NEW a \in Attempts, Take(a) PROVE HubInv'
  BY <1>4 DEF Take
<1>5. ASSUME NEW n \in Nodes, RoundEnds(n) PROVE HubInv'
  BY <1>5 DEF RoundEnds
<1>6. ASSUME NEW n \in Nodes, Start(n) PROVE HubInv'
  BY <1>6 DEF Start
<1>7. ASSUME NEW n \in Nodes, Stop(n) PROVE HubInv'
  BY <1>7 DEF Stop
<1>8. ASSUME NEW n \in Nodes, NEW p \in Pages, Write(n, p) PROVE HubInv'
  BY <1>8 DEF Write
<1>9. ASSUME NEW n \in Nodes, NEW p \in Pages, WriteFails(n, p) PROVE HubInv'
  BY <1>9 DEF WriteFails
<1>10. ASSUME NEW p \in Pages, Connect(p) PROVE HubInv'
  BY <1>10 DEF Connect
<1>11. ASSUME NEW p \in Pages, ReadFails(p) PROVE HubInv'
  BY <1>11 DEF ReadFails
<1>12. ASSUME NEW p \in Pages, Register(p) PROVE HubInv'
  BY <1>12 DEF Register
<1>13. ASSUME NEW p \in Pages, Unregister(p) PROVE HubInv'
  BY <1>13 DEF Unregister
<1>14. ASSUME NEW p \in Pages, Fetch(p) PROVE HubInv'
  BY <1>14 DEF Fetch
<1>15. ASSUME NEW p \in Pages, Show(p) PROVE HubInv'
  BY <1>15 DEF Show
<1>16. ASSUME NEW p \in Pages, Receive(p) PROVE HubInv'
  BY <1>16 DEF Receive
<1>17. ASSUME NEW p \in Pages, Leave(p) PROVE HubInv'
  BY <1>17 DEF Leave
<1>18. ASSUME UNCHANGED vars PROVE HubInv'
  BY <1>18 DEF vars
<1> QED
  BY <1>1, <1>2, <1>3, <1>4, <1>5, <1>6, <1>7, <1>8, <1>9, <1>10, <1>11, <1>12, <1>13, <1>14,
     <1>15, <1>16, <1>17, <1>18 DEF Next

LEMMA StepQuiet ==
  ASSUME Inv, [Next]_vars
  PROVE  QuietInv'
<1> USE FeedAssumption DEF Inv, TypeOK, HubInv, QuietInv, Goto, Await, hubVars, listVars
<1>1. ASSUME NEW a \in Attempts, Spawn(a) PROVE QuietInv'
  BY <1>1 DEF Spawn
<1>2. ASSUME NEW a \in Attempts, Logged(a) PROVE QuietInv'
  BY <1>2 DEF Logged
<1>3. ASSUME NEW a \in Attempts, NotLogged(a) PROVE QuietInv'
  BY <1>3 DEF NotLogged
<1>4. ASSUME NEW a \in Attempts, Take(a) PROVE QuietInv'
  BY <1>4 DEF Take, Connected
<1>5. ASSUME NEW n \in Nodes, RoundEnds(n) PROVE QuietInv'
  BY <1>5 DEF RoundEnds
<1>6. ASSUME NEW n \in Nodes, Start(n) PROVE QuietInv'
  BY <1>6 DEF Start
<1>7. ASSUME NEW n \in Nodes, Stop(n) PROVE QuietInv'
  BY <1>7 DEF Stop
<1>8. ASSUME NEW n \in Nodes, NEW p \in Pages, Write(n, p) PROVE QuietInv'
  BY <1>8 DEF Write, Connected
<1>9. ASSUME NEW n \in Nodes, NEW p \in Pages, WriteFails(n, p) PROVE QuietInv'
  BY <1>9 DEF WriteFails, Connected
<1>10. ASSUME NEW p \in Pages, Connect(p) PROVE QuietInv'
  BY <1>10 DEF Connect
<1>11. ASSUME NEW p \in Pages, Register(p) PROVE QuietInv'
  BY <1>11 DEF Register
<1>12. ASSUME NEW p \in Pages, ReadFails(p) PROVE QuietInv'
  BY <1>12 DEF ReadFails
<1>13. ASSUME NEW p \in Pages, Unregister(p) PROVE QuietInv'
  BY <1>13 DEF Unregister
<1>14. ASSUME NEW p \in Pages, Show(p) PROVE QuietInv'
  <2>1. conn[p] \in {"none", "registering"} => overwritten[p] \o pushed[p] = <<>>
    BY EmptySeq, ConcatEmptySeq
  <2> QED
    BY <1>14, <2>1 DEF Show
<1>15. ASSUME NEW p \in Pages, Fetch(p) PROVE QuietInv'
  BY <1>15 DEF Fetch
<1>16. ASSUME NEW p \in Pages, Receive(p) PROVE QuietInv'
  BY <1>16 DEF Receive
<1>17. ASSUME NEW p \in Pages, Leave(p) PROVE QuietInv'
  BY <1>17 DEF Leave
<1>18. ASSUME UNCHANGED vars PROVE QuietInv'
  BY <1>18 DEF vars
<1> QED
  BY <1>1, <1>2, <1>3, <1>4, <1>5, <1>6, <1>7, <1>8, <1>9, <1>10, <1>11, <1>12, <1>13, <1>14,
     <1>15, <1>16, <1>17, <1>18 DEF Next

------------------------------------------------------------------------------
(* Nothing is shown that is not logged.                                     *)

LEMMA WriteStaysLogged ==
  ASSUME Inv, NEW n \in Nodes, NEW p \in Pages, Write(n, p)
  PROVE  Elements(Append(socket[p], msg[n])) \subseteq log
<1>1. msg[n] \in log /\ msg[n] \in Attempts
  BY DEF Inv, TypeOK, HubInv, SourceInv, Write
<1>2. socket[p] \in Seq(Attempts) /\ Elements(socket[p]) \subseteq log
  BY DEF Inv, TypeOK, SourceInv
<1> QED
  BY <1>1, <1>2, AppendWithin

LEMMA ReceiveStaysLogged ==
  ASSUME Inv, NEW p \in Pages, Receive(p)
  PROVE  /\ Elements(Append(pushed[p], Head(socket[p]))) \subseteq log
         /\ Elements(Tail(socket[p])) \subseteq log
<1>1. socket[p] \in Seq(Attempts) /\ socket[p] # <<>> /\ Elements(socket[p]) \subseteq log
  BY DEF Inv, TypeOK, SourceInv, Receive
<1>2. pushed[p] \in Seq(Attempts) /\ Elements(pushed[p]) \subseteq log
  BY DEF Inv, TypeOK, NothingInvented
<1>3. /\ Head(socket[p]) \in Attempts
      /\ Head(socket[p]) \in Elements(socket[p])
      /\ Elements(Tail(socket[p])) \subseteq Elements(socket[p])
  BY <1>1, TailElements
<1> QED
  BY <1>1, <1>2, <1>3, AppendWithin

LEMMA StepSource ==
  ASSUME Inv, [Next]_vars
  PROVE  SourceInv' /\ NothingInvented'
<1> USE FeedAssumption
    DEF Inv, TypeOK, SourceInv, NothingInvented, Goto, Await, hubVars, listVars
<1> DEFINE Goal == SourceInv' /\ NothingInvented'
<1>1. ASSUME NEW a \in Attempts, Spawn(a) PROVE Goal
  BY <1>1 DEF Spawn
<1>2. ASSUME NEW a \in Attempts, Logged(a) PROVE Goal
  BY <1>2 DEF Logged
<1>3. ASSUME NEW a \in Attempts, NotLogged(a) PROVE Goal
  BY <1>3 DEF NotLogged
<1>4. ASSUME NEW a \in Attempts, Take(a) PROVE Goal
  BY <1>4 DEF Take
<1>5. ASSUME NEW n \in Nodes, RoundEnds(n) PROVE Goal
  BY <1>5 DEF RoundEnds
<1>6. ASSUME NEW n \in Nodes, Start(n) PROVE Goal
  BY <1>6 DEF Start
<1>7. ASSUME NEW n \in Nodes, Stop(n) PROVE Goal
  BY <1>7 DEF Stop
<1>8. ASSUME NEW n \in Nodes, NEW p \in Pages, Write(n, p) PROVE Goal
  BY <1>8, WriteStaysLogged DEF Write
<1>9. ASSUME NEW n \in Nodes, NEW p \in Pages, WriteFails(n, p) PROVE Goal
  BY <1>9 DEF WriteFails
<1>10. ASSUME NEW p \in Pages, Connect(p) PROVE Goal
  BY <1>10, EmptyElements DEF Connect
<1>11. ASSUME NEW p \in Pages, Register(p) PROVE Goal
  BY <1>11, EmptyElements DEF Register
<1>12. ASSUME NEW p \in Pages, ReadFails(p) PROVE Goal
  BY <1>12, EmptyElements DEF ReadFails
<1>13. ASSUME NEW p \in Pages, Unregister(p) PROVE Goal
  BY <1>13, EmptyElements DEF Unregister
<1>14. ASSUME NEW p \in Pages, Fetch(p) PROVE Goal
  BY <1>14, EmptyElements DEF Fetch, Newest
<1>15. ASSUME NEW p \in Pages, Show(p) PROVE Goal
  BY <1>15, EmptyElements DEF Show
<1>16. ASSUME NEW p \in Pages, Leave(p) PROVE Goal
  BY <1>16, EmptyElements DEF Leave
<1>17. ASSUME NEW p \in Pages, Receive(p) PROVE Goal
  BY <1>17, ReceiveStaysLogged DEF Receive
<1>18. ASSUME UNCHANGED vars PROVE Goal
  BY <1>18 DEF vars
<1> QED
  BY <1>1, <1>2, <1>3, <1>4, <1>5, <1>6, <1>7, <1>8, <1>9, <1>10, <1>11, <1>12, <1>13, <1>14,
     <1>15, <1>16, <1>17, <1>18 DEF Next
------------------------------------------------------------------------------
(* A connected client gets what its hub takes.                              *)

\* What InOrder says of one client of one hub.
Pending(n, p) == IF p \in todo[n] THEN <<msg[n]>> ELSE <<>>

Delivered(p) == Cat(Cat(overwritten[p], pushed[p]), socket[p])

Ordered(n, p) == due[p] = Cat(Delivered(p), Pending(n, p))

LEMMA OrderedClients ==
  InOrder <=> \A n \in Nodes : \A p \in clients[n] : Connected(p) => Ordered(n, p)
  BY DEF InOrder, Ordered, Delivered, Pending, Cat

\* The sequences of a page, without the rest of the state.
LEMMA PageTypes ==
  ASSUME Inv, NEW p \in Pages
  PROVE  /\ overwritten[p] \in Seq(Attempts)
         /\ pushed[p] \in Seq(Attempts)
         /\ socket[p] \in Seq(Attempts)
         /\ Delivered(p) \in Seq(Attempts)
<1>1. /\ overwritten[p] \in Seq(Attempts) /\ pushed[p] \in Seq(Attempts)
      /\ socket[p] \in Seq(Attempts)
  BY DEF Inv, TypeOK
<1> QED
  BY <1>1, CatFacts DEF Delivered

\* The hub waits in its select, so nothing was pending, and the message it takes goes last.
LEMMA TakeInOrder ==
  ASSUME Inv, NEW a \in Attempts, Take(a),
         NEW n \in Nodes, NEW p \in clients'[n], Connected(p)', Connected(p) => Ordered(n, p)
  PROVE  Ordered(n, p)'
<1>1. p \in Pages /\ p \in clients[n] /\ Connected(p) /\ ServerOf[p] = n
  BY DEF Inv, TypeOK, HubInv, Take, Connected, listVars
<1>2. Delivered(p)' = Delivered(p)
  BY DEF Take, listVars, Delivered
<1>3. CASE n = NodeOf[a]
  <2>1. due'[p] = Append(due[p], a)
    BY <1>1, <1>3 DEF Take
  <2>2. Pending(n, p) = <<>>
    BY <1>3 DEF Pending, Take, Inv, HubInv
  <2>3. Pending(n, p)' = <<a>>
    BY <1>1, <1>3 DEF Pending, Take, Inv, TypeOK
  <2>4. Delivered(p) \in Seq(Attempts)
    BY <1>1, PageTypes
  <2>5. due[p] = Delivered(p)
    BY <1>1, <2>2, <2>4, CatFacts DEF Ordered
  <2>6. due'[p] = Cat(Delivered(p), <<a>>)
    BY <2>1, <2>4, <2>5, CatFacts
  <2> QED
    BY <1>2, <2>3, <2>6 DEF Ordered
<1>4. CASE n # NodeOf[a]
  <2>1. due'[p] = due[p]
    BY <1>1, <1>4, FeedAssumption DEF Take, Inv, HubInv
  <2>2. Pending(n, p)' = Pending(n, p)
    BY <1>4 DEF Pending, Take, Inv, TypeOK
  <2> QED
    BY <1>1, <1>2, <2>1, <2>2 DEF Ordered
<1> QED
  BY <1>3, <1>4

LEMMA WriteInOrder ==
  ASSUME Inv, NEW m \in Nodes, NEW q \in Pages, Write(m, q),
         NEW n \in Nodes, NEW p \in clients'[n], Connected(p)', Connected(p) => Ordered(n, p)
  PROVE  Ordered(n, p)'
<1>1. p \in Pages /\ p \in clients[n] /\ Connected(p) /\ ServerOf[p] = n
  BY DEF Inv, TypeOK, HubInv, Write, Connected, listVars
<1>2. due' = due /\ overwritten' = overwritten /\ pushed' = pushed
  BY DEF Write, listVars
<1>3. CASE q = p
  <2>1. m = n /\ p \in todo[n] /\ msg[n] \in Attempts
    BY <1>1, <1>3 DEF Write, Inv, TypeOK, HubInv
  <2>2. socket'[p] = Append(socket[p], msg[n]) /\ p \notin todo'[n]
    BY <1>1, <1>3, <2>1 DEF Write, Inv, TypeOK
  <2>3. /\ overwritten[p] \in Seq(Attempts) /\ pushed[p] \in Seq(Attempts)
        /\ socket[p] \in Seq(Attempts)
    BY <1>1, PageTypes
  <2>4. PICK u \in Seq(Attempts) : u = <<msg[n]>>
    BY <2>1, CatFacts
  <2>5. socket'[p] = Cat(socket[p], u)
    BY <2>1, <2>2, <2>3, <2>4, CatFacts
  <2>6. Cat(Cat(Cat(overwritten[p], pushed[p]), socket[p]), u)
          = Cat(Cat(Cat(overwritten[p], pushed[p]), Cat(socket[p], u)), <<>>)
    BY <2>3, WritePreservesOrder
  <2>7. due[p] = Cat(Cat(Cat(overwritten[p], pushed[p]), socket[p]), u)
    BY <1>1, <2>1, <2>4 DEF Ordered, Delivered, Pending
  <2> QED
    BY <1>2, <2>2, <2>5, <2>6, <2>7 DEF Ordered, Delivered, Pending
<1>4. CASE q # p
  <2>1. socket'[p] = socket[p] /\ Pending(n, p)' = Pending(n, p)
    BY <1>1, <1>4 DEF Write, Pending, Inv, TypeOK
  <2> QED
    BY <1>1, <1>2, <2>1 DEF Ordered, Delivered
<1> QED
  BY <1>3, <1>4

\* Whoever registers has neither missed nor received anything.
LEMMA RegisterInOrder ==
  ASSUME Inv, NEW q \in Pages, Register(q),
         NEW n \in Nodes, NEW p \in clients'[n], Connected(p)',
         p \in clients[n] /\ Connected(p) => Ordered(n, p)
  PROVE  Ordered(n, p)'
<1>1. /\ due' = due /\ overwritten' = overwritten /\ pushed' = pushed /\ socket' = socket
      /\ todo' = todo /\ msg' = msg
  BY DEF Register, listVars
<1>2. Ordered(n, p)' <=> Ordered(n, p)
  BY <1>1 DEF Ordered, Delivered, Pending
<1>3. CASE q = p
  <2>1. ServerOf[p] \in Nodes /\ conn[p] = "registering" /\ hub[ServerOf[p]] = "select"
    BY <1>3, FeedAssumption DEF Register
  <2>2. p \notin clients[n] /\ p \notin todo[n]
    BY <2>1 DEF Inv, HubInv
  <2>3. due[p] = <<>> /\ socket[p] = <<>> /\ pushed[p] = <<>> /\ overwritten[p] = <<>>
    BY <1>3 DEF Register, Inv, QuietInv
  <2>4. Cat(<<>>, <<>>) = <<>>
    BY CatFacts
  <2> QED
    BY <1>2, <2>2, <2>3, <2>4 DEF Ordered, Delivered, Pending
<1>4. CASE q # p
  <2>1. p \in clients[n] /\ Connected(p)
    BY <1>4 DEF Register, Await, Connected, Inv, TypeOK, listVars
  <2> QED
    BY <1>2, <2>1
<1> QED
  BY <1>3, <1>4

\* What the fetch replaces is remembered as overwritten.
LEMMA ShowInOrder ==
  ASSUME Inv, NEW q \in Pages, Show(q),
         NEW n \in Nodes, NEW p \in clients'[n], Connected(p)', Connected(p) => Ordered(n, p)
  PROVE  Ordered(n, p)'
<1>1. p \in Pages /\ Connected(p)
  BY DEF Inv, TypeOK, Show, Connected, hubVars
<1>2. due' = due /\ socket' = socket /\ Pending(n, p)' = Pending(n, p)
  BY DEF Show, Pending, hubVars
<1>3. Cat(overwritten'[p], pushed'[p]) = Cat(overwritten[p], pushed[p])
  <2>1. CASE q = p
    <3>1. overwritten'[p] = Cat(overwritten[p], pushed[p]) /\ pushed'[p] = <<>>
      BY <2>1 DEF Show, Inv, TypeOK, Cat
    <3>2. overwritten[p] \in Seq(Attempts) /\ pushed[p] \in Seq(Attempts)
      BY <1>1, PageTypes
    <3> QED
      BY <3>1, <3>2, CatFacts
  <2>2. CASE q # p
    BY <2>2 DEF Show, Inv, TypeOK
  <2> QED
    BY <2>1, <2>2
<1> QED
  BY <1>1, <1>2, <1>3 DEF Ordered, Delivered

LEMMA ReceiveInOrder ==
  ASSUME Inv, NEW q \in Pages, Receive(q),
         NEW n \in Nodes, NEW p \in clients'[n], Connected(p)', Connected(p) => Ordered(n, p)
  PROVE  Ordered(n, p)'
<1>1. p \in Pages /\ Connected(p)
  BY DEF Inv, TypeOK, Receive, Connected, hubVars
<1>2. due' = due /\ overwritten' = overwritten /\ Pending(n, p)' = Pending(n, p)
  BY DEF Receive, Pending, hubVars
<1>3. Cat(Cat(overwritten[p], pushed'[p]), socket'[p]) = Delivered(p)
  <2>1. CASE q = p
    <3>1. /\ socket[p] # <<>>
          /\ socket'[p] = Tail(socket[p])
          /\ pushed'[p] = Append(pushed[p], Head(socket[p]))
      BY <2>1 DEF Receive, Inv, TypeOK
    <3>2. /\ overwritten[p] \in Seq(Attempts) /\ pushed[p] \in Seq(Attempts)
          /\ socket[p] \in Seq(Attempts)
      BY <1>1, PageTypes
    <3>3. PICK u, t \in Seq(Attempts) :
            /\ Tail(socket[p]) = t /\ socket[p] = Cat(u, t)
            /\ \A l \in Seq(Attempts) : Append(l, Head(socket[p])) = Cat(l, u)
      BY <3>1, <3>2, HeadAndTail
    <3>4. pushed'[p] = Cat(pushed[p], u) /\ socket'[p] = t
      BY <3>1, <3>2, <3>3
    <3>5. Cat(Cat(overwritten[p], pushed[p]), Cat(u, t))
            = Cat(Cat(overwritten[p], Cat(pushed[p], u)), t)
      BY <3>2, <3>3, ReceivePreservesOrder
    <3> QED
      BY <3>3, <3>4, <3>5 DEF Delivered
  <2>2. CASE q # p
    BY <2>2 DEF Receive, Inv, TypeOK, Delivered
  <2> QED
    BY <2>1, <2>2
<1> QED
  BY <1>1, <1>2, <1>3 DEF Ordered, Delivered

\* The other actions leave the sequences of a connected client alone.
LEMMA StepOrder ==
  ASSUME Inv, [Next]_vars
  PROVE  InOrder'
<1>1. SUFFICES ASSUME NEW n \in Nodes, NEW p \in clients'[n], Connected(p)'
               PROVE  Ordered(n, p)'
  BY DEF InOrder, Ordered, Delivered, Pending, Cat
<1>2. p \in clients[n] /\ Connected(p) => Ordered(n, p)
  BY OrderedClients DEF Inv
<1>3. p \in Pages
  BY StepType DEF TypeOK
<1> USE DEF Ordered, Delivered, Pending, hubVars, listVars
<1>4. ASSUME NEW a \in Attempts, Spawn(a) \/ Logged(a) \/ NotLogged(a) PROVE Ordered(n, p)'
  BY <1>1, <1>2, <1>4 DEF Spawn, Logged, NotLogged, Connected
<1>5. ASSUME NEW a \in Attempts, Take(a) PROVE Ordered(n, p)'
  <2>1. p \in clients[n]
    BY <1>5 DEF Take
  <2> QED
    BY <1>1, <1>2, <1>5, <2>1, TakeInOrder
<1>6. ASSUME NEW m \in Nodes, RoundEnds(m) PROVE Ordered(n, p)'
  BY <1>1, <1>2, <1>6 DEF RoundEnds, Connected, Inv, TypeOK
<1>7. ASSUME NEW m \in Nodes, Start(m) PROVE Ordered(n, p)'
  BY <1>1, <1>2, <1>7 DEF Start, Connected
<1>8. ASSUME NEW m \in Nodes, Stop(m) PROVE Ordered(n, p)'
  <2>1. n # m /\ p \in clients[n] /\ todo'[n] = todo[n] /\ msg'[n] = msg[n]
    BY <1>1, <1>8 DEF Stop, Inv, TypeOK
  <2>2. page' = page /\ conn'[p] \in {conn[p], "gone"}
    BY <1>3, <1>8 DEF Stop, Inv, TypeOK
  <2>3. Connected(p)
    BY <1>1, <2>2 DEF Connected
  <2> QED
    BY <1>2, <1>8, <2>1, <2>3 DEF Stop
<1>9. ASSUME NEW m \in Nodes, NEW q \in Pages, Write(m, q) PROVE Ordered(n, p)'
  <2>1. p \in clients[n]
    BY <1>9 DEF Write
  <2> QED
    BY <1>1, <1>2, <1>9, <2>1, WriteInOrder
<1>10. ASSUME NEW m \in Nodes, NEW q \in Pages, WriteFails(m, q) PROVE Ordered(n, p)'
  <2>1. p \in clients[n] /\ (p \in todo'[n] <=> p \in todo[n])
    BY <1>1, <1>10 DEF WriteFails, Inv, TypeOK
  <2> QED
    BY <1>1, <1>2, <1>10, <2>1 DEF WriteFails, Connected
<1>11. ASSUME NEW q \in Pages, Connect(q) PROVE Ordered(n, p)'
  <2>1. Connected(p)
    BY <1>1, <1>3, <1>11 DEF Connect, Await, Connected, Inv, TypeOK
  <2> QED
    BY <1>1, <1>2, <1>11, <2>1 DEF Connect
<1>12. ASSUME NEW q \in Pages, Register(q) PROVE Ordered(n, p)'
  BY <1>1, <1>2, <1>12, RegisterInOrder
<1>13. ASSUME NEW q \in Pages, ReadFails(q) PROVE Ordered(n, p)'
  <2>1. q # p /\ Connected(p)
    BY <1>1, <1>3, <1>13 DEF ReadFails, Await, Connected, Inv, TypeOK
  <2>2. due'[p] = due[p] /\ socket'[p] = socket[p]
    BY <1>3, <1>13, <2>1 DEF ReadFails, Inv, TypeOK
  <2> QED
    BY <1>1, <1>2, <1>13, <2>1, <2>2 DEF ReadFails
<1>14. ASSUME NEW q \in Pages, Unregister(q) PROVE Ordered(n, p)'
  <2>1. Connected(p) /\ p \in clients[n]
    BY <1>1, <1>3, <1>14 DEF Unregister, Await, Connected, Inv, TypeOK
  <2> QED
    BY <1>2, <1>14, <2>1 DEF Unregister
<1>15. ASSUME NEW q \in Pages, Fetch(q) PROVE Ordered(n, p)'
  BY <1>1, <1>2, <1>15 DEF Fetch, Connected
<1>16. ASSUME NEW q \in Pages, Show(q) PROVE Ordered(n, p)'
  <2>1. p \in clients[n]
    BY <1>16 DEF Show
  <2> QED
    BY <1>1, <1>2, <1>16, <2>1, ShowInOrder
<1>17. ASSUME NEW q \in Pages, Receive(q) PROVE Ordered(n, p)'
  <2>1. p \in clients[n]
    BY <1>17 DEF Receive
  <2> QED
    BY <1>1, <1>2, <1>17, <2>1, ReceiveInOrder
<1>18. ASSUME NEW q \in Pages, Leave(q) PROVE Ordered(n, p)'
  <2>1. q # p /\ Connected(p)
    BY <1>1, <1>3, <1>18 DEF Leave, Connected, Inv, TypeOK
  <2>2. /\ due'[p] = due[p] /\ socket'[p] = socket[p]
        /\ pushed'[p] = pushed[p] /\ overwritten'[p] = overwritten[p]
    BY <1>3, <1>18, <2>1 DEF Leave, Inv, TypeOK
  <2> QED
    BY <1>1, <1>2, <1>18, <2>1, <2>2 DEF Leave
<1>19. ASSUME UNCHANGED vars PROVE Ordered(n, p)'
  BY <1>1, <1>2, <1>19 DEF vars, Connected
<1> QED
  BY <1>4, <1>5, <1>6, <1>7, <1>8, <1>9, <1>10, <1>11, <1>12, <1>13, <1>14, <1>15, <1>16,
     <1>17, <1>18, <1>19 DEF Next

------------------------------------------------------------------------------
(* The theorems.                                                            *)

\* The inductive invariant holds throughout.
THEOREM InvHolds == Spec => []Inv
<1>1. Inv /\ [Next]_vars => Inv'
  <2> SUFFICES ASSUME Inv, [Next]_vars PROVE Inv'
    OBVIOUS
  <2> QED
    BY StepType, StepHub, StepQuiet, StepSource, StepOrder DEF Inv
<1> QED
  BY <1>1, InitInv, PTL DEF Spec

\* Whatever fails, dies or overlaps, a page shows only what reserve_log holds.
THEOREM ListsAreLogged == Spec => []NothingInvented
<1>1. Inv => NothingInvented
  BY DEF Inv
<1> QED
  BY <1>1, InvHolds, PTL

\* A connected client gets all its hub takes after it registered, each message once and in order,
\* whatever happens to the other clients.
THEOREM ClientsMissNothing == Spec => []InOrder
<1>1. Inv => InOrder
  BY DEF Inv
<1> QED
  BY <1>1, InvHolds, PTL
=============================================================================
