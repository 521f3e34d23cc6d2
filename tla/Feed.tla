--------------------------------- MODULE Feed ---------------------------------
(***************************************************************************)
(* What an attempt leaves for people to see: the goroutine that writes the *)
(* reserve log and hands a message to the hub of its node, the hub that    *)
(* writes it to the WebSocket of each of its clients, and the list of a    *)
(* page, which is fetched once and then prepended to by the messages.      *)
(* An entry of the log is its rank by created_at, which orders a fetch and *)
(* not the INSERTs.  Pages are open from the start: the fetch and the      *)
(* WebSocket of each run side by side, and neither is made a second time.  *)
(***************************************************************************)
EXTENDS Naturals, FiniteSets, Sequences

CONSTANTS
  Attempts,     \* attempts the handler has worked off, by the rank of their log entries
  Nodes,        \* processes of cmd/api, each with a hub
  NodeOf,       \* the node that serves each attempt
  Pages,        \* browser pages with a ReservationList
  ServerOf,     \* the node to which the WebSocket of each page leads
  Answered,     \* pages whose GET is answered; one that fails leaves the list as it is
  Limit,        \* entries of a fetch: 10
  SocketRoom,   \* messages that fit into the buffers of a connection
  None          \* no message

ASSUME FeedAssumption ==
  /\ Attempts \subseteq Nat
  /\ NodeOf \in [Attempts -> Nodes]
  /\ ServerOf \in [Pages -> Nodes]
  /\ Answered \subseteq Pages
  /\ Limit \in Nat \ {0}
  /\ SocketRoom \in Nat \ {0}
  /\ None \notin Attempts

VARIABLES
  task,         \* where the log goroutine of each attempt stands
  log,          \* the rows of reserve_log
  hub,          \* whether the hub of each node waits in its select or writes a message
  msg,          \* the message it writes
  todo,         \* the clients to which it still has to write it
  clients,      \* Hub.clients
  conn,         \* where the handler of each page's WebSocket stands
  socket,       \* the messages under way to each page
  page,         \* whether each page is open
  fetch,        \* where its GET stands
  answer,       \* what the GET has read
  fetched,      \* the entries of the list that come from the fetch
  pushed,       \* the entries before them, in the order in which they arrived
  overwritten,  \* ghost: the entries that were pushed and then replaced by the fetch
  due           \* ghost: the messages its hub has taken while each page has been a connected client

hubVars  == <<hub, msg, todo, clients, due>>
listVars == <<page, fetch, answer, fetched, pushed, overwritten>>
vars     == <<task, log, hubVars, conn, socket, listVars>>

------------------------------------------------------------------------------

Init ==
  /\ task = [a \in Attempts |-> "none"]
  /\ log = {}
  /\ hub = [n \in Nodes |-> "down"]
  /\ msg = [n \in Nodes |-> None]
  /\ todo = [n \in Nodes |-> {}]
  /\ clients = [n \in Nodes |-> {}]
  /\ conn = [p \in Pages |-> "none"]
  /\ socket = [p \in Pages |-> <<>>]
  /\ page = [p \in Pages |-> "open"]
  /\ fetch = [p \in Pages |-> "asked"]
  /\ answer = [p \in Pages |-> {}]
  /\ fetched = [p \in Pages |-> {}]
  /\ pushed = [p \in Pages |-> <<>>]
  /\ overwritten = [p \in Pages |-> <<>>]
  /\ due = [p \in Pages |-> <<>>]

\* Both ends of the connection are there.
Connected(p) == page[p] = "open" /\ conn[p] = "reading"

Goto(a, label) == task' = [task EXCEPT ![a] = label]

Await(p, label) == conn' = [conn EXCEPT ![p] = label]

------------------------------------------------------------------------------
(* The log goroutine.                                                       *)

\* The handler starts it before it answers, and nothing waits for its end.
Spawn(a) ==
  /\ task[a] = "none"
  /\ hub[NodeOf[a]] # "down"
  /\ Goto(a, "insert")
  /\ UNCHANGED <<log, hubVars, conn, socket, listVars>>

\* The INSERT is executed, if need be again by database/sql: the second row of such an attempt is not
\* told from the first.
Logged(a) ==
  /\ task[a] = "insert"
  /\ log' = log \cup {a}
  /\ Goto(a, "send")
  /\ UNCHANGED <<hubVars, conn, socket, listVars>>

\* Faulty variant: the message is sent although the INSERT failed.
NotLoggedButSent(a) ==
  /\ task[a] = "insert"
  /\ Goto(a, "send")
  /\ UNCHANGED <<log, hubVars, conn, socket, listVars>>

\* The INSERT fails, or its reply is lost: the goroutine ends without a message.
NotLogged(a) ==
  /\ task[a] = "insert"
  /\ \/ UNCHANGED log
     \/ log' = log \cup {a}
  /\ Goto(a, "over")
  /\ UNCHANGED <<hubVars, conn, socket, listVars>>

------------------------------------------------------------------------------
(* The hub: one goroutine and three unbuffered channels.                    *)

\* h.broadcast: the hub takes the message from the goroutine, which ends, and begins to write it.
Take(a) ==
  LET n == NodeOf[a]
  IN  /\ task[a] = "send"
      /\ hub[n] = "select"
      /\ Goto(a, "over")
      /\ hub' = [hub EXCEPT ![n] = "write"]
      /\ msg' = [msg EXCEPT ![n] = a]
      /\ todo' = [todo EXCEPT ![n] = clients[n]]
      /\ due' = [p \in Pages |-> IF p \in clients[n] /\ Connected(p) THEN Append(due[p], a)
                                                                    ELSE due[p]]
      /\ UNCHANGED <<log, clients, conn, socket, listVars>>

\* WriteJSON has no deadline: it waits for room in the buffers of the connection.  For a while it
\* succeeds although the connection is broken.
Write(n, p) ==
  /\ p \in todo[n]
  /\ Len(socket[p]) < SocketRoom
  /\ socket' = [socket EXCEPT ![p] = IF Connected(p) THEN Append(@, msg[n]) ELSE @]
  /\ todo' = [todo EXCEPT ![n] = @ \ {p}]
  /\ UNCHANGED <<task, log, hub, msg, clients, due, conn, listVars>>

\* Faulty variant: the hub closes the connection and keeps the client.
WriteFailsKeepsClient(n, p) ==
  /\ p \in todo[n]
  /\ todo' = [todo EXCEPT ![n] = @ \ {p}]
  /\ UNCHANGED <<task, log, hub, msg, clients, due, conn, socket, listVars>>

\* Faulty variant: the first error ends the round.
WriteFailsEndsRound(n, p) ==
  /\ p \in todo[n]
  /\ todo' = [todo EXCEPT ![n] = {}]
  /\ clients' = [clients EXCEPT ![n] = @ \ {p}]
  /\ UNCHANGED <<task, log, hub, msg, due, conn, socket, listVars>>

\* The connection is broken: the hub closes it and forgets the client.
WriteFails(n, p) ==
  /\ p \in todo[n]
  /\ todo' = [todo EXCEPT ![n] = @ \ {p}]
  /\ clients' = [clients EXCEPT ![n] = @ \ {p}]
  /\ UNCHANGED <<task, log, hub, msg, due, conn, socket, listVars>>

\* Faulty variant: the hub's goroutine returns when no client is left.
RoundEndsWithClients(n) ==
  /\ hub[n] = "write"
  /\ todo[n] = {}
  /\ clients[n] # {}
  /\ hub' = [hub EXCEPT ![n] = "select"]
  /\ msg' = [msg EXCEPT ![n] = None]
  /\ UNCHANGED <<task, log, todo, clients, due, conn, socket, listVars>>

RoundEnds(n) ==
  /\ hub[n] = "write"
  /\ todo[n] = {}
  /\ hub' = [hub EXCEPT ![n] = "select"]
  /\ msg' = [msg EXCEPT ![n] = None]
  /\ UNCHANGED <<task, log, todo, clients, due, conn, socket, listVars>>

------------------------------------------------------------------------------
(* websocket.Handler.                                                       *)

\* The upgrade succeeds; the handler waits until the hub takes its connection.  A page whose upgrade
\* failed is one for which this never happens.
Connect(p) ==
  /\ page[p] = "open"
  /\ conn[p] = "none"
  /\ hub[ServerOf[p]] # "down"
  /\ Await(p, "registering")
  /\ UNCHANGED <<task, log, hubVars, socket, listVars>>

Register(p) ==
  LET n == ServerOf[p]
  IN  /\ conn[p] = "registering"
      /\ hub[n] = "select"
      /\ Await(p, "reading")
      /\ clients' = [clients EXCEPT ![n] = @ \cup {p}]
      /\ UNCHANGED <<task, log, hub, msg, todo, due, socket, listVars>>

\* ReadMessage returns an error: the page is gone, the hub has closed the connection, or it broke,
\* and what was under way may be lost.
ReadFails(p) ==
  /\ conn[p] = "reading"
  /\ Await(p, "unregistering")
  /\ \/ UNCHANGED socket
     \/ socket' = [socket EXCEPT ![p] = <<>>]
  /\ due' = [due EXCEPT ![p] = <<>>]
  /\ UNCHANGED <<task, log, hub, msg, todo, clients, listVars>>

Unregister(p) ==
  LET n == ServerOf[p]
  IN  /\ conn[p] = "unregistering"
      /\ hub[n] = "select"
      /\ Await(p, "gone")
      /\ clients' = [clients EXCEPT ![n] = @ \ {p}]
      /\ UNCHANGED <<task, log, hub, msg, todo, due, socket, listVars>>

------------------------------------------------------------------------------
(* The page.                                                                *)

\* ORDER BY created_at DESC LIMIT Limit.
Newest(S) == {a \in S : Cardinality({b \in S : b > a}) < Limit}

Fetch(p) ==
  /\ page[p] = "open"
  /\ p \in Answered
  /\ fetch[p] = "asked"
  /\ fetch' = [fetch EXCEPT ![p] = "answered"]
  /\ answer' = [answer EXCEPT ![p] = Newest(log)]
  /\ UNCHANGED <<task, log, hubVars, conn, socket, page, fetched, pushed, overwritten>>

\* setReservations replaces the whole list, pushed entries included.
Show(p) ==
  /\ page[p] = "open"
  /\ fetch[p] = "answered"
  /\ fetch' = [fetch EXCEPT ![p] = "over"]
  /\ answer' = [answer EXCEPT ![p] = {}]
  /\ fetched' = [fetched EXCEPT ![p] = answer[p]]
  /\ overwritten' = [overwritten EXCEPT ![p] = @ \o pushed[p]]
  /\ pushed' = [pushed EXCEPT ![p] = <<>>]
  /\ UNCHANGED <<task, log, hubVars, conn, socket, page>>

\* ws.onmessage prepends an entry.
Receive(p) ==
  /\ page[p] = "open"
  /\ socket[p] # <<>>
  /\ socket' = [socket EXCEPT ![p] = Tail(@)]
  /\ pushed' = [pushed EXCEPT ![p] = Append(@, Head(socket[p]))]
  /\ UNCHANGED <<task, log, hubVars, conn, page, fetch, answer, fetched, overwritten>>

\* The page is closed, and its list, its requests and its end of the connection go with it.
Leave(p) ==
  /\ page[p] = "open"
  /\ page' = [page EXCEPT ![p] = "left"]
  /\ socket' = [socket EXCEPT ![p] = <<>>]
  /\ fetch' = [fetch EXCEPT ![p] = "over"]
  /\ answer' = [answer EXCEPT ![p] = {}]
  /\ fetched' = [fetched EXCEPT ![p] = {}]
  /\ pushed' = [pushed EXCEPT ![p] = <<>>]
  /\ overwritten' = [overwritten EXCEPT ![p] = <<>>]
  /\ due' = [due EXCEPT ![p] = <<>>]
  /\ UNCHANGED <<task, log, hub, msg, todo, clients, conn>>

------------------------------------------------------------------------------
(* The nodes.                                                               *)

Start(n) ==
  /\ hub[n] = "down"
  /\ hub' = [hub EXCEPT ![n] = "select"]
  /\ UNCHANGED <<task, log, msg, todo, clients, due, conn, socket, listVars>>

\* The process dies, or exits: Shutdown waits neither for the log goroutines nor for hijacked
\* connections.  INSERTs under way may have been executed.
Stop(n) ==
  LET Working == {a \in Attempts : NodeOf[a] = n /\ task[a] \in {"insert", "send"}}
  IN  /\ hub[n] # "down"
      /\ hub' = [hub EXCEPT ![n] = "down"]
      /\ msg' = [msg EXCEPT ![n] = None]
      /\ todo' = [todo EXCEPT ![n] = {}]
      /\ clients' = [clients EXCEPT ![n] = {}]
      /\ task' = [a \in Attempts |-> IF a \in Working THEN "over" ELSE task[a]]
      /\ \E done \in SUBSET {a \in Working : task[a] = "insert"} : log' = log \cup done
      /\ conn' = [p \in Pages |-> IF ServerOf[p] = n /\ conn[p] # "none" THEN "gone"
                                                                         ELSE conn[p]]
      /\ UNCHANGED <<due, socket, listVars>>

------------------------------------------------------------------------------

Next ==
  \/ \E a \in Attempts : Spawn(a) \/ Logged(a) \/ NotLogged(a) \/ Take(a)
  \/ \E n \in Nodes : RoundEnds(n) \/ Start(n) \/ Stop(n)
  \/ \E n \in Nodes, p \in Pages : Write(n, p) \/ WriteFails(n, p)
  \/ \E p \in Pages :
       \/ Connect(p) \/ Register(p) \/ ReadFails(p) \/ Unregister(p)
       \/ Fetch(p) \/ Show(p) \/ Receive(p) \/ Leave(p)

Spec == Init /\ [][Next]_vars

\* Fairness: goroutines that can run do, and a select that is ready for several of them again and
\* again takes each in the end.  A connection is only sure to break when its page is gone, and pages
\* are assumed to read what they are sent: WriteJSON would wait for one that does not.
Fairness ==
  /\ \A a \in Attempts : WF_vars(Logged(a) \/ NotLogged(a)) /\ SF_vars(Take(a))
  /\ \A n \in Nodes :
       WF_vars(\/ RoundEnds(n)
               \/ \E p \in Pages : Write(n, p) \/ (page[p] = "left" /\ WriteFails(n, p)))
  /\ \A p \in Pages :
       /\ WF_vars(Receive(p))
       /\ SF_vars(Register(p) \/ Unregister(p))
       /\ WF_vars(page[p] = "left" /\ ReadFails(p))

FairSpec == Spec /\ Fairness

------------------------------------------------------------------------------
(* Properties.                                                              *)

TypeOK ==
  /\ task \in [Attempts -> {"none", "insert", "send", "over"}]
  /\ log \subseteq Attempts
  /\ hub \in [Nodes -> {"down", "select", "write"}]
  /\ msg \in [Nodes -> Attempts \cup {None}]
  /\ todo \in [Nodes -> SUBSET Pages]
  /\ clients \in [Nodes -> SUBSET Pages]
  /\ conn \in [Pages -> {"none", "registering", "reading", "unregistering", "gone"}]
  /\ socket \in [Pages -> Seq(Attempts)]
  /\ page \in [Pages -> {"open", "left"}]
  /\ fetch \in [Pages -> {"asked", "answered", "over"}]
  /\ answer \in [Pages -> SUBSET Attempts]
  /\ fetched \in [Pages -> SUBSET Attempts]
  /\ pushed \in [Pages -> Seq(Attempts)]
  /\ overwritten \in [Pages -> Seq(Attempts)]
  /\ due \in [Pages -> Seq(Attempts)]

Elements(s) == {s[i] : i \in DOMAIN s}

\* A page shows nothing that is not in the log, wherever the entry came from.
NothingInvented ==
  \A p \in Pages : fetched[p] \cup Elements(pushed[p]) \subseteq log

\* What a connected client has received, is going to receive and still has to be written is all that
\* its hub has taken since it registered the client, in that order: broken connections, pages that
\* come and go and a full socket cost the others nothing, and no message reaches a page twice.
InOrder ==
  \A n \in Nodes : \A p \in clients[n] :
    Connected(p) =>
      due[p] = overwritten[p] \o pushed[p] \o socket[p] \o (IF p \in todo[n] THEN <<msg[n]>>
                                                                          ELSE <<>>)

\* Nobody waits for the hub for ever, neither a log goroutine nor a handler that registers or
\* unregisters its connection: whatever the clients do short of not reading, the hub comes back to
\* its select and takes them all.
GoroutinesEnd ==
  /\ \A a \in Attempts : task[a] \in {"insert", "send"} ~> task[a] = "over"
  /\ \A p \in Pages :
       conn[p] \in {"registering", "unregistering"} ~> conn[p] \in {"reading", "gone"}

Received(p) == Elements(overwritten[p] \o pushed[p])

\* "We send the event to all clients": a client of the node that logs an attempt gets the message,
\* unless somebody goes away.  The clients of other nodes are told nothing.
ReachesClients ==
  \A a \in Attempts, p \in Pages :
    task[a] = "send" /\ p \in clients[NodeOf[a]]
      ~> \/ a \in Received(p)
         \/ ~Connected(p) \/ p \notin clients[NodeOf[a]]
         \/ hub[NodeOf[a]] = "down"

------------------------------------------------------------------------------
(* The inductive invariant behind NothingInvented and InOrder.              *)

\* A hub that writes has a message, and writes it to clients; clients have been registered.
HubInv ==
  \A n \in Nodes :
    /\ hub[n] = "write" <=> msg[n] # None
    /\ todo[n] \subseteq clients[n]
    /\ todo[n] # {} => hub[n] = "write"
    /\ \A p \in clients[n] : ServerOf[p] = n /\ conn[p] \in {"reading", "unregistering"}

\* Nothing is on its way to a page before it is registered.
QuietInv ==
  \A p \in Pages : conn[p] \in {"none", "registering"} =>
    due[p] = <<>> /\ socket[p] = <<>> /\ pushed[p] = <<>> /\ overwritten[p] = <<>>

\* Whatever is under way to a page is in the log.
SourceInv ==
  /\ \A a \in Attempts : task[a] = "send" => a \in log
  /\ \A n \in Nodes : msg[n] # None => msg[n] \in log
  /\ \A p \in Pages : answer[p] \cup Elements(socket[p]) \subseteq log

Inv == TypeOK /\ HubInv /\ QuietInv /\ SourceInv /\ NothingInvented /\ InOrder
=============================================================================
