------------------------------- MODULE FanOut -------------------------------
(***************************************************************************)
(* From a commit to the traders' screens: trade_events.py publishes on a   *)
(* Redis channel; start_redis_listener of core/pubsub.py, the one task     *)
(* that takes the messages, sends them to the sockets websocket/manager.py *)
(* knows; endpoints/websocket.py is each socket's handler.  All run on one *)
(* event loop: the listener walks live dicts and sets and gives the loop   *)
(* away at every send, and the handlers change them meanwhile.  (One       *)
(* channel and symbol: the bucket the account's screens subscribe to.)     *)
(***************************************************************************)
EXTENDS Integers, FiniteSets, Sequences, SequencesExt

CONSTANTS
  Traders,      \* users with an account
  Sockets,      \* websocket connections ever made
  MaxEvents     \* bound: events ever published

ASSUME FanAssumption == MaxEvents \in Nat

VARIABLES
  channel,    \* delivered to the listener's Redis connection, not yet taken
  told,       \* every event published so far, in order
  sock,       \* the connection behind each socket
  conns,      \* manager.connections of the bucket: trader -> sockets
  listener,   \* where the listener task is
  got         \* what each client has received

fanVars == <<channel, told, sock, conns, listener, got>>

ALL     == "all"     \* no user_id: for everybody (publish_alert_event)
Message == [n : 1 .. MaxEvents, user : Traders \cup {ALL}]

Waiting == [at |-> "waiting", msg |-> <<>>, keys |-> 0, todo |-> {}, cur |-> {},
            from |-> {}, visited |-> {}, dead |-> {}]

FanInit ==
  /\ channel = <<>> /\ told = <<>>
  /\ sock = [w \in Sockets |-> [st |-> "new", user |-> "nobody"]]
  /\ conns = [u \in Traders |-> {}]
  /\ listener = Waiting
  /\ got = [w \in Sockets |-> <<>>]

-----------------------------------------------------------------------------
(* Publishing, after the commit; a failure is logged and swallowed.        *)

Publish(u) ==
  /\ Len(told) < MaxEvents
  /\ LET e == [n |-> Len(told) + 1, user |-> u]
     IN  told' = Append(told, e) /\ channel' = Append(channel, e)
  /\ UNCHANGED <<sock, conns, listener, got>>

-----------------------------------------------------------------------------
(* The socket handlers.                                                    *)

\* The token names the trader once; "subscribe" adds the socket to the trader's set.
Subscribe(w, u) ==
  /\ sock[w].st = "new"
  /\ sock' = [sock EXCEPT ![w] = [st |-> "open", user |-> u]]
  /\ conns' = [conns EXCEPT ![u] = @ \cup {w}]
  /\ UNCHANGED <<channel, told, listener, got>>

\* The client goes away: sends raise, or are lost, until the handler notices.
Breaks(w) ==
  /\ sock[w].st = "open"
  /\ sock' = [sock EXCEPT ![w].st = "broken"]
  /\ UNCHANGED <<channel, told, conns, listener, got>>

\* The handler's finally.
Disconnect(w) ==
  /\ sock[w].st = "broken"
  /\ sock' = [sock EXCEPT ![w].st = "closed"]
  /\ conns' = [u \in Traders |-> conns[u] \ {w}]
  /\ UNCHANGED <<channel, told, listener, got>>

-----------------------------------------------------------------------------
(* The listener: send_to_user for a message with a user_id, else           *)
(* broadcast_symbol.  Only its walks give the loop away.                   *)

Current == Head(listener.msg)

\* The keys of the bucket: a trader's stays when the last socket is gone.
Known == {u \in Traders : \E w \in Sockets : sock[w].user = u}

AnyRecipient(e) == Known

\* The traders whose sets the message is walked over.
Recipients(e) == IF e.user = ALL THEN Known ELSE Known \cap {e.user}

Take ==
  /\ listener.at = "waiting" /\ channel # <<>>
  /\ listener' = [Waiting EXCEPT !.at = "walking", !.msg = <<Head(channel)>>,
       !.keys = Cardinality(Known), !.todo = Recipients(Head(channel))]
  /\ channel' = Tail(channel)
  /\ UNCHANGED <<told, sock, conns, got>>

\* A dict or a set that has changed its size raises RuntimeError when it is asked for
\* its next element.  send_to_user walks no dict.
DictIntact == Current.user = ALL => Cardinality(Known) = listener.keys
SetIntact  == \A u \in listener.cur : Cardinality(conns[u]) = Cardinality(listener.from)

NextTrader(u) ==
  /\ listener.at = "walking" /\ listener.cur = {} /\ DictIntact
  /\ u \in listener.todo
  /\ listener' = [listener EXCEPT !.cur = {u}, !.todo = @ \ {u},
       !.from = conns[u], !.visited = {}]
  /\ UNCHANGED <<channel, told, sock, conns, got>>

Send(u, w) ==
  /\ listener.cur = {u} /\ SetIntact
  /\ w \in conns[u] \ listener.visited
  /\ \/ /\ sock[w].st = "open"
        /\ got' = [got EXCEPT ![w] = Append(@, Current)]
        /\ listener' = [listener EXCEPT !.visited = @ \cup {w}]
     \/ /\ sock[w].st # "open"
        /\ \E raised \in BOOLEAN :
             listener' = [listener EXCEPT !.visited = @ \cup {w},
                            !.dead = IF raised THEN @ \cup {w} ELSE @]
        /\ UNCHANGED got
  /\ UNCHANGED <<channel, told, sock, conns>>

\* A socket that came while another left may or may not be met.
TraderDone(u) ==
  /\ listener.cur = {u} /\ SetIntact
  /\ conns[u] \cap listener.from \subseteq listener.visited
  /\ listener' = [listener EXCEPT !.cur = {}, !.visited = {}, !.from = {}]
  /\ UNCHANGED <<channel, told, sock, conns, got>>

\* sockets -= dead, for every set that was walked, in one step with the end.
NoneSurvives(u) == IF listener.dead = {} THEN conns[u] ELSE {}
Survivors(u)    == conns[u] \ listener.dead

Done ==
  /\ listener.at = "walking" /\ listener.cur = {} /\ listener.todo = {} /\ DictIntact
  /\ conns' = [u \in Traders |-> IF u \in Recipients(Current) THEN Survivors(u) ELSE conns[u]]
  /\ listener' = Waiting
  /\ UNCHANGED <<channel, told, sock, got>>

\* Nothing catches the RuntimeError and nothing starts the task again (main.py).
ListenerDies ==
  /\ listener.at = "walking"
  /\ \/ listener.cur = {} /\ ~ DictIntact
     \/ ~ SetIntact
  /\ listener' = [Waiting EXCEPT !.at = "dead"]
  /\ UNCHANGED <<channel, told, sock, conns, got>>

Listens ==
  \/ Take \/ Done \/ ListenerDies
  \/ \E u \in Traders : NextTrader(u) \/ TraderDone(u) \/ \E w \in Sockets : Send(u, w)

FanNext ==
  \/ Listens
  \/ \E u \in Traders \cup {ALL} : Publish(u)
  \/ \E w \in Sockets, u \in Traders : Subscribe(w, u)
  \/ \E w \in Sockets : Breaks(w) \/ Disconnect(w)

-----------------------------------------------------------------------------
\* Type invariant: every variable stays in its domain, and a trader's set holds sockets
\* of that trader only.
FanTypeOK ==
  /\ channel \in Seq(Message) /\ told \in Seq(Message) /\ got \in [Sockets -> Seq(Message)]
  /\ sock \in [Sockets -> [st : {"new", "open", "broken", "closed"}, user : Traders \cup {"nobody"}]]
  /\ conns \in [Traders -> SUBSET Sockets]
  /\ \A u \in Traders : \A w \in conns[u] : sock[w].user = u
  /\ listener.at \in {"waiting", "walking", "dead"}

\* What a client receives are events for its own trader or for everybody, each once and
\* in the order they were published: one task takes the messages one after the other
\* and send_to_user reaches that trader's sockets only (core/pubsub.py).
DeliveredInOrder ==
  \A w \in Sockets :
    /\ \A i \in DOMAIN got[w] :
         got[w][i] \in ToSet(told) /\ got[w][i].user \in {sock[w].user, ALL}
    /\ \A i, j \in DOMAIN got[w] : i < j => got[w][i].n < got[w][j].n

\* An event in Redis reaches every socket of its traders that is subscribed and stays
\* open: a socket that fails is dropped alone, and only the listener's own death ends
\* the service (send_to_user, broadcast_symbol).
EventsReachOpenTabs ==
  \A w \in Sockets, e \in Message :
    (e \in ToSet(channel) /\ sock[w].st = "open" /\ e.user \in {sock[w].user, ALL})
      ~> (e \in ToSet(got[w]) \/ sock[w].st # "open" \/ listener.at = "dead")
=============================================================================
