----------------------------- MODULE Mt5Bridge -----------------------------
(***************************************************************************)
(* The bridge to one MetaTrader terminal (services/brokers/mt5/adapter.py):*)
(* the expert advisor (EA) dials in over a WebSocket that lands on one     *)
(* server process; that process registers the connection, advertises it    *)
(* with a Redis key and serves the requests of its siblings from a Redis   *)
(* channel.  The EA has one socket at a time, but a process may notice the *)
(* end of the old one long after the new one is there.                     *)
(***************************************************************************)
EXTENDS Integers

CONSTANTS
  Procs,       \* the server's processes
  NoProc,      \* no process
  Requests,    \* requests to the terminal
  MaxConns,    \* bound on the connections the EA makes
  MaxFaults    \* bound on deaths of processes and of relays

ASSUME ProcAssumption  == NoProc \notin Procs
ASSUME BoundAssumption == MaxConns \in Nat \ {0} /\ MaxFaults \in Nat

VARIABLES
  ea,         \* the connection whose socket the EA holds, 0 for none
  made,       \* the connections made so far
  at,         \* the process each connection landed on
  conn,       \* MT5Connection: "unused", "open" (is_connected) or "over"
  registry,   \* _connections of each process, 0 for no entry
  server,     \* the connection of the task in _relay_tasks of each process
  relay,      \* _serve_relay of each connection
  presence,   \* the Redis key exists
  mail,       \* published requests on their way to each relay
  call,       \* send_request for a request on a connection
  pending,    \* _pending of each connection: the requests with a future in it
  inbox,      \* requests on the EA's socket
  replies,    \* replies on the way from the EA
  asked,      \* MT5Adapter._send of each request: its stage or outcome, and its process
  executed,   \* how often the EA executed each request
  faults

Conns == 1..MaxConns

link  == <<ea, made, at, conn, registry, server, relay, presence>>
wire  == <<inbox, replies, executed>>
calls == <<mail, call, pending>>
vars  == <<link, wire, calls, asked, faults>>

\* A caller is told ok, or an error: a time-out or a refusal.
Asking == [stage : {"local", "asking", "relayed"}, proc : Procs]
Over   == [stage : {"idle", "ok", "error"}, proc : {NoProc}]
Is(stage) == [stage |-> stage, proc |-> NoProc]

Connected(c) == conn[c] = "open"

\* The calls for the requests in rs end with this answer.  It goes to the caller; a
\* relayed one is published on the request's own channel, where the first one counts.
Ends(rs, answer) ==
  asked' = [r \in Requests |-> IF r \in rs /\ asked[r].stage \in {"local", "relayed"}
                                THEN Is(answer) ELSE asked[r]]

Init ==
  /\ ea = 0 /\ made = 0 /\ at = [c \in Conns |-> NoProc]
  /\ conn = [c \in Conns |-> "unused"]
  /\ registry = [p \in Procs |-> 0] /\ server = [p \in Procs |-> 0]
  /\ relay = [c \in Conns |-> "none"] /\ presence = FALSE
  /\ mail = [c \in Conns |-> {}]
  /\ call = [c \in Conns |-> [r \in Requests |-> "none"]]
  /\ pending = [c \in Conns |-> {}]
  /\ inbox = {} /\ replies = {} /\ executed = [r \in Requests |-> 0]
  /\ asked = [r \in Requests |-> Is("idle")]
  /\ faults = 0

-----------------------------------------------------------------------------
(* Connections.                                                            *)

\* task.cancel(): a task that has not started yet never runs its finally.
Cancelled(task, c) ==
  IF c = 0 THEN task
  ELSE [task EXCEPT ![c] = CASE @ = "created" -> "over" [] @ = "serving" -> "stopping"
                             [] OTHER -> @]

\* The EA dials in and pairs: mt5_bridge_endpoint and register.
Register(p) ==
  LET c == made + 1
  IN  /\ ea = 0 /\ made < MaxConns
      /\ ea' = c /\ made' = c
      /\ conn' = [conn EXCEPT ![c] = "open"]
      /\ registry' = [registry EXCEPT ![p] = c]
      /\ relay' = [Cancelled(relay, server[p]) EXCEPT ![c] = "created"]
      /\ server' = [server EXCEPT ![p] = c]
      /\ at' = [at EXCEPT ![c] = p]
      /\ UNCHANGED <<presence, wire, calls, asked, faults>>

\* The EA, or the network, gives the socket up; what it had not read is lost.
EaDrops ==
  /\ ea # 0
  /\ ea' = 0 /\ inbox' = {}
  /\ UNCHANGED <<made, at, conn, registry, server, relay, presence>>
  /\ UNCHANGED <<replies, executed, calls, asked, faults>>

WaitingOnly(c) == {r \in pending[c] : call[c][r] = "waiting"}

\* The futures receive_loop fails when it ends.
ToFail(c) == pending[c]

\* The process notices: receive_loop's finally, and unregister in the endpoint's.
ConnEnds(c) ==
  LET p == at[c]
  IN  /\ conn[c] = "open" /\ ea # c
      /\ conn' = [conn EXCEPT ![c] = "over"]
      /\ call' = [call EXCEPT ![c] = [r \in Requests |-> IF r \in ToFail(c) THEN "none" ELSE @[r]]]
      /\ Ends(ToFail(c), "error")
      /\ pending' = [pending EXCEPT ![c] = {}]
      /\ replies' = {m \in replies : m.conn # c}
      /\ registry' = [registry EXCEPT ![p] = 0]
      /\ relay' = Cancelled(relay, server[p])
      /\ server' = [server EXCEPT ![p] = 0]
      /\ UNCHANGED <<ea, made, at, presence, inbox, executed, mail, faults>>

\* A process dies with everything in its memory; the Redis key stays.
ProcDies(p) ==
  LET mine == {c \in Conns : at[c] = p /\ conn[c] # "unused"}
  IN  /\ faults < MaxFaults
      /\ faults' = faults + 1
      /\ conn' = [c \in Conns |-> IF c \in mine THEN "over" ELSE conn[c]]
      /\ relay' = [c \in Conns |-> IF c \in mine THEN "over" ELSE relay[c]]
      /\ registry' = [registry EXCEPT ![p] = 0] /\ server' = [server EXCEPT ![p] = 0]
      /\ call' = [c \in Conns |-> IF c \in mine THEN [r \in Requests |-> "none"] ELSE call[c]]
      /\ pending' = [c \in Conns |-> IF c \in mine THEN {} ELSE pending[c]]
      /\ mail' = [c \in Conns |-> IF c \in mine THEN {} ELSE mail[c]]
      /\ asked' = [r \in Requests |-> IF asked[r].proc = p THEN Is("error") ELSE asked[r]]
      /\ replies' = {m \in replies : m.conn \notin mine}
      /\ IF ea \in mine THEN ea' = 0 /\ inbox' = {} ELSE UNCHANGED <<ea, inbox>>
      /\ UNCHANGED <<made, at, presence, executed>>

-----------------------------------------------------------------------------
(* _serve_relay.                                                           *)

RelayMoves(c, from, to) ==
  /\ relay[c] = from
  /\ relay' = [relay EXCEPT ![c] = to]
  /\ UNCHANGED <<ea, made, at, conn, registry, server, wire, call, pending, asked>>

RelayStarts(c) == RelayMoves(c, "created", "serving") /\ UNCHANGED <<presence, mail, faults>>

\* A Redis outage ends the task; nobody starts it again.
RelayDies(c) ==
  /\ faults < MaxFaults
  /\ faults' = faults + 1
  /\ RelayMoves(c, "serving", "stopping") /\ UNCHANGED <<presence, mail>>

Beat(c) ==
  /\ relay[c] = "serving" /\ Connected(c)
  /\ presence' = TRUE
  /\ UNCHANGED <<ea, made, at, conn, registry, server, relay, wire, calls, asked, faults>>

\* Its finally: the key is deleted, then the channel is left.
RelayDeletes(c) == RelayMoves(c, "stopping", "leaving") /\ presence' = FALSE /\ UNCHANGED <<mail, faults>>

RelayLeaves(c) ==
  RelayMoves(c, "leaving", "over") /\ mail' = [mail EXCEPT ![c] = {}] /\ UNCHANGED <<presence, faults>>

NeverAges == FALSE

\* The key was set with a time to live, and nobody refreshes it.
Ages == \A c \in Conns : ~ (relay[c] = "serving" /\ Connected(c))

KeyExpires ==
  /\ presence /\ Ages
  /\ presence' = FALSE
  /\ UNCHANGED <<ea, made, at, conn, registry, server, relay, wire, calls, asked, faults>>

-----------------------------------------------------------------------------
(* MT5Connection.send_request for request r on connection c.               *)

Moves(c, r, from, to) == call[c][r] = from /\ call' = [call EXCEPT ![c][r] = to]

\* Its first half, up to the await of the socket: the future comes first.
CallBegins(c, r, from) ==
  /\ Connected(c)
  /\ Moves(c, r, from, "sending")
  /\ pending' = [pending EXCEPT ![c] = @ \cup {r}]

\* The frame reaches the EA if the socket is still the EA's, and is lost otherwise.
CallSends(c, r) ==
  /\ Moves(c, r, "sending", "waiting")
  /\ inbox' = IF ea = c THEN inbox \cup {r} ELSE inbox
  /\ UNCHANGED <<link, replies, executed, mail, pending, asked, faults>>

\* wait_for gives up, or sending raises.
CallGivesUp(c, r) ==
  /\ \/ Moves(c, r, "waiting", "none") /\ Ends({r}, "error")
     \/ Moves(c, r, "sending", "none") /\ ea # c /\ Ends({r}, "error")
  /\ pending' = [pending EXCEPT ![c] = @ \ {r}]
  /\ UNCHANGED <<link, wire, mail, faults>>

EaExecutes(r) ==
  /\ r \in inbox
  /\ inbox' = inbox \ {r}
  /\ executed' = [executed EXCEPT ![r] = @ + 1]
  /\ replies' = replies \cup {[conn |-> ea, req |-> r]}
  /\ UNCHANGED <<link, calls, asked, faults>>

AnyPending(m) == pending[m.conn]

\* _dispatch looks the future up by correlation_id.
Correlated(m) == pending[m.conn] \cap {m.req}

\* A reply nobody waits for is dropped.
Dispatch(m) ==
  /\ replies' = replies \ {m}
  /\ IF Correlated(m) = {} THEN UNCHANGED <<call, pending, asked>>
     ELSE \E r \in Correlated(m) :
            /\ call' = [call EXCEPT ![m.conn][r] = "none"]
            /\ pending' = [pending EXCEPT ![m.conn] = @ \ {r}]
            /\ Ends({r}, "ok")
  /\ UNCHANGED <<link, inbox, executed, mail, faults>>

-----------------------------------------------------------------------------
(* MT5Adapter._send: the local socket, else the relay, else an error.      *)

Local(p) == registry[p] # 0 /\ Connected(registry[p])

AskLocal(p, r) ==
  /\ asked[r].stage = "idle" /\ Local(p)
  /\ CallBegins(registry[p], r, "none")
  /\ asked' = [asked EXCEPT ![r] = [stage |-> "local", proc |-> p]]
  /\ UNCHANGED <<link, wire, mail, faults>>

\* ea_connected_anywhere; when Redis is down the answer is no.
AskPresence(p, r) ==
  /\ asked[r].stage = "idle" /\ ~ Local(p)
  /\ \/ presence /\ asked' = [asked EXCEPT ![r] = [stage |-> "asking", proc |-> p]]
     \/ asked' = [asked EXCEPT ![r] = Is("error")]
  /\ UNCHANGED <<link, wire, calls, faults>>

RetriesLate(r) == asked[r].stage \in {"asking", "relayed"}

MayRelay(r) == asked[r].stage = "asking"

\* relay_request publishes; a task on its way out has not left the channel.
AskRelay(r) ==
  LET subscribed == {c \in Conns : relay[c] \in {"serving", "stopping", "leaving"}}
  IN  /\ MayRelay(r)
      /\ asked' = [asked EXCEPT ![r] = IF subscribed = {} THEN Is("error") ELSE [@ EXCEPT !.stage = "relayed"]]
      /\ mail' = [c \in Conns |-> IF c \in subscribed THEN mail[c] \cup {r} ELSE mail[c]]
      /\ UNCHANGED <<link, wire, call, pending, faults>>

\* The serving task takes the request up and starts a task for it,
RelayTakes(c, r) ==
  /\ relay[c] = "serving" /\ r \in mail[c]
  /\ mail' = [mail EXCEPT ![c] = @ \ {r}]
  /\ Moves(c, r, "none", "taken")
  /\ UNCHANGED <<link, wire, pending, asked, faults>>

\* _answer_relay, which may find the connection over.
Answer(c, r) ==
  /\ \/ CallBegins(c, r, "taken") /\ UNCHANGED asked
     \/ ~ Connected(c) /\ Moves(c, r, "taken", "none") /\ Ends({r}, "error") /\ UNCHANGED pending
  /\ UNCHANGED <<link, wire, mail, faults>>

\* relay_request's own deadline.
AskGivesUp(r) ==
  /\ asked[r].stage = "relayed"
  /\ asked' = [asked EXCEPT ![r] = Is("error")]
  /\ UNCHANGED <<link, wire, calls, faults>>

-----------------------------------------------------------------------------
RelayStep(c) == RelayStarts(c) \/ RelayDeletes(c) \/ RelayLeaves(c)

Next ==
  \/ EaDrops \/ KeyExpires
  \/ \E p \in Procs : Register(p) \/ ProcDies(p)
  \/ \E c \in Conns : ConnEnds(c) \/ RelayStep(c) \/ RelayDies(c) \/ Beat(c)
  \/ \E c \in Conns, r \in Requests :
       CallSends(c, r) \/ CallGivesUp(c, r) \/ RelayTakes(c, r) \/ Answer(c, r)
  \/ \E p \in Procs, r \in Requests : AskLocal(p, r) \/ AskPresence(p, r)
  \/ \E r \in Requests : EaExecutes(r) \/ AskRelay(r) \/ AskGivesUp(r)
  \/ \E m \in replies : Dispatch(m)

Spec == Init /\ [][Next]_vars

\* A dead socket is noticed (the server's keep-alive), cancelled tasks run their
\* finally, and Redis expires its keys.
Fairness ==
  /\ \A c \in Conns : WF_vars(ConnEnds(c)) /\ WF_vars(RelayStep(c))
  /\ WF_vars(KeyExpires)

FairSpec == Spec /\ Fairness

-----------------------------------------------------------------------------
\* What the callers know: whichever way a request takes, it is open until it ends.
Known(r) == IF asked[r].stage \in {"local", "asking", "relayed"} THEN "open" ELSE asked[r].stage

Call == INSTANCE RemoteCall WITH outcome <- [r \in Requests |-> Known(r)],
                                 executed <- executed

\* The bridge implements RemoteCall: whatever connections, relays, time-outs and dead
\* processes a request meets, it is executed at most once, its caller gets one answer,
\* an ok stands for an execution, and a late reply changes no answer (adapter.py:113).
ImplementsCall == Call!Spec

\* Type invariant: every variable stays in its domain.
TypeOK ==
  /\ ea \in 0..MaxConns /\ made \in 0..MaxConns /\ at \in [Conns -> Procs \cup {NoProc}]
  /\ conn \in [Conns -> {"unused", "open", "over"}]
  /\ registry \in [Procs -> 0..MaxConns] /\ server \in [Procs -> 0..MaxConns]
  /\ relay \in [Conns -> {"none", "created", "serving", "stopping", "leaving", "over"}]
  /\ presence \in BOOLEAN
  /\ mail \in [Conns -> SUBSET Requests] /\ pending \in [Conns -> SUBSET Requests]
  /\ call \in [Conns -> [Requests -> {"none", "taken", "sending", "waiting"}]]
  /\ inbox \subseteq Requests /\ replies \subseteq [conn : Conns, req : Requests]
  /\ asked \in [Requests -> Asking \cup Over]
  /\ executed \in [Requests -> 0..1] /\ faults \in 0..MaxFaults

\* No request is executed twice, though every process on the channel serves it.
ExecutedOnce == \A r \in Requests : executed[r] <= 1

\* A caller that is told ok was answered by the terminal about its own request:
\* replies are matched across reconnections, relays and time-outs.
OkMeansExecuted == \A r \in Requests : asked[r].stage = "ok" => executed[r] = 1

\* No caller waits on a dead connection: whoever waits for a reply has a future that
\* the connection will resolve or fail.  (The future is made before the socket is
\* awaited, and receive_loop fails them all.)
WaitersAreKnown ==
  \A c \in Conns, r \in Requests : call[c][r] = "waiting" => r \in pending[c] /\ Connected(c)

\* "A dead worker's claim ages out": when the EA stays away, the key disappears.
PresenceFades == <>[](ea = 0) => <>[](~ presence)
=============================================================================
