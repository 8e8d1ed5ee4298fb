--------------------------- MODULE Mt5BridgeProofs ---------------------------
(***************************************************************************)
(* Theorems about Mt5Bridge for every number of processes, requests,       *)
(* connections and faults.  A request published to several relays is       *)
(* executed once because the terminal holds one socket, never holds an     *)
(* earlier one again, and a connection made after the publication has not  *)
(* got the request: what can still be sent on the terminal's own           *)
(* connection has not been executed (SendInv).                             *)
(***************************************************************************)
EXTENDS Mt5Bridge, TLAPS

\* A connection that was not made yet has no part in anything, and the terminal reads
\* requests from a socket only.
LinkInv ==
  /\ \A c \in Conns : c > made => conn[c] = "unused"
  /\ \A c \in Conns : conn[c] = "unused" =>
       /\ relay[c] = "none" /\ mail[c] = {} /\ pending[c] = {}
       /\ \A r \in Requests : call[c][r] = "none"
  /\ ea = 0 => inbox = {}

\* The futures of a connection are those of its calls, and only an open one has any.
FutureInv ==
  \A c \in Conns, r \in Requests :
    /\ r \in pending[c] <=> call[c][r] \in {"sending", "waiting"}
    /\ r \in pending[c] => Connected(c)

\* The connection may still put the request on its socket.
Sendable(c, r) == r \in mail[c] \/ call[c][r] \in {"taken", "sending"}

\* The request has not left its caller.
Untouched(r) ==
  /\ executed[r] = 0 /\ r \notin inbox
  /\ \A c \in Conns : r \notin mail[c] /\ call[c][r] = "none"

Once(r) ==
  /\ asked[r].stage \in {"idle", "asking"} => Untouched(r)
  /\ \A c \in Conns : r \in mail[c] => call[c][r] = "none"
  /\ \A c \in Conns : ea = c /\ Sendable(c, r) => r \notin inbox /\ executed[r] = 0
  /\ r \in inbox => executed[r] = 0

SendInv == \A r \in Requests : Once(r)

\* A reply is about a request that was executed.
ReplyInv == \A m \in replies : executed[m.req] = 1

IInv == TypeOK /\ LinkInv /\ FutureInv /\ SendInv /\ ReplyInv /\ OkMeansExecuted
-----------------------------------------------------------------------------
\* Any end of calls leaves a request that has not been sent alone, and only the answer
\* ok makes a caller know ok.
LEMMA EndsKeeps ==
  ASSUME TypeOK, NEW rs \in SUBSET Requests, NEW answer \in {"ok", "error"}, Ends(rs, answer)
  PROVE  /\ asked' \in [Requests -> Asking \cup Over]
         /\ \A r \in Requests :
              /\ asked'[r].stage \in {"idle", "asking"} => asked[r].stage = asked'[r].stage
              /\ asked'[r].stage = "ok" => asked[r].stage = "ok" \/ (r \in rs /\ answer = "ok")
  BY DEF TypeOK, Ends, Is, Over, Asking

LEMMA EaDropsInv ==
  ASSUME IInv, EaDrops
  PROVE  IInv'
<1> USE BoundAssumption, ProcAssumption DEF IInv, link, wire, calls, Conns, Asking, Over, Connected, EaDrops
<1>1. TypeOK'
  BY DEF TypeOK, LinkInv
<1>2. LinkInv'
  BY DEF TypeOK, LinkInv
<1>3. FutureInv'
  BY DEF TypeOK, LinkInv, FutureInv
<1>4. SendInv'
  BY DEF TypeOK, LinkInv, FutureInv, SendInv, Once, Untouched, Sendable
<1>5. ReplyInv'
  BY DEF TypeOK, SendInv, Once, ReplyInv
<1>6. OkMeansExecuted'
  BY DEF TypeOK, SendInv, Once, ReplyInv, OkMeansExecuted, Untouched
<1> QED
  BY <1>1, <1>2, <1>3, <1>4, <1>5, <1>6

LEMMA KeyExpiresInv ==
  ASSUME IInv, KeyExpires
  PROVE  IInv'
<1> USE BoundAssumption, ProcAssumption DEF IInv, link, wire, calls, Conns, Asking, Over, Connected, KeyExpires
<1>1. TypeOK'
  BY DEF TypeOK, LinkInv
<1>2. LinkInv'
  BY DEF TypeOK, LinkInv
<1>3. FutureInv'
  BY DEF TypeOK, LinkInv, FutureInv
<1>4. SendInv'
  BY DEF TypeOK, LinkInv, FutureInv, SendInv, Once, Untouched, Sendable
<1>5. ReplyInv'
  BY DEF TypeOK, SendInv, Once, ReplyInv
<1>6. OkMeansExecuted'
  BY DEF TypeOK, SendInv, Once, ReplyInv, OkMeansExecuted, Untouched
<1> QED
  BY <1>1, <1>2, <1>3, <1>4, <1>5, <1>6

LEMMA RegisterInv ==
  ASSUME IInv, NEW p \in Procs, Register(p)
  PROVE  IInv'
<1> USE BoundAssumption, ProcAssumption DEF IInv, link, wire, calls, Conns, Asking, Over, Connected, Register, Cancelled
<1>1. TypeOK'
  BY DEF TypeOK, LinkInv
<1>2. LinkInv'
  BY DEF TypeOK, LinkInv
<1>3. FutureInv'
  BY DEF TypeOK, LinkInv, FutureInv
<1>4. SendInv'
  BY DEF TypeOK, LinkInv, FutureInv, SendInv, Once, Untouched, Sendable
<1>5. ReplyInv'
  BY DEF TypeOK, SendInv, Once, ReplyInv
<1>6. OkMeansExecuted'
  BY DEF TypeOK, SendInv, Once, ReplyInv, OkMeansExecuted, Untouched
<1> QED
  BY <1>1, <1>2, <1>3, <1>4, <1>5, <1>6

LEMMA ProcDiesInv ==
  ASSUME IInv, NEW p \in Procs, ProcDies(p)
  PROVE  IInv'
<1> USE BoundAssumption, ProcAssumption DEF IInv, link, wire, calls, Conns, Asking, Over, Connected, ProcDies, Is
<1>1. TypeOK'
  BY DEF TypeOK, LinkInv
<1>2. LinkInv'
  BY DEF TypeOK, LinkInv
<1>3. FutureInv'
  BY DEF TypeOK, LinkInv, FutureInv
<1>4. SendInv'
  BY DEF TypeOK, LinkInv, FutureInv, SendInv, Once, Untouched, Sendable
<1>5. ReplyInv'
  BY DEF TypeOK, SendInv, Once, ReplyInv
<1>6. OkMeansExecuted'
  BY DEF TypeOK, SendInv, Once, ReplyInv, OkMeansExecuted, Untouched
<1> QED
  BY <1>1, <1>2, <1>3, <1>4, <1>5, <1>6

LEMMA ConnEndsInv ==
  ASSUME IInv, NEW c \in Conns, ConnEnds(c)
  PROVE  IInv'
<1> USE BoundAssumption, ProcAssumption DEF IInv, link, wire, calls, Conns, Connected, ConnEnds, ToFail
<1>a. /\ asked' \in [Requests -> Asking \cup Over]
      /\ \A r \in Requests :
           asked'[r].stage \in {"idle", "asking", "ok"} => asked[r].stage = asked'[r].stage
  <2>1. pending[c] \in SUBSET Requests
    BY DEF TypeOK
  <2> QED
    BY <2>1, EndsKeeps
<1>1. TypeOK'
  <2>1. relay' \in [Conns -> {"none", "created", "serving", "stopping", "leaving", "over"}]
    BY DEF TypeOK, Cancelled
  <2>2. replies' \subseteq [conn : Conns, req : Requests]
    BY DEF TypeOK
  <2>3. call' \in [Conns -> [Requests -> {"none", "taken", "sending", "waiting"}]]
    BY DEF TypeOK
  <2>4. conn' \in [Conns -> {"unused", "open", "over"}]
    BY DEF TypeOK
  <2>5. registry' \in [Procs -> 0..MaxConns] /\ server' \in [Procs -> 0..MaxConns]
    <3>1. /\ registry' = [registry EXCEPT ![at[c]] = 0]
          /\ server' = [server EXCEPT ![at[c]] = 0]
      OBVIOUS
    <3>2. registry \in [Procs -> 0..MaxConns] /\ server \in [Procs -> 0..MaxConns] /\ 0 \in 0..MaxConns
      BY DEF TypeOK
    <3> HIDE DEF ConnEnds, IInv
    <3> QED
      BY <3>1, <3>2
  <2>7. pending' \in [Conns -> SUBSET Requests]
    BY DEF TypeOK
  <2> QED
    BY <1>a, <2>1, <2>2, <2>3, <2>4, <2>5, <2>7 DEF TypeOK
<1>2. LinkInv'
  BY DEF TypeOK, LinkInv, Cancelled
<1>3. FutureInv'
  BY <1>a DEF TypeOK, LinkInv, FutureInv
<1>4. SendInv'
  BY DEF TypeOK, LinkInv, FutureInv, SendInv, Once, Untouched, Sendable, Ends, Is, Asking, Over
<1>5. ReplyInv'
  BY <1>a DEF TypeOK, SendInv, Once, ReplyInv
<1>6. OkMeansExecuted'
  BY <1>a DEF TypeOK, SendInv, Once, ReplyInv, OkMeansExecuted, Untouched
<1> QED
  BY <1>1, <1>2, <1>3, <1>4, <1>5, <1>6

LEMMA RelayStartsInv ==
  ASSUME IInv, NEW c \in Conns, RelayStarts(c)
  PROVE  IInv'
<1> USE BoundAssumption, ProcAssumption DEF IInv, link, wire, calls, Conns, Asking, Over, Connected, RelayStarts, RelayMoves
<1>1. TypeOK'
  BY DEF TypeOK, LinkInv
<1>2. LinkInv'
  BY DEF TypeOK, LinkInv
<1>3. FutureInv'
  BY DEF TypeOK, LinkInv, FutureInv
<1>4. SendInv'
  BY DEF TypeOK, LinkInv, FutureInv, SendInv, Once, Untouched, Sendable
<1>5. ReplyInv'
  BY DEF TypeOK, SendInv, Once, ReplyInv
<1>6. OkMeansExecuted'
  BY DEF TypeOK, SendInv, Once, ReplyInv, OkMeansExecuted, Untouched
<1> QED
  BY <1>1, <1>2, <1>3, <1>4, <1>5, <1>6

LEMMA RelayDeletesInv ==
  ASSUME IInv, NEW c \in Conns, RelayDeletes(c)
  PROVE  IInv'
<1> USE BoundAssumption, ProcAssumption DEF IInv, link, wire, calls, Conns, Asking, Over, Connected, RelayDeletes, RelayMoves
<1>1. TypeOK'
  BY DEF TypeOK, LinkInv
<1>2. LinkInv'
  BY DEF TypeOK, LinkInv
<1>3. FutureInv'
  BY DEF TypeOK, LinkInv, FutureInv
<1>4. SendInv'
  BY DEF TypeOK, LinkInv, FutureInv, SendInv, Once, Untouched, Sendable
<1>5. ReplyInv'
  BY DEF TypeOK, SendInv, Once, ReplyInv
<1>6. OkMeansExecuted'
  BY DEF TypeOK, SendInv, Once, ReplyInv, OkMeansExecuted, Untouched
<1> QED
  BY <1>1, <1>2, <1>3, <1>4, <1>5, <1>6

LEMMA RelayLeavesInv ==
  ASSUME IInv, NEW c \in Conns, RelayLeaves(c)
  PROVE  IInv'
<1> USE BoundAssumption, ProcAssumption DEF IInv, link, wire, calls, Conns, Asking, Over, Connected, RelayLeaves, RelayMoves
<1>1. TypeOK'
  BY DEF TypeOK, LinkInv
<1>2. LinkInv'
  BY DEF TypeOK, LinkInv
<1>3. FutureInv'
  BY DEF TypeOK, LinkInv, FutureInv
<1>4. SendInv'
  BY DEF TypeOK, LinkInv, FutureInv, SendInv, Once, Untouched, Sendable
<1>5. ReplyInv'
  BY DEF TypeOK, SendInv, Once, ReplyInv
<1>6. OkMeansExecuted'
  BY DEF TypeOK, SendInv, Once, ReplyInv, OkMeansExecuted, Untouched
<1> QED
  BY <1>1, <1>2, <1>3, <1>4, <1>5, <1>6

LEMMA RelayDiesInv ==
  ASSUME IInv, NEW c \in Conns, RelayDies(c)
  PROVE  IInv'
<1> USE BoundAssumption, ProcAssumption DEF IInv, link, wire, calls, Conns, Asking, Over, Connected, RelayDies, RelayMoves
<1>1. TypeOK'
  BY DEF TypeOK, LinkInv
<1>2. LinkInv'
  BY DEF TypeOK, LinkInv
<1>3. FutureInv'
  BY DEF TypeOK, LinkInv, FutureInv
<1>4. SendInv'
  BY DEF TypeOK, LinkInv, FutureInv, SendInv, Once, Untouched, Sendable
<1>5. ReplyInv'
  BY DEF TypeOK, SendInv, Once, ReplyInv
<1>6. OkMeansExecuted'
  BY DEF TypeOK, SendInv, Once, ReplyInv, OkMeansExecuted, Untouched
<1> QED
  BY <1>1, <1>2, <1>3, <1>4, <1>5, <1>6

LEMMA BeatInv ==
  ASSUME IInv, NEW c \in Conns, Beat(c)
  PROVE  IInv'
<1> USE BoundAssumption, ProcAssumption DEF IInv, link, wire, calls, Conns, Asking, Over, Connected, Beat
<1>1. TypeOK'
  BY DEF TypeOK, LinkInv
<1>2. LinkInv'
  BY DEF TypeOK, LinkInv
<1>3. FutureInv'
  BY DEF TypeOK, LinkInv, FutureInv
<1>4. SendInv'
  BY DEF TypeOK, LinkInv, FutureInv, SendInv, Once, Untouched, Sendable
<1>5. ReplyInv'
  BY DEF TypeOK, SendInv, Once, ReplyInv
<1>6. OkMeansExecuted'
  BY DEF TypeOK, SendInv, Once, ReplyInv, OkMeansExecuted, Untouched
<1> QED
  BY <1>1, <1>2, <1>3, <1>4, <1>5, <1>6

LEMMA CallSendsInv ==
  ASSUME IInv, NEW c \in Conns, NEW r \in Requests, CallSends(c, r)
  PROVE  IInv'
<1> USE BoundAssumption, ProcAssumption DEF IInv, link, wire, calls, Conns, Asking, Over, Connected, CallSends, Moves
<1>1. TypeOK'
  BY DEF TypeOK, LinkInv
<1>2. LinkInv'
  BY DEF TypeOK, LinkInv
<1>3. FutureInv'
  BY DEF TypeOK, LinkInv, FutureInv
<1>4. SendInv'
  BY DEF TypeOK, LinkInv, FutureInv, SendInv, Once, Untouched, Sendable
<1>5. ReplyInv'
  BY DEF TypeOK, SendInv, Once, ReplyInv
<1>6. OkMeansExecuted'
  BY DEF TypeOK, SendInv, Once, ReplyInv, OkMeansExecuted, Untouched
<1> QED
  BY <1>1, <1>2, <1>3, <1>4, <1>5, <1>6

LEMMA CallGivesUpInv ==
  ASSUME IInv, NEW c \in Conns, NEW r \in Requests, CallGivesUp(c, r)
  PROVE  IInv'
<1> USE BoundAssumption, ProcAssumption DEF IInv, link, wire, calls, Conns, Connected, CallGivesUp, Moves
<1>a. /\ asked' \in [Requests -> Asking \cup Over]
      /\ \A q \in Requests :
           asked'[q].stage \in {"idle", "asking", "ok"} => asked[q].stage = asked'[q].stage
  <2>1. {r} \in SUBSET Requests
    OBVIOUS
  <2> QED
    BY <2>1, EndsKeeps
<1>b. /\ call[c][r] \in {"waiting", "sending"} /\ call' = [call EXCEPT ![c][r] = "none"]
      /\ pending' = [pending EXCEPT ![c] = @ \ {r}]
  OBVIOUS
<1>1. TypeOK'
  BY <1>a, <1>b DEF TypeOK, LinkInv
<1>2. LinkInv'
  BY <1>a, <1>b DEF TypeOK, LinkInv
<1>3. FutureInv'
  BY <1>a, <1>b DEF TypeOK, LinkInv, FutureInv
<1>4. SendInv'
  <2> SUFFICES ASSUME NEW q \in Requests PROVE Once(q)'
    BY DEF SendInv
  <2>1. Once(q) /\ (q \in pending[c] <=> call[c][q] \in {"sending", "waiting"})
    BY DEF SendInv, FutureInv
  <2>2. \A d \in Conns : call'[d][q] = call[d][q] \/ (call'[d][q] = "none" /\ (d = c /\ q = r))
    BY <1>b DEF TypeOK
  <2>3. UNCHANGED <<ea, mail, inbox, executed>>
    OBVIOUS
  <2> HIDE DEF CallGivesUp, IInv
  <2> QED
    BY <1>a, <2>1, <2>2, <2>3 DEF Once, Untouched, Sendable
<1>5. ReplyInv'
  BY <1>a, <1>b DEF TypeOK, SendInv, Once, ReplyInv
<1>6. OkMeansExecuted'
  BY <1>a, <1>b DEF TypeOK, SendInv, Once, ReplyInv, OkMeansExecuted, Untouched
<1> QED
  BY <1>1, <1>2, <1>3, <1>4, <1>5, <1>6

LEMMA RelayTakesInv ==
  ASSUME IInv, NEW c \in Conns, NEW r \in Requests, RelayTakes(c, r)
  PROVE  IInv'
<1> USE BoundAssumption, ProcAssumption DEF IInv, link, wire, calls, Conns, Asking, Over, Connected, RelayTakes, Moves
<1>1. TypeOK'
  BY DEF TypeOK, LinkInv
<1>2. LinkInv'
  BY DEF TypeOK, LinkInv
<1>3. FutureInv'
  BY DEF TypeOK, LinkInv, FutureInv
<1>4. SendInv'
  BY DEF TypeOK, LinkInv, FutureInv, SendInv, Once, Untouched, Sendable
<1>5. ReplyInv'
  BY DEF TypeOK, SendInv, Once, ReplyInv
<1>6. OkMeansExecuted'
  BY DEF TypeOK, SendInv, Once, ReplyInv, OkMeansExecuted, Untouched
<1> QED
  BY <1>1, <1>2, <1>3, <1>4, <1>5, <1>6

LEMMA AnswerInv ==
  ASSUME IInv, NEW c \in Conns, NEW r \in Requests, Answer(c, r)
  PROVE  IInv'
<1> USE BoundAssumption, ProcAssumption DEF IInv, link, wire, calls, Conns, Connected, Answer, Moves, CallBegins
<1>a. /\ asked' \in [Requests -> Asking \cup Over]
      /\ \A q \in Requests :
           asked'[q].stage \in {"idle", "asking", "ok"} => asked[q].stage = asked'[q].stage
  <2>1. {r} \in SUBSET Requests
    OBVIOUS
  <2> QED
    BY <2>1, EndsKeeps DEF TypeOK
<1>b. /\ call[c][r] = "taken"
      /\ \/ /\ Connected(c) /\ call' = [call EXCEPT ![c][r] = "sending"]
            /\ pending' = [pending EXCEPT ![c] = @ \cup {r}]
         \/ call' = [call EXCEPT ![c][r] = "none"] /\ UNCHANGED pending
  OBVIOUS
<1>c. /\ call' \in [Conns -> [Requests -> {"none", "taken", "sending", "waiting"}]]
      /\ pending' \in [Conns -> SUBSET Requests]
      /\ \A d \in Conns, q \in Requests :
           \/ call'[d][q] = call[d][q]
           \/ call[d][q] = "taken" /\ call'[d][q] \in {"sending", "none"}
  <2> HIDE DEF Answer
  <2>1. CASE call' = [call EXCEPT ![c][r] = "sending"] /\ pending' = [pending EXCEPT ![c] = @ \cup {r}]
    BY <1>b, <2>1 DEF TypeOK
  <2>2. CASE call' = [call EXCEPT ![c][r] = "none"] /\ UNCHANGED pending
    BY <1>b, <2>2 DEF TypeOK
  <2> QED
    BY <1>b, <2>1, <2>2
<1>1. TypeOK'
  BY <1>a, <1>c DEF TypeOK, LinkInv
<1>2. LinkInv'
  BY <1>a, <1>b DEF TypeOK, LinkInv
<1>3. FutureInv'
  BY <1>a, <1>b DEF TypeOK, LinkInv, FutureInv
<1>4. SendInv'
  <2> SUFFICES ASSUME NEW q \in Requests PROVE Once(q)'
    BY DEF SendInv
  <2>1. Once(q) /\ (q \in pending[c] <=> call[c][q] \in {"sending", "waiting"})
    BY DEF SendInv, FutureInv
  <2>2. \A d \in Conns :
          \/ call'[d][q] = call[d][q]
          \/ call[d][q] = "taken" /\ call'[d][q] \in {"sending", "none"}
    BY <1>c
  <2>3. UNCHANGED <<ea, mail, inbox, executed>>
    OBVIOUS
  <2> HIDE DEF Answer, IInv
  <2> QED
    BY <1>a, <2>1, <2>2, <2>3 DEF Once, Untouched, Sendable
<1>5. ReplyInv'
  BY <1>a, <1>b DEF TypeOK, SendInv, Once, ReplyInv
<1>6. OkMeansExecuted'
  BY <1>a, <1>b DEF TypeOK, SendInv, Once, ReplyInv, OkMeansExecuted, Untouched
<1> QED
  BY <1>1, <1>2, <1>3, <1>4, <1>5, <1>6

LEMMA AskLocalInv ==
  ASSUME IInv, NEW p \in Procs, NEW r \in Requests, AskLocal(p, r)
  PROVE  IInv'
<1> USE BoundAssumption, ProcAssumption DEF IInv, link, wire, calls, Conns, Asking, Over, Connected, AskLocal, Moves, CallBegins, Local
<1>1. TypeOK'
  BY DEF TypeOK, LinkInv
<1>2. LinkInv'
  BY DEF TypeOK, LinkInv
<1>3. FutureInv'
  BY DEF TypeOK, LinkInv, FutureInv
<1>4. SendInv'
  BY DEF TypeOK, LinkInv, FutureInv, SendInv, Once, Untouched, Sendable
<1>5. ReplyInv'
  BY DEF TypeOK, SendInv, Once, ReplyInv
<1>6. OkMeansExecuted'
  BY DEF TypeOK, SendInv, Once, ReplyInv, OkMeansExecuted, Untouched
<1> QED
  BY <1>1, <1>2, <1>3, <1>4, <1>5, <1>6

LEMMA AskPresenceInv ==
  ASSUME IInv, NEW p \in Procs, NEW r \in Requests, AskPresence(p, r)
  PROVE  IInv'
<1> USE BoundAssumption, ProcAssumption DEF IInv, link, wire, calls, Conns, Asking, Over, Connected, AskPresence, Is
<1>a. /\ asked[r].stage = "idle"
      /\ asked' \in [Requests -> Asking \cup Over]
      /\ \A q \in Requests : q # r => asked'[q] = asked[q]
      /\ asked'[r].stage # "ok"
  <2>1. CASE asked' = [asked EXCEPT ![r] = Is("error")]
    BY <2>1 DEF TypeOK
  <2>2. CASE asked' = [asked EXCEPT ![r] = [stage |-> "asking", proc |-> p]]
    BY <2>2 DEF TypeOK
  <2> QED
    BY <2>1, <2>2
<1>1. TypeOK'
  BY <1>a DEF TypeOK, LinkInv
<1>2. LinkInv'
  BY <1>a DEF TypeOK, LinkInv
<1>3. FutureInv'
  BY <1>a DEF TypeOK, LinkInv, FutureInv
<1>4. SendInv'
  <2> SUFFICES ASSUME NEW q \in Requests PROVE Once(q)'
    BY DEF SendInv
  <2>1. Once(q) /\ UNCHANGED <<call, ea, mail, inbox, executed>>
    BY DEF SendInv
  <2> HIDE DEF AskPresence, IInv
  <2> QED
    BY <1>a, <2>1 DEF Once, Untouched, Sendable
<1>5. ReplyInv'
  BY <1>a DEF TypeOK, SendInv, Once, ReplyInv
<1>6. OkMeansExecuted'
  BY <1>a DEF TypeOK, SendInv, Once, ReplyInv, OkMeansExecuted, Untouched
<1> QED
  BY <1>1, <1>2, <1>3, <1>4, <1>5, <1>6

LEMMA EaExecutesInv ==
  ASSUME IInv, NEW r \in Requests, EaExecutes(r)
  PROVE  IInv'
<1> USE BoundAssumption, ProcAssumption DEF IInv, link, wire, calls, Conns, Asking, Over, Connected, EaExecutes
<1>1. TypeOK'
  <2>1. executed[r] = 0 /\ ea \in Conns
    BY DEF TypeOK, LinkInv, SendInv, Once
  <2>2. executed' \in [Requests -> 0..1]
    BY <2>1 DEF TypeOK
  <2> QED
    BY <2>1, <2>2 DEF TypeOK
<1>2. LinkInv'
  BY DEF TypeOK, LinkInv
<1>3. FutureInv'
  BY DEF TypeOK, LinkInv, FutureInv
<1>4. SendInv'
  BY DEF TypeOK, LinkInv, FutureInv, SendInv, Once, Untouched, Sendable
<1>5. ReplyInv'
  BY DEF TypeOK, SendInv, Once, ReplyInv
<1>6. OkMeansExecuted'
  BY DEF TypeOK, SendInv, Once, ReplyInv, OkMeansExecuted, Untouched
<1> QED
  BY <1>1, <1>2, <1>3, <1>4, <1>5, <1>6

LEMMA AskRelayInv ==
  ASSUME IInv, NEW r \in Requests, AskRelay(r)
  PROVE  IInv'
<1> USE BoundAssumption, ProcAssumption DEF IInv, link, wire, calls, Conns, Asking, Over, Connected, AskRelay, Is, MayRelay
<1>1. TypeOK'
  <2>1. asked[r] \in Asking
    BY DEF TypeOK
  <2>2. [asked[r] EXCEPT !.stage = "relayed"] \in Asking
    BY <2>1
  <2>3. asked' \in [Requests -> Asking \cup Over]
    BY <2>2 DEF TypeOK
  <2> QED
    BY <2>3 DEF TypeOK
<1>2. LinkInv'
  BY DEF TypeOK, LinkInv
<1>3. FutureInv'
  BY DEF TypeOK, LinkInv, FutureInv
<1>4. SendInv'
  BY DEF TypeOK, LinkInv, FutureInv, SendInv, Once, Untouched, Sendable
<1>5. ReplyInv'
  BY DEF TypeOK, SendInv, Once, ReplyInv
<1>6. OkMeansExecuted'
  BY DEF TypeOK, SendInv, Once, ReplyInv, OkMeansExecuted, Untouched
<1> QED
  BY <1>1, <1>2, <1>3, <1>4, <1>5, <1>6

LEMMA AskGivesUpInv ==
  ASSUME IInv, NEW r \in Requests, AskGivesUp(r)
  PROVE  IInv'
<1> USE BoundAssumption, ProcAssumption DEF IInv, link, wire, calls, Conns, Asking, Over, Connected, AskGivesUp, Is
<1>1. TypeOK'
  BY DEF TypeOK, LinkInv
<1>2. LinkInv'
  BY DEF TypeOK, LinkInv
<1>3. FutureInv'
  BY DEF TypeOK, LinkInv, FutureInv
<1>4. SendInv'
  BY DEF TypeOK, LinkInv, FutureInv, SendInv, Once, Untouched, Sendable
<1>5. ReplyInv'
  BY DEF TypeOK, SendInv, Once, ReplyInv
<1>6. OkMeansExecuted'
  BY DEF TypeOK, SendInv, Once, ReplyInv, OkMeansExecuted, Untouched
<1> QED
  BY <1>1, <1>2, <1>3, <1>4, <1>5, <1>6

LEMMA DispatchInv ==
  ASSUME IInv, NEW m \in replies, Dispatch(m)
  PROVE  IInv'
<1> USE BoundAssumption, ProcAssumption DEF IInv, link, wire, calls, Conns, Connected, Dispatch
<1>a. m.conn \in Conns /\ m.req \in Requests
  BY DEF TypeOK
<1>b. /\ call' \in [Conns -> [Requests -> {"none", "taken", "sending", "waiting"}]]
      /\ pending' \in [Conns -> SUBSET Requests]
      /\ asked' \in [Requests -> Asking \cup Over]
      /\ \A d \in Conns, q \in Requests :
           \/ call'[d][q] = call[d][q] /\ (q \in pending'[d] <=> q \in pending[d])
           \/ call'[d][q] = "none" /\ q \notin pending'[d] /\ q \in pending[d]
      /\ \A q \in Requests :
           /\ asked'[q].stage \in {"idle", "asking"} => asked[q].stage = asked'[q].stage
           /\ asked'[q].stage = "ok" => asked[q].stage = "ok" \/ q = m.req
  <2>1. CASE Correlated(m) = {}
    BY <2>1 DEF TypeOK
  <2>2. CASE Correlated(m) # {}
    <3>1. PICK r \in Correlated(m) :
                 /\ call' = [call EXCEPT ![m.conn][r] = "none"]
                 /\ pending' = [pending EXCEPT ![m.conn] = @ \ {r}]
                 /\ Ends({r}, "ok")
      BY <2>2
    <3>2. r = m.req /\ r \in pending[m.conn] /\ {r} \in SUBSET Requests
      BY <1>a DEF Correlated
    <3>3. /\ asked' \in [Requests -> Asking \cup Over]
          /\ \A q \in Requests :
               /\ asked'[q].stage \in {"idle", "asking"} => asked[q].stage = asked'[q].stage
               /\ asked'[q].stage = "ok" => asked[q].stage = "ok" \/ q = m.req
      BY <3>1, <3>2, EndsKeeps
    <3> HIDE DEF Dispatch
    <3> QED
      BY <1>a, <3>1, <3>2, <3>3 DEF TypeOK
  <2> QED
    BY <2>1, <2>2
<1>c. /\ replies' \subseteq replies
      /\ UNCHANGED <<ea, made, at, conn, registry, server, relay, presence>>
      /\ UNCHANGED <<inbox, executed, mail, faults>>
  OBVIOUS
<1> HIDE DEF Dispatch
<1>1. TypeOK'
  BY <1>a, <1>b, <1>c DEF TypeOK, LinkInv
<1>2. LinkInv'
  BY <1>a, <1>b, <1>c DEF TypeOK, LinkInv
<1>3. FutureInv'
  BY <1>a, <1>b, <1>c DEF TypeOK, LinkInv, FutureInv
<1>4. SendInv'
  <2> SUFFICES ASSUME NEW q \in Requests PROVE Once(q)'
    BY DEF SendInv
  <2>1. Once(q) /\ (\A d \in Conns : q \in pending[d] <=> call[d][q] \in {"sending", "waiting"})
    BY DEF SendInv, FutureInv
  <2> HIDE DEF IInv
  <2> QED
    BY <1>b, <1>c, <2>1 DEF Once, Untouched, Sendable
<1>5. ReplyInv'
  BY <1>a, <1>b, <1>c DEF TypeOK, SendInv, Once, ReplyInv
<1>6. OkMeansExecuted'
  BY <1>a, <1>b, <1>c DEF ReplyInv, OkMeansExecuted
<1> QED
  BY <1>1, <1>2, <1>3, <1>4, <1>5, <1>6

LEMMA StepInv == IInv /\ [Next]_vars => IInv'
<1> SUFFICES ASSUME IInv, [Next]_vars
             PROVE  IInv'
  OBVIOUS
<1>1. CASE UNCHANGED vars
  BY <1>1 DEF vars, link, wire, calls, IInv, TypeOK, LinkInv, FutureInv, SendInv, Once, Untouched, Sendable,
              ReplyInv, OkMeansExecuted, Connected
<1>2. CASE EaDrops \/ KeyExpires
  BY <1>2, EaDropsInv, KeyExpiresInv
<1>3. CASE \E p \in Procs : Register(p) \/ ProcDies(p)
  BY <1>3, RegisterInv, ProcDiesInv
<1>4. CASE \E c \in Conns : ConnEnds(c) \/ RelayStep(c) \/ RelayDies(c) \/ Beat(c)
  BY <1>4, ConnEndsInv, RelayStartsInv, RelayDeletesInv, RelayLeavesInv, RelayDiesInv, BeatInv
  DEF RelayStep
<1>5. CASE \E c \in Conns, r \in Requests :
             CallSends(c, r) \/ CallGivesUp(c, r) \/ RelayTakes(c, r) \/ Answer(c, r)
  BY <1>5, CallSendsInv, CallGivesUpInv, RelayTakesInv, AnswerInv
<1>6. CASE \E p \in Procs, r \in Requests : AskLocal(p, r) \/ AskPresence(p, r)
  BY <1>6, AskLocalInv, AskPresenceInv
<1>7. CASE \E r \in Requests : EaExecutes(r) \/ AskRelay(r) \/ AskGivesUp(r)
  BY <1>7, EaExecutesInv, AskRelayInv, AskGivesUpInv
<1>8. CASE \E m \in replies : Dispatch(m)
  BY <1>8, DispatchInv
<1> QED
  BY <1>1, <1>2, <1>3, <1>4, <1>5, <1>6, <1>7, <1>8 DEF Next

LEMMA InitInv == Init => IInv
<1> SUFFICES ASSUME Init PROVE IInv
  OBVIOUS
<1> USE BoundAssumption DEF Init, Conns
<1>1. TypeOK
  <2>1. asked \in [Requests -> Over]
    BY DEF Is, Over
  <2>2. asked \in [Requests -> Asking \cup Over]
    BY <2>1
  <2>3. /\ 0 \in 0..MaxConns /\ 0 \in 0..MaxFaults /\ 0 \in 0..1
        /\ executed \in [Requests -> 0..1]
    OBVIOUS
  <2> QED
    BY <2>2, <2>3 DEF TypeOK
<1>2. LinkInv /\ FutureInv
  BY DEF LinkInv, FutureInv, Connected
<1>3. SendInv /\ ReplyInv /\ OkMeansExecuted
  BY DEF SendInv, Once, Untouched, Sendable, ReplyInv, OkMeansExecuted, Is
<1> QED
  BY <1>1, <1>2, <1>3 DEF IInv

LEMMA Invariance == Spec => []IInv
<1>1. IInv /\ [Next]_vars => IInv'
  BY StepInv
<1> QED
  BY <1>1, InitInv, PTL DEF Spec

\* No request is executed twice by the terminal, though it is published to every
\* process that serves the channel (relay_request).
THEOREM BridgeExecutesOnce == Spec => []ExecutedOnce
<1>1. IInv => ExecutedOnce
  BY DEF IInv, TypeOK, ExecutedOnce
<1> QED
  BY <1>1, Invariance, PTL

\* A caller that is told ok had its own request executed (_dispatch).
THEOREM BridgeAnswersTruly == Spec => []OkMeansExecuted
<1>1. IInv => OkMeansExecuted
  BY DEF IInv
<1> QED
  BY <1>1, Invariance, PTL

\* Whoever waits for a reply is known to a connection that is open (send_request,
\* receive_loop).
THEOREM BridgeForgetsNobody == Spec => []WaitersAreKnown
<1>1. IInv => WaitersAreKnown
  BY DEF IInv, FutureInv, WaitersAreKnown
<1> QED
  BY <1>1, Invariance, PTL
-----------------------------------------------------------------------------
(* The refinement of RemoteCall.                                           *)

\* Ending calls with an error is the failure of those that are open.
LEMMA ErrorsFail ==
  ASSUME TypeOK, NEW rs \in SUBSET Requests, UNCHANGED executed,
         asked' = [r \in Requests |-> IF r \in rs THEN Is("error") ELSE asked[r]],
         \A r \in rs : asked[r].stage \in {"local", "asking", "relayed"}
  PROVE  Call!Next
<1>1. Call!Fail(rs)
  BY DEF Call!Fail, Known, Is
<1> QED
  BY <1>1 DEF Call!Next

LEMMA EndsFail ==
  ASSUME TypeOK, NEW rs \in SUBSET Requests, Ends(rs, "error"), UNCHANGED executed
  PROVE  Call!Next
<1> DEFINE open == {r \in rs : asked[r].stage \in {"local", "relayed"}}
<1>1. asked' = [r \in Requests |-> IF r \in open THEN Is("error") ELSE asked[r]]
  BY DEF Ends
<1>2. open \in SUBSET Requests
  OBVIOUS
<1>3. \A r \in open : asked[r].stage \in {"local", "asking", "relayed"}
  OBVIOUS
<1> HIDE DEF open
<1> QED
  BY <1>1, <1>2, <1>3, ErrorsFail

LEMMA ProcDiesFails ==
  ASSUME IInv, NEW p \in Procs, ProcDies(p)
  PROVE  Call!Next
<1> DEFINE mine == {r \in Requests : asked[r].proc = p}
<1>1. TypeOK /\ UNCHANGED executed
  BY DEF IInv, ProcDies
<1>2. asked' = [r \in Requests |-> IF r \in mine THEN Is("error") ELSE asked[r]]
  BY DEF ProcDies
<1>3. \A r \in mine : asked[r].stage \in {"local", "asking", "relayed"}
  BY <1>1, ProcAssumption DEF TypeOK, Asking, Over
<1>4. mine \in SUBSET Requests
  OBVIOUS
<1> HIDE DEF mine
<1> QED
  BY <1>1, <1>2, <1>3, <1>4, ErrorsFail

LEMMA AskLocalAsks ==
  ASSUME IInv, NEW p \in Procs, NEW r \in Requests, AskLocal(p, r)
  PROVE  Call!Next
<1>1. Call!Ask(r)
  BY DEF IInv, TypeOK, AskLocal, Call!Ask, Known, wire
<1> QED
  BY <1>1 DEF Call!Next

LEMMA AskPresenceAsks ==
  ASSUME IInv, NEW p \in Procs, NEW r \in Requests, AskPresence(p, r)
  PROVE  Call!Next
<1>1. TypeOK /\ asked[r].stage = "idle" /\ UNCHANGED executed
  BY DEF IInv, AskPresence, wire
<1>2. CASE asked' = [asked EXCEPT ![r] = [stage |-> "asking", proc |-> p]]
  <2>1. Call!Ask(r)
    BY <1>1, <1>2 DEF TypeOK, Call!Ask, Known
  <2> QED
    BY <2>1 DEF Call!Next
<1>3. CASE asked' = [asked EXCEPT ![r] = Is("error")]
  <2>1. Call!Refuse(r)
    BY <1>1, <1>3 DEF TypeOK, Call!Refuse, Known, Is
  <2> QED
    BY <2>1 DEF Call!Next
<1> QED
  BY <1>2, <1>3 DEF AskPresence

LEMMA AskRelayFailsOrStays ==
  ASSUME IInv, NEW r \in Requests, AskRelay(r)
  PROVE  [Call!Next]_<<[q \in Requests |-> Known(q)], executed>>
<1>1. TypeOK /\ asked[r].stage = "asking" /\ UNCHANGED executed
  BY DEF IInv, AskRelay, MayRelay, wire
<1>2. CASE asked' = [asked EXCEPT ![r] = Is("error")]
  <2>1. {r} \in SUBSET Requests
    OBVIOUS
  <2>2. asked' = [q \in Requests |-> IF q \in {r} THEN Is("error") ELSE asked[q]]
    BY <1>1, <1>2 DEF TypeOK
  <2>3. Call!Next
    BY <1>1, <2>1, <2>2, ErrorsFail
  <2> QED
    BY <2>3
<1>3. CASE asked' = [asked EXCEPT ![r] = [@ EXCEPT !.stage = "relayed"]]
  <2>1. asked[r] \in Asking
    BY <1>1 DEF TypeOK, Over
  <2>2. asked'[r].stage = "relayed" /\ \A q \in Requests : q # r => asked'[q] = asked[q]
    BY <1>1, <1>3, <2>1 DEF TypeOK, Asking
  <2>3. \A q \in Requests : Known(q)' = Known(q)
    BY <1>1, <2>2 DEF Known
  <2> QED
    BY <1>1, <2>3
<1> QED
  BY <1>2, <1>3 DEF AskRelay

LEMMA AskGivesUpFails ==
  ASSUME IInv, NEW r \in Requests, AskGivesUp(r)
  PROVE  Call!Next
<1>1. TypeOK /\ asked[r].stage = "relayed" /\ UNCHANGED executed
  BY DEF IInv, AskGivesUp, wire
<1>2. asked' = [q \in Requests |-> IF q \in {r} THEN Is("error") ELSE asked[q]]
  BY <1>1 DEF TypeOK, AskGivesUp
<1>3. {r} \in SUBSET Requests
  OBVIOUS
<1> QED
  BY <1>1, <1>2, <1>3, ErrorsFail

LEMMA EaExecutesOnce ==
  ASSUME IInv, NEW r \in Requests, EaExecutes(r)
  PROVE  Call!Next
<1>1. executed[r] = 0 /\ asked[r].stage \notin {"idle", "asking"}
  BY DEF IInv, SendInv, Once, Untouched, EaExecutes
<1>2. executed' = [executed EXCEPT ![r] = 1] /\ UNCHANGED asked
  BY <1>1 DEF EaExecutes
<1>3. Call!Execute(r)
  BY <1>1, <1>2 DEF Call!Execute, Known
<1> QED
  BY <1>3 DEF Call!Next

LEMMA DispatchAnswersOrStays ==
  ASSUME IInv, NEW m \in replies, Dispatch(m)
  PROVE  [Call!Next]_<<[q \in Requests |-> Known(q)], executed>>
<1>1. TypeOK /\ UNCHANGED executed /\ m.req \in Requests /\ executed[m.req] = 1
  BY DEF IInv, TypeOK, Dispatch, ReplyInv
<1>2. CASE Correlated(m) = {}
  BY <1>1, <1>2 DEF Dispatch, Known
<1>3. CASE Correlated(m) # {}
  <2>1. PICK r \in Correlated(m) : Ends({r}, "ok")
    BY <1>3 DEF Dispatch
  <2>2. r = m.req
    BY DEF Correlated
  <2>3. CASE asked[r].stage \in {"local", "relayed"}
    <3>1. Call!Answer(r)
      BY <1>1, <2>1, <2>2, <2>3 DEF TypeOK, Ends, Is, Call!Answer, Known
    <3> QED
      BY <1>1, <2>2, <3>1 DEF Call!Next
  <2>4. CASE asked[r].stage \notin {"local", "relayed"}
    <3>1. asked' = [q \in Requests |-> asked[q]]
      BY <2>1, <2>4 DEF Ends
    <3> QED
      BY <1>1, <3>1 DEF Known
  <2> QED
    BY <2>3, <2>4
<1> QED
  BY <1>2, <1>3

LEMMA StepImplementsCall ==
  IInv /\ [Next]_vars => [Call!Next]_<<[q \in Requests |-> Known(q)], executed>>
<1> SUFFICES ASSUME IInv, [Next]_vars
             PROVE  [Call!Next]_<<[q \in Requests |-> Known(q)], executed>>
  OBVIOUS
<1>0. TypeOK
  BY DEF IInv
<1>1. CASE UNCHANGED <<asked, executed>>
  BY <1>1 DEF Known
<1>2. ASSUME NEW c \in Conns, ConnEnds(c) PROVE Call!Next
  BY <1>0, <1>2, EndsFail DEF ConnEnds, ToFail, TypeOK
<1>3. ASSUME NEW c \in Conns, NEW r \in Requests, CallGivesUp(c, r) PROVE Call!Next
  <2>1. {r} \in SUBSET Requests
    OBVIOUS
  <2> QED
    BY <1>0, <1>3, <2>1, EndsFail DEF CallGivesUp, wire
<1>4. ASSUME NEW c \in Conns, NEW r \in Requests, Answer(c, r)
      PROVE  [Call!Next]_<<[q \in Requests |-> Known(q)], executed>>
  <2>1. {r} \in SUBSET Requests /\ UNCHANGED executed
    BY <1>4 DEF Answer, wire
  <2>2. CASE Ends({r}, "error")
    BY <1>0, <2>1, <2>2, EndsFail
  <2>3. CASE UNCHANGED asked
    BY <1>1, <2>1, <2>3
  <2> QED
    BY <1>4, <2>2, <2>3 DEF Answer
<1> QED
  BY <1>1, <1>2, <1>3, <1>4, ProcDiesFails, AskLocalAsks, AskPresenceAsks, AskRelayFailsOrStays,
     AskGivesUpFails, EaExecutesOnce, DispatchAnswersOrStays
  DEF Next, vars, wire, link, calls, EaDrops, KeyExpires, Register, RelayStep, RelayStarts, RelayDeletes,
      RelayLeaves, RelayMoves, RelayDies, Beat, CallSends, RelayTakes

LEMMA InitImplementsCall == Init => Call!Init
  BY DEF Init, Call!Init, Known, Is

\* Every step of the bridge is a step of RemoteCall or changes nothing a caller or the
\* terminal sees: each request is executed at most once, is answered once, and no late
\* reply changes an answer.
THEOREM BridgeRefinement == Spec => ImplementsCall
<1>1. Init => Call!Init
  BY InitImplementsCall
<1>2. IInv /\ [Next]_vars => [Call!Next]_(Call!call)
  BY StepImplementsCall DEF Call!call
<1> QED
  BY <1>1, <1>2, Invariance, PTL DEF Spec, ImplementsCall, Call!Spec
=============================================================================
