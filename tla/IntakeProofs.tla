---------------------------- MODULE IntakeProofs ----------------------------
(***************************************************************************)
(* From the request to the screen: theorems about OrderIntake, with the    *)
(* audit chain its requests append to, and about the fan-out of what they  *)
(* tell (FanOut as TickPath runs it), for every number of traders,         *)
(* requests, keys, rows, sockets and events.  The unique index keeps the   *)
(* rows in the table distinct (IndexInv) although the look-up before it is *)
(* not locked; a slot of the limit that a request has not used yet is      *)
(* counted with the request (OpenInv); an audit entry links to one that is *)
(* committed or commits with it (ChainInv); a socket that has the message  *)
(* the listener walks with is not met again (WalkInv).                     *)
(***************************************************************************)
EXTENDS OrderIntake, TickPath, FiniteSetTheorems, TLAPS

Steps   == {"idle", "checked", "flushed", "answered", "auditing", "audited"}
OnRow   == {"flushed", "answered", "auditing", "audited"}
InTable == {"flushed", "committed"}

OrderRow == [row : {"unused", "flushed", "committed", "gone"}, user : Users \cup {"nobody"},
             key : AnyKey, status : Statuses]

ReqType ==
  req \in [Sessions -> [at : Steps, id : Orders \cup {0}, user : Users \cup {"nobody"}, key : AnyKey]]

\* A request past its INSERT works on a row it flushed itself, for its own trader.
ReqInv ==
  \A s \in Sessions :
    /\ req[s].at # "idle" => req[s].user \in Users
    /\ req[s].at \in OnRow =>
         /\ req[s].id \in Orders
         /\ order[req[s].id].row = "flushed"
         /\ order[req[s].id].user = req[s].user /\ order[req[s].id].key = req[s].key
    /\ req[s].at \notin OnRow => req[s].id = 0
    /\ \A t \in Sessions : req[s].id = req[t].id /\ req[s].id # 0 => s = t

\* What the partial unique index keeps: no two rows of a trader with one key.
IndexInv ==
  \A a, b \in Orders :
    /\ order[a].row \in InTable /\ order[b].row \in InTable
    /\ order[a].user = order[b].user /\ order[a].key = order[b].key /\ order[a].key # OWN
    => a = b

\* A row that is used has an owner, and what the broker has accepted is such a row.
UsedInv ==
  /\ \A a \in Orders : order[a].row # "unused" => order[a].user \in Users
  /\ \A a \in sent : order[a].row # "unused"

\* The open orders of a trader, and the trader's requests in flight.
Open(u)     == {o \in Rows : order[o].user = u /\ order[o].status \in LiveStatuses}
InFlight(u) == {s \in Sessions : req[s].at # "idle" /\ req[s].user = u}

OpenInv ==
  \A u \in Users :
    Cardinality(Open(u)) + Cardinality(InFlight(u)) <= MaxOpen + Cardinality(Sessions) - 1

\* Ids are used in order; what a writer has read stays readable to it; an entry links
\* back to a committed one or to one of its own transaction.
ChainType == entry \in [Ids -> EntryRow] /\ lastHash \in [Sessions -> Ids \cup {GENESIS}]

ChainInv ==
  /\ \A i, j \in Ids : i < j /\ entry[i].st = "unused" => entry[j].st = "unused"
  /\ \A s \in Sessions : lastHash[s] # GENESIS => lastHash[s] \in Readable(s)
  /\ \A i \in Ids : entry[i].st \in InTable /\ entry[i].prev # GENESIS =>
       /\ entry[i].prev < i
       /\ \/ entry[i].prev \in Committed
          \/ /\ entry[i].st = "flushed" /\ entry[i].prev \in Flushed
             /\ entry[entry[i].prev].by = entry[i].by

IInv == TypeOK /\ ReqType /\ ReqInv /\ IndexInv /\ UsedInv /\ NewsIsCommitted /\ OpenInv
        /\ ChainType /\ ChainInv
-----------------------------------------------------------------------------

\* Counting: a set that gains at most one element, and one that has lost one.
LEMMA AtMostOneMore ==
  ASSUME NEW A, IsFiniteSet(A), NEW x, NEW B, B \subseteq A \cup {x}
  PROVE  Cardinality(B) <= Cardinality(A) + 1
<1>1. Cardinality(A) \in Nat
  BY FS_CardinalityType
<1>0. IsFiniteSet(A \cup {x})
      /\ Cardinality(A \cup {x}) = IF x \in A THEN Cardinality(A) ELSE Cardinality(A) + 1
  BY FS_AddElement
<1>2. IsFiniteSet(A \cup {x}) /\ Cardinality(A \cup {x}) <= Cardinality(A) + 1
  BY <1>1, <1>0
<1>3. IsFiniteSet(B) /\ Cardinality(B) <= Cardinality(A \cup {x})
  BY <1>2, FS_Subset
<1> QED
  BY <1>1, <1>2, <1>3, FS_CardinalityType

LEMMA OneLess ==
  ASSUME NEW A, IsFiniteSet(A), NEW x \in A, NEW B, B \subseteq A \ {x}
  PROVE  Cardinality(B) <= Cardinality(A) - 1
<1>1. Cardinality(A) \in Nat
  BY FS_CardinalityType
<1>2. IsFiniteSet(A \ {x}) /\ Cardinality(A \ {x}) = Cardinality(A) - 1
  BY FS_RemoveElement
<1>3. IsFiniteSet(B) /\ Cardinality(B) <= Cardinality(A \ {x})
  BY <1>2, FS_Subset
<1> QED
  BY <1>1, <1>2, <1>3, FS_CardinalityType

LEMMA NotMore ==
  ASSUME NEW A, IsFiniteSet(A), NEW B, B \subseteq A
  PROVE  IsFiniteSet(B) /\ Cardinality(B) \in Nat /\ Cardinality(B) <= Cardinality(A)
BY FS_Subset, FS_CardinalityType

\* The sets counted are finite in every state, and no more requests run than sessions.
LEMMA Counted ==
  ASSUME NEW u
  PROVE  /\ IsFiniteSet(Open(u)) /\ Cardinality(Open(u)) \in Nat
         /\ IsFiniteSet(InFlight(u)) /\ Cardinality(InFlight(u)) \in Nat
         /\ Cardinality(InFlight(u)) <= Cardinality(Sessions)
         /\ IsFiniteSet(Open(u)') /\ Cardinality(Open(u)') \in Nat
         /\ IsFiniteSet(InFlight(u)') /\ Cardinality(InFlight(u)') \in Nat
         /\ Cardinality(InFlight(u)') <= Cardinality(Sessions)
         /\ Cardinality(Sessions) \in Nat
<1>1. IsFiniteSet(Orders) /\ IsFiniteSet(Sessions)
  BY IntakeAssumption, FS_Interval DEF Orders
<1>2. Open(u) \subseteq Orders /\ Open(u)' \subseteq Orders
  BY DEF Open, Rows
<1>3. InFlight(u) \subseteq Sessions /\ InFlight(u)' \subseteq Sessions
  BY DEF InFlight
<1> QED
  BY <1>1, <1>2, <1>3, NotMore, FS_CardinalityType

\* A step that opens no order and starts no request keeps the count.
LEMMA NoneOpened ==
  ASSUME OpenInv, \A u \in Users : Open(u)' \subseteq Open(u) /\ InFlight(u)' \subseteq InFlight(u)
  PROVE  OpenInv'
<1> SUFFICES ASSUME NEW u \in Users
             PROVE  Cardinality(Open(u)') + Cardinality(InFlight(u)')
                      <= MaxOpen + Cardinality(Sessions) - 1
  BY DEF OpenInv
<1>1. Cardinality(Open(u)') <= Cardinality(Open(u))
  BY Counted, NotMore
<1>2. Cardinality(InFlight(u)') <= Cardinality(InFlight(u))
  BY Counted, NotMore
<1>3. Cardinality(Open(u)) + Cardinality(InFlight(u)) <= MaxOpen + Cardinality(Sessions) - 1
  BY DEF OpenInv
<1> QED
  BY <1>1, <1>2, <1>3, Counted, IntakeAssumption

-----------------------------------------------------------------------------
(* The audit chain. *)

LEMMA ReadLastChain ==
  ASSUME ChainType, ChainInv, NEW s \in Sessions, ReadLast(s)
  PROVE  ChainType' /\ ChainInv'
<1> USE ChainAssumption DEF Ids, GENESIS
<1>1. PICK i \in Ids \cup {GENESIS} : /\ i \in Readable(s) \cup {GENESIS}
                                      /\ lastHash' = [lastHash EXCEPT ![s] = i]
                                      /\ entry' = entry
  BY DEF ReadLast, Highest
<1>2. ChainType'
  BY <1>1 DEF ChainType
<1>3. ChainInv'
  BY <1>1, <1>2 DEF ChainType, ChainInv, Readable, Committed, Flushed
<1> QED
  BY <1>2, <1>3

LEMMA AppendEntryChain ==
  ASSUME ChainType, ChainInv, NEW s \in Sessions, AppendEntry(s)
  PROVE  ChainType' /\ ChainInv'
<1> USE ChainAssumption DEF Ids, GENESIS
<1>1. PICK i \in Ids :
        /\ entry[i].st = "unused" /\ \A j \in Ids : entry[j].st = "unused" => i <= j
        /\ entry' = [entry EXCEPT ![i] = [st |-> "flushed", by |-> {s}, prev |-> lastHash[s]]]
  BY DEF AppendEntry, Lowest, Fresh
<1>2. lastHash' = [lastHash EXCEPT ![s] = GENESIS]
  BY DEF AppendEntry
<1>3. ChainType'
  BY <1>1, <1>2 DEF ChainType, EntryRow
<1>4. \A a, b \in Ids : a < b /\ entry'[a].st = "unused" => entry'[b].st = "unused"
  BY <1>1 DEF ChainType, ChainInv
<1>5. \A t \in Sessions : lastHash'[t] # GENESIS => lastHash'[t] \in Readable(t)'
  BY <1>1, <1>2 DEF ChainType, ChainInv, Readable, Committed, Flushed, EntryRow
<1>6. lastHash[s] # GENESIS => lastHash[s] < i
  BY <1>1 DEF ChainType, ChainInv, Readable, Committed, Flushed, EntryRow
<1>7. ASSUME NEW a \in Ids, entry'[a].st \in InTable, entry'[a].prev # GENESIS
      PROVE  /\ entry'[a].prev < a
             /\ \/ entry'[a].prev \in Committed'
                \/ /\ entry'[a].st = "flushed" /\ entry'[a].prev \in Flushed'
                   /\ entry'[entry'[a].prev].by = entry'[a].by
  <2>1. CASE a = i
    BY <1>1, <1>6, <1>7, <2>1 DEF ChainType, ChainInv, Readable, Committed, Flushed, EntryRow
  <2>2. CASE a # i
    BY <1>1, <1>7, <2>2 DEF ChainType, ChainInv, Committed, Flushed, EntryRow, InTable
  <2> QED
    BY <2>1, <2>2
<1> QED
  BY <1>3, <1>4, <1>5, <1>7 DEF ChainInv

\* The end of a transaction seals what it flushed, either way; it has read nothing that
\* it still needs.
LEMMA SealedChain ==
  ASSUME ChainType, ChainInv, NEW s \in Sessions, NEW st \in {"committed", "gone"},
         entry' = Sealed(s, st),
         \/ st = "committed" /\ lastHash' = lastHash
         \/ lastHash' = [lastHash EXCEPT ![s] = GENESIS]
  PROVE  ChainType' /\ ChainInv'
<1> USE ChainAssumption DEF Ids, GENESIS
<1> DEFINE sealed(i) == entry[i].st = "flushed" /\ entry[i].by = {s}
<1>1. \A i \in Ids : /\ entry'[i].st = IF sealed(i) THEN st ELSE entry[i].st
                     /\ entry'[i].by = IF sealed(i) THEN {} ELSE entry[i].by
                     /\ entry'[i].prev = entry[i].prev
                     /\ entry'[i] \in EntryRow
  <2> SUFFICES ASSUME NEW i \in Ids
               PROVE  /\ entry'[i].st = IF sealed(i) THEN st ELSE entry[i].st
                      /\ entry'[i].by = IF sealed(i) THEN {} ELSE entry[i].by
                      /\ entry'[i].prev = entry[i].prev
                      /\ entry'[i] \in EntryRow
    OBVIOUS
  <2>1. entry[i] \in EntryRow
    BY DEF ChainType
  <2>2. entry'[i] = IF sealed(i) THEN [entry[i] EXCEPT !.st = st, !.by = {}] ELSE entry[i]
    BY DEF Sealed
  <2>3. CASE sealed(i)
    BY <2>1, <2>2, <2>3 DEF EntryRow
  <2>4. CASE ~ sealed(i)
    BY <2>1, <2>2, <2>4
  <2> QED
    BY <2>3, <2>4
<1>2. ChainType'
  BY <1>1 DEF ChainType, Sealed
<1>3. \A a, b \in Ids : a < b /\ entry'[a].st = "unused" => entry'[b].st = "unused"
  BY <1>1 DEF ChainType, ChainInv
<1>4. ASSUME NEW t \in Sessions, lastHash'[t] # GENESIS
      PROVE  lastHash'[t] \in Readable(t)'
  <2>1. lastHash[t] = lastHash'[t] /\ lastHash[t] \in Readable(t) /\ (st = "committed" \/ t # s)
    BY <1>4 DEF ChainType, ChainInv
  <2> QED
    BY <1>1, <2>1 DEF Readable, Committed, Flushed
<1>5. ASSUME NEW a \in Ids, entry'[a].st \in InTable, entry'[a].prev # GENESIS
      PROVE  /\ entry'[a].prev < a
             /\ \/ entry'[a].prev \in Committed'
                \/ /\ entry'[a].st = "flushed" /\ entry'[a].prev \in Flushed'
                   /\ entry'[entry'[a].prev].by = entry'[a].by
  <2>1. /\ entry[a].st \in InTable /\ entry[a].prev < a /\ entry'[a].prev = entry[a].prev
        /\ \/ entry[a].prev \in Committed
           \/ /\ entry[a].st = "flushed" /\ entry[a].prev \in Flushed
              /\ entry[entry[a].prev].by = entry[a].by
    BY <1>1, <1>5 DEF ChainInv, InTable
  <2> QED
    BY <1>1, <1>5, <2>1 DEF Committed, Flushed, InTable
<1> QED
  BY <1>2, <1>3, <1>4, <1>5 DEF ChainInv

-----------------------------------------------------------------------------
(* The steps of a request. *)

LEMMA RowFields ==
  ASSUME NEW r \in OrderRow
  PROVE  /\ \A st \in Statuses : [r EXCEPT !.status = st] \in OrderRow
         /\ [r EXCEPT !.row = "committed"] \in OrderRow /\ [r EXCEPT !.row = "gone"] \in OrderRow
BY DEF OrderRow

LEMMA RiskCheckInv ==
  ASSUME IInv, NEW s \in Sessions, NEW u \in Users, NEW k \in AnyKey, RiskCheck(s, u, k)
  PROVE  IInv'
<1> USE IntakeAssumption DEF IInv, RiskCheck, At, Orders, AnyKey, NoReq, intakeVars
<1>1. ChainType' /\ ChainInv'
  BY DEF auditVars, ChainType, ChainInv, Readable, Committed, Flushed
<1>2. TypeOK'
  BY <1>1 DEF TypeOK, ChainType, ReqType, ReqInv, OnRow, Steps, Statuses, Event, News, Rows, Pending, Unused, Lowest
<1>3. ReqType'
  BY DEF TypeOK, ReqType, ReqInv, OnRow, Steps, Unused, Lowest
<1>4. ReqInv'
  BY DEF TypeOK, ReqType, ReqInv, OnRow, Steps, Statuses, Unused, Pending, Lowest
<1>5. IndexInv'
  BY DEF TypeOK, ReqType, ReqInv, IndexInv, InTable, OnRow, Unused, Pending, Lowest, Statuses
<1>6. UsedInv'
  BY DEF TypeOK, ReqType, ReqInv, UsedInv, OnRow, Unused, Pending, Lowest, Statuses
<1>7. NewsIsCommitted'
  BY DEF TypeOK, ReqType, ReqInv, NewsIsCommitted, Rows, Event, News, OnRow, Unused, Pending, Lowest, Statuses, TerminalStatuses
<1>8. OpenInv'
  <2> SUFFICES ASSUME NEW v \in Users
               PROVE  Cardinality(Open(v)') + Cardinality(InFlight(v)')
                        <= MaxOpen + Cardinality(Sessions) - 1
    BY DEF OpenInv
  <2>1. Open(v)' = Open(v)
    BY DEF Open, Rows
  <2>2. CASE v = u
    <3>1. Open(v) \subseteq OpenOrders(v)
      BY DEF Open, OpenOrders, LiveStatuses, OpenStatuses
    <3>2. OpenOrders(v) \subseteq Orders /\ IsFiniteSet(Orders)
      BY FS_Interval DEF OpenOrders, Rows
    <3>3. Cardinality(OpenOrders(v)) \in Nat /\ Cardinality(Open(v)) <= Cardinality(OpenOrders(v))
      BY <3>1, <3>2, NotMore
    <3>4. Cardinality(OpenOrders(v)) < MaxOpen
      BY <2>2
    <3> QED
      BY <2>1, <3>3, <3>4, Counted
  <2>3. CASE v # u
    <3>1. InFlight(v)' \subseteq InFlight(v)
      BY <2>3 DEF InFlight, ReqType
    <3>2. Cardinality(InFlight(v)') <= Cardinality(InFlight(v))
      BY <3>1, Counted, NotMore
    <3>3. Cardinality(Open(v)) + Cardinality(InFlight(v)) <= MaxOpen + Cardinality(Sessions) - 1
      BY DEF OpenInv
    <3> QED
      BY <2>1, <3>2, <3>3, Counted
  <2> QED
    BY <2>2, <2>3
<1> QED
  BY <1>1, <1>2, <1>3, <1>4, <1>5, <1>6, <1>7, <1>8

\* The INSERT meets a committed row with the key: the request ends.
LEMMA InsertRefusedInv ==
  ASSUME IInv, NEW s \in Sessions, req' = [req EXCEPT ![s] = NoReq],
         UNCHANGED <<order, sent, auditVars, due>>
  PROVE  IInv'
<1> USE IntakeAssumption DEF IInv, NoReq, AnyKey, Orders
<1>1. ChainType' /\ ChainInv'
  BY DEF auditVars, ChainType, ChainInv, Readable, Committed, Flushed
<1>2. TypeOK'
  <2>a. order \in [Orders -> OrderRow]
    BY DEF TypeOK, OrderRow
  <2>1. order' \in [Orders -> OrderRow]
    BY <2>a, RowFields DEF ReqInv, OnRow, Statuses
  <2>2. \A t \in Sessions : req'[t].id # 0 => order'[req'[t].id].row = "flushed"
    BY DEF TypeOK, ReqType, ReqInv, OnRow, Statuses, Pending
  <2>3. sent' \subseteq Orders /\ due' \subseteq Event
    BY DEF TypeOK, ReqType, ReqInv, UsedInv, OnRow, Event, News, Rows, Statuses
  <2> QED
    BY <1>1, <2>1, <2>2, <2>3 DEF TypeOK, ChainType, OrderRow
<1>3. ReqType'
  BY DEF TypeOK, ReqType, ReqInv, OnRow, Steps, Unused, Lowest
<1>4. ReqInv'
  BY DEF TypeOK, ReqType, ReqInv, OnRow, Steps, Statuses, Unused, Pending, Lowest
<1>5. IndexInv'
  BY DEF TypeOK, ReqType, ReqInv, IndexInv, InTable, OnRow, Unused, Pending, Lowest, Statuses
<1>6. UsedInv'
  BY DEF TypeOK, ReqType, ReqInv, UsedInv, OnRow, Unused, Pending, Lowest, Statuses
<1>7. NewsIsCommitted'
  BY DEF TypeOK, ReqType, ReqInv, NewsIsCommitted, Rows, Event, News, OnRow, Unused, Pending, Lowest, Statuses, TerminalStatuses
<1>8. OpenInv'
  <2>1. \A u \in Users : Open(u)' \subseteq Open(u) /\ InFlight(u)' \subseteq InFlight(u)
    BY DEF TypeOK, ReqType, ReqInv, Open, InFlight, Rows, LiveStatuses, OnRow, Unused, Pending, Lowest, Statuses, Moves, RowStatuses
  <2> QED
    BY <2>1, NoneOpened
<1> QED
  BY <1>1, <1>2, <1>3, <1>4, <1>5, <1>6, <1>7, <1>8

LEMMA InsertDoneInv ==
  ASSUME IInv, NEW s \in Sessions, NEW o \in Orders, req[s].at = "checked", order[o].row = "unused",
         Duplicates(req[s].user, req[s].key, Pending) = {},
         Duplicates(req[s].user, req[s].key, Rows) = {},
         order' = [order EXCEPT ![o] = [row |-> "flushed", user |-> req[s].user,
                                        key |-> req[s].key, status |-> "SUBMITTED"]],
         req' = [req EXCEPT ![s].at = "flushed", ![s].id = o],
         UNCHANGED <<sent, auditVars, due>>
  PROVE  IInv'
<1> USE IntakeAssumption DEF IInv, Duplicates, AnyKey, Orders
<1>1. ChainType' /\ ChainInv'
  BY DEF auditVars, ChainType, ChainInv, Readable, Committed, Flushed
<1>2. TypeOK'
  <2>a. order \in [Orders -> OrderRow]
    BY DEF TypeOK, OrderRow
  <2>1. order' \in [Orders -> OrderRow]
    BY <2>a DEF TypeOK, ReqType, OrderRow, ReqInv, OnRow, Statuses
  <2>2. \A t \in Sessions : req'[t].id # 0 => order'[req'[t].id].row = "flushed"
    BY DEF TypeOK, ReqType, ReqInv, OnRow, Statuses, Pending
  <2>3. sent' \subseteq Orders /\ due' \subseteq Event
    BY DEF TypeOK, ReqType, ReqInv, UsedInv, OnRow, Event, News, Rows, Statuses
  <2> QED
    BY <1>1, <2>1, <2>2, <2>3 DEF TypeOK, ChainType, OrderRow
<1>3. ReqType'
  BY DEF ReqType, Steps
<1>4. ReqInv'
  BY DEF TypeOK, ReqType, ReqInv, OnRow, Steps, Statuses, Unused, Pending, Lowest
<1>5. IndexInv'
  BY DEF TypeOK, ReqType, ReqInv, IndexInv, InTable, OnRow, Unused, Pending, Lowest, Statuses
<1>6. UsedInv'
  BY DEF TypeOK, ReqType, ReqInv, UsedInv, OnRow, Unused, Pending, Lowest, Statuses
<1>7. NewsIsCommitted'
  BY DEF TypeOK, ReqType, ReqInv, NewsIsCommitted, Rows, Event, News, OnRow, Unused, Pending, Lowest, Statuses, TerminalStatuses
<1>8. OpenInv'
  <2>1. \A u \in Users : Open(u)' \subseteq Open(u) /\ InFlight(u)' \subseteq InFlight(u)
    BY DEF TypeOK, ReqType, ReqInv, Open, InFlight, Rows, LiveStatuses, OnRow, Unused, Pending, Lowest, Statuses, Moves, RowStatuses
  <2> QED
    BY <2>1, NoneOpened
<1> QED
  BY <1>1, <1>2, <1>3, <1>4, <1>5, <1>6, <1>7, <1>8

LEMMA InsertInv ==
  ASSUME IInv, NEW s \in Sessions, Insert(s)
  PROVE  IInv'
<1>1. CASE Violating(req[s].user, req[s].key, Rows) # {}
  BY <1>1, InsertRefusedInv DEF Insert
<1>2. CASE Violating(req[s].user, req[s].key, Rows) = {}
  <2>1. PICK o \in Orders :
          /\ Lowest(o, Unused)
          /\ order' = [order EXCEPT ![o] = [row |-> "flushed", user |-> req[s].user,
                                            key |-> req[s].key, status |-> "SUBMITTED"]]
          /\ req' = [req EXCEPT ![s].at = "flushed", ![s].id = o]
    BY <1>2 DEF Insert
  <2>2. order[o].row = "unused"
    BY <2>1 DEF Lowest, Unused
  <2> QED
    BY <1>2, <2>1, <2>2, InsertDoneInv DEF Insert, Violating
<1> QED
  BY <1>1, <1>2

LEMMA HoldInv ==
  ASSUME IInv, NEW s \in Sessions, Hold(s)
  PROVE  IInv'
<1> USE IntakeAssumption DEF IInv, Hold, At, Orders, AnyKey, NoReq, intakeVars
<1>1. ChainType' /\ ChainInv'
  BY DEF auditVars, ChainType, ChainInv, Readable, Committed, Flushed
<1>2. TypeOK'
  BY <1>1 DEF TypeOK, ChainType, ReqType, ReqInv, OnRow, Steps, Statuses, Event, News, Rows, Pending, Unused, Lowest
<1>3. ReqType'
  BY DEF TypeOK, ReqType, ReqInv, OnRow, Steps, Unused, Lowest
<1>4. ReqInv'
  BY DEF TypeOK, ReqType, ReqInv, OnRow, Steps, Statuses, Unused, Pending, Lowest
<1>5. IndexInv'
  BY DEF TypeOK, ReqType, ReqInv, IndexInv, InTable, OnRow, Unused, Pending, Lowest, Statuses
<1>6. UsedInv'
  BY DEF TypeOK, ReqType, ReqInv, UsedInv, OnRow, Unused, Pending, Lowest, Statuses
<1>7. NewsIsCommitted'
  BY DEF TypeOK, ReqType, ReqInv, NewsIsCommitted, Rows, Event, News, OnRow, Unused, Pending, Lowest, Statuses, TerminalStatuses
<1>8. OpenInv'
  <2>1. \A u \in Users : Open(u)' \subseteq Open(u) /\ InFlight(u)' \subseteq InFlight(u)
    BY DEF TypeOK, ReqType, ReqInv, Open, InFlight, Rows, LiveStatuses, OnRow, Unused, Pending, Lowest, Statuses, Moves, RowStatuses
  <2> QED
    BY <2>1, NoneOpened
<1> QED
  BY <1>1, <1>2, <1>3, <1>4, <1>5, <1>6, <1>7, <1>8

LEMMA AtBrokerInv ==
  ASSUME IInv, NEW s \in Sessions, AtBroker(s)
  PROVE  IInv'
<1> USE IntakeAssumption DEF IInv, AtBroker, At, Orders, AnyKey, NoReq, intakeVars
<1>1. ChainType' /\ ChainInv'
  BY DEF auditVars, ChainType, ChainInv, Readable, Committed, Flushed
<1>2. TypeOK'
  <2>a. order \in [Orders -> OrderRow]
    BY DEF TypeOK, OrderRow
  <2>1. order' \in [Orders -> OrderRow]
    <3>1. PICK status \in Statuses : order' = [order EXCEPT ![req[s].id].status = status]
      BY DEF Statuses
    <3>2. req[s].id \in Orders
      BY DEF ReqInv, OnRow
    <3> HIDE DEF IInv, AtBroker
    <3> QED
      BY <2>a, <3>1, <3>2, RowFields
  <2>2. \A t \in Sessions : req'[t].id # 0 => order'[req'[t].id].row = "flushed"
    BY DEF TypeOK, ReqType, ReqInv, OnRow, Statuses, Pending
  <2>3. sent' \subseteq Orders /\ due' \subseteq Event
    BY DEF TypeOK, ReqType, ReqInv, UsedInv, OnRow, Event, News, Rows, Statuses
  <2> QED
    BY <1>1, <2>1, <2>2, <2>3 DEF TypeOK, ChainType, OrderRow
<1>3. ReqType'
  BY DEF TypeOK, ReqType, ReqInv, OnRow, Steps, Unused, Lowest
<1>4. ReqInv'
  BY DEF TypeOK, ReqType, ReqInv, OnRow, Steps, Statuses, Unused, Pending, Lowest
<1>5. IndexInv'
  BY DEF TypeOK, ReqType, ReqInv, IndexInv, InTable, OnRow, Unused, Pending, Lowest, Statuses
<1>6. UsedInv'
  BY DEF TypeOK, ReqType, ReqInv, UsedInv, OnRow, Unused, Pending, Lowest, Statuses
<1>7. NewsIsCommitted'
  BY DEF TypeOK, ReqType, ReqInv, NewsIsCommitted, Rows, Event, News, OnRow, Unused, Pending, Lowest, Statuses, TerminalStatuses
<1>8. OpenInv'
  <2>1. \A u \in Users : Open(u)' \subseteq Open(u) /\ InFlight(u)' \subseteq InFlight(u)
    BY DEF TypeOK, ReqType, ReqInv, Open, InFlight, Rows, LiveStatuses, OnRow, Unused, Pending, Lowest, Statuses, Moves, RowStatuses
  <2> QED
    BY <2>1, NoneOpened
<1> QED
  BY <1>1, <1>2, <1>3, <1>4, <1>5, <1>6, <1>7, <1>8

LEMMA AuditReadInv ==
  ASSUME IInv, NEW s \in Sessions, AuditRead(s)
  PROVE  IInv'
<1> USE IntakeAssumption DEF IInv, AuditRead, At, Orders, AnyKey, NoReq, intakeVars
<1>1. ChainType' /\ ChainInv'
  BY ReadLastChain
<1>2. TypeOK'
  BY <1>1 DEF TypeOK, ChainType, ReqType, ReqInv, OnRow, Steps, Statuses, Event, News, Rows, Pending, Unused, Lowest
<1>3. ReqType'
  BY DEF TypeOK, ReqType, ReqInv, OnRow, Steps, Unused, Lowest
<1>4. ReqInv'
  BY DEF TypeOK, ReqType, ReqInv, OnRow, Steps, Statuses, Unused, Pending, Lowest
<1>5. IndexInv'
  BY DEF TypeOK, ReqType, ReqInv, IndexInv, InTable, OnRow, Unused, Pending, Lowest, Statuses
<1>6. UsedInv'
  BY DEF TypeOK, ReqType, ReqInv, UsedInv, OnRow, Unused, Pending, Lowest, Statuses
<1>7. NewsIsCommitted'
  BY DEF TypeOK, ReqType, ReqInv, NewsIsCommitted, Rows, Event, News, OnRow, Unused, Pending, Lowest, Statuses, TerminalStatuses
<1>8. OpenInv'
  <2>1. \A u \in Users : Open(u)' \subseteq Open(u) /\ InFlight(u)' \subseteq InFlight(u)
    BY DEF TypeOK, ReqType, ReqInv, Open, InFlight, Rows, LiveStatuses, OnRow, Unused, Pending, Lowest, Statuses, Moves, RowStatuses
  <2> QED
    BY <2>1, NoneOpened
<1> QED
  BY <1>1, <1>2, <1>3, <1>4, <1>5, <1>6, <1>7, <1>8

LEMMA AuditWriteInv ==
  ASSUME IInv, NEW s \in Sessions, AuditWrite(s)
  PROVE  IInv'
<1> USE IntakeAssumption DEF IInv, AuditWrite, At, Orders, AnyKey, NoReq, intakeVars
<1>1. ChainType' /\ ChainInv'
  BY AppendEntryChain
<1>2. TypeOK'
  BY <1>1 DEF TypeOK, ChainType, ReqType, ReqInv, OnRow, Steps, Statuses, Event, News, Rows, Pending, Unused, Lowest
<1>3. ReqType'
  BY DEF TypeOK, ReqType, ReqInv, OnRow, Steps, Unused, Lowest
<1>4. ReqInv'
  BY DEF TypeOK, ReqType, ReqInv, OnRow, Steps, Statuses, Unused, Pending, Lowest
<1>5. IndexInv'
  BY DEF TypeOK, ReqType, ReqInv, IndexInv, InTable, OnRow, Unused, Pending, Lowest, Statuses
<1>6. UsedInv'
  BY DEF TypeOK, ReqType, ReqInv, UsedInv, OnRow, Unused, Pending, Lowest, Statuses
<1>7. NewsIsCommitted'
  BY DEF TypeOK, ReqType, ReqInv, NewsIsCommitted, Rows, Event, News, OnRow, Unused, Pending, Lowest, Statuses, TerminalStatuses
<1>8. OpenInv'
  <2>1. \A u \in Users : Open(u)' \subseteq Open(u) /\ InFlight(u)' \subseteq InFlight(u)
    BY DEF TypeOK, ReqType, ReqInv, Open, InFlight, Rows, LiveStatuses, OnRow, Unused, Pending, Lowest, Statuses, Moves, RowStatuses
  <2> QED
    BY <2>1, NoneOpened
<1> QED
  BY <1>1, <1>2, <1>3, <1>4, <1>5, <1>6, <1>7, <1>8

LEMMA CommitInv ==
  ASSUME IInv, NEW s \in Sessions, Commit(s)
  PROVE  IInv'
<1> USE IntakeAssumption DEF IInv, Commit, At, Orders, AnyKey, NoReq, intakeVars
<1>1. ChainType' /\ ChainInv'
  BY SealedChain DEF CommitEntries
<1>2. TypeOK'
  <2>a. order \in [Orders -> OrderRow]
    BY DEF TypeOK, OrderRow
  <2>1. order' \in [Orders -> OrderRow]
    BY <2>a, RowFields DEF ReqInv, OnRow, Statuses
  <2>2. \A t \in Sessions : req'[t].id # 0 => order'[req'[t].id].row = "flushed"
    BY DEF TypeOK, ReqType, ReqInv, OnRow, Statuses, Pending
  <2>3. sent' \subseteq Orders /\ due' \subseteq Event
    BY DEF TypeOK, ReqType, ReqInv, UsedInv, OnRow, Event, News, Rows, Statuses
  <2> QED
    BY <1>1, <2>1, <2>2, <2>3 DEF TypeOK, ChainType, OrderRow
<1>3. ReqType'
  BY DEF TypeOK, ReqType, ReqInv, OnRow, Steps, Unused, Lowest
<1>4. ReqInv'
  BY DEF TypeOK, ReqType, ReqInv, OnRow, Steps, Statuses, Unused, Pending, Lowest
<1>5. IndexInv'
  BY DEF TypeOK, ReqType, ReqInv, IndexInv, InTable, OnRow, Unused, Pending, Lowest, Statuses
<1>6. UsedInv'
  BY DEF TypeOK, ReqType, ReqInv, UsedInv, OnRow, Unused, Pending, Lowest, Statuses
<1>7. NewsIsCommitted'
  BY DEF TypeOK, ReqType, ReqInv, NewsIsCommitted, Rows, Event, News, OnRow, Unused, Pending, Lowest, Statuses, TerminalStatuses
<1>8. OpenInv'
  <2> SUFFICES ASSUME NEW v \in Users
               PROVE  Cardinality(Open(v)') + Cardinality(InFlight(v)')
                        <= MaxOpen + Cardinality(Sessions) - 1
    BY DEF OpenInv
  <2>1. Cardinality(Open(v)) + Cardinality(InFlight(v)) <= MaxOpen + Cardinality(Sessions) - 1
    BY DEF OpenInv
  <2>2. CASE v = req[s].user
    <3>1. Open(v)' \subseteq Open(v) \cup {req[s].id}
      BY DEF Open, Rows, TypeOK
    <3>2. s \in InFlight(v) /\ InFlight(v)' \subseteq InFlight(v) \ {s}
      BY <2>2 DEF InFlight, ReqType, NoReq
    <3>3. Cardinality(Open(v)') <= Cardinality(Open(v)) + 1
      BY <3>1, Counted, AtMostOneMore
    <3>4. Cardinality(InFlight(v)') <= Cardinality(InFlight(v)) - 1
      BY <3>2, Counted, OneLess
    <3> QED
      BY <2>1, <3>3, <3>4, Counted
  <2>3. CASE v # req[s].user
    <3>1. Open(v)' \subseteq Open(v)
      BY <2>3 DEF Open, Rows, TypeOK, ReqInv, OnRow
    <3>2. InFlight(v)' \subseteq InFlight(v)
      BY <2>3 DEF InFlight, ReqType, NoReq
    <3>3. Cardinality(Open(v)') <= Cardinality(Open(v)) /\ Cardinality(InFlight(v)') <= Cardinality(InFlight(v))
      BY <3>1, <3>2, Counted, NotMore
    <3> QED
      BY <2>1, <3>3, Counted
  <2> QED
    BY <2>2, <2>3
<1> QED
  BY <1>1, <1>2, <1>3, <1>4, <1>5, <1>6, <1>7, <1>8

LEMMA AbortInv ==
  ASSUME IInv, NEW s \in Sessions, Abort(s)
  PROVE  IInv'
<1> USE IntakeAssumption DEF IInv, Abort, At, Orders, AnyKey, NoReq, intakeVars
<1>1. ChainType' /\ ChainInv'
  BY SealedChain DEF RollbackEntries
<1>2. TypeOK'
  <2>a. order \in [Orders -> OrderRow]
    BY DEF TypeOK, OrderRow
  <2>1. order' \in [Orders -> OrderRow]
    BY <2>a, RowFields DEF ReqInv, OnRow, Statuses
  <2>2. \A t \in Sessions : req'[t].id # 0 => order'[req'[t].id].row = "flushed"
    BY DEF TypeOK, ReqType, ReqInv, OnRow, Statuses, Pending
  <2>3. sent' \subseteq Orders /\ due' \subseteq Event
    BY DEF TypeOK, ReqType, ReqInv, UsedInv, OnRow, Event, News, Rows, Statuses
  <2> QED
    BY <1>1, <2>1, <2>2, <2>3 DEF TypeOK, ChainType, OrderRow
<1>3. ReqType'
  BY DEF TypeOK, ReqType, ReqInv, OnRow, Steps, Unused, Lowest
<1>4. ReqInv'
  BY DEF TypeOK, ReqType, ReqInv, OnRow, Steps, Statuses, Unused, Pending, Lowest
<1>5. IndexInv'
  BY DEF TypeOK, ReqType, ReqInv, IndexInv, InTable, OnRow, Unused, Pending, Lowest, Statuses
<1>6. UsedInv'
  BY DEF TypeOK, ReqType, ReqInv, UsedInv, OnRow, Unused, Pending, Lowest, Statuses
<1>7. NewsIsCommitted'
  BY DEF TypeOK, ReqType, ReqInv, NewsIsCommitted, Rows, Event, News, OnRow, Unused, Pending, Lowest, Statuses, TerminalStatuses
<1>8. OpenInv'
  <2>1. \A u \in Users : Open(u)' \subseteq Open(u) /\ InFlight(u)' \subseteq InFlight(u)
    BY DEF TypeOK, ReqType, ReqInv, Open, InFlight, Rows, LiveStatuses, OnRow, Unused, Pending, Lowest, Statuses, Moves, RowStatuses
  <2> QED
    BY <2>1, NoneOpened
<1> QED
  BY <1>1, <1>2, <1>3, <1>4, <1>5, <1>6, <1>7, <1>8

LEMMA MovedInv ==
  ASSUME IInv, NEW o \in Orders, NEW status \in Statuses, Moved(o, status)
  PROVE  IInv'
<1> USE IntakeAssumption DEF IInv, Moved, At, Orders, AnyKey, NoReq, intakeVars
<1>1. ChainType' /\ ChainInv'
  BY DEF auditVars, ChainType, ChainInv, Readable, Committed, Flushed
<1>2. TypeOK'
  <2>0. [News(o) EXCEPT !.status = status] = [id |-> o, user |-> order[o].user, status |-> status]
    BY DEF News
  <2>a. order \in [Orders -> OrderRow]
    BY DEF TypeOK, OrderRow
  <2>1. order' \in [Orders -> OrderRow]
    BY <2>a, RowFields DEF ReqInv, OnRow, Statuses
  <2>2. \A t \in Sessions : req'[t].id # 0 => order'[req'[t].id].row = "flushed"
    BY DEF TypeOK, ReqType, ReqInv, OnRow, Statuses, Pending
  <2>3. sent' \subseteq Orders /\ due' \subseteq Event
    BY <2>0 DEF TypeOK, ReqType, ReqInv, UsedInv, OnRow, Event, News, Rows, Statuses
  <2> QED
    BY <1>1, <2>1, <2>2, <2>3 DEF TypeOK, ChainType, OrderRow
<1>3. ReqType'
  BY DEF TypeOK, ReqType, ReqInv, OnRow, Steps, Unused, Lowest
<1>4. ReqInv'
  BY DEF TypeOK, ReqType, ReqInv, OnRow, Steps, Statuses, Unused, Pending, Lowest
<1>5. IndexInv'
  BY DEF TypeOK, ReqType, ReqInv, IndexInv, InTable, OnRow, Unused, Pending, Lowest, Statuses
<1>6. UsedInv'
  BY DEF TypeOK, ReqType, ReqInv, UsedInv, OnRow, Unused, Pending, Lowest, Statuses
<1>7. NewsIsCommitted'
  <2>0. [News(o) EXCEPT !.status = status] = [id |-> o, user |-> order[o].user, status |-> status]
    BY DEF News
  <2> QED
    BY <2>0 DEF TypeOK, NewsIsCommitted, Rows, Event, Moves, RowStatuses, Statuses, TerminalStatuses
<1>8. OpenInv'
  <2>1. \A u \in Users : Open(u)' \subseteq Open(u) /\ InFlight(u)' \subseteq InFlight(u)
    BY DEF TypeOK, ReqType, ReqInv, Open, InFlight, Rows, LiveStatuses, OnRow, Unused, Pending, Lowest, Statuses, Moves, RowStatuses
  <2> QED
    BY <2>1, NoneOpened
<1> QED
  BY <1>1, <1>2, <1>3, <1>4, <1>5, <1>6, <1>7, <1>8

LEMMA TellInv ==
  ASSUME IInv, NEW e \in due, Tell(e)
  PROVE  IInv'
<1> USE IntakeAssumption DEF IInv, Tell, At, Orders, AnyKey, NoReq, intakeVars
<1>1. ChainType' /\ ChainInv'
  BY DEF auditVars, ChainType, ChainInv, Readable, Committed, Flushed
<1>2. TypeOK'
  BY <1>1 DEF TypeOK, ChainType, ReqType, ReqInv, OnRow, Steps, Statuses, Event, News, Rows, Pending, Unused, Lowest
<1>3. ReqType'
  BY DEF TypeOK, ReqType, ReqInv, OnRow, Steps, Unused, Lowest
<1>4. ReqInv'
  BY DEF TypeOK, ReqType, ReqInv, OnRow, Steps, Statuses, Unused, Pending, Lowest
<1>5. IndexInv'
  BY DEF TypeOK, ReqType, ReqInv, IndexInv, InTable, OnRow, Unused, Pending, Lowest, Statuses
<1>6. UsedInv'
  BY DEF TypeOK, ReqType, ReqInv, UsedInv, OnRow, Unused, Pending, Lowest, Statuses
<1>7. NewsIsCommitted'
  BY DEF TypeOK, ReqType, ReqInv, NewsIsCommitted, Rows, Event, News, OnRow, Unused, Pending, Lowest, Statuses, TerminalStatuses
<1>8. OpenInv'
  <2>1. \A u \in Users : Open(u)' \subseteq Open(u) /\ InFlight(u)' \subseteq InFlight(u)
    BY DEF TypeOK, ReqType, ReqInv, Open, InFlight, Rows, LiveStatuses, OnRow, Unused, Pending, Lowest, Statuses, Moves, RowStatuses
  <2> QED
    BY <2>1, NoneOpened
<1> QED
  BY <1>1, <1>2, <1>3, <1>4, <1>5, <1>6, <1>7, <1>8

-----------------------------------------------------------------------------
LEMMA InitInv == Init => IInv
<1> SUFFICES ASSUME Init PROVE IInv
  OBVIOUS
<1> USE IntakeAssumption, ChainAssumption DEF Init, AuditInit, NoEntry, NoOrder, NoReq, Orders, AnyKey, Ids, GENESIS
<1>1. TypeOK
  BY DEF TypeOK, EntryRow, Statuses, Event
<1>2. ReqType /\ ReqInv
  BY DEF ReqType, ReqInv, OnRow, Steps
<1>3. IndexInv /\ UsedInv /\ NewsIsCommitted
  BY DEF IndexInv, UsedInv, NewsIsCommitted, InTable
<1>4. OpenInv
  <2> SUFFICES ASSUME NEW u \in Users
               PROVE  Cardinality(Open(u)) + Cardinality(InFlight(u))
                        <= MaxOpen + Cardinality(Sessions) - 1
    BY DEF OpenInv
  <2>1. Open(u) = {} /\ InFlight(u) = {}
    BY DEF Open, InFlight, Rows
  <2>2. Cardinality(Sessions) \in Nat /\ Cardinality(Sessions) # 0
    BY FS_CardinalityType, FS_EmptySet
  <2> QED
    BY <2>1, <2>2, FS_EmptySet
<1>5. ChainType /\ ChainInv
  BY DEF ChainType, ChainInv, EntryRow, InTable
<1> QED
  BY <1>1, <1>2, <1>3, <1>4, <1>5 DEF IInv

LEMMA StepInv == IInv /\ [Next]_vars => IInv'
<1> SUFFICES ASSUME IInv, [Next]_vars PROVE IInv'
  OBVIOUS
<1>1. CASE \E s \in Sessions, u \in Users, k \in AnyKey : RiskCheck(s, u, k)
  BY <1>1, RiskCheckInv
<1>2. CASE \E s \in Sessions : Insert(s) \/ Hold(s) \/ AtBroker(s)
  BY <1>2, InsertInv, HoldInv, AtBrokerInv
<1>3. CASE \E s \in Sessions : AuditRead(s) \/ AuditWrite(s) \/ Commit(s) \/ Abort(s)
  BY <1>3, AuditReadInv, AuditWriteInv, CommitInv, AbortInv
<1>4. CASE \E o \in Orders, status \in Statuses : Moved(o, status)
  BY <1>4, MovedInv
<1>5. CASE \E e \in due : Tell(e)
  BY <1>5, TellInv
<1>6. CASE UNCHANGED vars
  BY <1>6 DEF IInv, TypeOK, ReqType, ReqInv, IndexInv, UsedInv, NewsIsCommitted, OpenInv,
     ChainType, ChainInv, Open, InFlight, Rows, Readable, Committed, Flushed, vars, intakeVars, auditVars
<1> QED
  BY <1>1, <1>2, <1>3, <1>4, <1>5, <1>6 DEF Next

LEMMA Inductive == Spec => []IInv
BY InitInv, StepInv, PTL DEF Spec

\* Types: every variable keeps its domain, and a request in flight has a row of its own.
THEOREM IntakeTypes == Spec => []TypeOK
<1>1. IInv => TypeOK
  BY DEF IInv
<1> QED
  BY <1>1, Inductive, PTL

\* SentOnce for every number of requests racing past the look-up: the unique index
\* alone keeps a repeated client_order_id from the broker (_risk_check, Order).
THEOREM KeySentOnce == Spec => []SentOnce
<1>1. IInv => SentOnce
  BY DEF IInv, TypeOK, IndexInv, UsedInv, SentOnce, InTable
<1> QED
  BY <1>1, Inductive, PTL

\* OpenIsBounded for every limit and every number of sessions: how far requests that
\* passed _risk_check together can overrun the limit.
THEOREM LimitOverrun == Spec => []OpenIsBounded
<1>1. IInv => OpenIsBounded
  <2> SUFFICES ASSUME IInv, NEW u \in Users
               PROVE  Cardinality(Open(u)) <= MaxOpen + Cardinality(Sessions) - 1
    BY DEF OpenIsBounded, Open, LiveStatuses
  <2>1. Cardinality(Open(u)) + Cardinality(InFlight(u)) <= MaxOpen + Cardinality(Sessions) - 1
    BY DEF IInv, OpenInv
  <2> QED
    BY <2>1, Counted, IntakeAssumption
<1> QED
  BY <1>1, Inductive, PTL

\* NewsIsCommitted for every number of orders and events: no event announces a row
\* that is not committed, or an end that is not the order's (create_order).
THEOREM NewsIsTrue == Spec => []NewsIsCommitted
<1>1. IInv => NewsIsCommitted
  BY DEF IInv
<1> QED
  BY <1>1, Inductive, PTL

\* LinksAreReal for every number of writers: write_audit never chains to an entry that
\* is rolled back.
THEOREM ChainIsReal == Spec => []LinksAreReal
<1>1. IInv => LinksAreReal
  BY DEF IInv, ChainInv, LinksAreReal, Committed, InTable
<1> QED
  BY <1>1, Inductive, PTL

-----------------------------------------------------------------------------
(* The inductive invariant of the fan-out.                                 *)

\* A trader's set holds sockets of that trader that have subscribed; before that a socket
\* has received nothing.
SocketInv ==
  /\ \A u \in Traders : \A w \in conns[u] : sock[w].user = u /\ sock[w].st # "new"
  /\ \A w \in Sockets : sock[w].st = "new" => got[w] = <<>>

\* Everything on its way was published, and it is behind everything that was delivered.
QueueInv ==
  /\ \A i \in DOMAIN told : told[i].n = i
  /\ \A j \in DOMAIN channel : channel[j] \in ToSet(told)
  /\ \A i, j \in DOMAIN channel : i < j => channel[i].n < channel[j].n
  /\ \A w \in Sockets : \A i \in DOMAIN got[w] :
       /\ got[w][i] \in ToSet(told)
       /\ \A j \in DOMAIN channel : got[w][i].n < channel[j].n

\* The socket has the message in turn: the walk is past it.
Served(w) ==
  /\ sock[w].user \notin listener.todo
  /\ sock[w].user \in listener.cur => w \in listener.visited

\* While a message is walked over sockets, it is addressed to whoever is still to come,
\* and a socket that has it is not met again.
WalkInv ==
  /\ Current \in ToSet(told)
  /\ \A j \in DOMAIN channel : Current.n < channel[j].n
  /\ \A u \in listener.todo \cup listener.cur : Current.user \in {u, ALL}
  /\ \A u, v \in listener.cur : u = v
  /\ listener.todo \cap listener.cur = {}
  /\ \A w \in Sockets : \A i \in DOMAIN got[w] :
       \/ got[w][i].n < Current.n
       \/ got[w][i].n = Current.n /\ Served(w)

Fields == {"at", "msg", "keys", "todo", "cur", "from", "visited", "dead"}

IsListener(l) == l = [f \in Fields |-> l[f]]

FanTypes ==
  /\ channel \in Seq(Message) /\ told \in Seq(Message) /\ got \in [Sockets -> Seq(Message)]
  /\ sock \in [Sockets -> [st : {"new", "open", "broken", "closed"}, user : Traders \cup {"nobody"}]]
  /\ conns \in [Traders -> SUBSET Sockets]
  /\ IsListener(listener)
  /\ listener.at \in {"waiting", "walking", "dead"}
  /\ listener.todo \subseteq Traders /\ listener.cur \subseteq Traders
  /\ listener.at # "walking" => listener.cur = {}

FanInv ==
  /\ FanTypes /\ SocketInv /\ QueueInv
  /\ listener.at = "walking" => WalkInv
  /\ DeliveredInOrder

-----------------------------------------------------------------------------
(* One step of the fan-out.                                                *)

LEMMA Appended ==
  ASSUME NEW S, NEW s \in Seq(S), NEW e \in S
  PROVE  /\ Append(s, e) \in Seq(S)
         /\ DOMAIN Append(s, e) = DOMAIN s \cup {Len(s) + 1} /\ Len(s) + 1 \notin DOMAIN s
         /\ \A i \in DOMAIN s : Append(s, e)[i] = s[i]
         /\ Append(s, e)[Len(s) + 1] = e
         /\ ToSet(Append(s, e)) = ToSet(s) \cup {e}
         /\ DOMAIN s = 1..Len(s) /\ Len(s) \in Nat
<1>1. /\ Append(s, e) \in Seq(S) /\ Len(s) \in Nat
      /\ DOMAIN s = 1..Len(s) /\ DOMAIN Append(s, e) = 1..(Len(s) + 1)
      /\ \A i \in DOMAIN s : Append(s, e)[i] = s[i]
      /\ Append(s, e)[Len(s) + 1] = e
  OBVIOUS
<1>2. DOMAIN Append(s, e) = DOMAIN s \cup {Len(s) + 1} /\ Len(s) + 1 \notin DOMAIN s
  BY <1>1
<1>3. ToSet(Append(s, e)) = ToSet(s) \cup {e}
  BY <1>1, <1>2 DEF ToSet
<1> QED
  BY <1>1, <1>2, <1>3

LEMMA Headed ==
  ASSUME NEW S, NEW s \in Seq(S), s # <<>>
  PROVE  /\ Head(s) \in S /\ Tail(s) \in Seq(S) /\ 1 \in DOMAIN s /\ Head(s) = s[1]
         /\ DOMAIN s \subseteq Nat /\ \A i \in DOMAIN s : i >= 1
         /\ \A i \in DOMAIN Tail(s) : i + 1 \in DOMAIN s /\ Tail(s)[i] = s[i + 1]
<1>1. Len(s) \in Nat \ {0} /\ DOMAIN s = 1..Len(s)
  OBVIOUS
<1>2. Tail(s) \in Seq(S) /\ Len(Tail(s)) = Len(s) - 1 /\ DOMAIN Tail(s) = 1..(Len(s) - 1)
  BY <1>1
<1>3. \A i \in 1..(Len(s) - 1) : Tail(s)[i] = s[i + 1]
  BY <1>1
<1> QED
  BY <1>1, <1>2, <1>3

LEMMA WaitingIs ==
  /\ IsListener(Waiting) /\ Waiting.at = "waiting" /\ Waiting.cur = {}
  /\ Waiting.todo = {} /\ Waiting.visited = {}
BY DEF IsListener, Fields, Waiting

LEMMA ListenerStops ==
  ASSUME NEW m, m = [Waiting EXCEPT !.at = "dead"]
  PROVE  IsListener(m) /\ m.at = "dead" /\ m.cur = {} /\ m.todo = {}
BY WaitingIs DEF IsListener, Fields

\* An event is published behind all others.
LEMMA PublishKeeps ==
  ASSUME FanInv, NEW u \in Traders \cup {ALL}, Publish(u) PROVE FanInv'
<1> DEFINE e == [n |-> Len(told) + 1, user |-> u]
<1>1. FanTypes /\ SocketInv /\ QueueInv /\ (listener.at = "walking" => WalkInv) /\ DeliveredInOrder
  BY DEF FanInv
<1>2. /\ Len(told) < MaxEvents /\ told' = Append(told, e) /\ channel' = Append(channel, e)
      /\ sock' = sock /\ conns' = conns /\ listener' = listener /\ got' = got
  BY DEF Publish
<1>3. Len(told) \in Nat /\ MaxEvents \in Nat /\ told \in Seq(Message) /\ channel \in Seq(Message)
  BY <1>1, FanAssumption DEF FanTypes
<1>4. e \in Message /\ e.n = Len(told) + 1 /\ e.user = u
  BY <1>2, <1>3 DEF Message
<1> HIDE DEF e
<1>5. /\ told' \in Seq(Message) /\ DOMAIN told' = DOMAIN told \cup {e.n}
      /\ \A i \in DOMAIN told : told'[i] = told[i]
      /\ told'[e.n] = e /\ ToSet(told') = ToSet(told) \cup {e}
  BY <1>2, <1>3, <1>4, Appended
<1>6. /\ channel' \in Seq(Message) /\ DOMAIN channel' = DOMAIN channel \cup {Len(channel) + 1}
      /\ \A i \in DOMAIN channel : channel'[i] = channel[i]
      /\ channel'[Len(channel) + 1] = e
      /\ DOMAIN channel = 1..Len(channel) /\ Len(channel) \in Nat
  BY <1>2, <1>3, <1>4, Appended
<1>7. \A m \in ToSet(told) : m.n < e.n /\ m.n \in Nat
  <2>1. \A i \in DOMAIN told : told[i].n = i /\ i \in 1..Len(told)
    BY <1>1, <1>3 DEF QueueInv
  <2> QED
    BY <1>3, <1>4, <2>1 DEF ToSet
<1>8. FanTypes'
  BY <1>1, <1>2, <1>5, <1>6 DEF FanTypes
<1>9. SocketInv'
  BY <1>1, <1>2 DEF SocketInv
<1>10. QueueInv'
  <2>1. \A i \in DOMAIN told' : told'[i].n = i
    BY <1>1, <1>5 DEF QueueInv
  <2>2. \A j \in DOMAIN channel' : channel'[j] \in ToSet(told')
    BY <1>1, <1>5, <1>6 DEF QueueInv
  <2>3. \A i, j \in DOMAIN channel' : i < j => channel'[i].n < channel'[j].n
    <3> SUFFICES ASSUME NEW i \in DOMAIN channel', NEW j \in DOMAIN channel', i < j
                 PROVE  channel'[i].n < channel'[j].n
      OBVIOUS
    <3>1. i \in DOMAIN channel
      BY <1>6
    <3>2. CASE j \in DOMAIN channel
      BY <1>1, <1>6, <3>1, <3>2 DEF QueueInv
    <3>3. CASE j = Len(channel) + 1
      BY <1>1, <1>6, <1>7, <3>1, <3>3 DEF QueueInv
    <3> QED
      BY <1>6, <3>2, <3>3
  <2>4. ASSUME NEW w \in Sockets, NEW i \in DOMAIN got'[w]
        PROVE  got'[w][i] \in ToSet(told') /\ \A j \in DOMAIN channel' : got'[w][i].n < channel'[j].n
    <3>1. got[w][i] \in ToSet(told) /\ \A j \in DOMAIN channel : got[w][i].n < channel[j].n
      BY <1>1, <1>2 DEF QueueInv
    <3> QED
      BY <1>2, <1>5, <1>6, <1>7, <3>1
  <2> QED
    BY <2>1, <2>2, <2>3, <2>4 DEF QueueInv
<1>11. listener'.at = "walking" => WalkInv'
  <2> SUFFICES ASSUME listener.at = "walking" PROVE WalkInv'
    BY <1>2
  <2>1. WalkInv /\ Current' = Current
    BY <1>1, <1>2 DEF Current
  <2>2. Current' \in ToSet(told')
    BY <1>5, <2>1 DEF WalkInv
  <2>3. \A j \in DOMAIN channel' : Current'.n < channel'[j].n
    BY <1>6, <1>7, <2>1 DEF WalkInv
  <2> QED
    BY <1>2, <2>1, <2>2, <2>3 DEF WalkInv, Served
<1>12. DeliveredInOrder'
  BY <1>1, <1>2, <1>5 DEF DeliveredInOrder
<1> QED
  BY <1>8, <1>9, <1>10, <1>11, <1>12 DEF FanInv

\* A socket changes hands before it has received anything.
LEMMA SubscribeKeeps ==
  ASSUME FanInv, NEW w \in Sockets, NEW u \in Traders, Subscribe(w, u) PROVE FanInv'
<1>1. FanTypes /\ SocketInv /\ QueueInv /\ (listener.at = "walking" => WalkInv) /\ DeliveredInOrder
  BY DEF FanInv
<1>2. /\ sock[w].st = "new" /\ sock' = [sock EXCEPT ![w] = [st |-> "open", user |-> u]]
      /\ conns' = [conns EXCEPT ![u] = @ \cup {w}]
      /\ channel' = channel /\ told' = told /\ listener' = listener /\ got' = got
  BY DEF Subscribe
<1>3. FanTypes'
  <2>1. sock' \in [Sockets -> [st : {"new", "open", "broken", "closed"}, user : Traders \cup {"nobody"}]]
    BY <1>1, <1>2 DEF FanTypes
  <2>2. conns' \in [Traders -> SUBSET Sockets]
    BY <1>1, <1>2 DEF FanTypes
  <2> QED
    BY <1>1, <1>2, <2>1, <2>2 DEF FanTypes
<1>4. \A v \in Sockets : sock'[v] = IF v = w THEN [st |-> "open", user |-> u] ELSE sock[v]
  BY <1>1, <1>2 DEF FanTypes
<1>5. \A t \in Traders : conns'[t] = IF t = u THEN conns[u] \cup {w} ELSE conns[t]
  BY <1>1, <1>2 DEF FanTypes
<1>6. conns \in [Traders -> SUBSET Sockets] /\ got[w] = <<>>
  BY <1>1, <1>2 DEF FanTypes, SocketInv
<1>7. SocketInv'
  BY <1>1, <1>2, <1>4, <1>5, <1>6 DEF SocketInv
<1>8. QueueInv'
  BY <1>1, <1>2 DEF QueueInv
<1>9. DOMAIN got[w] = {}
  BY <1>6
<1>10. listener'.at = "walking" => WalkInv'
  BY <1>1, <1>2, <1>4, <1>9 DEF WalkInv, Served, Current
<1>11. DeliveredInOrder'
  BY <1>1, <1>2, <1>4, <1>9 DEF DeliveredInOrder
<1> QED
  BY <1>3, <1>7, <1>8, <1>10, <1>11 DEF FanInv

\* A connection that breaks or closes keeps its trader.
LEMMA SocketFails ==
  ASSUME FanInv, NEW w \in Sockets, sock[w].st \in {"open", "broken"},
         NEW st \in {"broken", "closed"}, sock' = [sock EXCEPT ![w].st = st],
         conns' \in [Traders -> SUBSET Sockets], \A u \in Traders : conns'[u] \subseteq conns[u],
         UNCHANGED <<channel, told, listener, got>>
  PROVE  FanInv'
<1>1. FanTypes /\ SocketInv /\ QueueInv /\ (listener.at = "walking" => WalkInv) /\ DeliveredInOrder
  BY DEF FanInv
<1>2. /\ channel' = channel /\ told' = told /\ listener' = listener /\ got' = got
  OBVIOUS
<1>3. /\ sock' \in [Sockets -> [st : {"new", "open", "broken", "closed"}, user : Traders \cup {"nobody"}]]
      /\ \A v \in Sockets : sock'[v].user = sock[v].user
      /\ \A v \in Sockets : sock'[v].st = "new" <=> sock[v].st = "new"
  BY <1>1 DEF FanTypes
<1>4. FanTypes'
  BY <1>1, <1>2, <1>3 DEF FanTypes
<1>5. \A u \in Traders : conns[u] \subseteq Sockets
  BY <1>1 DEF FanTypes
<1>6. SocketInv'
  BY <1>1, <1>2, <1>3, <1>5 DEF SocketInv
<1>7. QueueInv'
  BY <1>1, <1>2 DEF QueueInv
<1>8. listener'.at = "walking" => WalkInv'
  BY <1>1, <1>2, <1>3 DEF WalkInv, Served, Current
<1>9. DeliveredInOrder'
  BY <1>1, <1>2, <1>3 DEF DeliveredInOrder
<1> QED
  BY <1>4, <1>6, <1>7, <1>8, <1>9 DEF FanInv

LEMMA BreaksKeeps ==
  ASSUME FanInv, NEW w \in Sockets, Breaks(w) PROVE FanInv'
<1>1. conns \in [Traders -> SUBSET Sockets] /\ conns' = conns
  BY DEF FanInv, FanTypes, Breaks
<1> QED
  BY <1>1, SocketFails DEF Breaks

LEMMA DisconnectKeeps ==
  ASSUME FanInv, NEW w \in Sockets, Disconnect(w) PROVE FanInv'
<1>1. conns \in [Traders -> SUBSET Sockets]
  BY DEF FanInv, FanTypes
<1>2. conns' = [u \in Traders |-> conns[u] \ {w}]
  BY DEF Disconnect
<1>3. conns' \in [Traders -> SUBSET Sockets] /\ \A u \in Traders : conns'[u] \subseteq conns[u]
  BY <1>1, <1>2
<1> QED
  BY <1>3, SocketFails DEF Disconnect

LEMMA TakeKeeps ==
  ASSUME FanInv, Take PROVE FanInv'
<1> DEFINE e == Head(channel)
<1>1. FanTypes /\ SocketInv /\ QueueInv /\ DeliveredInOrder
  BY DEF FanInv
<1>2. /\ channel # <<>> /\ channel' = Tail(channel)
      /\ listener' = [Waiting EXCEPT !.at = "walking", !.msg = <<e>>,
           !.keys = Cardinality(Known), !.todo = Recipients(e)]
      /\ told' = told /\ sock' = sock /\ conns' = conns /\ got' = got
  BY DEF Take
<1>3. /\ e \in Message /\ channel' \in Seq(Message) /\ 1 \in DOMAIN channel /\ e = channel[1]
      /\ DOMAIN channel \subseteq Nat
      /\ \A i \in DOMAIN channel' : i + 1 \in DOMAIN channel /\ channel'[i] = channel[i + 1]
                                    /\ i \in Nat /\ 1 < i + 1
  <2>1. channel \in Seq(Message)
    BY <1>1 DEF FanTypes
  <2>2. \A i \in DOMAIN Tail(channel) : i \in Nat /\ i + 1 \in DOMAIN channel /\ i >= 1
    BY <1>2, <2>1
  <2> QED
    BY <1>2, <2>1, <2>2, Headed
<1>4. /\ IsListener(listener') /\ listener'.at = "walking" /\ listener'.msg = <<e>>
      /\ listener'.cur = {} /\ listener'.todo = Recipients(e)
  BY <1>2, WaitingIs DEF IsListener, Fields
<1>5. Recipients(e) \subseteq Traders /\ \A u \in Recipients(e) : e.user \in {u, ALL}
  BY DEF Recipients, Known
<1> HIDE DEF e
<1>6. Current' = e
  BY <1>4 DEF Current
<1>7. FanTypes'
  BY <1>1, <1>2, <1>3, <1>4, <1>5 DEF FanTypes
<1>8. SocketInv'
  BY <1>1, <1>2 DEF SocketInv
<1>9. QueueInv'
  <2>1. \A j \in DOMAIN channel' : channel'[j] \in ToSet(told')
    BY <1>1, <1>2, <1>3 DEF QueueInv
  <2>2. \A i, j \in DOMAIN channel' : i < j => channel'[i].n < channel'[j].n
    BY <1>1, <1>3 DEF QueueInv
  <2> QED
    BY <1>1, <1>2, <1>3, <2>1, <2>2 DEF QueueInv
<1>10. WalkInv'
  <2>1. Current' \in ToSet(told')
    BY <1>1, <1>2, <1>3, <1>6 DEF QueueInv
  <2>2. \A j \in DOMAIN channel' : Current'.n < channel'[j].n
    BY <1>1, <1>3, <1>6 DEF QueueInv
  <2>3. \A w \in Sockets : \A i \in DOMAIN got'[w] : got'[w][i].n < Current'.n
    BY <1>1, <1>2, <1>3, <1>6 DEF QueueInv
  <2> QED
    BY <1>4, <1>5, <1>6, <2>1, <2>2, <2>3 DEF WalkInv
<1>11. DeliveredInOrder'
  BY <1>1, <1>2 DEF DeliveredInOrder
<1> QED
  BY <1>7, <1>8, <1>9, <1>10, <1>11 DEF FanInv

\* The walk goes on without a delivery.
LEMMA WalkGoesOn ==
  ASSUME FanInv, UNCHANGED <<channel, told, sock, conns, got>>,
         listener.at = "walking", IsListener(listener'),
         listener'.at = "walking", listener'.msg = listener.msg,
         listener'.todo \cup listener'.cur \subseteq listener.todo \cup listener.cur,
         \A u, v \in listener'.cur : u = v,
         listener'.todo \cap listener'.cur = {},
         \A w \in Sockets : Served(w) => Served(w)'
  PROVE  FanInv'
<1>1. FanTypes /\ SocketInv /\ QueueInv /\ WalkInv /\ DeliveredInOrder
  BY DEF FanInv
<1>2. channel' = channel /\ told' = told /\ sock' = sock /\ conns' = conns /\ got' = got
  OBVIOUS
<1>3. Current' = Current
  BY DEF Current
<1>4. FanTypes'
  BY <1>1, <1>2 DEF FanTypes
<1>5. SocketInv'
  BY <1>1, <1>2 DEF SocketInv
<1>6. QueueInv'
  BY <1>1, <1>2 DEF QueueInv
<1>7. WalkInv'
  BY <1>1, <1>2, <1>3 DEF WalkInv
<1>8. DeliveredInOrder'
  BY <1>1, <1>2 DEF DeliveredInOrder
<1> QED
  BY <1>4, <1>5, <1>6, <1>7, <1>8 DEF FanInv

LEMMA NextTraderKeeps ==
  ASSUME FanInv, NEW u \in Traders, NextTrader(u) PROVE FanInv'
<1>1. FanTypes
  BY DEF FanInv
<1>2. /\ listener.at = "walking" /\ listener.cur = {} /\ u \in listener.todo
      /\ listener' = [listener EXCEPT !.cur = {u}, !.todo = listener.todo \ {u},
           !.from = conns[u], !.visited = {}]
      /\ UNCHANGED <<channel, told, sock, conns, got>> /\ sock' = sock
  BY DEF NextTrader
<1>3. /\ IsListener(listener') /\ listener'.at = listener.at /\ listener'.msg = listener.msg
      /\ listener'.cur = {u} /\ listener'.todo = listener.todo \ {u} /\ listener'.visited = {}
  <2>1. IsListener(listener)
    BY <1>1 DEF FanTypes
  <2> QED
    BY <1>2, <2>1 DEF IsListener, Fields
<1>4. \A w \in Sockets : Served(w) => Served(w)'
  BY <1>2, <1>3 DEF Served
<1>5. listener'.todo \cup listener'.cur \subseteq listener.todo \cup listener.cur
  BY <1>2, <1>3
<1>6. listener'.todo \cap listener'.cur = {} /\ \A v, t \in listener'.cur : v = t
  BY <1>3
<1> QED
  BY <1>2, <1>3, <1>4, <1>5, <1>6, WalkGoesOn

LEMMA TraderDoneKeeps ==
  ASSUME FanInv, NEW u \in Traders, TraderDone(u) PROVE FanInv'
<1>1. FanTypes
  BY DEF FanInv
<1>2. /\ listener.cur = {u}
      /\ listener' = [listener EXCEPT !.cur = {}, !.visited = {}, !.from = {}]
      /\ UNCHANGED <<channel, told, sock, conns, got>> /\ sock' = sock
  BY DEF TraderDone
<1>3. listener.at = "walking"
  BY <1>1, <1>2 DEF FanTypes
<1>4. /\ IsListener(listener') /\ listener'.at = listener.at /\ listener'.msg = listener.msg
      /\ listener'.cur = {} /\ listener'.todo = listener.todo
  <2>1. IsListener(listener)
    BY <1>1 DEF FanTypes
  <2> QED
    BY <1>2, <2>1 DEF IsListener, Fields
<1>5. \A w \in Sockets : Served(w) => Served(w)'
  BY <1>2, <1>4 DEF Served
<1> QED
  BY <1>2, <1>3, <1>4, <1>5, WalkGoesOn

\* A socket that is met has not received the message in turn.
LEMMA SendKeeps ==
  ASSUME FanInv, NEW u \in Traders, NEW w \in Sockets, Send(u, w) PROVE FanInv'
<1>1. FanTypes /\ SocketInv /\ QueueInv /\ DeliveredInOrder
  BY DEF FanInv
<1>2. /\ listener.cur = {u} /\ w \in conns[u] /\ w \notin listener.visited
      /\ channel' = channel /\ told' = told /\ sock' = sock /\ conns' = conns
  BY DEF Send
<1>3. listener.at = "walking"
  BY <1>1, <1>2 DEF FanTypes
<1>4. WalkInv /\ sock[w].user = u
  BY <1>1, <1>2, <1>3 DEF FanInv, SocketInv
<1> DEFINE v == listener.visited \cup {w}
<1>5. CASE UNCHANGED got
  <2>1. PICK raised \in BOOLEAN :
          listener' = [listener EXCEPT !.visited = v,
                         !.dead = IF raised THEN listener.dead \cup {w} ELSE listener.dead]
        \/ listener' = [listener EXCEPT !.visited = v]
    BY DEF Send
  <2>2. /\ IsListener(listener') /\ listener'.at = listener.at /\ listener'.msg = listener.msg
        /\ listener'.cur = listener.cur /\ listener'.todo = listener.todo
        /\ listener'.visited = v
    <3>1. IsListener(listener)
      BY <1>1 DEF FanTypes
    <3> QED
      BY <2>1, <3>1 DEF IsListener, Fields
  <2>3. \A s \in Sockets : Served(s) => Served(s)'
    BY <1>2, <2>2 DEF Served
  <2>4. listener.todo \cap listener.cur = {} /\ \A s, t \in listener.cur : s = t
    BY <1>4 DEF WalkInv
  <2> QED
    BY <1>2, <1>3, <1>5, <2>2, <2>3, <2>4, WalkGoesOn
<1>6. CASE /\ sock[w].st = "open" /\ got' = [got EXCEPT ![w] = Append(got[w], Current)]
           /\ listener' = [listener EXCEPT !.visited = v]
  <2> DEFINE e == Current
  <2>1. /\ IsListener(listener') /\ listener'.at = listener.at /\ listener'.msg = listener.msg
        /\ listener'.cur = listener.cur /\ listener'.todo = listener.todo
        /\ listener'.visited = v
    <3>1. IsListener(listener)
      BY <1>1 DEF FanTypes
    <3> QED
      BY <1>6, <3>1 DEF IsListener, Fields
  <2>2. Current' = e
    BY <2>1 DEF Current
  <2>3. /\ e \in ToSet(told) /\ e.user \in {u, ALL} /\ \A j \in DOMAIN channel : e.n < channel[j].n
        /\ \A i \in DOMAIN got[w] : got[w][i].n < e.n
    <3>1. u \in listener.cur
      BY <1>2
    <3> QED
      BY <1>2, <1>4, <3>1 DEF WalkInv, Served
  <2>4. got' = [got EXCEPT ![w] = Append(got[w], e)]
    BY <1>6
  <2>5. WalkInv
    BY <1>4
  <2>6. \A s \in Sockets : \A i \in DOMAIN got[s] :
          got[s][i].n < e.n \/ (got[s][i].n = e.n /\ Served(s))
    BY <1>4 DEF WalkInv
  <2>7. /\ \A s \in listener.todo \cup listener.cur : e.user \in {s, ALL}
        /\ \A s, t \in listener.cur : s = t
        /\ listener.todo \cap listener.cur = {}
    BY <1>4 DEF WalkInv
  <2> HIDE DEF e
  <2>8. e \in Message
    BY <1>1, <2>3 DEF FanTypes, ToSet
  <2>9. /\ got[w] \in Seq(Message) /\ got[w]' = Append(got[w], e)
        /\ got' \in [Sockets -> Seq(Message)] /\ \A s \in Sockets : s # w => got[s]' = got[s]
    BY <1>1, <2>4, <2>8 DEF FanTypes
  <2>10. /\ DOMAIN got[w]' = DOMAIN got[w] \cup {Len(got[w]) + 1}
         /\ \A i \in DOMAIN got[w] : got[w]'[i] = got[w][i]
         /\ got[w]'[Len(got[w]) + 1] = e
         /\ DOMAIN got[w] = 1..Len(got[w]) /\ Len(got[w]) \in Nat
    BY <2>8, <2>9, Appended
  <2>11. FanTypes'
    BY <1>1, <1>2, <2>1, <2>9 DEF FanTypes, IsListener
  <2>12. SocketInv'
    BY <1>1, <1>2, <1>6, <2>9 DEF SocketInv
  <2>13. QueueInv'
    <3>1. ASSUME NEW s \in Sockets, NEW i \in DOMAIN got[s]'
          PROVE  got[s]'[i] \in ToSet(told) /\ \A j \in DOMAIN channel : got[s]'[i].n < channel[j].n
      BY <1>1, <2>3, <2>9, <2>10 DEF QueueInv
    <3> QED
      BY <1>1, <1>2, <3>1 DEF QueueInv
  <2>14. WalkInv'
    <3>1. Served(w)'
      BY <1>2, <1>4, <2>1, <2>7 DEF Served
    <3>2. \A s \in Sockets : Served(s) => Served(s)'
      BY <1>2, <2>1 DEF Served
    <3>3. ASSUME NEW s \in Sockets, NEW i \in DOMAIN got[s]'
          PROVE  got[s]'[i].n < e.n \/ (got[s]'[i].n = e.n /\ Served(s)')
      BY <2>3, <2>6, <2>9, <2>10, <3>1, <3>2
    <3> QED
      BY <1>2, <2>1, <2>2, <2>3, <2>7, <3>3 DEF WalkInv
  <2>15. DeliveredInOrder'
    <3>1. ASSUME NEW s \in Sockets, NEW i \in DOMAIN got[s]'
          PROVE  got[s]'[i] \in ToSet(told) /\ got[s]'[i].user \in {sock[s].user, ALL}
      BY <1>1, <1>4, <2>3, <2>9, <2>10 DEF DeliveredInOrder
    <3>2. ASSUME NEW s \in Sockets, NEW i \in DOMAIN got[s]', NEW j \in DOMAIN got[s]', i < j
          PROVE  got[s]'[i].n < got[s]'[j].n
      <4>1. CASE s # w
        BY <1>1, <2>9, <3>2, <4>1 DEF DeliveredInOrder
      <4>2. CASE s = w /\ j \in DOMAIN got[w]
        <5>1. i \in DOMAIN got[w]
          BY <2>10, <3>2, <4>2
        <5> QED
          BY <1>1, <2>10, <3>2, <4>2, <5>1 DEF DeliveredInOrder
      <4>3. CASE s = w /\ j = Len(got[w]) + 1
        <5>1. i \in DOMAIN got[w]
          BY <2>10, <3>2, <4>3
        <5> QED
          BY <2>3, <2>10, <4>3, <5>1
      <4> QED
        BY <2>10, <4>1, <4>2, <4>3
    <3> QED
      BY <1>2, <3>1, <3>2 DEF DeliveredInOrder
  <2> QED
    BY <1>3, <2>1, <2>11, <2>12, <2>13, <2>14, <2>15 DEF FanInv
<1> QED
  BY <1>5, <1>6 DEF Send

\* The walk is over, or a set has changed its size under it: sets of sockets only shrink.
LEMMA WalkOver ==
  ASSUME FanInv, IsListener(listener'), listener'.at \in {"waiting", "dead"},
         listener'.todo = {}, listener'.cur = {},
         conns' \in [Traders -> SUBSET Sockets], \A u \in Traders : conns'[u] \subseteq conns[u],
         UNCHANGED <<channel, told, sock, got>>
  PROVE  FanInv'
<1>1. FanTypes /\ SocketInv /\ QueueInv /\ DeliveredInOrder
  BY DEF FanInv
<1>2. channel' = channel /\ told' = told /\ sock' = sock /\ got' = got
  OBVIOUS
<1>3. FanTypes'
  BY <1>1, <1>2 DEF FanTypes
<1>4. SocketInv'
  BY <1>1, <1>2 DEF SocketInv
<1>5. QueueInv'
  BY <1>1, <1>2 DEF QueueInv
<1>6. DeliveredInOrder'
  BY <1>1, <1>2 DEF DeliveredInOrder
<1> QED
  BY <1>3, <1>4, <1>5, <1>6 DEF FanInv

LEMMA DoneKeeps ==
  ASSUME FanInv, Done PROVE FanInv'
<1>1. conns \in [Traders -> SUBSET Sockets]
  BY DEF FanInv, FanTypes
<1>2. /\ conns' = [u \in Traders |-> IF u \in Recipients(Current) THEN Survivors(u) ELSE conns[u]]
      /\ listener' = Waiting /\ UNCHANGED <<channel, told, sock, got>>
  BY DEF Done
<1>3. \A u \in Traders : Survivors(u) \subseteq conns[u]
  BY DEF Survivors
<1>4. conns' \in [Traders -> SUBSET Sockets] /\ \A u \in Traders : conns'[u] \subseteq conns[u]
  BY <1>1, <1>2, <1>3
<1> QED
  BY <1>2, <1>4, WaitingIs, WalkOver

LEMMA ListenerDiesKeeps ==
  ASSUME FanInv, ListenerDies PROVE FanInv'
<1>1. conns \in [Traders -> SUBSET Sockets] /\ conns' = conns
  BY DEF FanInv, FanTypes, ListenerDies
<1>2. listener' = [Waiting EXCEPT !.at = "dead"] /\ UNCHANGED <<channel, told, sock, got>>
  BY DEF ListenerDies
<1>3. /\ IsListener(listener') /\ listener'.at = "dead" /\ listener'.cur = {} /\ listener'.todo = {}
  BY <1>2, ListenerStops
<1> QED
  BY <1>1, <1>2, <1>3, WalkOver

LEMMA FanStands ==
  ASSUME FanInv, UNCHANGED fanVars PROVE FanInv'
<1>1. /\ channel' = channel /\ told' = told /\ sock' = sock /\ conns' = conns
      /\ listener' = listener /\ got' = got
  BY DEF fanVars
<1>2. FanTypes /\ SocketInv /\ QueueInv /\ (listener.at = "walking" => WalkInv) /\ DeliveredInOrder
  BY DEF FanInv
<1>3. FanTypes'
  BY <1>1, <1>2 DEF FanTypes
<1>4. SocketInv' /\ QueueInv' /\ DeliveredInOrder'
  BY <1>1, <1>2 DEF SocketInv, QueueInv, DeliveredInOrder
<1>5. listener'.at = "walking" => WalkInv'
  BY <1>1, <1>2 DEF WalkInv, Served, Current
<1> QED
  BY <1>3, <1>4, <1>5 DEF FanInv

LEMMA FanInitInv ==
  ASSUME FanInit PROVE FanInv
<1>1. /\ channel = <<>> /\ told = <<>> /\ listener = Waiting
      /\ sock = [w \in Sockets |-> [st |-> "new", user |-> "nobody"]]
      /\ conns = [u \in Traders |-> {}] /\ got = [w \in Sockets |-> <<>>]
  BY DEF FanInit
<1>2. FanTypes
  BY <1>1, WaitingIs DEF FanTypes
<1>3. SocketInv /\ QueueInv /\ DeliveredInOrder
  BY <1>1 DEF SocketInv, QueueInv, DeliveredInOrder
<1>4. listener.at # "walking"
  BY <1>1, WaitingIs
<1> QED
  BY <1>2, <1>3, <1>4 DEF FanInv

LEMMA TickStepKeeps ==
  ASSUME FanInv, [TickNext]_tickVars PROVE FanInv'
<1>1. CASE Feeds \/ UNCHANGED tickVars
  BY <1>1, FanStands DEF Feeds, tickVars
<1>2. CASE FanNext
  <2>1. CASE Listens
    BY <2>1, TakeKeeps, DoneKeeps, ListenerDiesKeeps, NextTraderKeeps, TraderDoneKeeps, SendKeeps
       DEF Listens
  <2> QED
    BY <1>2, <2>1, PublishKeeps, SubscribeKeeps, BreaksKeeps, DisconnectKeeps DEF FanNext
<1> QED
  BY <1>1, <1>2 DEF TickNext, Screens

\* The inductive invariant: who is in a trader's set is a socket of that trader, and one that
\* has the message the listener walks with is not among those it has still to meet.
THEOREM FanInvariant == TickSpec => []FanInv
<1>1. TickInit => FanInv
  BY FanInitInv DEF TickInit
<1>2. FanInv /\ [TickNext]_tickVars => FanInv'
  BY TickStepKeeps
<1> QED
  BY <1>1, <1>2, PTL DEF TickSpec

\* The sets of sockets hold sockets of their own trader, and only the listener's three
\* states occur.
THEOREM FanTypesHold == TickSpec => []FanTypeOK
<1>1. FanInv => FanTypeOK
  BY DEF FanInv, FanTypes, SocketInv, FanTypeOK
<1> QED
  BY <1>1, FanInvariant, PTL

\* A client receives the events for its trader and for everybody, each once and in the
\* order of publication, whatever connects, breaks and leaves while the listener walks.
THEOREM Delivered == TickSpec => []DeliveredInOrder
<1>1. FanInv => DeliveredInOrder
  BY DEF FanInv
<1> QED
  BY <1>1, FanInvariant, PTL
=============================================================================
