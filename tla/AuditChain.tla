----------------------------- MODULE AuditChain -----------------------------
(***************************************************************************)
(* The audit log: write_audit reads the hash of the last entry it can see  *)
(* (READ COMMITTED: what is committed and what its own transaction has     *)
(* flushed) and flushes an entry that repeats it.  No lock is held between *)
(* the two, and the id comes from a sequence, so ids are taken in flush    *)
(* order and never given back.  A hash stands for the entry that has it.   *)
(***************************************************************************)
EXTENDS Integers, FiniteSets

CONSTANTS
  Sessions,   \* concurrent transactions
  MaxEntries  \* bound: ids the sequence gives out

ASSUME ChainAssumption == MaxEntries \in Nat

VARIABLES
  entry,      \* audit_log: id -> row
  lastHash    \* what each writer has read as prev_hash

auditVars == <<entry, lastHash>>

Ids       == 1 .. MaxEntries
GENESIS   == 0                      \* prev_hash is None
NoEntry   == [st |-> "unused", by |-> {}, prev |-> GENESIS]
EntryRow  == [st : {"unused", "flushed", "committed", "gone"}, by : SUBSET Sessions,
              prev : Ids \cup {GENESIS}]

AuditInit ==
  /\ entry = [i \in Ids |-> NoEntry]
  /\ lastHash = [s \in Sessions |-> GENESIS]

Committed == {i \in Ids : entry[i].st = "committed"}
Flushed   == {i \in Ids : entry[i].st = "flushed"}
Fresh     == {i \in Ids : entry[i].st = "unused"}

\* Mutation of Readable: a writer also sees the rows another one has only flushed.
Dirty(s)    == Committed \cup Flushed
Readable(s) == Committed \cup {i \in Flushed : entry[i].by = {s}}

Lowest(i, S)  == i \in S /\ \A j \in S : i <= j
Highest(i, S) == i \in S /\ \A j \in S : j <= i

\* SELECT record_hash ORDER BY id DESC LIMIT 1.
ReadLast(s) ==
  /\ \E i \in Ids \cup {GENESIS} :
       /\ Highest(i, Readable(s) \cup {GENESIS})
       /\ lastHash' = [lastHash EXCEPT ![s] = i]
  /\ UNCHANGED entry

\* The entry repeats the hash that was read, whatever was committed since.
AppendEntry(s) ==
  /\ \E i \in Ids :
       /\ Lowest(i, Fresh)
       /\ entry' = [entry EXCEPT ![i] = [st |-> "flushed", by |-> {s}, prev |-> lastHash[s]]]
  /\ lastHash' = [lastHash EXCEPT ![s] = GENESIS]

Sealed(s, st) ==
  [i \in Ids |-> IF entry[i].st = "flushed" /\ entry[i].by = {s}
                   THEN [entry[i] EXCEPT !.st = st, !.by = {}] ELSE entry[i]]

CommitEntries(s)   == entry' = Sealed(s, "committed") /\ UNCHANGED lastHash
RollbackEntries(s) == entry' = Sealed(s, "gone")
                      /\ lastHash' = [lastHash EXCEPT ![s] = GENESIS]

-----------------------------------------------------------------------------
\* Every committed entry continues the chain from nothing or from an entry that
\* is committed too and older: no writer chains to a row that is rolled back, though
\* nothing serialises the writers (write_audit) and two may chain to the same row.
LinksAreReal ==
  \A i \in Committed :
    entry[i].prev # GENESIS => entry[i].prev < i /\ entry[i].prev \in Committed
=============================================================================
