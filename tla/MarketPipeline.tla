--------------------------- MODULE MarketPipeline ---------------------------
(***************************************************************************)
(* Ticks of one symbol on their way into the database: Publisher.publish   *)
(* pushes them on a Redis list and, where Kafka is enabled, on a topic;    *)
(* the two consumers of market_db_writer.py pass them through the one      *)
(* DQPipeline and the one CandleAggregator of the process into buffers of  *)
(* their own, which db_writer.py flushes in batches; retension_task.py     *)
(* rolls minutes up into hours and prunes.  A tick is a number, a candle   *)
(* the sequence of ticks it was built from; buffered candles are kept per  *)
(* minute, as the order of two matters only if they are of the same one.   *)
(* The check of one tick and its aggregation are one step (no await        *)
(* between them); the parts of a flush are sessions of their own, each of  *)
(* which may fail.                                                         *)
(***************************************************************************)
EXTENDS Integers, Sequences, SequencesExt, FiniteSets

CONSTANTS
  MaxTicks,     \* bound: ticks published
  MaxMinute,    \* bound: minutes that pass
  HourLength,   \* minutes in an hour
  Retained,     \* minutes a one-minute candle is kept
  Batch,        \* DQ_BATCH_SIZE
  MaxRestarts   \* bound: shutdowns and crashes of the worker

ASSUME PipelineAssumption ==
  /\ MaxTicks \in Nat /\ MaxMinute \in Nat \ {0} /\ HourLength \in Nat \ {0}
  /\ Retained \in Nat /\ Batch \in Nat \ {0} /\ MaxRestarts \in Nat

VARIABLES
  now,           \* the minute of the wall clock
  minute,        \* the minute of each published tick
  db_tick_buffer,\* the Redis list
  topic,         \* what the Kafka consumer has still to read
  seen,          \* DQPipeline._seen
  buckets,       \* CandleAggregator._buckets
  consumer,      \* what each consumer does and buffers
  restarts,      \* how often the process ended
  candles_1m,    \* the tables
  candles_1h,
  market_ticks   \* how many rows each tick has

input  == <<now, minute>>
memory == <<seen, buckets, consumer>>
tables == <<candles_1m, candles_1h, market_ticks>>
pipelineVars == <<now, minute, db_tick_buffer, topic, seen, buckets, consumer, restarts,
                  candles_1m, candles_1h, market_ticks>>

Minutes   == 1..MaxMinute
Hours     == 0..(MaxMinute \div HourLength)
Consumers == {"redis", "kafka"}
Hour(m)   == m \div HourLength

\* The parts of a flush; dq_events, a log for reports, is left out.
Parts == {"candles", "ticks"}

NoCandles == [m \in Minutes |-> <<>>]

\* A consumer waits for a tick or flushes; it remembers which parts are still to do.
Fresh == [at |-> "waiting", candles |-> NoCandles, ticks |-> <<>>, count |-> 0, todo |-> {}]

PipelineInit ==
  /\ now = 1 /\ minute = <<>>
  /\ db_tick_buffer = <<>> /\ topic = <<>>
  /\ seen = {} /\ buckets = [m \in Minutes |-> <<>>]
  /\ consumer = [c \in Consumers |-> Fresh]
  /\ restarts = 0
  /\ candles_1m = [m \in Minutes |-> <<>>]
  /\ candles_1h = [h \in Hours |-> {}]
  /\ market_ticks = [t \in 1..MaxTicks |-> 0]

-----------------------------------------------------------------------------
(* Publisher.publish: each path may fail without the other (a tick that    *)
(* takes neither is never heard of, nor is one without symbol_id, which    *)
(* the consumers drop).  A trade may reach the provider a minute late.     *)

Publish ==
  LET t == Len(minute) + 1
  IN  /\ t <= MaxTicks
      /\ \E m \in {now - 1, now} \cap Minutes : minute' = Append(minute, m)
      /\ db_tick_buffer' \in {db_tick_buffer, Append(db_tick_buffer, t)}
      /\ topic' \in {topic, Append(topic, t)}
      /\ <<db_tick_buffer', topic'>> # <<db_tick_buffer, topic>>
      /\ UNCHANGED <<now, memory, restarts, tables>>

MinutePasses ==
  /\ now < MaxMinute
  /\ now' = now + 1
  /\ UNCHANGED <<minute, db_tick_buffer, topic, memory, restarts, tables>>

-----------------------------------------------------------------------------
(* DQPipeline.check and CandleAggregator.ingest.                           *)

\* Mutation of Verdicts: the keys seen are not compared.
AnyVerdict(t) == {"PASS", "REJECT"}

\* A tick seen before is a duplicate; the other checks may reject any tick, and one
\* they only flag passes.  (The window of 500 keys is larger than the instance.)
Verdicts(t) == IF t \in seen THEN {"REJECT"} ELSE {"PASS", "REJECT"}

\* The candles that are complete once a tick of minute m is in: the older ones.
Completed(m) == {k \in Minutes : k < m /\ buckets[k] # <<>>}

Ingest(t) ==
  LET m    == minute[t]
      with == [buckets EXCEPT ![m] = Append(@, t)]
  IN  buckets' = [k \in Minutes |-> IF k \in Completed(m) THEN <<>> ELSE with[k]]

\* The candles of these minutes, one each.
CandlesOf(minutes, from) == [m \in Minutes |-> IF m \in minutes THEN <<from[m]>> ELSE <<>>]

Joined(candles, more) == [m \in Minutes |-> candles[m] \o more[m]]

\* One tick through one consumer; the batch is flushed once it is full.
Consume(c, t) ==
  LET full == consumer[c].count + 1 >= Batch
      batch == [consumer[c] EXCEPT !.count = @ + 1,
                                   !.at = IF full THEN "flushing" ELSE "waiting",
                                   !.todo = IF full THEN Parts ELSE {}]
  IN  \E verdict \in Verdicts(t) :
        /\ seen' = seen \cup {t}
        /\ IF verdict = "REJECT"
             THEN /\ consumer' = [consumer EXCEPT ![c] = batch]
                  /\ UNCHANGED buckets
             ELSE /\ Ingest(t)
                  /\ consumer' = [consumer EXCEPT ![c] =
                       [batch EXCEPT !.ticks = Append(@, t),
                                     !.candles = Joined(@, CandlesOf(Completed(minute[t]), buckets))]]

\* blpop returns a tick.
PopRedis ==
  /\ consumer["redis"].at = "waiting" /\ db_tick_buffer # <<>>
  /\ Consume("redis", Head(db_tick_buffer))
  /\ db_tick_buffer' = Tail(db_tick_buffer)
  /\ UNCHANGED <<input, topic, restarts, tables>>

\* The reply is lost with the connection: the item is popped and nobody has it.
PopLost ==
  /\ consumer["redis"].at = "waiting" /\ db_tick_buffer # <<>>
  /\ db_tick_buffer' = Tail(db_tick_buffer)
  /\ UNCHANGED <<input, topic, memory, restarts, tables>>

ReadKafka ==
  /\ consumer["kafka"].at = "waiting" /\ topic # <<>>
  /\ Consume("kafka", Head(topic))
  /\ topic' = Tail(topic)
  /\ UNCHANGED <<input, db_tick_buffer, restarts, tables>>

\* blpop times out on the empty list: what is buffered is flushed, what is open stays.
PopTimesOut ==
  /\ consumer["redis"].at = "waiting" /\ db_tick_buffer = <<>>
  /\ consumer["redis"].count > 0
  /\ consumer' = [consumer EXCEPT !["redis"].at = "flushing", !["redis"].todo = Parts]
  /\ UNCHANGED <<input, db_tick_buffer, topic, seen, buckets, restarts, tables>>

-----------------------------------------------------------------------------
(* _flush: its sessions run at once; an error is logged and swallowed.     *)

\* INSERT ... ON CONFLICT DO NOTHING: the first candle of a minute stays.
Inserted(stored, candles) ==
  [m \in Minutes |-> IF stored[m] # <<>> \/ candles[m] = <<>> THEN stored[m] ELSE Head(candles[m])]

\* market_ticks has no unique key.
Stored(ticks) == [t \in DOMAIN market_ticks |-> market_ticks[t] + (IF Contains(ticks, t) THEN 1 ELSE 0)]

Written(part, candles, ticks) ==
  /\ candles_1m' = IF part = "candles" THEN Inserted(candles_1m, candles) ELSE candles_1m
  /\ market_ticks' = IF part = "ticks" THEN Stored(ticks) ELSE market_ticks

\* Mutation of Emptied: the consumer returns once its batch is out.
GivesUp(c) == [Fresh EXCEPT !.at = "stopped"]

\* The buffers are cleared, whether the flush succeeded or not.
Emptied(c) == Fresh

FlushPart(c, part) ==
  /\ consumer[c].at = "flushing" /\ part \in consumer[c].todo
  /\ \/ Written(part, consumer[c].candles, consumer[c].ticks)
     \/ UNCHANGED <<candles_1m, market_ticks>>
  /\ consumer' = [consumer EXCEPT ![c] =
       IF consumer[c].todo = {part} THEN Emptied(c)
       ELSE [consumer[c] EXCEPT !.todo = @ \ {part}]]
  /\ UNCHANGED <<input, db_tick_buffer, topic, seen, buckets, restarts, candles_1h>>

-----------------------------------------------------------------------------
(* The end of the process.                                                 *)

Ends ==
  /\ restarts < MaxRestarts
  /\ restarts' = restarts + 1
  /\ seen' = {}
  /\ consumer' = [c \in Consumers |-> Fresh]

\* Cancellation reaches both consumers at an await.  The Redis one writes the open
\* candles and its ticks and drops what was completed; the Kafka one drops everything.
Cancelled ==
  /\ Ends
  /\ LET open == {k \in Minutes : buckets[k] # <<>>}
     IN  \E candles \in {NoCandles, CandlesOf(open, buckets)}, ticks \in {<<>>, consumer["redis"].ticks} :
           /\ candles_1m' = Inserted(candles_1m, candles)
           /\ market_ticks' = Stored(ticks)
  /\ buckets' = [m \in Minutes |-> <<>>]
  /\ UNCHANGED <<input, db_tick_buffer, topic, candles_1h>>

\* The process is killed; the Redis list and the topic stay.
Killed ==
  /\ Ends
  /\ buckets' = [m \in Minutes |-> <<>>]
  /\ UNCHANGED <<input, db_tick_buffer, topic, tables>>

-----------------------------------------------------------------------------
(* retension_task.py.                                                      *)

MinutesOf(h) == {m \in Minutes : Hour(m) = h /\ candles_1m[m] # <<>>}

\* The previous hour is rolled up, once, from the minutes that are stored.
Rollup ==
  LET h == Hour(now) - 1
  IN  /\ h \in Hours /\ candles_1h[h] = {}
      /\ candles_1h' = [candles_1h EXCEPT ![h] = MinutesOf(h)]
      /\ UNCHANGED <<input, db_tick_buffer, topic, memory, restarts, candles_1m, market_ticks>>

Prune ==
  /\ candles_1m' = [m \in Minutes |-> IF m < now - Retained THEN <<>> ELSE candles_1m[m]]
  /\ candles_1m' # candles_1m
  /\ UNCHANGED <<input, db_tick_buffer, topic, memory, restarts, candles_1h, market_ticks>>

-----------------------------------------------------------------------------
PipelineNext ==
  \/ Publish \/ MinutePasses
  \/ PopRedis \/ PopLost \/ ReadKafka \/ PopTimesOut
  \/ \E c \in Consumers, part \in Parts : FlushPart(c, part)
  \/ Cancelled \/ Killed
  \/ Rollup \/ Prune

\* The writer is a loop that survives every error: it goes on popping and flushing.
Fairness ==
  /\ WF_pipelineVars(PopRedis \/ PopLost \/ PopTimesOut)
  /\ \A c \in Consumers : WF_pipelineVars(\E part \in Parts : FlushPart(c, part))

PipelineSpec == PipelineInit /\ [][PipelineNext]_pipelineVars /\ Fairness

-----------------------------------------------------------------------------
Ticks == DOMAIN minute

\* Type invariant: every variable stays in its domain; a batch is never more than full.
PipelineTypeOK ==
  /\ now \in Minutes /\ Len(minute) <= MaxTicks
  /\ seen \subseteq Ticks
  /\ \A c \in Consumers : /\ consumer[c].count \in 0..Batch
                          /\ ToSet(consumer[c].ticks) \subseteq Ticks
                          /\ (consumer[c].at = "flushing") <=> (consumer[c].todo # {})
  /\ \A m \in Minutes : ToSet(buckets[m]) \subseteq Ticks

\* The candles of a minute under construction: the open one, and those in each buffer.
Builders == {"open"} \cup Consumers

UnderConstruction(b, m) == IF b = "open" THEN <<buckets[m]>> ELSE consumer[b].candles[m]

\* A tick counts once, though Redis and Kafka both deliver it: no tick is twice in the
\* candles under construction or in the stored ones, it counts in its own minute, and
\* it has one row as long as the process was not ended in the middle of a flush.
CountedOnce ==
  /\ \A b, c \in Builders, m, n \in Minutes :
       \A k \in DOMAIN UnderConstruction(b, m), l \in DOMAIN UnderConstruction(c, n) :
         \A i \in DOMAIN UnderConstruction(b, m)[k], j \in DOMAIN UnderConstruction(c, n)[l] :
           UnderConstruction(b, m)[k][i] = UnderConstruction(c, n)[l][j]
             => <<b, m, k, i>> = <<c, n, l, j>>
  /\ \A m \in Minutes : /\ IsInjective(candles_1m[m])
                         /\ \A t \in ToSet(candles_1m[m]) : minute[t] = m
  /\ restarts = 0 => \A t \in Ticks : market_ticks[t] <= 1

\* Every tick that reached the list is taken from it, through failures of the flushes
\* and restarts of the process.
BacklogDrains == (db_tick_buffer # <<>>) ~> (db_tick_buffer = <<>>)
=============================================================================
