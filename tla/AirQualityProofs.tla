---------------------------- MODULE AirQualityProofs ----------------------------
(***************************************************************************)
(* What AirQuality promises, for every number of devices, every limit and  *)
(* every clock: a stored row is final, no queued sample is lost without    *)
(* somebody counting it out, and the history of the past stands.           *)
(***************************************************************************)
EXTENDS AirQualityHistory, FiniteSetTheorems, TLAPS

(* The collector deletes a batch on a 200, so every row of the batch it    *)
(* waits for must have been judged by the time that answer exists.  The    *)
(* batch is what the one awaited request carries, and nothing is awaited   *)
(* outside the wait or once the answer is there.                           *)
AwaitedIsBatch ==
  \A m \in network : m.awaited =>
    /\ pc = "waiting" /\ reply = "none" /\ DOMAIN m.samples = batch
    /\ \A n \in network : n.awaited => n = m
AnswerIsTrue ==
  /\ reply = "sent" => batch \subseteq DOMAIN server \union refused
  /\ reply # "none" => pc = "waiting"
LossInvariant == AwaitedIsBatch /\ AnswerIsTrue /\ NothingLostSilently

(* How a deletion changes the keys that are present.                       *)
LEMMA DropKeys == \A f, S : DOMAIN Drop(f, S) = DOMAIN f \ S
BY DEF Drop

(* Giving up on a request leaves nothing awaited, and no answer.           *)
LEMMA GivenUp ==
  ASSUME GiveUp
  PROVE  reply' = "none" /\ \A m \in network' : ~m.awaited
<1>1. CASE network' = Late
  BY <1>1 DEF GiveUp, Late, Awaited
<1>2. CASE network' = Late \union {[samples |-> m.samples, awaited |-> FALSE] : m \in Awaited}
  <2>1. ASSUME NEW m \in network' PROVE ~m.awaited
    <3>1. CASE m \in Late
      BY <3>1 DEF Late, Awaited
    <3>2. CASE m \in {[samples |-> x.samples, awaited |-> FALSE] : x \in Awaited}
      BY <3>2
    <3> QED BY <1>2, <2>1, <3>1, <3>2
  <2> QED BY <2>1 DEF GiveUp
<1> QED BY <1>1, <1>2 DEF GiveUp

LEMMA LossInit == Init => LossInvariant
BY DEF Init, LossInvariant, AwaitedIsBatch, AnswerIsTrue, NothingLostSilently, Empty

(* The keys of the three steps that move samples.                          *)
LEMMA LossStep ==
  ASSUME LossInvariant, [Next]_vars
  PROVE  LossInvariant'
<1> USE DEF LossInvariant
<1>1. CASE Poll
  <2>1. PICK good : /\ outbox' = Merge(Keep(Sampled(good, Clock),
                                            Closed(DOMAIN Sampled(good, Clock), Clock)), outbox)
                    /\ queued' = queued \union Closed(DOMAIN Sampled(good, Clock), Clock)
    BY <1>1 DEF Poll
  <2> DEFINE closed == Closed(DOMAIN Sampled(good, Clock), Clock)
  <2>2. closed \subseteq DOMAIN Sampled(good, Clock)
    BY DEF Closed
  <2>3. DOMAIN outbox' = closed \union DOMAIN outbox
    <3>1. DOMAIN Keep(Sampled(good, Clock), closed) = DOMAIN Sampled(good, Clock) \intersect closed
      BY DEF Keep
    <3>2. DOMAIN outbox' = DOMAIN Keep(Sampled(good, Clock), closed) \union DOMAIN outbox
      BY <2>1 DEF Merge
    <3> HIDE DEF closed
    <3> QED BY <3>1, <3>2, <2>2
  <2>4. UNCHANGED <<network, reply, server, batch, refused, scrapped>> /\ pc = "poll"
    BY <1>1 DEF Poll
  <2> HIDE DEF closed
  <2>5. NothingLostSilently'
    BY <2>1, <2>3, <2>4 DEF NothingLostSilently, closed
  <2> QED BY <2>4, <2>5 DEF AwaitedIsBatch, AnswerIsTrue
<1>2. CASE SkipSend
  BY <1>2 DEF SkipSend, clocks, ghosts, AwaitedIsBatch, AnswerIsTrue, NothingLostSilently
<1>3. CASE Send
  <2>1. PICK rows \in SUBSET (DOMAIN outbox \ TooOld) :
          /\ batch' = rows
          /\ network' = network \union {[samples |-> Keep(outbox, rows), awaited |-> TRUE]}
    BY <1>3 DEF Send
  <2>2. DOMAIN Keep(outbox, rows) = rows
    <3>1. DOMAIN Keep(outbox, rows) = DOMAIN outbox \intersect rows
      BY DEF Keep
    <3> QED BY <3>1, <2>1
  <2>3. /\ pc = "send" /\ pc' = "waiting" /\ reply' = reply /\ server' = server
        /\ queued' = queued /\ refused' = refused
        /\ scrapped' = scrapped \union TooOld
        /\ DOMAIN outbox' = DOMAIN outbox \ TooOld
    BY <1>3, DropKeys DEF Send
  <2>4. AwaitedIsBatch'
    <3>1. \A m \in network : ~m.awaited
      BY <2>3 DEF AwaitedIsBatch
    <3>2. reply = "none"
      BY <2>3 DEF AnswerIsTrue
    <3> DEFINE post == [samples |-> Keep(outbox, rows), awaited |-> TRUE]
    <3>3. DOMAIN post.samples = batch'
      BY <2>1, <2>2
    <3>4. \A m \in network' : m.awaited => m = post
      BY <2>1, <3>1
    <3> HIDE DEF post
    <3> QED BY <2>3, <3>2, <3>3, <3>4 DEF AwaitedIsBatch
  <2>5. AnswerIsTrue'
    BY <2>3 DEF AnswerIsTrue
  <2>6. NothingLostSilently'
    BY <2>3 DEF NothingLostSilently
  <2> QED BY <2>4, <2>5, <2>6
<1>4. CASE Timeout \/ Crash
  <2>1. GiveUp /\ UNCHANGED <<outbox, server, queued, refused, scrapped>>
    BY <1>4 DEF Timeout, Crash, ghosts
  <2> QED BY <2>1, GivenUp DEF AwaitedIsBatch, AnswerIsTrue, NothingLostSilently
<1>5. CASE Receive
  <2>1. /\ reply # "none" /\ reply' = "none" /\ pc' = "poll" /\ batch' = {}
        /\ UNCHANGED <<network, server, queued, refused>>
        /\ outbox' = IF Settles(reply) THEN Drop(outbox, batch) ELSE outbox
        /\ scrapped' = IF reply = "drop" THEN scrapped \union batch ELSE scrapped
    BY <1>5 DEF Receive
  <2>2. NothingLostSilently'
    <3>4. DOMAIN Drop(outbox, batch) = DOMAIN outbox \ batch
      BY DropKeys
    <3>1. CASE reply = "sent"
      <4>1. outbox' = Drop(outbox, batch) /\ scrapped' = scrapped
        BY <3>1, <2>1 DEF Settles
      <4> QED BY <3>1, <3>4, <4>1, <2>1 DEF NothingLostSilently, AnswerIsTrue
    <3>2. CASE reply = "drop"
      <4>1. outbox' = Drop(outbox, batch) /\ scrapped' = scrapped \union batch
        BY <3>2, <2>1 DEF Settles
      <4> QED BY <3>4, <4>1, <2>1 DEF NothingLostSilently
    <3>3. CASE reply # "sent" /\ reply # "drop"
      <4>1. outbox' = outbox /\ scrapped' = scrapped
        BY <3>3, <2>1 DEF Settles
      <4> QED BY <4>1, <2>1 DEF NothingLostSilently
    <3> QED BY Zenon, <3>1, <3>2, <3>3
  <2> QED BY <2>1, <2>2 DEF AwaitedIsBatch, AnswerIsTrue
<1>6. CASE Decline
  <2>1. PICK m \in network : Answer(m, "retry")
    BY <1>6 DEF Decline
  <2>2. UNCHANGED <<batch, outbox, pc, server, queued, refused, scrapped>>
    BY <1>6 DEF Decline, memory, ghosts
  <2> QED BY <2>1, <2>2 DEF Answer, AwaitedIsBatch, AnswerIsTrue, NothingLostSilently
<1>7. CASE RejectBatch
  <2>1. PICK m \in network : Answer(m, "drop")
    BY <1>7 DEF RejectBatch, InvalidOutcome
  <2>2. UNCHANGED <<batch, outbox, pc, server, queued, refused, scrapped>>
    BY <1>7 DEF RejectBatch, memory, ghosts
  <2> QED BY <2>1, <2>2 DEF Answer, AwaitedIsBatch, AnswerIsTrue, NothingLostSilently
<1>8. CASE Ingest
  <2> DEFINE good(m) == {k \in DOMAIN m.samples : Acceptable(k)}
  <2>1. PICK m \in network :
          /\ server' = Inserted(Keep(m.samples, good(m)), server)
          /\ refused' = refused \union (DOMAIN m.samples \ good(m))
          /\ Answer(m, "sent")
    BY <1>8 DEF Ingest
  <2>2. UNCHANGED <<batch, outbox, pc, queued, scrapped>>
    BY <1>8 DEF Ingest, memory
  <2>3. DOMAIN server' = DOMAIN server \union (DOMAIN m.samples \intersect good(m))
    <3>1. DOMAIN Keep(m.samples, good(m)) = DOMAIN m.samples \intersect good(m)
      BY DEF Keep
    <3>2. DOMAIN server' = DOMAIN server \union DOMAIN Keep(m.samples, good(m))
      BY <2>1 DEF Inserted, Merge
    <3> QED BY <3>1, <3>2
  <2>4. DOMAIN m.samples \subseteq DOMAIN server' \union refused'
    BY <2>1, <2>3
  <2>5. DOMAIN server \subseteq DOMAIN server' /\ refused \subseteq refused'
    BY <2>1, <2>3
  <2> HIDE DEF good
  <2>6. AwaitedIsBatch'
    BY <2>1, <2>2 DEF Answer, AwaitedIsBatch
  <2>7. AnswerIsTrue'
    <3>1. CASE m.awaited
      BY <3>1, <2>1, <2>2, <2>4 DEF Answer, AwaitedIsBatch, AnswerIsTrue
    <3>2. CASE ~m.awaited
      BY <3>2, <2>1, <2>2, <2>5 DEF Answer, AnswerIsTrue
    <3> QED BY <3>1, <3>2
  <2>8. NothingLostSilently'
    BY <2>2, <2>5 DEF NothingLostSilently
  <2> QED BY <2>6, <2>7, <2>8
<1>9. CASE Tick \/ CorrectClock \/ UNCHANGED vars
  <2>1. UNCHANGED <<batch, outbox, pc, network, reply, server, queued, refused, scrapped>>
    BY <1>9 DEF Tick, CorrectClock, vars, memory, ghosts
  <2> QED BY <2>1 DEF AwaitedIsBatch, AnswerIsTrue, NothingLostSilently
<1> QED
  BY <1>1, <1>2, <1>3, <1>4, <1>5, <1>6, <1>7, <1>8, <1>9 DEF Next, Collector, Backend

(* No sample that entered the outbox is ever lost without a trace: it is   *)
(* still there, stored, or counted out by one of the two sides             *)
(* (Collector.send, ingestSamples).                                        *)
THEOREM NoSilentLoss == Spec => []NothingLostSilently
<1>1. LossInvariant /\ [Next]_vars => LossInvariant'
  BY LossStep
<1>2. LossInvariant => NothingLostSilently
  BY DEF LossInvariant
<1> QED
  BY LossInit, <1>1, <1>2, PTL DEF Spec

(* The only statement that writes sensor_readings leaves what is there.    *)
LEMMA InsertKeeps ==
  ASSUME NEW rows, NEW table, NEW k \in DOMAIN table
  PROVE  k \in DOMAIN Inserted(rows, table) /\ Inserted(rows, table)[k] = table[k]
BY DEF Inserted, Merge

(* A stored row never changes and never goes, however often and however    *)
(* late its sample is delivered (ON CONFLICT DO NOTHING).                  *)
THEOREM StoredRowsAreFinal == Spec => RowsAreFinal
<1> DEFINE Final == /\ DOMAIN server \subseteq DOMAIN server'
                    /\ \A k \in DOMAIN server : server'[k] = server[k]
<1>1. [Next]_vars => [Final]_server
  <2> SUFFICES ASSUME [Next]_vars, server' # server PROVE Final
    OBVIOUS
  <2>1. Ingest
    BY DEF Next, Collector, Backend, Poll, SkipSend, Send, Timeout, Receive, Crash, Decline,
           RejectBatch, Tick, CorrectClock, vars
  <2>2. PICK m \in network :
          server' = Inserted(Keep(m.samples, {k \in DOMAIN m.samples : Acceptable(k)}), server)
    BY <2>1 DEF Ingest
  <2> QED BY <2>2, InsertKeeps
<1> QED
  BY <1>1, PTL DEF Spec, RowsAreFinal

-------------------------------------------------------------------------------
(* Every key names a minute, so that ages can be compared.                 *)
KeysTyped ==
  /\ now \in Int /\ skew \in Int
  /\ DOMAIN buckets \subseteq Key /\ DOMAIN outbox \subseteq Key /\ DOMAIN server \subseteq Key
  /\ \A m \in network : DOMAIN m.samples \subseteq Key

LEMMA KeepKeys == \A f, S : DOMAIN Keep(f, S) = DOMAIN f \intersect S
BY DEF Keep

LEMMA KeysInit == Init => KeysTyped
BY AirQualityAssumption DEF Init, KeysTyped, Empty

(* Giving up on a request changes what it is to the collector only.        *)
LEMMA GivenUpKeys ==
  ASSUME KeysTyped, GiveUp
  PROVE  \A m \in network' : DOMAIN m.samples \subseteq Key
<1>1. ASSUME NEW m \in network' PROVE \E n \in network : m.samples = n.samples
  <2>1. CASE m \in network
    BY <2>1
  <2>2. CASE m \in {[samples |-> n.samples, awaited |-> FALSE] : n \in Awaited}
    BY <2>2 DEF Awaited
  <2> QED BY <1>1, <2>1, <2>2 DEF GiveUp, Late
<1> QED BY <1>1 DEF KeysTyped

LEMMA KeysStep ==
  ASSUME KeysTyped, [Next]_vars
  PROVE  KeysTyped'
<1>1. CASE Poll
  <2>1. PICK good \in SUBSET {d \in Devices : polls < MaxReadings} :
          /\ buckets' = Drop(Sampled(good, Clock), Closed(DOMAIN Sampled(good, Clock), Clock))
          /\ outbox' = Merge(Keep(Sampled(good, Clock),
                                  Closed(DOMAIN Sampled(good, Clock), Clock)), outbox)
    BY <1>1 DEF Poll
  <2>2. DOMAIN Sampled(good, Clock) \subseteq Key
    <3>1. DOMAIN Sampled(good, Clock) = (good \X {Clock}) \union DOMAIN buckets
      BY DEF Sampled, Merge
    <3>2. Clock \in Int
      BY DEF KeysTyped, Clock
    <3> QED BY <3>1, <3>2 DEF KeysTyped, Key
  <2>3. DOMAIN buckets' \subseteq Key
    BY <2>1, <2>2, DropKeys
  <2>4. DOMAIN outbox' \subseteq Key
    <3> DEFINE kept == Keep(Sampled(good, Clock), Closed(DOMAIN Sampled(good, Clock), Clock))
    <3>1. DOMAIN kept \subseteq Key
      BY <2>2, KeepKeys
    <3>2. DOMAIN outbox' = DOMAIN kept \union DOMAIN outbox
      BY <2>1 DEF Merge
    <3> QED BY <3>1, <3>2 DEF KeysTyped
  <2> QED BY <1>1, <2>3, <2>4 DEF Poll, clocks, KeysTyped
<1>2. CASE SkipSend
  BY <1>2 DEF SkipSend, clocks, KeysTyped
<1>3. CASE Send
  <2>1. PICK rows \in SUBSET (DOMAIN outbox \ TooOld) :
          network' = network \union {[samples |-> Keep(outbox, rows), awaited |-> TRUE]}
    BY <1>3 DEF Send
  <2>2. DOMAIN Keep(outbox, rows) \subseteq Key /\ DOMAIN outbox' \subseteq Key
    BY <1>3, KeepKeys, DropKeys DEF Send, KeysTyped
  <2> QED BY <1>3, <2>1, <2>2 DEF Send, clocks, KeysTyped
<1>4. CASE Timeout
  BY <1>4, GivenUpKeys DEF Timeout, clocks, KeysTyped
<1>5. CASE Receive
  <2>1. outbox' \in {Drop(outbox, batch), outbox}
    BY <1>5 DEF Receive
  <2>2. DOMAIN outbox' \subseteq Key
    <3>1. DOMAIN Drop(outbox, batch) = DOMAIN outbox \ batch
      BY DropKeys
    <3>2. CASE outbox' = Drop(outbox, batch)
      BY <3>1, <3>2 DEF KeysTyped
    <3>3. CASE outbox' = outbox
      BY <3>3 DEF KeysTyped
    <3> QED BY <2>1, <3>2, <3>3
  <2>3. UNCHANGED <<now, skew, buckets, network, server>>
    BY <1>5 DEF Receive, clocks
  <2> QED BY <2>2, <2>3 DEF KeysTyped
<1>6. CASE Crash
  BY <1>6, GivenUpKeys DEF Crash, Empty, clocks, KeysTyped
<1>7. CASE Decline \/ RejectBatch
  BY <1>7 DEF Decline, RejectBatch, Answer, clocks, memory, KeysTyped
<1>8. CASE Ingest
  <2>1. PICK m \in network :
          /\ server' = Inserted(Keep(m.samples, {k \in DOMAIN m.samples : Acceptable(k)}), server)
          /\ Answer(m, "sent")
    BY <1>8 DEF Ingest
  <2>2. DOMAIN server' \subseteq DOMAIN server \union DOMAIN m.samples
    BY <2>1, KeepKeys DEF Inserted, Merge
  <2> QED BY <1>8, <2>1, <2>2 DEF Ingest, Answer, clocks, memory, KeysTyped
<1>9. CASE Tick \/ CorrectClock
  BY <1>9 DEF Tick, CorrectClock, clocks, memory, KeysTyped
<1>10. CASE UNCHANGED vars
  BY <1>10 DEF vars, clocks, memory, KeysTyped
<1> QED
  BY <1>1, <1>2, <1>3, <1>4, <1>5, <1>6, <1>7, <1>8, <1>9, <1>10 DEF Next, Collector, Backend

(* A row that is stored is there to stay, and one that is new is not old.  *)
LEMMA NewRowsAreRecent ==
  ASSUME KeysTyped, [Next]_vars
  PROVE  /\ DOMAIN server \subseteq DOMAIN server'
         /\ \A k \in DOMAIN server : server'[k] = server[k]
         /\ \A k \in DOMAIN server' \ DOMAIN server : k \in Key /\ now - MinuteOf(k) <= SampleAge
<1>1. CASE Ingest
  <2>1. PICK m \in network :
          server' = Inserted(Keep(m.samples, {k \in DOMAIN m.samples : Acceptable(k)}), server)
    BY <1>1 DEF Ingest
  <2> DEFINE good == {k \in DOMAIN m.samples : Acceptable(k)}
             rows == Keep(m.samples, good)
  <2>2. DOMAIN server' = DOMAIN server \union good
    <3>1. DOMAIN rows = DOMAIN m.samples \intersect good
      BY KeepKeys
    <3> HIDE DEF rows
    <3>2. DOMAIN server' = DOMAIN server \union DOMAIN rows
      BY <2>1 DEF Inserted, Merge, rows
    <3> QED BY <3>1, <3>2
  <2> QED BY <2>1, <2>2, InsertKeeps DEF Acceptable, InWindow, KeysTyped
<1>2. CASE server' = server
  BY <1>2
<1> QED
  BY <1>1, <1>2 DEF Next, Collector, Backend, Poll, SkipSend, Send, Timeout, Receive, Crash,
     Decline, RejectBatch, Tick, CorrectClock, vars

(* What the history of a past range is made of stays as it is.             *)
LEMMA PastStands ==
  ASSUME KeysTyped, [Next]_vars, NEW d \in Devices, NEW from \in Int, NEW to \in Int,
         to <= now - SampleAge, NEW bucket
  PROVE  History(d, from, to, bucket)' = History(d, from, to, bucket)
<1>1. InRange(d, from, to)' = InRange(d, from, to)
  <2>1. \A k \in DOMAIN server' \ DOMAIN server : ~(MinuteOf(k) < to)
    <3>1. \A k \in Key : MinuteOf(k) \in Int
      BY DEF Key, MinuteOf
    <3>2. now \in Int /\ SampleAge \in Int
      BY AirQualityAssumption DEF KeysTyped
    <3> QED BY <3>1, <3>2, NewRowsAreRecent
  <2> QED BY <2>1, NewRowsAreRecent DEF InRange, Of
<1>2. ASSUME NEW start
      PROVE  Point(d, from, to, bucket, start)' = Point(d, from, to, bucket, start)
  <2> DEFINE S == {k \in InRange(d, from, to) : StartOf(MinuteOf(k), bucket) = start}
  <2>1. S' = S
    BY <1>1
  <2>2. S \subseteq DOMAIN server
    BY DEF InRange, Of
  <2>3. DOMAIN server \intersect S = DOMAIN server' \intersect S
    BY <2>2, NewRowsAreRecent
  <2>4. Keep(server', S) = Keep(server, S)
    BY <2>3, NewRowsAreRecent DEF Keep
  <2> QED BY <2>1, <2>4 DEF Point
<1> QED BY <1>1, <1>2 DEF History

(* Whoever asks for a device's range older than the samples still taken    *)
(* gets the same averages for ever, and nobody who looks at the device     *)
(* again finds an older reading (getSpaceAirQuality,                       *)
(* getSpaceAirQualityHistory).                                             *)
THEOREM HistoryIsFinal == Spec => HistoryStands
<1> DEFINE Stands ==
      \A d \in Devices :
        /\ \A from, to \in -MaxTime .. MaxTime, bucket \in {"minute", "hour"} :
             to <= now - SampleAge => History(d, from, to, bucket)' = History(d, from, to, bucket)
        /\ \A k \in Latest(d), x \in Latest(d)' : MinuteOf(k) <= MinuteOf(x)
<1>1. KeysTyped /\ [Next]_vars => KeysTyped'
  BY KeysStep
<1>2. ASSUME KeysTyped, [Next]_vars PROVE Stands
  <2> SUFFICES ASSUME NEW d \in Devices
               PROVE  /\ \A from, to \in -MaxTime .. MaxTime, bucket \in {"minute", "hour"} :
                           to <= now - SampleAge =>
                             History(d, from, to, bucket)' = History(d, from, to, bucket)
                      /\ \A k \in Latest(d), x \in Latest(d)' : MinuteOf(k) <= MinuteOf(x)
    OBVIOUS
  <2>1. ASSUME NEW from \in -MaxTime .. MaxTime, NEW to \in -MaxTime .. MaxTime,
               NEW bucket \in {"minute", "hour"}, to <= now - SampleAge
        PROVE  History(d, from, to, bucket)' = History(d, from, to, bucket)
    <3>1. from \in Int /\ to \in Int
      OBVIOUS
    <3> QED BY <1>2, <2>1, <3>1, PastStands
  <2>2. ASSUME NEW k \in Latest(d), NEW x \in Latest(d)'
        PROVE  MinuteOf(k) <= MinuteOf(x)
    <3>1. k \in DOMAIN server' /\ DeviceOf(k) = d
      BY <1>2, NewRowsAreRecent DEF Latest, Of
    <3>2. /\ DeviceOf(x) = d
          /\ \A y \in DOMAIN server' : DeviceOf(y) = DeviceOf(x) => MinuteOf(y) <= MinuteOf(x)
      BY DEF Latest, IsLatest, Of
    <3> QED BY <3>1, <3>2
  <2> QED BY <2>1, <2>2
<1>3. KeysTyped /\ [Next]_vars => [Stands]_vars
  BY <1>2
<1> QED
  BY KeysInit, <1>1, <1>3, PTL DEF Spec, HistoryStands

-------------------------------------------------------------------------------
(* A minute is over once it is queued: what is queued lies before the      *)
(* host's clock and is in no bucket any more, and all the copies of a      *)
(* sample are of one that was queued, and agree with each other.           *)
Copies == {outbox, server} \union {m.samples : m \in network}
QueuedIsPast == \A k \in queued : MinuteOf(k) \in Int /\ MinuteOf(k) < Clock
BucketsAreOpen == \A k \in DOMAIN buckets : k \notin queued
CopiesQueued == \A f \in Copies : DOMAIN f \subseteq queued
CopiesAgree == \A f, g \in Copies : \A k \in DOMAIN f \intersect DOMAIN g : f[k] = g[k]
MinutesInvariant ==
  ~corrected => QueuedIsPast /\ BucketsAreOpen /\ CopiesQueued /\ CopiesAgree

(* A table all of whose rows are copies of what was there.                 *)
MadeOf(f) == \A k \in DOMAIN f : \E g \in Copies : k \in DOMAIN g /\ f[k] = g[k]

LEMMA PartsOfCopies ==
  ASSUME NEW f \in Copies, NEW S
  PROVE  MadeOf(f) /\ MadeOf(Keep(f, S)) /\ MadeOf(Drop(f, S))
BY DEF MadeOf, Keep, Drop

LEMMA MadeOfQueued ==
  ASSUME CopiesQueued, NEW f, MadeOf(f)
  PROVE  DOMAIN f \subseteq queued
BY DEF CopiesQueued, MadeOf

LEMMA MadeOfAgree ==
  ASSUME CopiesAgree, NEW f, NEW g, MadeOf(f), MadeOf(g)
  PROVE  \A k \in DOMAIN f \intersect DOMAIN g : f[k] = g[k]
<1> SUFFICES ASSUME NEW k \in DOMAIN f \intersect DOMAIN g PROVE f[k] = g[k]
  OBVIOUS
<1>1. PICK a \in Copies : k \in DOMAIN a /\ f[k] = a[k] BY DEF MadeOf
<1>2. PICK b \in Copies : k \in DOMAIN b /\ g[k] = b[k] BY DEF MadeOf
<1>3. a[k] = b[k] BY <1>1, <1>2 DEF CopiesAgree
<1> QED BY <1>1, <1>2, <1>3

(* A step that reads nothing and makes copies of what there is only.       *)
LEMMA CopyStep ==
  ASSUME KeysTyped, KeysTyped', MinutesInvariant, now <= now',
         ~corrected' => ~corrected /\ skew' = skew,
         UNCHANGED queued, DOMAIN buckets' \subseteq DOMAIN buckets,
         \A f \in Copies' : MadeOf(f)
  PROVE  MinutesInvariant'
<1> SUFFICES ASSUME ~corrected'
             PROVE  (QueuedIsPast /\ BucketsAreOpen /\ CopiesQueued /\ CopiesAgree)'
  BY DEF MinutesInvariant
<1>1. /\ QueuedIsPast /\ BucketsAreOpen /\ CopiesQueued /\ CopiesAgree /\ skew' = skew
  BY DEF MinutesInvariant
<1>2. QueuedIsPast'
  <2>1. now \in Int /\ now' \in Int /\ skew \in Int BY DEF KeysTyped
  <2>2. \A a, b, c \in Int : a <= b => a + c <= b + c /\ a + c \in Int /\ b + c \in Int
    OBVIOUS
  <2>3. Clock = now + skew /\ Clock' = now' + skew BY <1>1 DEF Clock
  <2>4. Clock <= Clock' /\ Clock \in Int /\ Clock' \in Int BY <2>1, <2>2, <2>3
  <2> QED BY <1>1, <2>4 DEF QueuedIsPast
<1>3. BucketsAreOpen' BY <1>1 DEF BucketsAreOpen
<1>4. CopiesQueued' BY <1>1, MadeOfQueued DEF CopiesQueued
<1>5. CopiesAgree' BY <1>1, MadeOfAgree DEF CopiesAgree
<1> QED BY <1>2, <1>3, <1>4, <1>5

(* Poll: what is queued was in a bucket, so that no copy of it exists.     *)
LEMMA PollStep ==
  ASSUME KeysTyped, KeysTyped', MinutesInvariant, Poll
  PROVE  MinutesInvariant'
<1> SUFFICES ASSUME ~corrected'
             PROVE  (QueuedIsPast /\ BucketsAreOpen /\ CopiesQueued /\ CopiesAgree)'
  BY DEF MinutesInvariant
<1>1. UNCHANGED <<now, skew, corrected, network, server>> BY DEF Poll, clocks
<1>2. /\ QueuedIsPast /\ BucketsAreOpen /\ CopiesQueued /\ CopiesAgree
      /\ now \in Int /\ skew \in Int /\ DOMAIN buckets \subseteq Key
  BY <1>1 DEF MinutesInvariant, KeysTyped
<1>3. PICK good \in SUBSET Devices :
        /\ buckets' = Drop(Sampled(good, Clock), Closed(DOMAIN Sampled(good, Clock), Clock))
        /\ outbox' = Merge(Keep(Sampled(good, Clock),
                                Closed(DOMAIN Sampled(good, Clock), Clock)), outbox)
        /\ queued' = queued \union Closed(DOMAIN Sampled(good, Clock), Clock)
  BY DEF Poll
<1>4. PICK sampled : sampled = Sampled(good, Clock) OBVIOUS
<1>5. PICK clock \in Int : clock = Clock BY <1>2 DEF Clock
<1>6. PICK closed : closed = Closed(DOMAIN sampled, clock) OBVIOUS
<1>7. \A k \in DOMAIN sampled : k \in DOMAIN buckets \/ MinuteOf(k) = clock
  BY <1>4, <1>5 DEF Sampled, Merge, MinuteOf
<1>8. \A k \in closed : k \in DOMAIN buckets /\ MinuteOf(k) \in Int /\ MinuteOf(k) < clock
  <2>1. \A k \in closed : k \in DOMAIN sampled /\ MinuteOf(k) < clock BY <1>6 DEF Closed
  <2>2. \A k \in Key : MinuteOf(k) \in Int BY DEF Key, MinuteOf
  <2> QED BY <1>2, <1>5, <1>7, <2>1, <2>2
<1>9. \A k \in closed : k \notin queued BY <1>2, <1>8 DEF BucketsAreOpen
<1>10. queued' = queued \union closed BY <1>3, <1>4, <1>5, <1>6
<1>11. QueuedIsPast'
  <2>1. Clock' = clock BY <1>1, <1>5 DEF Clock
  <2> QED BY <1>2, <1>5, <1>8, <1>10, <2>1 DEF QueuedIsPast
<1>12. BucketsAreOpen'
  <2> SUFFICES ASSUME NEW k \in DOMAIN buckets' PROVE k \notin queued'
    BY DEF BucketsAreOpen
  <2>1. k \in DOMAIN sampled \ closed
    BY <1>3, <1>4, <1>5, <1>6, DropKeys
  <2>2. k \notin queued
    BY <1>2, <1>5, <1>7, <2>1 DEF BucketsAreOpen, QueuedIsPast
  <2> QED BY <1>10, <2>1, <2>2
<1>13. /\ DOMAIN outbox' = (DOMAIN sampled \intersect closed) \union DOMAIN outbox
       /\ \A k \in DOMAIN outbox' \ closed : k \in DOMAIN outbox /\ outbox'[k] = outbox[k]
  <2>1. outbox' = Merge(Keep(sampled, closed), outbox) BY <1>3, <1>4, <1>5, <1>6
  <2>2. PICK kept : kept = Keep(sampled, closed) OBVIOUS
  <2>3. DOMAIN kept = DOMAIN sampled \intersect closed BY <2>2, KeepKeys
  <2>4. outbox' = [k \in DOMAIN kept \union DOMAIN outbox |->
                     IF k \in DOMAIN kept THEN kept[k] ELSE outbox[k]]
    BY <2>1, <2>2 DEF Merge
  <2> QED BY <2>3, <2>4
<1>14. ASSUME NEW f \in Copies'
       PROVE  f = outbox' \/ (f \in Copies /\ DOMAIN f \subseteq queued)
  BY <1>1, <1>2 DEF Copies, CopiesQueued
<1>15. DOMAIN outbox \subseteq queued BY <1>2 DEF Copies, CopiesQueued
<1>16. CopiesQueued' BY <1>10, <1>13, <1>14, <1>15 DEF CopiesQueued
<1>17. CopiesAgree'
  <2>1. ASSUME NEW f \in Copies, NEW k \in DOMAIN outbox' \intersect DOMAIN f
        PROVE  outbox'[k] = f[k]
    <3>1. k \notin closed BY <1>2, <1>9, <2>1 DEF CopiesQueued
    <3>2. k \in DOMAIN outbox /\ outbox'[k] = outbox[k] BY <1>13, <3>1
    <3> QED BY <1>2, <2>1, <3>2 DEF Copies, CopiesAgree
  <2> SUFFICES ASSUME NEW f \in Copies', NEW g \in Copies', NEW k \in DOMAIN f \intersect DOMAIN g
               PROVE  f[k] = g[k]
    BY DEF CopiesAgree
  <2>2. f = outbox' \/ f \in Copies BY <1>14
  <2>3. g = outbox' \/ g \in Copies BY <1>14
  <2> QED BY <1>2, <2>1, <2>2, <2>3 DEF CopiesAgree
<1> QED BY <1>11, <1>12, <1>16, <1>17

LEMMA GivenUpCopies ==
  ASSUME GiveUp, UNCHANGED <<outbox, server>>
  PROVE  \A f \in Copies' : MadeOf(f)
<1>1. \A m \in network' : \E n \in network : m.samples = n.samples
  <2>1. CASE network' = Late BY <2>1 DEF Late
  <2>2. CASE network' = Late \union {[samples |-> m.samples, awaited |-> FALSE] : m \in Awaited}
    <3>1. \A m : [samples |-> m.samples, awaited |-> FALSE].samples = m.samples OBVIOUS
    <3> QED BY <2>2, <3>1 DEF Late, Awaited
  <2> QED BY <2>1, <2>2 DEF GiveUp
<1>2. Copies' \subseteq Copies BY <1>1 DEF Copies
<1> QED BY <1>2 DEF MadeOf

LEMMA MinutesNext ==
  ASSUME KeysTyped, KeysTyped', MinutesInvariant, [Next]_vars
  PROVE  MinutesInvariant'
<1>1. now \in Int /\ now <= now BY DEF KeysTyped
<1>2. CASE SkipSend \/ UNCHANGED vars
  <2>1. UNCHANGED <<now, skew, corrected, queued, buckets, outbox, server, network>>
    BY <1>2 DEF SkipSend, vars, clocks, memory, ghosts
  <2>2. \A f \in Copies' : MadeOf(f) BY <2>1 DEF Copies, MadeOf
  <2> QED BY <1>1, <2>1, <2>2, CopyStep
<1>3. CASE Send
  <2>1. UNCHANGED <<now, skew, corrected, queued, buckets, server>> BY <1>3 DEF Send, clocks
  <2>2. PICK rows :
          /\ network' = network \union {[samples |-> Keep(outbox, rows), awaited |-> TRUE]}
          /\ outbox' = Drop(outbox, TooOld)
    BY <1>3 DEF Send
  <2>3. outbox \in Copies BY DEF Copies
  <2>4. MadeOf(Keep(outbox, rows)) /\ MadeOf(Drop(outbox, TooOld)) BY <2>3, PartsOfCopies
  <2>5. \A f \in Copies' : f = Keep(outbox, rows) \/ f = Drop(outbox, TooOld) \/ f \in Copies
    <3>1. [samples |-> Keep(outbox, rows), awaited |-> TRUE].samples = Keep(outbox, rows) OBVIOUS
    <3> QED BY <2>1, <2>2, <3>1 DEF Copies
  <2>6. \A f \in Copies' : MadeOf(f)
    <3>1. \A f \in Copies : MadeOf(f) BY PartsOfCopies
    <3> QED BY <2>4, <2>5, <3>1
  <2> QED BY <1>1, <2>1, <2>6, CopyStep
<1>4. CASE Timeout \/ Crash
  <2>1. /\ UNCHANGED <<now, skew, corrected, queued, outbox, server>> /\ GiveUp
        /\ DOMAIN buckets' \subseteq DOMAIN buckets
    BY <1>4 DEF Timeout, Crash, Empty, clocks, ghosts
  <2> QED BY <1>1, <2>1, GivenUpCopies, CopyStep
<1>5. CASE Receive
  <2>1. UNCHANGED <<now, skew, corrected, queued, buckets, server, network>>
        /\ (outbox' = outbox \/ outbox' = Drop(outbox, batch))
    BY <1>5 DEF Receive, clocks
  <2>2. outbox \in Copies BY DEF Copies
  <2>3. \A f \in Copies' : f \in Copies \/ f = Drop(outbox, batch) BY <2>1 DEF Copies
  <2>4. \A f \in Copies' : MadeOf(f) BY <2>2, <2>3, PartsOfCopies
  <2> QED BY <1>1, <2>1, <2>4, CopyStep
<1>6. CASE Decline \/ RejectBatch
  <2>1. UNCHANGED <<now, skew, corrected, queued, buckets, outbox, server>>
        /\ network' \subseteq network
    BY <1>6 DEF Decline, RejectBatch, Answer, clocks, memory, ghosts
  <2>2. \A f \in Copies' : f \in Copies BY <2>1 DEF Copies
  <2>3. \A f \in Copies' : MadeOf(f) BY <2>2, PartsOfCopies
  <2> QED BY <1>1, <2>1, <2>3, CopyStep
<1>7. CASE Ingest
  <2>1. UNCHANGED <<now, skew, corrected, queued, buckets, outbox>>
    BY <1>7 DEF Ingest, clocks, memory
  <2>2. PICK m \in network :
          /\ server' = Merge(server, Keep(m.samples, {k \in DOMAIN m.samples : Acceptable(k)}))
          /\ network' \subseteq network
    BY <1>7 DEF Ingest, Inserted, Answer
  <2>3. PICK rows : rows = Keep(m.samples, {k \in DOMAIN m.samples : Acceptable(k)}) OBVIOUS
  <2>4. MadeOf(rows) /\ MadeOf(server)
    <3>1. m.samples \in Copies /\ server \in Copies BY DEF Copies
    <3> QED BY <2>3, <3>1, PartsOfCopies
  <2>5. \A k \in DOMAIN server' :
          \/ k \in DOMAIN server /\ server'[k] = server[k]
          \/ k \in DOMAIN rows /\ server'[k] = rows[k]
    BY <2>2, <2>3 DEF Merge
  <2>6. MadeOf(server') BY <2>4, <2>5 DEF MadeOf
  <2>7. \A f \in Copies' : f = server' \/ f \in Copies BY <2>1, <2>2 DEF Copies
  <2>8. \A f \in Copies' : MadeOf(f) BY <2>6, <2>7, PartsOfCopies
  <2> QED BY <1>1, <2>1, <2>8, CopyStep
<1>8. CASE Tick \/ CorrectClock
  <2>1. UNCHANGED <<queued, buckets, outbox, server, network>> /\ (now' = now \/ now' = now + 1)
        /\ (~corrected' => ~corrected /\ skew' = skew)
    BY <1>8 DEF Tick, CorrectClock, memory, ghosts
  <2>2. now <= now' BY <1>1, <2>1
  <2>3. \A f \in Copies' : MadeOf(f) BY <2>1 DEF Copies, MadeOf
  <2> QED BY <2>1, <2>2, <2>3, CopyStep
<1> QED
  BY <1>2, <1>3, <1>4, <1>5, <1>6, <1>7, <1>8, PollStep DEF Next, Collector, Backend

(* As long as the host's clock is not set, a minute that was queued is     *)
(* over: it is not read into again (MinuteSampler.flush), and the outbox,  *)
(* every request on its way and sensor_readings agree on its sample.       *)
THEOREM MinutesAreClosedOnce == Spec => []MinutesCloseOnce
<1>1. Init => MinutesInvariant
  <2> SUFFICES ASSUME Init PROVE QueuedIsPast /\ BucketsAreOpen /\ CopiesQueued /\ CopiesAgree
    BY DEF MinutesInvariant
  <2>1. \A f \in Copies : f = Empty BY DEF Init, Copies
  <2>2. DOMAIN Empty = {} BY DEF Empty
  <2> QED BY <2>1, <2>2 DEF Init, QueuedIsPast, BucketsAreOpen, CopiesQueued, CopiesAgree
<1>2. MinutesInvariant => MinutesCloseOnce
  <2> SUFFICES ASSUME BucketsAreOpen, CopiesAgree
               PROVE  /\ \A k \in DOMAIN buckets : k \notin queued
                      /\ \A k \in DOMAIN outbox \intersect DOMAIN server : outbox[k] = server[k]
                      /\ \A m \in network : \A k \in DOMAIN m.samples :
                           /\ k \in DOMAIN outbox => outbox[k] = m.samples[k]
                           /\ k \in DOMAIN server => server[k] = m.samples[k]
    BY DEF MinutesInvariant, MinutesCloseOnce
  <2>1. outbox \in Copies /\ server \in Copies /\ \A m \in network : m.samples \in Copies
    BY DEF Copies
  <2> QED BY <2>1 DEF BucketsAreOpen, CopiesAgree
<1>3. KeysTyped /\ [Next]_vars => KeysTyped' BY KeysStep
<1>4. KeysTyped /\ KeysTyped' /\ MinutesInvariant /\ [Next]_vars => MinutesInvariant'
  BY MinutesNext
<1> QED BY KeysInit, <1>1, <1>2, <1>3, <1>4, PTL DEF Spec

-------------------------------------------------------------------------------
(* Types.  The collector asks for Batch rows, no more than the backend     *)
(* takes; that the outbox is finite makes their number one.                *)
TypeInvariant ==
  TypeOK /\ BatchesFit /\ IsFiniteSet(DOMAIN buckets) /\ IsFiniteSet(DOMAIN outbox)

LEMMA TablesOfTables ==
  ASSUME NEW f, NEW g, Table(f), Table(g), NEW S
  PROVE  Table(Merge(f, g)) /\ Table(Keep(f, S)) /\ Table(Drop(f, S))
<1>1. Table(Merge(f, g))
  <2>1. DOMAIN Merge(f, g) = DOMAIN f \union DOMAIN g BY DEF Merge
  <2>2. \A k \in DOMAIN f \union DOMAIN g :
          \/ k \in DOMAIN f /\ Merge(f, g)[k] = f[k]
          \/ k \in DOMAIN g /\ Merge(f, g)[k] = g[k]
    BY DEF Merge
  <2> QED BY <2>1, <2>2 DEF Table
<1>2. Table(Keep(f, S)) /\ Table(Drop(f, S)) BY DEF Table, Keep, Drop
<1> QED BY <1>1, <1>2

LEMMA FiniteTables ==
  ASSUME NEW f, NEW g, IsFiniteSet(DOMAIN f), IsFiniteSet(DOMAIN g), NEW S
  PROVE  /\ IsFiniteSet(DOMAIN Merge(f, g))
         /\ IsFiniteSet(DOMAIN Keep(f, S)) /\ IsFiniteSet(DOMAIN Drop(f, S))
<1>1. DOMAIN Merge(f, g) = DOMAIN f \union DOMAIN g BY DEF Merge
<1>2. DOMAIN Keep(f, S) \subseteq DOMAIN f /\ DOMAIN Drop(f, S) \subseteq DOMAIN f
  BY DEF Keep, Drop
<1> QED BY <1>1, <1>2, FS_Union, FS_Subset

(* What MinuteSampler.add leaves behind is a table of the same kind.       *)
LEMMA SampledIsTable ==
  ASSUME TypeInvariant, NEW good \in SUBSET {d \in Devices : polls < MaxReadings}
  PROVE  Table(Sampled(good, Clock)) /\ IsFiniteSet(DOMAIN Sampled(good, Clock))
<1>1. PICK clock : clock = Clock OBVIOUS
<1>2. /\ now \in Int /\ skew \in Int /\ polls \in 0 .. MaxReadings /\ MaxReadings \in Nat
      /\ Table(buckets)
  BY AirQualityAssumption DEF TypeInvariant, TypeOK, BatchesFit
<1>3. clock \in Int BY <1>1, <1>2 DEF Clock
<1>4. good \X {clock} \subseteq Key BY <1>3 DEF Key
<1> DEFINE Added == [k \in good \X {clock} |->
                       {polls + 1} \union IF k \in DOMAIN buckets THEN buckets[k] ELSE {}]
<1>5. Table(Added)
  <2>1. DOMAIN Added = good \X {clock} OBVIOUS
  <2>2. ASSUME NEW k \in good \X {clock} PROVE Added[k] \subseteq 1 .. MaxReadings
    <3>1. polls + 1 \in 1 .. MaxReadings
      <4>1. polls < MaxReadings BY <2>2
      <4> QED BY <1>2, <4>1
    <3>2. k \in DOMAIN buckets => buckets[k] \subseteq 1 .. MaxReadings BY <1>2 DEF Table
    <3>3. Added[k] = {polls + 1} \union IF k \in DOMAIN buckets THEN buckets[k] ELSE {}
      OBVIOUS
    <3> QED BY <3>1, <3>2, <3>3
  <2> HIDE DEF Added
  <2> QED BY <1>4, <2>1, <2>2 DEF Table
<1>6. IsFiniteSet(DOMAIN Added)
  <2>1. DOMAIN Added = good \X {clock} OBVIOUS
  <2>2. IsFiniteSet(good) BY AirQualityAssumption, FS_Subset
  <2>3. IsFiniteSet({clock}) BY FS_Singleton
  <2> QED BY <2>1, <2>2, <2>3, FS_Product
<1>7. Sampled(good, Clock) = Merge(Added, buckets) BY <1>1 DEF Sampled
<1> HIDE DEF Added
<1> QED BY <1>2, <1>5, <1>6, <1>7, TablesOfTables, FiniteTables DEF TypeInvariant

LEMMA PollTyped ==
  ASSUME TypeInvariant, Poll
  PROVE  TypeInvariant'
<1>1. PICK good \in SUBSET {d \in Devices : polls < MaxReadings} :
        /\ polls' = IF good = {} THEN polls ELSE polls + 1
        /\ buckets' = Drop(Sampled(good, Clock), Closed(DOMAIN Sampled(good, Clock), Clock))
        /\ outbox' = Merge(Keep(Sampled(good, Clock),
                                Closed(DOMAIN Sampled(good, Clock), Clock)), outbox)
        /\ queued' = queued \union Closed(DOMAIN Sampled(good, Clock), Clock)
  BY DEF Poll
<1>2. PICK sampled : sampled = Sampled(good, Clock) OBVIOUS
<1>3. PICK closed : closed = Closed(DOMAIN sampled, Clock) OBVIOUS
<1>4. Table(sampled) /\ IsFiniteSet(DOMAIN sampled) BY <1>2, SampledIsTable
<1>5. /\ buckets' = Drop(sampled, closed) /\ outbox' = Merge(Keep(sampled, closed), outbox)
      /\ queued' = queued \union closed
  BY <1>1, <1>2, <1>3
<1>6. Table(buckets') /\ IsFiniteSet(DOMAIN buckets') BY <1>4, <1>5, TablesOfTables, FiniteTables
<1>7. Table(outbox') /\ IsFiniteSet(DOMAIN outbox')
  <2>1. Table(Keep(sampled, closed)) /\ IsFiniteSet(DOMAIN Keep(sampled, closed))
    BY <1>4, TablesOfTables, FiniteTables
  <2>2. Table(outbox) /\ IsFiniteSet(DOMAIN outbox) BY DEF TypeInvariant, TypeOK, BatchesFit
  <2> QED BY <1>5, <2>1, <2>2, TablesOfTables, FiniteTables
<1>8. queued' \subseteq Key
  <2>1. closed \subseteq DOMAIN sampled BY <1>3 DEF Closed
  <2> QED BY <1>4, <1>5, <2>1 DEF Table, TypeInvariant, TypeOK, BatchesFit
<1>9. polls' \in 0 .. MaxReadings
  <2>1. polls \in 0 .. MaxReadings /\ MaxReadings \in Nat
    BY AirQualityAssumption DEF TypeInvariant, TypeOK, BatchesFit
  <2>2. good # {} => polls < MaxReadings OBVIOUS
  <2> QED BY <1>1, <2>1, <2>2
<1>10. /\ pc' = "send"
       /\ UNCHANGED <<now, skew, corrected, batch, pause, network, reply, server, crashes,
                      refused, scrapped>>
  BY DEF Poll, clocks
<1> QED BY <1>6, <1>7, <1>8, <1>9, <1>10 DEF TypeInvariant, TypeOK, BatchesFit

(* Every request carries a table that the backend takes.                   *)
MessagesOK ==
  \A m \in network :
    /\ DOMAIN m = {"samples", "awaited"} /\ m.awaited \in BOOLEAN
    /\ Table(m.samples) /\ Cardinality(DOMAIN m.samples) <= MaxSamples

LEMMA SendTyped ==
  ASSUME TypeInvariant, Send
  PROVE  TypeInvariant'
<1>1. PICK rows \in SUBSET (DOMAIN outbox \ TooOld) :
        /\ Cardinality(rows) <= Batch
        /\ batch' = rows
        /\ network' = network \union {[samples |-> Keep(outbox, rows), awaited |-> TRUE]}
  BY DEF Send, Taken
<1>2. /\ Table(outbox) /\ IsFiniteSet(DOMAIN outbox) /\ scrapped \subseteq Key /\ MessagesOK
  BY DEF TypeInvariant, TypeOK, BatchesFit, MessagesOK
<1>3. batch' \subseteq Key /\ Cardinality(batch') <= MaxSamples /\ batch' = rows
  <2>1. IsFiniteSet(rows) BY <1>2, FS_Subset
  <2>2. Cardinality(rows) \in Nat BY <2>1, FS_CardinalityType
  <2>3. Batch \in Nat /\ MaxSamples \in Nat /\ Batch <= MaxSamples BY AirQualityAssumption
  <2> QED BY <1>1, <1>2, <2>2, <2>3 DEF Table
<1>4. MessagesOK'
  <2>1. Table(Keep(outbox, rows)) BY <1>2, TablesOfTables
  <2>2. PICK m : m = [samples |-> Keep(outbox, rows), awaited |-> TRUE] OBVIOUS
  <2>3. DOMAIN m = {"samples", "awaited"} /\ m.awaited = TRUE /\ m.samples = Keep(outbox, rows)
    BY <2>2
  <2>4. network' = network \union {m} BY <1>1, <2>2
  <2>5. DOMAIN Keep(outbox, rows) = rows
    <3>1. rows \subseteq DOMAIN outbox OBVIOUS
    <3> QED BY <3>1 DEF Keep
  <2> QED BY <1>2, <1>3, <2>1, <2>3, <2>4, <2>5 DEF MessagesOK
<1>5. outbox' = Drop(outbox, TooOld) /\ scrapped' = scrapped \union TooOld BY DEF Send
<1>6. Table(outbox') /\ IsFiniteSet(DOMAIN outbox') BY <1>2, <1>5, TablesOfTables, FiniteTables
<1>7. scrapped' \subseteq Key BY <1>2, <1>5 DEF TooOld, Table
<1>8. /\ pc' = "waiting"
      /\ UNCHANGED <<now, skew, corrected, polls, buckets, pause, reply, server, crashes,
                     queued, refused>>
  BY DEF Send, clocks
<1> QED BY <1>3, <1>4, <1>6, <1>7, <1>8 DEF TypeInvariant, TypeOK, BatchesFit, MessagesOK

LEMMA GivenUpTyped ==
  ASSUME MessagesOK, GiveUp
  PROVE  MessagesOK' /\ reply' = "none"
<1>1. CASE network' = Late BY <1>1 DEF GiveUp, Late, MessagesOK
<1>2. CASE network' = Late \union {[samples |-> m.samples, awaited |-> FALSE] : m \in Awaited}
  <2> SUFFICES ASSUME NEW n \in network', n \notin Late
               PROVE  /\ DOMAIN n = {"samples", "awaited"} /\ n.awaited \in BOOLEAN
                      /\ Table(n.samples) /\ Cardinality(DOMAIN n.samples) <= MaxSamples
    BY DEF GiveUp, Late, MessagesOK
  <2>1. PICK m \in network : n = [samples |-> m.samples, awaited |-> FALSE]
    BY <1>2 DEF Awaited
  <2>2. DOMAIN n = {"samples", "awaited"} /\ n.awaited = FALSE /\ n.samples = m.samples
    BY <2>1
  <2> QED BY <2>2 DEF MessagesOK
<1> QED BY <1>1, <1>2 DEF GiveUp

LEMMA TypesNext ==
  ASSUME TypeInvariant, [Next]_vars
  PROVE  TypeInvariant'
<1>1. /\ TypeOK /\ BatchesFit /\ MessagesOK
      /\ MaxTime \in Nat /\ MaxPause \in Nat /\ MaxCrashes \in Nat
      /\ MaxSamples \in Nat /\ MaxReadings \in Nat /\ Table(Empty)
      /\ IsFiniteSet(DOMAIN Empty) /\ Cardinality({}) <= MaxSamples
  <2>1. DOMAIN Empty = {} BY DEF Empty
  <2>2. Cardinality({}) = 0 /\ IsFiniteSet({}) BY FS_EmptySet
  <2> QED
    BY AirQualityAssumption, <2>1, <2>2
    DEF TypeInvariant, TypeOK, BatchesFit, MessagesOK, Table
<1>2. CASE SkipSend
  BY <1>1, <1>2 DEF SkipSend, clocks, ghosts, TypeInvariant, TypeOK, BatchesFit
<1>3. CASE UNCHANGED vars
  BY <1>3 DEF vars, clocks, memory, ghosts, TypeInvariant, TypeOK, BatchesFit
<1>4. CASE Timeout \/ Crash
  <2>1. MessagesOK' /\ reply' = "none" BY <1>1, <1>4, GivenUpTyped DEF Timeout, Crash
  <2>2. CASE Timeout
    BY <1>1, <2>1, <2>2 DEF Timeout, clocks, ghosts, TypeInvariant, TypeOK, BatchesFit, MessagesOK
  <2>3. CASE Crash
    BY <1>1, <2>1, <2>3 DEF Crash, clocks, ghosts, TypeInvariant, TypeOK, BatchesFit, MessagesOK
  <2> QED BY <1>4, <2>2, <2>3
<1>5. CASE Receive
  <2>1. outbox' = outbox \/ outbox' = Drop(outbox, batch) BY <1>5 DEF Receive
  <2>2. Table(outbox) /\ IsFiniteSet(DOMAIN outbox) /\ batch \subseteq Key /\ scrapped \subseteq Key
    BY <1>1 DEF TypeInvariant, TypeOK, BatchesFit
  <2>3. Table(outbox') /\ IsFiniteSet(DOMAIN outbox') BY <2>1, <2>2, TablesOfTables, FiniteTables
  <2>4. scrapped' \subseteq Key BY <1>5, <2>2 DEF Receive
  <2> QED BY <1>1, <1>5, <2>3, <2>4 DEF Receive, clocks, TypeInvariant, TypeOK, BatchesFit
<1>6. CASE Decline \/ RejectBatch
  <2>1. PICK m \in network : network' = network \ {m}
                             /\ reply' \in {reply, "retry", "drop"}
    BY <1>6 DEF Decline, RejectBatch, Answer, InvalidOutcome
  <2>2. MessagesOK' BY <1>1, <2>1 DEF MessagesOK
  <2>3. UNCHANGED <<now, skew, corrected, polls, buckets, batch, pause, outbox, pc, server,
                    crashes, queued, refused, scrapped>>
    BY <1>6 DEF Decline, RejectBatch, clocks, memory, ghosts
  <2> QED BY <1>1, <2>1, <2>2, <2>3 DEF TypeInvariant, TypeOK, BatchesFit, MessagesOK
<1>7. CASE Ingest
  <2>1. PICK m \in network :
          /\ server' = Merge(server, Keep(m.samples, {k \in DOMAIN m.samples : Acceptable(k)}))
          /\ refused' = refused \union (DOMAIN m.samples \ {k \in DOMAIN m.samples : Acceptable(k)})
          /\ network' = network \ {m} /\ reply' \in {reply, "sent"}
    BY <1>7 DEF Ingest, Inserted, Answer
  <2>2. MessagesOK' BY <1>1, <2>1 DEF MessagesOK
  <2>3. Table(server) /\ Table(m.samples) /\ refused \subseteq Key
    BY <1>1, <2>1 DEF TypeOK, BatchesFit, MessagesOK
  <2>4. Table(server') BY <2>1, <2>3, TablesOfTables
  <2>5. refused' \subseteq Key BY <2>1, <2>3 DEF Table
  <2>6. UNCHANGED <<now, skew, corrected, polls, buckets, batch, pause, outbox, pc, crashes,
                    queued, scrapped>>
    BY <1>7 DEF Ingest, clocks, memory
  <2> QED BY <1>1, <2>1, <2>2, <2>4, <2>5, <2>6 DEF TypeInvariant, TypeOK, BatchesFit, MessagesOK
<1>8. CASE Tick
  BY <1>1, <1>8 DEF Tick, ghosts, TypeInvariant, TypeOK, BatchesFit
<1>9. CASE CorrectClock
  BY AirQualityAssumption, <1>1, <1>9
  DEF CorrectClock, memory, ghosts, TypeInvariant, TypeOK, BatchesFit
<1> QED
  BY <1>2, <1>3, <1>4, <1>5, <1>6, <1>7, <1>8, <1>9, PollTyped, SendTyped
  DEF Next, Collector, Backend

(* Every table and message has its type, and no batch, also not one that   *)
(* is late or sent again, is so large that the backend would refuse it     *)
(* (Outbox.take, MAX_SAMPLES_PER_REQUEST).                                 *)
THEOREM AirQualityTypeCorrect == Spec => [](TypeOK /\ BatchesFit)
<1>1. Init => TypeInvariant
  <2>1. DOMAIN Empty = {} /\ Table(Empty) BY DEF Empty, Table
  <2>2. Cardinality({}) = 0 /\ IsFiniteSet({}) BY FS_EmptySet
  <2>3. 0 \in 0 .. MaxTime /\ 0 \in 0 .. MaxReadings /\ 0 \in 0 .. MaxPause
        /\ 0 \in 0 .. MaxCrashes /\ 0 <= MaxSamples
    BY AirQualityAssumption
  <2> SUFFICES ASSUME Init PROVE TypeInvariant
    OBVIOUS
  <2>4. /\ now \in 0 .. MaxTime /\ skew \in Skews /\ corrected \in BOOLEAN
        /\ polls \in 0 .. MaxReadings /\ pause \in 0 .. MaxPause /\ crashes \in 0 .. MaxCrashes
        /\ pc \in {"poll", "send", "waiting"} /\ reply \in {"none", "sent", "drop", "retry"}
    BY <2>3 DEF Init
  <2>5. /\ buckets = Empty /\ outbox = Empty /\ server = Empty /\ batch = {} /\ network = {}
        /\ queued = {} /\ refused = {} /\ scrapped = {}
    BY DEF Init
  <2>6. TypeOK /\ BatchesFit BY <2>1, <2>2, <2>3, <2>4, <2>5 DEF TypeOK, BatchesFit
  <2> QED BY <2>1, <2>2, <2>5, <2>6 DEF TypeInvariant
<1>2. TypeInvariant /\ [Next]_vars => TypeInvariant' BY TypesNext
<1>3. TypeInvariant => TypeOK /\ BatchesFit BY DEF TypeInvariant
<1> QED BY <1>1, <1>2, <1>3, PTL DEF Spec
===============================================================================
