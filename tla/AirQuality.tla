------------------------------- MODULE AirQuality -------------------------------
(***************************************************************************)
(* From a sensor to a row: the collector (collector/ufcim_collector), a    *)
(* loop that polls its devices, averages each minute, queues the samples   *)
(* in a local SQLite outbox and posts them; and the ingestion of the       *)
(* backend (routes/ingest, services/air-quality.service).  Between them is *)
(* a network that loses, delays and so, with the collector's retries,      *)
(* duplicates batches.  A sample is known by its device and minute; its    *)
(* value is told by the readings it averages, numbered within the minute.  *)
(***************************************************************************)
EXTENDS Integers, FiniteSets

CONSTANTS
  Devices,
  Registered,    \* the devices the backend knows for this collector
  Malformed,     \* bound: samples that fail the schema of the endpoint
  Skews,         \* bound: how far the host's clock may be off, in minutes
  Batch,         \* rows the collector takes at a time
  MaxSamples,    \* MAX_SAMPLES_PER_REQUEST
  MaxAge,        \* outbox_max_age_days, in minutes
  SampleAge, SampleSkew,     \* MAX_SAMPLE_AGE_MS, MAX_SAMPLE_SKEW_MS, in minutes
  MaxPause,      \* bound: turns of the loop that skip sending
  MaxReadings,   \* bound: readings in a minute
  MaxLate,       \* bound: batches delivered after the collector gave up on them
  MaxTime, MaxCrashes

ASSUME AirQualityAssumption ==
  /\ IsFiniteSet(Devices)
  /\ Registered \subseteq Devices /\ Malformed \subseteq Devices \X Int
  /\ Skews \subseteq Int /\ 0 \in Skews
  /\ Batch \in Nat \ {0} /\ MaxSamples \in Nat /\ Batch <= MaxSamples
  /\ MaxAge \in Nat /\ SampleAge \in Nat /\ SampleSkew \in Nat
  /\ MaxPause \in Nat /\ MaxReadings \in Nat \ {0} /\ MaxLate \in Nat
  /\ MaxTime \in Nat /\ MaxCrashes \in Nat

VARIABLES
  now, skew,     \* the true minute, and the error of the host's clock
  corrected,     \* whether the host's clock has been set
  polls,         \* readings taken since the minute began
  buckets,       \* MinuteSampler._buckets: (device, minute) -> readings
  outbox,        \* SQLite outbox: (device, minute) -> the readings averaged
  pc, batch,     \* the collector's loop, and the rows it has taken to send
  pause,         \* turns until next_send
  network,       \* requests on their way
  reply,         \* the answer to the request the collector waits for
  server,        \* sensor_readings: (device, minute) -> the readings averaged
  crashes,
  queued, refused, scrapped  \* history: keys queued; turned down or ignored by
                             \* the backend; purged or dropped by the collector

clocks == <<now, skew, corrected>>
memory == <<polls, buckets, batch, pause>>
ghosts == <<queued, refused, scrapped>>
vars == <<clocks, memory, outbox, pc, network, reply, server, crashes, ghosts>>

Clock == now + skew     \* datetime.now() on the host
Key == Devices \X Int
DeviceOf(k) == k[1]
MinuteOf(k) == k[2]

Merge(new, old) ==
  [k \in DOMAIN new \union DOMAIN old |-> IF k \in DOMAIN new THEN new[k] ELSE old[k]]
Keep(table, keys) == [k \in DOMAIN table \intersect keys |-> table[k]]
Drop(table, keys) == [k \in DOMAIN table \ keys |-> table[k]]
Empty == <<>>

Init ==
  /\ now = 0 /\ skew \in Skews /\ corrected = FALSE
  /\ polls = 0 /\ buckets = Empty /\ outbox = Empty /\ batch = {} /\ pause = 0
  /\ pc = "poll" /\ network = {} /\ reply = "none"
  /\ server = Empty /\ crashes = 0
  /\ queued = {} /\ refused = {} /\ scrapped = {}

-------------------------------------------------------------------------------
(* The collector. *)

(* MinuteSampler.add: one more reading for each device that answered.      *)
Sampled(good, minute) ==
  Merge([k \in good \X {minute} |->
           {polls + 1} \union IF k \in DOMAIN buckets THEN buckets[k] ELSE {}], buckets)

(* MinuteSampler.flush: the minutes before the current one are closed.     *)
(* Variant: closes the current minute too.                                 *)
Closed_Current(keys, minute) == {k \in keys : MinuteOf(k) <= minute}
Closed(keys, minute) == {k \in keys : MinuteOf(k) < minute}

(* Collector.poll: a device that fails is skipped; closed minutes go to    *)
(* the outbox, INSERT OR REPLACE.                                          *)
Poll ==
  /\ pc = "poll"
  /\ \E good \in SUBSET {d \in Devices : polls < MaxReadings} :
       LET sampled == Sampled(good, Clock)
           closed == Closed(DOMAIN sampled, Clock)
       IN  /\ polls' = IF good = {} THEN polls ELSE polls + 1
           /\ buckets' = Drop(sampled, closed)
           /\ outbox' = Merge(Keep(sampled, closed), outbox)
           /\ queued' = queued \union closed
  /\ pc' = "send"
  /\ UNCHANGED <<clocks, batch, pause, network, reply, server, crashes, refused, scrapped>>

(* Collector.send before next_send: the loop polls again.                  *)
SkipSend ==
  /\ pc = "send" /\ pause > 0
  /\ pause' = pause - 1
  /\ pc' = "poll"
  /\ UNCHANGED <<clocks, polls, buckets, batch, outbox, network, reply, server, crashes, ghosts>>

(* Outbox.take: the oldest rows, up to the limit.                          *)
(* Variant: one row more than the backend takes.                           *)
Taken_OneMore(rows, kept) ==
  /\ Cardinality(rows) <= Batch + 1
  /\ Cardinality(rows) = Batch + 1 \/ rows = kept
  /\ \A r \in rows, k \in kept \ rows : MinuteOf(r) <= MinuteOf(k)
Taken(rows, kept) ==
  /\ Cardinality(rows) <= Batch
  /\ Cardinality(rows) = Batch \/ rows = kept
  /\ \A r \in rows, k \in kept \ rows : MinuteOf(r) <= MinuteOf(k)

(* Outbox.purge_older_than *)
TooOld == {k \in DOMAIN outbox : MinuteOf(k) < Clock - MaxAge}

(* Collector.send: purge, take and post; an empty batch is posted too.     *)
Send ==
  /\ pc = "send" /\ pause = 0
  /\ \E rows \in SUBSET (DOMAIN outbox \ TooOld) :
       /\ Taken(rows, DOMAIN outbox \ TooOld)
       /\ batch' = rows
       /\ network' = network \union {[samples |-> Keep(outbox, rows), awaited |-> TRUE]}
  /\ outbox' = Drop(outbox, TooOld)
  /\ scrapped' = scrapped \union TooOld
  /\ pc' = "waiting"
  /\ UNCHANGED <<clocks, polls, buckets, pause, reply, server, crashes, queued, refused>>

(* post_batch gives up on the request: it is lost, or still on its way.    *)
Awaited == {m \in network : m.awaited}
Late == network \ Awaited
GiveUp ==
  /\ \/ network' = Late
     \/ /\ Cardinality(Late) < MaxLate
        /\ network' = Late \union {[samples |-> m.samples, awaited |-> FALSE] : m \in Awaited}
  /\ reply' = "none"

Timeout ==
  /\ pc = "waiting"
  /\ GiveUp
  /\ batch' = {}
  /\ \E n \in 0 .. MaxPause : pause' = n
  /\ pc' = "poll"
  /\ UNCHANGED <<clocks, polls, buckets, outbox, server, crashes, ghosts>>

(* A 200 deletes the batch, and so does a 400 or 422; anything else leaves *)
(* it for another try.                                                     *)
(* Variant: deletes it on every answer.                                    *)
Settles_Any(answer) == answer \in {"sent", "drop", "retry"}
Settles(answer) == answer \in {"sent", "drop"}
Receive ==
  /\ pc = "waiting" /\ reply # "none"
  /\ outbox' = IF Settles(reply) THEN Drop(outbox, batch) ELSE outbox
  /\ scrapped' = IF reply = "drop" THEN scrapped \union batch ELSE scrapped
  /\ batch' = {}
  /\ \E n \in 0 .. MaxPause : pause' = n
  /\ reply' = "none"
  /\ pc' = "poll"
  /\ UNCHANGED <<clocks, polls, buckets, network, server, crashes, queued, refused>>

(* The process ends and is started again: by a signal, an exception or a   *)
(* power cut.  The outbox is on disk; the minute being read is not.        *)
Crash ==
  /\ crashes < MaxCrashes
  /\ crashes' = crashes + 1
  /\ buckets' = Empty /\ batch' = {} /\ pause' = 0
  /\ GiveUp
  /\ pc' = "poll"
  /\ UNCHANGED <<clocks, polls, outbox, server, ghosts>>

-------------------------------------------------------------------------------
(* The backend. *)

Answer(m, outcome) ==
  /\ network' = network \ {m}
  /\ reply' = IF m.awaited THEN outcome ELSE reply

(* 401 for a revoked token, 429, or a failure of the platform.  A token    *)
(* that stays revoked answers so for ever, against the fairness below.     *)
Decline ==
  /\ \E m \in network : Answer(m, "retry")
  /\ UNCHANGED <<clocks, memory, outbox, pc, server, crashes, ghosts>>

(* What the schema refuses, answered 400 for the whole batch.              *)
Invalid(samples) ==
  \/ DOMAIN samples \intersect Malformed # {}
  \/ Cardinality(DOMAIN samples) > MaxSamples
(* Variant: the collector tries an invalid batch again.                    *)
InvalidOutcome_Retry == "retry"
InvalidOutcome == "drop"
RejectBatch ==
  /\ \E m \in network : Invalid(m.samples) /\ Answer(m, InvalidOutcome)
  /\ UNCHANGED <<clocks, memory, outbox, pc, server, crashes, ghosts>>

(* ingestSamples: a sample of an unknown device is ignored, one that is    *)
(* too old or too far ahead is rejected alone, the others are inserted ON  *)
(* CONFLICT DO NOTHING.                                                    *)
(* Variant: however old.                                                   *)
InWindow_AnyAge(minute) == minute - now <= SampleSkew
InWindow(minute) == minute - now <= SampleSkew /\ now - minute <= SampleAge
Acceptable(k) == DeviceOf(k) \in Registered /\ InWindow(MinuteOf(k))
(* Variant: ON CONFLICT DO UPDATE. *)
Inserted_Upsert(rows, table) == Merge(rows, table)
Inserted(rows, table) == Merge(table, rows)
Ingest ==
  /\ \E m \in network :
       LET good == {k \in DOMAIN m.samples : Acceptable(k)}
       IN  /\ ~Invalid(m.samples)
           /\ server' = Inserted(Keep(m.samples, good), server)
           /\ refused' = refused \union (DOMAIN m.samples \ good)
           /\ Answer(m, "sent")
  /\ UNCHANGED <<clocks, memory, outbox, pc, crashes, queued, scrapped>>

-------------------------------------------------------------------------------
Tick ==
  /\ now < MaxTime
  /\ now' = now + 1 /\ polls' = 0
  /\ UNCHANGED <<skew, corrected, buckets, batch, pause, outbox, pc, network, reply, server, crashes, ghosts>>

(* NTP sets the host's clock right. *)
CorrectClock ==
  /\ skew # 0
  /\ skew' = 0 /\ corrected' = TRUE
  /\ UNCHANGED <<now, memory, outbox, pc, network, reply, server, crashes, ghosts>>

Collector == Poll \/ SkipSend \/ Send \/ Timeout \/ Receive
Backend == Decline \/ RejectBatch \/ Ingest
Next == Collector \/ Crash \/ Backend \/ Tick \/ CorrectClock

Spec == Init /\ [][Next]_vars

(* The loop runs for ever and its posts time out; a backend that is tried  *)
(* again and again answers some time, and the answer arrives some time.    *)
Settle == Receive /\ Settles(reply)
FairSpec ==
  /\ Spec
  /\ WF_vars(Collector)
  /\ SF_vars((RejectBatch \/ Ingest) /\ reply # reply')
  /\ SF_vars(Settle)

-------------------------------------------------------------------------------
(* Properties. *)

Table(f) == DOMAIN f \subseteq Key /\ \A k \in DOMAIN f : f[k] \subseteq 1 .. MaxReadings

(* Every table and message has its type.                                   *)
TypeOK ==
  /\ now \in 0 .. MaxTime /\ skew \in Skews /\ corrected \in BOOLEAN
  /\ polls \in 0 .. MaxReadings
  /\ Table(buckets) /\ Table(outbox) /\ Table(server)
  /\ pc \in {"poll", "send", "waiting"} /\ pause \in 0 .. MaxPause
  /\ batch \subseteq Key
  /\ \A m \in network : DOMAIN m = {"samples", "awaited"} /\ m.awaited \in BOOLEAN /\ Table(m.samples)
  /\ reply \in {"none", "sent", "drop", "retry"}
  /\ crashes \in 0 .. MaxCrashes
  /\ queued \subseteq Key /\ refused \subseteq Key /\ scrapped \subseteq Key

(* The collector's limit and the backend's are two constants in two        *)
(* languages (Outbox.take, MAX_SAMPLES_PER_REQUEST): no batch, and no post *)
(* of one that is late or sent again, is so large that the backend would   *)
(* refuse it and the collector drop it whole.                              *)
BatchesFit ==
  /\ Cardinality(batch) <= MaxSamples
  /\ \A m \in network : Cardinality(DOMAIN m.samples) <= MaxSamples

(* "Reenvio idempotente": whatever is lost, delayed or sent again, a row   *)
(* of sensor_readings never changes and never goes.                        *)
RowsAreFinal ==
  [][/\ DOMAIN server \subseteq DOMAIN server'
     /\ \A k \in DOMAIN server : server'[k] = server[k]]_server

(* As long as the host's clock is not set, a minute that was queued is     *)
(* over: nothing is read into it any more, and the copies of its sample,   *)
(* in the outbox, on the way and stored, are one and the same.             *)
InTransit == UNION {DOMAIN m.samples : m \in network}
MinutesCloseOnce ==
  ~corrected =>
    /\ \A k \in DOMAIN buckets : k \notin queued
    /\ \A k \in DOMAIN outbox \intersect DOMAIN server : outbox[k] = server[k]
    /\ \A m \in network : \A k \in DOMAIN m.samples :
         /\ k \in DOMAIN outbox => outbox[k] = m.samples[k]
         /\ k \in DOMAIN server => server[k] = m.samples[k]

(* A sample that was queued is in the outbox or stored, or someone counted *)
(* it out: the backend ignored or rejected it (200 with unknown_devices or *)
(* rejected_samples), or the collector logged that it purged or dropped it.*)
NothingLostSilently ==
  queued \subseteq DOMAIN outbox \union DOMAIN server \union refused \union scrapped

(* No sample stays in the outbox for ever, whatever fails on the way: also *)
(* not behind one that the backend will never take.                        *)
OutboxDrains ==
  \A k \in Devices \X (0 .. MaxTime) :
    k \in DOMAIN outbox ~> k \notin DOMAIN outbox
===============================================================================
