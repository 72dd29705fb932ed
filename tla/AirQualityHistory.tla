--------------------------- MODULE AirQualityHistory ---------------------------
(***************************************************************************)
(* What services/air-quality.service makes of the stored rows: the latest  *)
(* reading of a device, and its history over a range, averaged per minute  *)
(* or per hour.  An average is told by the rows that it averages.  The     *)
(* service takes the device that stands in the room now: rows belong to    *)
(* the device, and one that is moved takes its history along.              *)
(***************************************************************************)
EXTENDS AirQuality

CONSTANTS Hour,    \* minutes in an hour
          StaleAfter   \* STALE_AFTER_MS, in minutes

ASSUME AirQualityHistoryAssumption == Hour \in Nat \ {0} /\ StaleAfter \in Nat

Of(d) == {k \in DOMAIN server : DeviceOf(k) = d}

(* getSpaceAirQuality: no reading is stale, too. *)
IsLatest(k) == \A x \in Of(DeviceOf(k)) : MinuteOf(x) <= MinuteOf(k)
Latest(d) == {k \in Of(d) : IsLatest(k)}
Stale(d) == \A k \in Latest(d) : now - MinuteOf(k) > StaleAfter

(* getSpaceAirQualityHistory: WHERE measured_at >= from AND measured_at <  *)
(* to GROUP BY the bucket; the whole hours of a range may be cut.          *)
StartOf(minute, bucket) == IF bucket = "hour" THEN minute - (minute % Hour) ELSE minute
InRange(d, from, to) == {k \in Of(d) : from <= MinuteOf(k) /\ MinuteOf(k) < to}
Point(d, from, to, bucket, start) ==
  Keep(server, {k \in InRange(d, from, to) : StartOf(MinuteOf(k), bucket) = start})
History(d, from, to, bucket) ==
  [start \in {StartOf(MinuteOf(k), bucket) : k \in InRange(d, from, to)} |->
    Point(d, from, to, bucket, start)]

-------------------------------------------------------------------------------
(* What a device has reported stands: once a range lies further back than  *)
(* the age up to which late samples are taken, its history never changes,  *)
(* whatever the outboxes still hold or send again; and who looks at a      *)
(* device twice never finds an older reading than before. (A room whose    *)
(* device is exchanged shows another device.)                              *)
HistoryStands ==
  [][\A d \in Devices :
       /\ \A from, to \in -MaxTime .. MaxTime, bucket \in {"minute", "hour"} :
            to <= now - SampleAge => History(d, from, to, bucket)' = History(d, from, to, bucket)
       /\ \A k \in Latest(d), x \in Latest(d)' : MinuteOf(k) <= MinuteOf(x)]_vars
================================================================================
