----------------------------- MODULE PerfSignal -----------------------------
(***************************************************************************)
(* What a window of performance samples says of a VM (internal/perf).      *)
(*                                                                         *)
(* Samples are whole numbers, a negative one meaning vSphere had none.  A  *)
(* summary is [status, scale, sum, n, peak, p95]: values stay raw, scale   *)
(* of them making one unit; the average is kept as a sum and a count; p95  *)
(* is Unknown when there are too few samples for one.                      *)
(***************************************************************************)
EXTENDS Integers, Sequences, SequencesExt, FiniteSets, FiniteSetsExt, Functions

CONSTANTS
    Unknown,
    MinSummarySamples, MinCoverage, MinPercentileSamples,    \* 12, 50 (percent) and 50
    LowPeakPercent, HighPeakPercent,                         \* 30 and 60
    ReadyContentionPercent, MemPressureMiB, SwapinRateKBps   \* 5, 1 and 1

(* The unit of each counter, and those that spread over the VM's vCPUs and *)
(* the interval: normalised only when both are known.                      *)
PerVCPU == {"cpu.ready", "cpu.costop", "cpu.maxlimited"}

Scale(metric, interval, vcpu) ==
    CASE metric \in {"cpu.usage", "mem.usage"}                                   -> 100
      [] metric \in PerVCPU                                                      -> interval * 10 * vcpu
      [] metric \in {"mem.active", "mem.consumed", "mem.vmmemctl", "mem.swapped"} -> 1024
      [] OTHER                                                                   -> 1

(* A sample there is none of is dropped, never counted as zero.            *)
Normalize(metric, raw, interval, vcpu) ==
    IF metric \in PerVCPU /\ (interval <= 0 \/ vcpu <= 0) THEN <<>> ELSE SelectSeq(raw, LAMBDA x : x >= 0)

Unavailable == [status |-> "unavailable", scale |-> 1, sum |-> 0, n |-> 0, peak |-> Unknown, p95 |-> Unknown]

NoSamples == [Unavailable EXCEPT !.status = "insufficient"]

(* The nearest rank: the value that 95 of 100 do not exceed.               *)
Percentile(values) ==
    LET sorted == SortSeq(values, LAMBDA a, b : a <= b) IN sorted[(95 * Len(values) + 99) \div 100]

Summarize(metric, raw, expected, interval, vcpu) ==
    LET values  == Normalize(metric, raw, interval, vcpu)
        n       == Len(values)
        planned == IF n > expected THEN n ELSE expected
    IN  IF n = 0 \/ n < MinSummarySamples \/ 100 * n < MinCoverage * planned THEN [NoSamples EXCEPT !.n = n]
        ELSE [status |-> "ok", scale |-> Scale(metric, interval, vcpu), sum |-> FoldFunction(+, 0, values), n |-> n, peak |-> Max(Range(values)),
              p95 |-> IF n >= MinPercentileSamples THEN Percentile(values) ELSE Unknown]

-----------------------------------------------------------------------------
(* Classify: by gives the summaries, a function of the metrics collected.  *)

StatusIn(by, metric) == IF metric \in DOMAIN by THEN by[metric].status ELSE "unavailable"

Reached(by, metric, limit) == StatusIn(by, metric) = "ok" /\ by[metric].peak >= limit * by[metric].scale

Contention(by) ==
    \/ Reached(by, "cpu.ready", ReadyContentionPercent)
    \/ Reached(by, "mem.vmmemctl", MemPressureMiB) \/ Reached(by, "mem.swapped", MemPressureMiB)
    \/ Reached(by, "mem.swapinRate", SwapinRateKBps)

(* mem.usage stands in only for a mem.active that cannot be read at all.   *)
UsesMemUsage(by) == StatusIn(by, "mem.active") = "unavailable" /\ StatusIn(by, "mem.usage") # "unavailable"

MemoryReading(by) == IF UsesMemUsage(by) THEN "mem.usage" ELSE "mem.active"

(* A reading against a whole: 100 for a percentage, the memory the VM is   *)
(* configured with for mem.active.                                         *)
PeakBelow(s, whole, pct) == 100 * s.peak < pct * whole * s.scale
AverageBelow(s, whole, pct) == 100 * s.sum < pct * whole * s.n * s.scale

UsageSignal(cpu, mem, whole) ==
    LET spiky(s, w) == ~PeakBelow(s, w, HighPeakPercent) /\ AverageBelow(s, w, LowPeakPercent) IN
    IF PeakBelow(cpu, 100, LowPeakPercent) /\ PeakBelow(mem, whole, LowPeakPercent) THEN "sustained-low"
    ELSE IF spiky(cpu, 100) \/ spiky(mem, whole) THEN "peaks-observed" ELSE "in-use"

Classify(by, mb) ==
    LET cpu == StatusIn(by, "cpu.usage")
        mem == StatusIn(by, MemoryReading(by))
    IN  CASE Contention(by)                                                    -> "contention-observed"
          [] ~Contention(by) /\ cpu = "unavailable"                            -> "unavailable"
          [] ~Contention(by) /\ cpu = "insufficient"                           -> "insufficient-data"
          [] ~Contention(by) /\ cpu = "ok" /\ mem = "unavailable"              -> "cpu-only"
          [] ~Contention(by) /\ cpu = "ok" /\ mem = "insufficient"             -> "insufficient-data"
          [] ~Contention(by) /\ cpu = "ok" /\ mem = "ok" /\ ~UsesMemUsage(by) /\ mb <= 0 -> "insufficient-data"
          [] OTHER -> UsageSignal(by["cpu.usage"], by[MemoryReading(by)], IF UsesMemUsage(by) THEN 100 ELSE mb)
=============================================================================
