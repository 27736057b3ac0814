------------------------------- MODULE Metrics -------------------------------
(***************************************************************************)
(* The health series of a deployment (metrics.rs) and the part of the      *)
(* cluster profile that is computed from it (profile.rs): the sampler      *)
(* provides storage, folds the counters of the nodes into a sample and     *)
(* appends it; the chart and the profile turn samples into rates.  A       *)
(* counter of a node counts what was done on it since its process started. *)
(* The indexing and the query counter count the same operations here; a    *)
(* build from before ADR-060 records the first only.                       *)
(***************************************************************************)
EXTENDS Integers, Sequences, FiniteSetsExt

CONSTANTS
  Nodes,       \* the node pods
  Cap,         \* SERIES_MAX_SAMPLES
  Width,       \* ticks in a bucket of the chart and of the window
  MaxAge,      \* NOW_RATE_MAX_AGE_MS
  MaxNow, MaxDone, MaxLosses, MaxTrouble,  \* bounds of the model
  None

VARIABLES
  now,       \* the clock
  done,      \* operations done in all: what a rate is about
  count,     \* the counter of each node, None while it is away
  silent,    \* the nodes that run and are missing from the answers
  build,     \* "old" or "new": which counters this velox records
  policy,    \* the ISM policy and
  template,  \* the index template are there
  index,     \* behind the alias: "none", "shaped" by both, "unshaped", or "bare", an
             \* index that the first sample made in the alias's place
  series,    \* the samples in it, in the order of their time
  pc,        \* where the sampler is
  sample,    \* what it is to record
  gather,    \* what a profile has read so far
  amiss,     \* a best-effort call about the storage has failed
  losses, troubles

storage == <<policy, template, index>>
bounds == <<losses, troubles>>
cluster == <<now, done, count, silent>>
vars == <<cluster, build, storage, series, pc, sample, gather, amiss, bounds>>

Trouble == troubles < MaxTrouble /\ troubles' = troubles + 1

-----------------------------------------------------------------------------
(* Reading a series.                                                         *)

Up == {n \in Nodes : count[n] # None}
Counted(S) == MapThenSumSet(LAMBDA n : count[n], S)

\* sample_from_nodes_stats: what the nodes that answer have counted.  What was done by
\* then, and what it misses, is not part of a sample; it is what the rates are about.
Sample == [ts |-> now, count |-> Counted(Up \ silent), new |-> build = "new",
           done |-> done, missing |-> Counted(Up \cap silent)]

\* Mutant: a counter that was not recorded reads as zero.
CounterOrZero(s) == IF s.new THEN s.count ELSE 0

\* recorded_counters; the window aggregates over the samples that carry it.
Counter(s) == IF s.new THEN s.count ELSE None

\* Mutant: a counter that went back is not clamped.
CounterRateUnclamped(p, c) == IF c.ts <= p.ts THEN 0 ELSE c.count - p.count

\* counter_rate, times the time elapsed: none across a reset.
CounterRate(p, c) == IF c.ts <= p.ts \/ c.count < p.count THEN 0 ELSE c.count - p.count

Slot(s) == s.ts \div Width
Latest(S) == CHOOSE s \in S : \A t \in S : t.ts <= s.ts
In(S, k) == {s \in S : Slot(s) = k}

\* The pairs of keys in K with none between them.
Consecutive(K) == {jk \in K \X K : jk[1] < jk[2] /\ \A k \in K : k <= jk[1] \/ k >= jk[2]}

\* series_query: at most Cap samples, the newest ones.
Page == {series[i] : i \in Max({1, Len(series) - Cap + 1}) .. Len(series)}

\* downsample: between the last samples of consecutive buckets.
Chart ==
  {LET p == Latest(In(Page, jk[1]))
       c == Latest(In(Page, jk[2]))
   IN  [from |-> p, to |-> c, rate |-> CounterRate(p, c)] :
     jk \in Consecutive({Slot(s) : s \in Page})}

All == {series[i] : i \in DOMAIN series}

\* A bucket of the window: the newest time in it and the greatest reading.
Bucket(k, readings) == [Latest(In(All, k)) EXCEPT !.count = Max(readings)]

Between(j, k, of) ==
  LET a == Bucket(j, {of[s] : s \in In(All, j)} \ {None})
      b == Bucket(k, {of[s] : s \in In(All, k)} \ {None})
  IN  [from |-> a, to |-> b, rate |-> CounterRate(a, b)]

\* window_of: the indexing rate, between buckets that carry the counter, ...
Indexing == LET of == [s \in All |-> s.count] IN
  {Between(jk[1], jk[2], of) : jk \in Consecutive({Slot(s) : s \in All})}

\* ... and bucket_rates, between consecutive buckets that both carry it.
Carrying(k) == \E s \in In(All, k) : Counter(s) # None
Queries == LET of == [s \in All |-> Counter(s)] IN
  {Between(jk[1], jk[2], of) :
     jk \in {x \in Consecutive({Slot(s) : s \in All}) : Carrying(x[1]) /\ Carrying(x[2])}}

-----------------------------------------------------------------------------
(* The sampler.                                                              *)

\* Mutant: a template that was refused does not end the pass.
EnsureIndexGoesOn ==
  /\ pc = "idle" /\ \A s \in All : s.ts < now
  /\ policy' = TRUE
  /\ \/ template' = TRUE /\ UNCHANGED troubles
     \/ Trouble /\ UNCHANGED template
  /\ index' = IF index # "none" THEN index ELSE IF template' THEN "shaped" ELSE "unshaped"
  /\ pc' = "collect"
  /\ UNCHANGED <<cluster, build, series, sample, gather, amiss, losses>>

\* ensure_metrics_index: the policy, if it is not there, the template, and the first
\* index, which is what the two make of it.  The policy and the index are best-effort.
EnsureIndex ==
  /\ pc = "idle" /\ \A s \in All : s.ts < now
  /\ template' = TRUE
  /\ \/ /\ policy' = TRUE
        /\ index' = IF index = "none" THEN "shaped" ELSE index
        /\ UNCHANGED <<amiss, troubles>>
     \/ /\ Trouble /\ amiss' = TRUE
        /\ \/ /\ ~policy /\ UNCHANGED policy
              /\ index' = IF index = "none" THEN "unshaped" ELSE index
           \/ policy' = TRUE /\ index = "none" /\ UNCHANGED index
  /\ pc' = "collect"
  /\ UNCHANGED <<cluster, build, series, sample, gather, losses>>

\* A check fails, or the template is refused, and the pass ends before the index.
EnsureFails ==
  /\ pc = "idle" /\ Trouble
  /\ policy' \in {policy, TRUE}
  /\ UNCHANGED <<cluster, build, template, index, series, pc, sample, gather, amiss, losses>>

CollectSample ==
  /\ pc = "collect"
  /\ sample' = Sample
  /\ pc' = "record"
  /\ UNCHANGED <<cluster, build, storage, series, gather, amiss, bounds>>

\* record_sample: OpenSearch makes the index when there is none.
RecordSample ==
  /\ pc = "record"
  /\ series' = Append(series, sample)
  /\ index' = IF index = "none" THEN "bare" ELSE index
  /\ pc' = "idle" /\ sample' = None
  /\ UNCHANGED <<cluster, build, policy, template, gather, amiss, bounds>>

\* A call fails, or the process restarts, and the tick is over.
PassEnds ==
  /\ pc # "idle" /\ Trouble
  /\ pc' = "idle" /\ sample' = None
  /\ UNCHANGED <<cluster, build, storage, series, gather, amiss, losses>>

-----------------------------------------------------------------------------
(* A profile: three reads, then the time it is dated at.                     *)

Unread == [pc |-> "idle", read |-> 0, count |-> 0, newest |-> None]

ReadStats ==
  /\ gather.pc = "idle"
  /\ gather' = [Unread EXCEPT !.pc = "newest", !.read = now, !.count = Sample.count]
  /\ UNCHANGED <<cluster, build, storage, series, pc, sample, amiss, bounds>>

\* newest_sample_query.
ReadNewest ==
  /\ gather.pc = "newest"
  /\ gather' = [gather EXCEPT !.pc = "date", !.newest = IF All = {} THEN None ELSE Latest(All)]
  /\ UNCHANGED <<cluster, build, storage, series, pc, sample, amiss, bounds>>

\* gather: generated_at is taken, and the profile is answered.
Date ==
  /\ gather.pc = "date"
  /\ gather' = Unread
  /\ UNCHANGED <<cluster, build, storage, series, pc, sample, amiss, bounds>>

\* now_of, of the profile that is dated now: the live counters, dated at generated_at,
\* against the newest sample, when it is one of late.
Now ==
  LET s == gather.newest IN
  IF gather.pc # "date" \/ s = None THEN {}
  ELSE IF Counter(s) = None \/ now <= s.ts \/ now - s.ts > MaxAge THEN {}
  ELSE LET p == [s EXCEPT !.count = Counter(s)]
           c == [p EXCEPT !.ts = now, !.count = gather.count, !.done = done]
       IN  {[from |-> p, to |-> c, rate |-> CounterRate(p, c)]}

-----------------------------------------------------------------------------
(* The cluster, its index management and velox's releases.                   *)

Operate(n) ==
  /\ count[n] # None /\ done < MaxDone
  /\ done' = done + 1 /\ count' = [count EXCEPT ![n] = @ + 1]
  /\ UNCHANGED <<now, silent, build, storage, series, pc, sample, gather, amiss, bounds>>

\* A node restarts, and starts to count again; or it is missing from the answers for a
\* while and is back with all it has counted.
Leave(n) ==
  /\ count[n] # None /\ losses < MaxLosses
  /\ count' = [count EXCEPT ![n] = None] /\ silent' = silent \ {n}
  /\ losses' = losses + 1
  /\ UNCHANGED <<now, done, build, storage, series, pc, sample, gather, amiss, troubles>>
Return(n) ==
  /\ count[n] = None
  /\ count' = [count EXCEPT ![n] = 0]
  /\ UNCHANGED <<now, done, silent, build, storage, series, pc, sample, gather, amiss, bounds>>
FallSilent(n) ==
  /\ n \in Up \ silent /\ losses < MaxLosses
  /\ silent' = silent \cup {n} /\ losses' = losses + 1
  /\ UNCHANGED <<now, done, count, build, storage, series, pc, sample, gather, amiss, troubles>>
AnswerAgain(n) ==
  /\ n \in silent
  /\ silent' = silent \ {n}
  /\ UNCHANGED <<now, done, count, build, storage, series, pc, sample, gather, amiss, bounds>>

\* metrics_policy: what was rolled over is deleted, oldest first.
Expire ==
  /\ index = "shaped"
  /\ \E n \in 1 .. Len(series) : series' = SubSeq(series, n + 1, Len(series))
  /\ UNCHANGED <<cluster, build, storage, pc, sample, gather, amiss, bounds>>

Release ==
  /\ build = "old"
  /\ build' = "new" /\ pc' = "idle" /\ sample' = None /\ gather' = Unread
  /\ UNCHANGED <<cluster, storage, series, amiss, bounds>>

Tick ==
  /\ now < MaxNow
  /\ now' = now + 1
  /\ UNCHANGED <<done, count, silent, build, storage, series, pc, sample, gather, amiss, bounds>>

-----------------------------------------------------------------------------
Init ==
  /\ now = 1 /\ done = 0 /\ count = [n \in Nodes |-> 0] /\ silent = {}
  /\ build = "old"
  /\ policy = FALSE /\ template = FALSE /\ index = "none"
  /\ series = <<>> /\ pc = "idle" /\ sample = None /\ gather = Unread
  /\ amiss = FALSE /\ losses = 0 /\ troubles = 0

Next ==
  \/ EnsureIndex \/ EnsureFails \/ CollectSample \/ RecordSample \/ PassEnds
  \/ ReadStats \/ ReadNewest \/ Date
  \/ \E n \in Nodes :
       Operate(n) \/ Leave(n) \/ Return(n) \/ FallSilent(n) \/ AnswerAgain(n)
  \/ Expire \/ Release \/ Tick

Spec == Init /\ [][Next]_vars
-----------------------------------------------------------------------------
(* Properties.                                                               *)

Bounded(r) == 0 <= r.rate /\ r.rate <= (r.to.done - r.from.done) + r.from.missing

\* No rate of a chart or a profile is negative, or more than what was done between its
\* readings and what the earlier one missed of nodes that did not answer, whatever started
\* over or was recorded by an older build ("a zero would fake a huge rate"; "clamped to 0
\* across a counter reset"); the rates of the series are exact as long as every node ran
\* and answered; and the chart ends at the newest sample (#65).  The rates of `now` are
\* left out when the sample they are measured against is no older than the live reading.
RatesAreReal ==
  /\ \A r \in Chart \cup Indexing \cup Queries :
       Bounded(r) /\ (losses = 0 => r.rate = r.to.done - r.from.done)
  /\ \A r \in Now : gather.newest.ts < gather.read => Bounded(r)
  /\ All # {} => Latest(All) \in Page

\* The series is bounded: samples are in an index that the policy takes away, but for a
\* best-effort call that failed ("so the series can never grow unbounded").
SeriesEnds == (series # <<>> /\ ~amiss) => index = "shaped"
=============================================================================
