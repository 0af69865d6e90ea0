----------------------------- MODULE Statistics ------------------------------
(***************************************************************************)
(* What a torrent reports of itself: the rate meters (statistics/speed.py), *)
(* the recorded series (statistics/history.py) and the samples that a       *)
(* MetricsCollector takes (statistics/metrics.py).                          *)
(*                                                                          *)
(* A rate is kept as the bytes counted in its window; the code divides them *)
(* by the length of the window.  Pieces differ in size, verify while bytes  *)
(* arrive, and a sample may be taken at any time, recorded or not.          *)
(***************************************************************************)
EXTENDS Integers, Sequences, FiniteSets, FiniteSetsExt, SequencesExt

CONSTANTS
  Windows,     \* the windows of a meter: instant, short and long
  Samples,     \* history_samples
  PieceSizes,  \* the size of each piece of the torrent
  Amounts,     \* lengths of the blocks that arrive
  Swarm,       \* bound: peers connected at once
  Horizon,     \* bound: how long the clock runs
  Arrivals     \* bound: blocks that arrive

StatisticsAssumption ==
  /\ Windows \in Seq(Nat \ {0}) /\ Len(Windows) = 3
  /\ Windows[1] <= Windows[2] /\ Windows[2] <= Windows[3]
  /\ Samples \in Nat \ {0} /\ PieceSizes \in Seq(Nat \ {0}) /\ PieceSizes # <<>>
  /\ Amounts \subseteq Int /\ {Swarm, Horizon, Arrivals} \subseteq Nat

VARIABLES
  time,      \* the collector's clock
  arrivals,  \* history: every block counted, with its time
  meters,    \* RateMeter._samples of each window
  total,     \* RateMeter._total
  firstAt,   \* SpeedMeter._started_at, -1 for none
  done,      \* the pieces verified
  cached,    \* _cached_indexes and _cached_verified_bytes
  peers,     \* how many are connected
  sample,    \* _last
  series     \* HistoryBook: the rate and the ETA

statsVars == <<time, arrivals, meters, total, firstAt, done, cached, peers, sample, series>>

NoEta == -1
NoSample == [at |-> -1, rates |-> <<0, 0, 0>>, remaining |-> 0, complete |-> FALSE,
             state |-> "waiting", eta |-> <<NoEta, 1>>, done |-> {}, heard |-> 0]

StatsInit ==
  /\ time = 0 /\ arrivals = <<>> /\ meters = [w \in DOMAIN Windows |-> <<>>]
  /\ total = 0 /\ firstAt = -1
  /\ done \in {{}, {1}} /\ cached = [of |-> {}, bytes |-> 0]
  /\ peers = 0 /\ sample = NoSample
  /\ series = [rate |-> <<>>, eta |-> <<>>]

-----------------------------------------------------------------------------
(* RateMeter and SpeedMeter.                                                *)

(* Faulty variant: what is just as old as the window is long stays in it.   *)
PrunedLate(samples, window, now) == SelectSeq(samples, LAMBDA s : s[1] >= now - window)

Pruned(samples, window, now) == SelectSeq(samples, LAMBDA s : s[1] > now - window)

InWindow(samples) == FoldLeft(LAMBDA n, s : n + s[2], 0, samples)

AllPruned(now) == [w \in DOMAIN Windows |-> Pruned(meters[w], Windows[w], now)]

(* SpeedMeter.add, by way of the bus: an amount that is none is ignored.    *)
BytesCounted(n) ==
  /\ Len(arrivals) < Arrivals
  /\ IF n <= 0 THEN UNCHANGED <<arrivals, meters, total, firstAt>>
     ELSE /\ arrivals' = Append(arrivals, <<time, n>>)
          /\ meters' = [w \in DOMAIN Windows |->
                          Pruned(Append(meters[w], <<time, n>>), Windows[w], time)]
          /\ total' = total + n
          /\ firstAt' = IF firstAt = -1 THEN time ELSE firstAt
  /\ UNCHANGED <<time, done, cached, peers, sample, series>>

-----------------------------------------------------------------------------
(* MetricsCollector.sample                                                  *)

TorrentLength == FoldLeft(LAMBDA n, size : n + size, 0, PieceSizes)
BytesOf(S) == FoldLeft(LAMBDA n, i : n + PieceSizes[i], 0, SetToSeq(S))

(* _verified_bytes: counted anew when the pieces are others.                *)
Counted == IF cached.of = done THEN cached ELSE [of |-> done, bytes |-> BytesOf(done)]

(* _eta_rate: the short window once it has had time to fill, before that    *)
(* the instant one, if that has anything.  A pair of bytes and seconds.     *)
EtaRate(rates) ==
  IF (IF firstAt = -1 THEN 0 ELSE time - firstAt) >= Windows[2] \/ rates[1] = 0
  THEN <<rates[2], Windows[2]>> ELSE <<rates[1], Windows[1]>>

Complete(bytes) == done = DOMAIN PieceSizes /\ bytes >= TorrentLength

(* The seconds that are left, as a fraction; none without a rate.           *)
Eta(bytes, rates) ==
  LET left == TorrentLength - bytes  rate == EtaRate(rates) IN
  IF Complete(bytes) \/ left <= 0 THEN <<0, 1>>
  ELSE IF rate[1] > 0 THEN <<left * rate[2], rate[1]>>
  ELSE <<NoEta, 1>>

(* MetricsSnapshot.state                                                    *)
StateOf(bytes, rates) ==
  CASE Complete(bytes) -> "seeding"
    [] ~Complete(bytes) /\ peers = 0 -> "waiting"
    [] ~Complete(bytes) /\ peers > 0 /\ rates[2] > 0 -> "downloading"
    [] OTHER -> "stalled"

Kept(s, x) == LET t == Append(s, x) IN SubSeq(t, IF Len(t) > Samples THEN 2 ELSE 1, Len(t))

(* One sample.  The loop records it; Engine.snapshot takes one that is not. *)
Sample(recorded) ==
  LET rates == [w \in DOMAIN Windows |-> InWindow(Pruned(meters[w], Windows[w], time))]
      bytes == Counted.bytes
      eta == Eta(bytes, rates)
  IN
  /\ meters' = AllPruned(time)
  /\ cached' = Counted
  /\ sample' = [at |-> time, rates |-> rates, remaining |-> TorrentLength - bytes,
                complete |-> Complete(bytes), state |-> StateOf(bytes, rates), eta |-> eta,
                done |-> done, heard |-> Len(arrivals)]
  /\ series' = IF ~recorded THEN series
               ELSE [rate |-> Kept(series.rate, <<time, rates[2]>>),
                     eta |-> IF eta[1] = NoEta THEN series.eta ELSE Kept(series.eta, <<time, eta[1]>>)]
  /\ UNCHANGED <<time, arrivals, total, firstAt, done, peers>>

PieceDone(i) ==
  /\ i \notin done /\ done' = done \cup {i}
  /\ UNCHANGED <<time, arrivals, meters, total, firstAt, cached, peers, sample, series>>

PeersChange(n) ==
  /\ peers' = n
  /\ UNCHANGED <<time, arrivals, meters, total, firstAt, done, cached, sample, series>>

StatsClock ==
  /\ time < Horizon /\ time' = time + 1
  /\ UNCHANGED <<arrivals, meters, total, firstAt, done, cached, peers, sample, series>>

StatsNext ==
  \/ \E n \in Amounts : BytesCounted(n)
  \/ \E recorded \in BOOLEAN : Sample(recorded)
  \/ \E i \in DOMAIN PieceSizes : PieceDone(i)
  \/ \E n \in 0 .. Swarm : PeersChange(n)
  \/ StatsClock

StatsSpec == StatsInit /\ [][StatsNext]_statsVars

-----------------------------------------------------------------------------
(* Properties.                                                              *)

StatsTypeOK ==
  /\ time \in 0 .. Horizon /\ Len(arrivals) <= Arrivals /\ firstAt \in -1 .. Horizon
  /\ total = InWindow(arrivals) /\ done \subseteq DOMAIN PieceSizes /\ peers \in 0 .. Swarm
  /\ Len(series.rate) <= Samples /\ Len(series.eta) <= Samples

(* Every rate of a sample is what arrived within its window, however often  *)
(* and by whom the meters were read before: an idle torrent reports nothing. *)
RatesAreMeasured ==
  \A w \in DOMAIN Windows :
    sample.rates[w] =
      InWindow(SelectSeq(SubSeq(arrivals, 1, sample.heard), LAMBDA s : s[1] > sample.at - Windows[w]))

(* What is left, whether the torrent is complete, the word for its state    *)
(* and the estimate agree in every sample, and with the pieces of then.     *)
SampleIsConsistent ==
  sample.at >= 0 =>
    /\ sample.remaining = TorrentLength - BytesOf(sample.done)
    /\ sample.complete <=> sample.done = DOMAIN PieceSizes
    /\ sample.complete <=> sample.eta[1] = 0
    /\ sample.state = "downloading" => sample.eta[1] > 0
    /\ sample.state = "stalled" => sample.eta[1] = NoEta
-----------------------------------------------------------------------------
(***************************************************************************)
(* The instruments by themselves, apart from any collector: RateMeter,      *)
(* SpeedMeter, Counter and CounterSet (statistics/speed.py), History and    *)
(* HistoryBook (statistics/history.py), with windows of any number.         *)
(***************************************************************************)
CONSTANTS
  Spans,     \* the windows of a SpeedMeter, shortest first
  Sizes,     \* bytes that may move at once
  Series,    \* names of series
  Capacity,  \* DEFAULT_HISTORY_SAMPLES
  Never,     \* no time
  LastTick,  \* bound: the clock
  MaxMoves   \* bound: times bytes move or a sample is recorded

VARIABLES
  ticks,     \* the clock, which all of them share
  gauges,    \* SpeedMeter._meters: the samples each still holds
  sum,       \* RateMeter._total, the same for each
  started,   \* SpeedMeter._started_at
  book,      \* HistoryBook._series: what each series retains and has added
  counter,   \* one Counter: its value and when it last moved
  moved,     \* history: everything that moved since the last reset
  recorded   \* history: everything recorded since the series was last cleared

meterVars == <<ticks, gauges, sum, started, book, counter, moved, recorded>>

RateOf(k, now) == InWindow(Pruned(gauges[k], Spans[k], now))

(* rates: with fewer than three windows the shortest stands for the rest.   *)
Padded(values) ==
  CASE Len(values) = 1 -> << values[1], values[1], values[1] >>
    [] Len(values) = 2 -> << values[1], values[1], values[2] >>
    [] OTHER -> values
Rates(now) ==
  LET values == Padded([k \in DOMAIN Spans |-> RateOf(k, now)])
  IN [instant |-> values[1], short |-> values[2], long |-> values[3], total |-> sum]

Elapsed(now) == IF started = Never THEN 0 ELSE now - started

MetersInit ==
  /\ ticks = 0
  /\ gauges = [k \in DOMAIN Spans |-> << >>] /\ sum = 0 /\ started = Never
  /\ book = [s \in {} |-> << >>]
  /\ counter = [value |-> 0, at |-> Never]
  /\ moved = << >> /\ recorded = [s \in Series |-> << >>]

Moves == Len(moved) + counter.value

(* SpeedMeter.add.                                                          *)
Add(amount) ==
  /\ Moves < MaxMoves
  /\ gauges' = [k \in DOMAIN Spans |->
                  Pruned(Append(gauges[k], << ticks, amount >>), Spans[k], ticks)]
  /\ sum' = sum + amount
  /\ started' = IF started = Never THEN ticks ELSE started
  /\ moved' = Append(moved, << ticks, amount >>)
  /\ UNCHANGED <<ticks, book, counter, recorded>>

Bump ==
  /\ Moves < MaxMoves
  /\ counter' = [value |-> counter.value + 1, at |-> ticks]
  /\ UNCHANGED <<ticks, gauges, sum, started, book, moved, recorded>>

(* A reading prunes what it reads.                                          *)
Read ==
  /\ gauges' = [k \in DOMAIN Spans |-> Pruned(gauges[k], Spans[k], ticks)]
  /\ UNCHANGED <<ticks, sum, started, book, counter, moved, recorded>>

Reset ==
  /\ gauges' = [k \in DOMAIN Spans |-> << >>] /\ sum' = 0 /\ started' = Never /\ moved' = << >>
  /\ UNCHANGED <<ticks, book, counter, recorded>>

(* HistoryBook.history: a series is made when it is first named.            *)
SeriesOf(s) == IF s \in DOMAIN book THEN book[s] ELSE [samples |-> << >>, added |-> 0]

(* A deque of bounded length: the oldest falls off.                         *)
Retained(samples) ==
  IF Len(samples) > Capacity THEN SubSeq(samples, Len(samples) - Capacity + 1, Len(samples))
  ELSE samples

Record(s) ==
  /\ SeriesOf(s).added < MaxMoves
  /\ LET samples == Append(SeriesOf(s).samples, << ticks, sum >>)
     IN book' = [r \in DOMAIN book \cup {s} |->
                   IF r = s THEN [samples |-> Retained(samples), added |-> SeriesOf(s).added + 1]
                   ELSE book[r]]
  /\ recorded' = [recorded EXCEPT ![s] = Append(@, << ticks, sum >>)]
  /\ UNCHANGED <<ticks, gauges, sum, started, counter, moved>>

Clear ==
  /\ book' = [s \in DOMAIN book |-> [book[s] EXCEPT !.samples = << >>]]
  /\ recorded' = [s \in Series |-> << >>]
  /\ UNCHANGED <<ticks, gauges, sum, started, counter, moved>>

ForgetSeries(s) ==
  /\ s \in DOMAIN book
  /\ book' = [r \in DOMAIN book \ {s} |-> book[r]]
  /\ recorded' = [recorded EXCEPT ![s] = << >>]
  /\ UNCHANGED <<ticks, gauges, sum, started, counter, moved>>

TimePasses ==
  /\ ticks < LastTick /\ ticks' = ticks + 1
  /\ UNCHANGED <<gauges, sum, started, book, counter, moved, recorded>>

MetersNext ==
  \/ \E amount \in Sizes : Add(amount)
  \/ Bump \/ Read \/ Reset \/ Clear \/ TimePasses
  \/ \E s \in Series : Record(s) \/ ForgetSeries(s)

MetersSpec == MetersInit /\ [][MetersNext]_meterVars

(* Whenever they are read, and whatever was read before, the instruments    *)
(* show what moved: each window the bytes that moved within it, the total   *)
(* and the average everything since the first byte.                         *)
ReadingsAreTrue ==
  /\ \A k \in DOMAIN Spans :
       RateOf(k, ticks) = InWindow(SelectSeq(moved, LAMBDA x : x[1] > ticks - Spans[k]))
  /\ Rates(ticks).total = InWindow(moved)
  /\ Rates(ticks).instant <= Rates(ticks).long /\ Rates(ticks).long <= sum
  /\ (moved = << >>) <=> (started = Never)
  /\ (counter.value = 0) <=> (counter.at = Never)
  /\ \A i \in DOMAIN moved : ticks - moved[i][1] <= Elapsed(ticks)

(* A series is the newest samples recorded under its name since it was last *)
(* cleared, oldest first, and no more of them than it has room for.         *)
SeriesIsTheNewest ==
  \A s \in Series :
    LET kept == SeriesOf(s).samples
        all == recorded[s]
    IN /\ Len(kept) = IF Len(all) < Capacity THEN Len(all) ELSE Capacity
       /\ \A k \in DOMAIN kept : kept[k] = all[Len(all) - Len(kept) + k]
=============================================================================
