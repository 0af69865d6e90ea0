----------------------------- MODULE EventBridge ----------------------------
(***************************************************************************)
(* How an event reaches the window: EventBus.emit calls AppState.reduce,    *)
(* which calls EventFeed._on_change, all on the emitter's thread; the feed  *)
(* queues the event and raises one Qt signal, and the GUI thread drains the *)
(* feed when the signal is delivered.  The engine's loop is one emitter; a  *)
(* log record of the GUI thread is another (EventBusHandler).               *)
(***************************************************************************)
EXTENDS Integers, Sequences

CONSTANTS
  Emitters,  \* threads that emit
  MaxEvents, \* bound on the events emitted
  Capacity   \* event_capacity of AppState

BridgeAssumption == MaxEvents \in Nat /\ Capacity \in Nat \ {0}

VARIABLES
  events,    \* AppState._events: the last Capacity events
  revision,  \* AppState._revision
  at,        \* thread -> where its emit is
  latest,    \* thread -> events[-1] as _on_change read it
  listening, \* whether the feed is subscribed
  pending, announced, \* of EventFeed, under its lock
  signals,   \* events_pending signals queued for the GUI thread
  shown,     \* history: the events the GUI thread took, in order
  emitted    \* history: the events emitted while the feed listened, in order

bridgeVars == <<events, revision, at, latest, listening, pending, announced, signals, shown, emitted>>

BridgeInit ==
  /\ events = <<>> /\ revision = 0
  /\ at = [t \in Emitters |-> "idle"] /\ latest = [t \in Emitters |-> 0]
  /\ listening = FALSE
  /\ pending = <<>> /\ announced = FALSE /\ signals = 0
  /\ shown = <<>> /\ emitted = <<>>

Kept(s) == IF Len(s) > Capacity THEN Tail(s) ELSE s

(* reduce appends, counts, and calls the listeners there are now.           *)
Emit(t) ==
  /\ at[t] = "idle" /\ revision < MaxEvents
  /\ revision' = revision + 1
  /\ events' = Kept(Append(events, revision'))
  /\ at' = [at EXCEPT ![t] = IF listening THEN "changed" ELSE "idle"]
  /\ emitted' = IF listening THEN Append(emitted, revision') ELSE emitted
  /\ UNCHANGED <<latest, listening, pending, announced, signals, shown>>

(* _on_change reads the state again instead of being told the event.        *)
Read(t) ==
  /\ at[t] = "changed"
  /\ latest' = [latest EXCEPT ![t] = events[Len(events)]]
  /\ at' = [at EXCEPT ![t] = "read"]
  /\ UNCHANGED <<events, revision, listening, pending, announced, signals, shown, emitted>>

(* Under the lock: queue, and whoever finds nothing announced announces.    *)
Queue(t) ==
  /\ at[t] = "read"
  /\ pending' = Append(pending, latest[t])
  /\ announced' = TRUE
  /\ at' = [at EXCEPT ![t] = IF announced THEN "idle" ELSE "signal"]
  /\ UNCHANGED <<events, revision, latest, listening, signals, shown, emitted>>

Signal(t) ==
  /\ at[t] = "signal"
  /\ signals' = signals + 1
  /\ at' = [at EXCEPT ![t] = "idle"]
  /\ UNCHANGED <<events, revision, latest, listening, pending, announced, shown, emitted>>

(* Faulty variant: the newest event first.                                  *)
DrainNewest ==
  /\ signals > 0 /\ signals' = signals - 1
  /\ shown' = shown \o [i \in 1 .. Len(pending) |-> pending[Len(pending) + 1 - i]]
  /\ pending' = <<>> /\ announced' = FALSE
  /\ UNCHANGED <<events, revision, at, latest, listening, emitted>>

(* _on_events of the window, when the signal is delivered.                  *)
Drain ==
  /\ signals > 0 /\ signals' = signals - 1
  /\ shown' = shown \o pending /\ pending' = <<>> /\ announced' = FALSE
  /\ UNCHANGED <<events, revision, at, latest, listening, emitted>>

(* EventFeed.start and stop, on the GUI thread.  reduce has copied its      *)
(* listeners, so an event under way still arrives.                          *)
Listen ==
  /\ ~listening /\ listening' = TRUE
  /\ UNCHANGED <<events, revision, at, latest, pending, announced, signals, shown, emitted>>

Unlisten ==
  /\ listening /\ listening' = FALSE
  /\ UNCHANGED <<events, revision, at, latest, pending, announced, signals, shown, emitted>>

EmitterGoes(t) == Read(t) \/ Queue(t) \/ Signal(t)

BridgeNext ==
  \/ Drain \/ Listen \/ Unlisten
  \/ \E t \in Emitters : Emit(t) \/ EmitterGoes(t)

BridgeSpec == BridgeInit /\ [][BridgeNext]_bridgeVars

(* Threads run, and Qt delivers what it has queued.                         *)
BridgeFairness == WF_bridgeVars(Drain) /\ \A t \in Emitters : WF_bridgeVars(EmitterGoes(t))
BridgeFairSpec == BridgeSpec /\ BridgeFairness

-----------------------------------------------------------------------------
(* Properties.                                                              *)

BridgeTypeOK ==
  /\ revision \in 0 .. MaxEvents
  /\ events \in Seq(1 .. MaxEvents) /\ Len(events) <= Capacity
  /\ pending \in Seq(1 .. MaxEvents)
  /\ shown \in Seq(1 .. MaxEvents) /\ emitted \in Seq(1 .. MaxEvents)
  /\ at \in [Emitters -> {"idle", "changed", "read", "signal"}]
  /\ latest \in [Emitters -> 0 .. MaxEvents]
  /\ listening \in BOOLEAN /\ announced \in BOOLEAN /\ signals \in Nat

(* Events that wait have a signal on its way, and never two of them ("at    *)
(* most one queued signal outstanding", bridge.py:203): no wake-up is lost  *)
(* between the drain and the next arrival.                                  *)
OneSignalOutstanding ==
  LET due == { t \in Emitters : at[t] = "signal" } IN
  /\ pending # <<>> => announced
  /\ announced => signals = 1 \/ due # {}
  /\ signals <= 1 /\ (signals = 1 => due = {})
  /\ \A t, u \in due : t = u

(* The window is shown every event once and in order: the feed is a         *)
(* channel.  With one emitter; two may both read the newer event.           *)
Window == INSTANCE Channel WITH Batches <- TRUE, sent <- emitted, received <- shown
FeedIsChannel == Window!ChannelSpec

(* Every event emitted is shown, as long as the threads run.                *)
FeedDelivers == \A n \in 1 .. MaxEvents : Len(emitted) >= n ~> Len(shown) >= n
=============================================================================
