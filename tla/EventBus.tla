------------------------------ MODULE EventBus ------------------------------
(***************************************************************************)
(* The event bus (core/event_bus.py) and the handler that publishes log     *)
(* records on it (core/logging_setup.py).                                   *)
(*                                                                          *)
(* emit calls its handlers on the emitter's own thread, or makes a task of  *)
(* a handler that is a coroutine.  A handler may emit in its turn, and one  *)
(* that fails is logged, which is an event too: a thread's emissions are a  *)
(* stack.  A handler that is a coroutine can only be told on the loop's own *)
(* thread: elsewhere emit raises, in its caller or in the handler that      *)
(* emitted.  Of a task only its end is modelled.                            *)
(***************************************************************************)
EXTENDS Naturals, Sequences, FiniteSets, SequencesExt

CONSTANTS
  Threads,   \* threads that emit; "loop" is the one with a running event loop
  Handlers,  \* handlers that may be subscribed
  Hears,     \* handler -> the kinds of event it is subscribed to
  Async,     \* the handlers that are coroutines
  Faulty,    \* the handlers that may fail
  MaxEmits   \* bound: events emitted by the program

VARIABLES
  subs,       \* EventBus._subscriptions
  stack,      \* thread -> emissions in progress: [kind, all, left, told, raises]
  forwarding, \* thread -> the context variable of EventBusHandler
  tasks,      \* EventBus._tasks: [handler, number, mute]; mute if made while forwarding
  doomed,     \* tasks that aclose has cancelled and waits for
  closing,    \* "open", "closing" or "closed"
  drains,     \* whether someone waits in drain
  missed,     \* history: emissions that ended before all were told: [thread, all, told]
  emits       \* events emitted by the program so far

busVars == <<subs, stack, forwarding, tasks, doomed, closing, drains, missed, emits>>

BusInit ==
  /\ subs = <<>> /\ stack = [t \in Threads |-> <<>>]
  /\ forwarding = [t \in Threads |-> FALSE]
  /\ tasks = {} /\ doomed = {} /\ closing = "open" /\ drains = FALSE
  /\ missed = {} /\ emits = 0

-----------------------------------------------------------------------------
Subscribe(h) ==
  /\ h \notin ToSet(subs) /\ closing = "open"
  /\ subs' = Append(subs, h)
  /\ UNCHANGED <<stack, forwarding, tasks, doomed, closing, drains, missed, emits>>

\* Also from within a handler: an emission goes on with those it matched.
Unsubscribe(h) ==
  /\ h \in ToSet(subs)
  /\ subs' = SelectSeq(subs, LAMBDA x : x # h)
  /\ UNCHANGED <<stack, forwarding, tasks, doomed, closing, drains, missed, emits>>

Matched(kind) == SelectSeq(subs, LAMBDA h : kind \in Hears[h])
Frame(kind) ==
  [kind |-> kind, all |-> Matched(kind), left |-> Matched(kind), told |-> {}, raises |-> FALSE]
Top(t) == stack[t][Len(stack[t])]
Below(t) == SubSeq(stack[t], 1, Len(stack[t]) - 1)

Calling(t, h) ==
  stack[t] # <<>> /\ ~Top(t).raises /\ Top(t).left # <<>> /\ h = Head(Top(t).left)

\* By the program, or by a handler that is being called.
Emit(t) ==
  /\ emits < MaxEmits
  /\ stack[t] = <<>> \/ \E h \in Handlers \ Async : Calling(t, h)
  /\ emits' = emits + 1
  /\ stack' = [stack EXCEPT ![t] = Append(@, Frame("domain"))]
  /\ UNCHANGED <<subs, forwarding, tasks, doomed, closing, drains, missed>>

\* An emission with its next handler told.
Told(frame) == [frame EXCEPT !.left = Tail(@), !.told = @ \cup {Head(frame.left)}]

CallWorks(t, h) ==
  /\ Calling(t, h) /\ h \notin Async
  /\ stack' = [stack EXCEPT ![t] = Append(Below(t), Told(Top(t)))]
  /\ UNCHANGED <<subs, forwarding, tasks, doomed, closing, drains, missed, emits>>

\* Something is logged on thread t, whose emissions are then these: the record
\* is published, unless one is being published.
Logs(t, frames) ==
  IF forwarding[t]
  THEN stack' = [stack EXCEPT ![t] = frames] /\ UNCHANGED forwarding
  ELSE /\ stack' = [stack EXCEPT ![t] = Append(frames, Frame("log"))]
       /\ forwarding' = [forwarding EXCEPT ![t] = TRUE]

(* Faulty variant: the failure goes through to the emitter. *)
CallFailsOut(t, h) ==
  /\ Calling(t, h) /\ h \in Faulty \ Async
  /\ stack' = [stack EXCEPT ![t] = Append(Below(t), [Told(Top(t)) EXCEPT !.raises = TRUE])]
  /\ UNCHANGED <<subs, forwarding, tasks, doomed, closing, drains, missed, emits>>

CallFails(t, h) ==
  /\ Calling(t, h) /\ h \in Faulty \ Async
  /\ Logs(t, Append(Below(t), Told(Top(t))))
  /\ UNCHANGED <<subs, tasks, doomed, closing, drains, missed, emits>>

\* A coroutine is a task on the loop.  On another thread that is logged, and
\* then the emission is given up.
Schedule(t, h) ==
  /\ Calling(t, h) /\ h \in Async
  /\ IF t = "loop"
     THEN /\ \E n \in 1 .. Cardinality(tasks) + 1 :
               /\ \A task \in tasks : task.number # n
               /\ \A m \in 1 .. n - 1 : \E task \in tasks : task.number = m
               /\ tasks' = tasks \cup {[handler |-> h, number |-> n, mute |-> forwarding[t]]}
          /\ stack' = [stack EXCEPT ![t] = Append(Below(t), Told(Top(t)))]
          /\ UNCHANGED forwarding
     ELSE /\ Logs(t, Append(Below(t), [Top(t) EXCEPT !.raises = TRUE]))
          /\ UNCHANGED tasks
  /\ UNCHANGED <<subs, doomed, closing, drains, missed, emits>>

Ends(t) ==
  missed' = IF Top(t).told = ToSet(Top(t).all) THEN missed
            ELSE missed \cup {[thread |-> t, all |-> Top(t).all, told |-> Top(t).told]}

\* The exception leaves emit.  What forwards a log record catches it; a handler
\* that had emitted fails by it.
Raise(t) ==
  /\ stack[t] # <<>> /\ Top(t).raises
  /\ Ends(t)
  /\ IF Top(t).kind = "log" \/ Below(t) = <<>>
     THEN /\ stack' = [stack EXCEPT ![t] = Below(t)]
          /\ forwarding' = [forwarding EXCEPT ![t] = @ /\ Top(t).kind # "log"]
     ELSE Logs(t, Append(Front(Below(t)), Told(Last(Below(t)))))
  /\ UNCHANGED <<subs, tasks, doomed, closing, drains, emits>>

Return(t) ==
  /\ stack[t] # <<>> /\ Top(t).left = <<>> /\ ~Top(t).raises
  /\ Ends(t)
  /\ stack' = [stack EXCEPT ![t] = Below(t)]
  /\ forwarding' = [forwarding EXCEPT ![t] = @ /\ Top(t).kind # "log"]
  /\ UNCHANGED <<subs, tasks, doomed, closing, drains, emits>>

-----------------------------------------------------------------------------
\* _run ends and the task is discarded.  Its failure is logged on the loop,
\* in the context the task was made in.
TaskEnds(task) ==
  /\ task \in tasks \cup doomed
  /\ tasks' = tasks \ {task} /\ doomed' = doomed \ {task}
  /\ \/ UNCHANGED <<stack, forwarding>>
     \/ /\ task.handler \in Faulty /\ ~task.mute /\ stack["loop"] = <<>>
        /\ Logs("loop", <<>>)
  /\ UNCHANGED <<subs, closing, drains, missed, emits>>

Drain ==
  /\ ~drains /\ closing = "open" /\ drains' = TRUE
  /\ UNCHANGED <<subs, stack, forwarding, tasks, doomed, closing, missed, emits>>

\* It looks again after each wait: what was started meanwhile is waited for.
DrainEnds ==
  /\ drains /\ tasks = {} /\ drains' = FALSE
  /\ UNCHANGED <<subs, stack, forwarding, tasks, doomed, closing, missed, emits>>

CloseBus ==
  /\ closing = "open" /\ stack["loop"] = <<>>
  /\ closing' = "closing" /\ doomed' = tasks
  /\ UNCHANGED <<subs, stack, forwarding, tasks, drains, missed, emits>>

\* Tasks that were made while it waited are forgotten, not cancelled.
BusClosed ==
  /\ closing = "closing" /\ doomed = {} /\ stack["loop"] = <<>>
  /\ closing' = "closed" /\ tasks' = {} /\ subs' = <<>>
  /\ UNCHANGED <<stack, forwarding, doomed, drains, missed, emits>>

BusNext ==
  \/ \E h \in Handlers : Subscribe(h) \/ Unsubscribe(h)
  \/ \E t \in Threads : \/ Emit(t) \/ Return(t) \/ Raise(t)
                        \/ \E h \in Handlers : CallWorks(t, h) \/ CallFails(t, h) \/ Schedule(t, h)
  \/ \E task \in tasks \cup doomed : TaskEnds(task)
  \/ Drain \/ DrainEnds \/ CloseBus \/ BusClosed

BusSpec == BusInit /\ [][BusNext]_busVars

-----------------------------------------------------------------------------
\* Whom an emission on thread t can tell: all, or those before the first
\* coroutine when the thread is not the loop's.
CanBeTold(t, all) ==
  {all[i] : i \in {i \in DOMAIN all :
                     t = "loop" \/ \A k \in 1 .. i : all[k] \notin Async}}

\* A broken subscriber does not keep an event from the others: an emission
\* that is over has told everyone who was subscribed when it began, or, off
\* the loop's thread, everyone before the first coroutine (event_bus.py:114,
\* 193); and one in progress has told or has yet to tell them all.  A
\* failure's own log record goes out in the same way.
EveryoneIsTold ==
  /\ \A e \in missed : e.told = CanBeTold(e.thread, e.all)
  /\ \A t \in Threads : \A k \in DOMAIN stack[t] :
       ToSet(stack[t][k].all) = stack[t][k].told \cup ToSet(stack[t][k].left)

\* What fails is logged and the log is heard, but a failure to hear it begets
\* no further event: no thread publishes a record within a record.
LogsBegetNoLogs ==
  \A t \in Threads : \A i, k \in DOMAIN stack[t] :
    stack[t][i].kind = "log" /\ stack[t][k].kind = "log" => i = k

\* "An exception in one is logged and isolated" (event_bus.py:10): not that of
\* a coroutine told off the loop's thread, which costs the handlers after it.
NobodyMissesAnEvent == missed = {}
-----------------------------------------------------------------------------
(***************************************************************************)
(* The one bus that all torrents of a session share, with those who listen  *)
(* on it: AppState (services/app_state.py), whose timeline the user sees;   *)
(* for each torrent the byte counts of its MetricsCollector                 *)
(* (statistics/metrics.py); and its Engine (services/engine.py), which      *)
(* offers the pieces it hears were verified.                                *)
(*                                                                          *)
(* No handler here is a coroutine: an emission runs all of them in the order *)
(* of their subscription before it returns.  A handler that fails is logged, *)
(* and a log record is itself emitted, except while one is being forwarded  *)
(* (core/logging_setup.py).                                                 *)
(***************************************************************************)
CONSTANTS
  Torrents,     \* the torrents of the session
  PieceCount,   \* how many pieces each has
  Resumed,      \* the pieces each finds on disk when it starts
  Recent,       \* event_capacity
  ListenerFails,\* whether the listener of AppState raises
  Blocks,       \* bound: blocks received by a torrent
  Emissions     \* bound: events emitted since the timeline was cleared

SharedBusAssumption ==
  /\ IsFiniteSet(Torrents) /\ "nobody" \notin Torrents
  /\ PieceCount \in [Torrents -> Nat \ {0}]
  /\ \A t \in Torrents : Resumed[t] \subseteq 0 .. PieceCount[t] - 1
  /\ Recent \in Nat \ {0} /\ ListenerFails \in BOOLEAN /\ {Blocks, Emissions} \subseteq Nat

VARIABLES
  engines,   \* each torrent: "none", "built", "wired" or "closed"
  listeners, \* _subscriptions, in their order
  verified,  \* the pieces each torrent's download has verified
  offered,   \* each torrent's UploadManager._have
  moved,     \* history: the blocks each torrent has received
  counted,   \* what each collector has counted
  timeline,  \* AppState._events
  counts,    \* AppState._counts
  emitted    \* history: the kinds of all events since the timeline was cleared

sharedVars == <<engines, listeners, verified, offered, moved, counted, timeline, counts, emitted>>

EventKinds == {"added", "started", "stopped", "block", "verified", "sample", "log"}
AboutNone == "nobody"
Ev(kind, t) == [kind |-> kind, of |-> t, index |-> 0]
LogRecord == Ev("log", AboutNone)
Pieces(t) == 0 .. PieceCount[t] - 1

(* AppState subscribes when the application is created, before any torrent. *)
SharedInit ==
  /\ engines = [t \in Torrents |-> "none"]
  /\ listeners = <<<<"state", AboutNone>>>>
  /\ verified = [t \in Torrents |-> {}] /\ offered = verified
  /\ moved = [t \in Torrents |-> 0] /\ counted = moved
  /\ timeline = <<>> /\ emitted = <<>>
  /\ counts = [k \in EventKinds |-> 0]

-----------------------------------------------------------------------------
(* One emission.  What the handlers change is folded through w.             *)

World == [timeline |-> timeline, counts |-> counts, emitted |-> emitted,
          offered |-> offered, counted |-> counted]

Newest(s) == SubSeq(s, IF Len(s) > Recent THEN Len(s) - Recent + 1 ELSE 1, Len(s))

(* AppState.reduce                                                          *)
Reduced(w, e) ==
  [w EXCEPT !.timeline = Newest(Append(@, e.kind)), !.counts[e.kind] = @ + 1]

(* Who hears of an event: the subscriptions to its type or to all.          *)
HearsOf(listener, e) ==
  \/ listener[1] = "state"
  \/ listener[1] = "rates" /\ e.kind = "block"
  \/ listener[1] = "engine" /\ e.kind = "verified"

(* A log record goes over the bus; failures on the way are not logged again. *)
Logged(w) == Reduced([w EXCEPT !.emitted = Append(@, "log")], LogRecord)

(* One handler.  Neither the engine nor the collector asks which torrent    *)
(* the event is of; an index that is none of the torrent's pieces fails.    *)
HeardBy(listener, e, w) ==
  CASE listener[1] = "state" ->
         IF ListenerFails THEN Logged(Reduced(w, e)) ELSE Reduced(w, e)
    [] listener[1] = "rates" -> [w EXCEPT !.counted[listener[2]] = @ + 1]
    [] OTHER ->
         IF e.index \in Pieces(listener[2])
         THEN [w EXCEPT !.offered[listener[2]] = @ \cup {e.index}]
         ELSE Logged(w)

Emitted(w, e) ==
  FoldLeft(LAMBDA acc, listener : HeardBy(listener, e, acc),
           [w EXCEPT !.emitted = Append(@, e.kind)],
           SelectSeq(listeners, LAMBDA l : HearsOf(l, e)))

Becomes(w) ==
  /\ Len(w.emitted) <= Emissions
  /\ timeline' = w.timeline /\ counts' = w.counts /\ emitted' = w.emitted
  /\ offered' = w.offered /\ counted' = w.counted

EmitShared(e) == Becomes(Emitted(World, e))

-----------------------------------------------------------------------------
(* Session.add_torrent: the collector of the new engine listens at once.    *)
AddTorrent(t) ==
  /\ engines[t] = "none"
  /\ engines' = [engines EXCEPT ![t] = "built"]
  /\ listeners' = Append(listeners, <<"rates", t>>)
  /\ EmitShared(Ev("added", t))
  /\ UNCHANGED <<verified, moved>>

(* Engine.start, the first time: what was found on disk is offered, and the *)
(* engine listens from then on.                                             *)
Wire(t) ==
  /\ engines[t] = "built"
  /\ engines' = [engines EXCEPT ![t] = "wired"]
  /\ verified' = [verified EXCEPT ![t] = Resumed[t]]
  /\ listeners' = Append(listeners, <<"engine", t>>)
  /\ Becomes(Emitted([World EXCEPT !.offered[t] = Resumed[t]], Ev("started", t)))
  /\ UNCHANGED moved

BlockReceived(t) ==
  /\ engines[t] = "wired" /\ moved[t] < Blocks
  /\ moved' = [moved EXCEPT ![t] = @ + 1]
  /\ EmitShared(Ev("block", t))
  /\ UNCHANGED <<engines, listeners, verified>>

PieceVerified(t, i) ==
  /\ engines[t] = "wired" /\ i \in Pieces(t) \ verified[t]
  /\ verified' = [verified EXCEPT ![t] = @ \cup {i}]
  /\ EmitShared([Ev("verified", t) EXCEPT !.index = i])
  /\ UNCHANGED <<engines, listeners, moved>>

(* The collector's loop.                                                    *)
Sampled(t) ==
  /\ engines[t] = "wired"
  /\ EmitShared(Ev("sample", t))
  /\ UNCHANGED <<engines, listeners, verified, moved>>

(* Engine.snapshot, by way of _sync_have.                                   *)
Viewed(t) ==
  /\ engines[t] = "wired"
  /\ offered' = [offered EXCEPT ![t] = @ \cup verified[t]]
  /\ UNCHANGED <<engines, listeners, verified, moved, counted, timeline, counts, emitted>>

(* Session.remove: the engine stops listening, the collector does not.      *)
RemoveTorrent(t) ==
  /\ engines[t] \in {"built", "wired"}
  /\ engines' = [engines EXCEPT ![t] = "closed"]
  /\ EmitShared(Ev("stopped", t))
  /\ listeners' = SelectSeq(listeners, LAMBDA l : l # <<"engine", t>>)
  /\ UNCHANGED <<verified, moved>>

(* AppState.clear                                                           *)
ClearTimeline ==
  /\ timeline' = <<>> /\ emitted' = <<>> /\ counts' = [k \in EventKinds |-> 0]
  /\ UNCHANGED <<engines, listeners, verified, offered, moved, counted>>

SharedNext ==
  \/ \E t \in Torrents :
       \/ AddTorrent(t) \/ Wire(t) \/ BlockReceived(t) \/ Sampled(t) \/ Viewed(t) \/ RemoveTorrent(t)
       \/ \E i \in Pieces(t) : PieceVerified(t, i)
  \/ ClearTimeline

SharedSpec == SharedInit /\ [][SharedNext]_sharedVars

-----------------------------------------------------------------------------
(* Properties.                                                              *)

SharedTypeOK ==
  /\ engines \in [Torrents -> {"none", "built", "wired", "closed"}]
  /\ ToSet(listeners) \subseteq {"state", "rates", "engine"} \X (Torrents \cup {AboutNone})
  /\ \A t \in Torrents : verified[t] \subseteq Pieces(t) /\ offered[t] \subseteq Pieces(t)
  /\ moved \in [Torrents -> 0 .. Blocks] /\ counted \in [Torrents -> Nat]
  /\ timeline \in Seq(EventKinds) /\ counts \in [EventKinds -> Nat]

(* Whatever handlers and listeners fail, the timeline holds the latest of   *)
(* all events in the order they were emitted, and the counts count them.    *)
TimelineIsRecent ==
  /\ timeline = Newest(emitted)
  /\ \A k \in EventKinds : counts[k] = Cardinality({i \in DOMAIN emitted : emitted[i] = k})

(* A torrent that runs offers every piece it has verified, and counts every *)
(* block it received; with no other torrent about, no more than those.      *)
OwnEventsAreHeard ==
  \A t \in Torrents : engines[t] = "wired" =>
    /\ verified[t] \subseteq offered[t] /\ moved[t] <= counted[t]
    /\ (\A u \in Torrents \ {t} : engines[u] = "none") =>
         verified[t] = offered[t] /\ moved[t] = counted[t]

(* engine.py:665-669, upload/manager.py:125-126: to claim a piece we do not *)
(* have is a lie to the swarm.                                              *)
OfferedIsVerified == \A t \in Torrents : offered[t] \subseteq verified[t]

(* metrics.py:5-8: rates are measured; an idle torrent reports 0 B/s.       *)
IdleCountsNothing == \A t \in Torrents : moved[t] = 0 => counted[t] = 0

(* MetricsCollector.close stops listening: a torrent that was removed has   *)
(* nobody left on the bus.                                                  *)
RemovedIsUnhooked ==
  \A t \in Torrents : engines[t] = "closed" => \A i \in DOMAIN listeners : listeners[i][2] # t
=============================================================================
