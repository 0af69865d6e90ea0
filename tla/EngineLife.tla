----------------------------- MODULE EngineLife -----------------------------
(***************************************************************************)
(* The life of one torrent's Engine (services/engine.py): start, pause,     *)
(* stop and aclose over the parts it owns.  Each call is a coroutine; it    *)
(* waits while the files are prepared, while the listener binds, and while  *)
(* each part ends.  Nothing keeps the calls apart: any may begin while      *)
(* others wait.  Starting the other parts is not awaited.                   *)
(***************************************************************************)
EXTENDS Integers, Sequences, FiniteSets

CONSTANTS
  Callees, \* calls of the engine that may be under way at once
  Faults   \* whether preparing, binding or a part's end may fail

EngineAssumption == IsFiniteSet(Callees)

Parts == <<"metrics", "download", "upload", "tracker", "peers", "listener">>
Tasks == {"metrics", "download", "upload", "tracker", "peers"}
AllParts == Tasks \cup {"listener"}

VARIABLES
  running, paused, startedOnce, stopped, failed,  \* the flags of Engine
  bound,    \* Engine._port is not 0
  handles,  \* parts whose task somebody holds a handle of; the listener's server
  alive,    \* parts whose task runs and is nobody's to end yet; the listener accepts
  stray,    \* parts of which a run goes on that no handle leads to
  quitting, \* MetricsCollector._stopping
  complete, \* every piece is verified
  closedUp, \* Engine.aclose has released storage and trackers
  ops,      \* each call: [op, step, waits]
  raised,   \* history: a start raised and no stop has followed it
  tangled   \* history: a start overlapped a call, or came after the release,
            \* and no stop has since begun with the engine to itself

flagVars == <<running, paused, startedOnce, stopped, failed>>
partVars == <<bound, handles, alive, stray, quitting>>
engVars == <<flagVars, partVars, complete, closedUp, ops, raised, tangled>>

NoOp == [op |-> "none", step |-> 0, waits |-> "nothing"]
Quiet == \A c \in Callees : ops[c] = NoOp
Stops(op) == op \in {"pause", "stop", "aclose"}

\* Call c waits for the end of the task that part n had.
Awaits(c, n) == Stops(ops[c].op) /\ ops[c].step = n /\ ops[c].waits = "task"

\* What runs and no stop would find.
Lost == stray \cup (alive \ handles)

(* build_engine: the parts are made and none of them runs; what the resume  *)
(* file held is adopted before the downloader is made, so that the engine   *)
(* may be complete from the beginning.                                      *)
Assembled ==
  /\ bound = FALSE /\ handles = {} /\ alive = {} /\ stray = {} /\ quitting = FALSE
  /\ complete \in BOOLEAN /\ closedUp = FALSE

EngInit ==
  /\ Assembled
  /\ running = FALSE /\ paused = FALSE /\ startedOnce = FALSE /\ stopped = FALSE /\ failed = FALSE
  /\ ops = [c \in Callees |-> NoOp] /\ raised = FALSE /\ tangled = FALSE

\* What the beginning of a call makes of the history.
Tangles(op) ==
  tangled' = IF op = "start" THEN tangled \/ ~Quiet \/ closedUp
             ELSE IF Quiet THEN Lost # {} ELSE tangled \/ \E d \in Callees : ops[d].op = "start"

Waits(c, n) == ops' = [ops EXCEPT ![c] = [op |-> "start", step |-> n, waits |-> "nothing"]]
Done(c) == ops' = [ops EXCEPT ![c] = NoOp]

-----------------------------------------------------------------------------
(* start: step 1 waits for the files, step 2 for the listener.              *)

(* With the listener up, every part whose handle is missing is started at   *)
(* once; a swarm that somebody still runs refuses.  A collector that is     *)
(* being stopped may end what is started meanwhile.                         *)
StartTasks(c, held, live) ==
  /\ bound' = TRUE
  /\ LET missing == Tasks \ held IN
     IF "peers" \notin held /\ "peers" \in live \cup stray
     THEN handles' = held /\ alive' = live /\ raised' = TRUE
     ELSE /\ handles' = held \cup missing
          /\ \E over \in {{}} \cup (IF quitting THEN {{"metrics"}} ELSE {}) :
               alive' = live \cup (missing \ over)
          /\ UNCHANGED raised
  /\ Done(c)
  /\ UNCHANGED quitting

(* The flag goes up before the listener is asked for.                       *)
GoOn(c) ==
  /\ running' = TRUE
  /\ IF bound \/ "listener" \in handles
     THEN StartTasks(c, handles, alive) /\ UNCHANGED stray
     ELSE Waits(c, 2) /\ UNCHANGED <<partVars, raised>>

StartCall(c) ==
  /\ ops[c] = NoOp /\ (~running \/ paused)
  /\ paused' = FALSE /\ stopped' = FALSE /\ failed' = FALSE
  /\ IF startedOnce THEN GoOn(c) ELSE Waits(c, 1) /\ UNCHANGED <<running, partVars, raised>>
  /\ Tangles("start")
  /\ UNCHANGED <<startedOnce, complete, closedUp>>

Prepared(c) ==
  /\ ops[c].op = "start" /\ ops[c].step = 1
  /\ startedOnce' = TRUE
  /\ GoOn(c)
  /\ UNCHANGED <<paused, stopped, failed, complete, closedUp, tangled>>

PrepareFails(c) ==
  /\ Faults /\ ops[c].op = "start" /\ ops[c].step = 1
  /\ failed' = TRUE /\ running' = FALSE /\ raised' = TRUE
  /\ Done(c)
  /\ UNCHANGED <<paused, startedOnce, stopped, partVars, complete, closedUp, tangled>>

(* Of two starts that bind at once the second replaces the server of the    *)
(* first, which goes on accepting.                                          *)
Bound(c) ==
  /\ ops[c].op = "start" /\ ops[c].step = 2
  /\ stray' = stray \cup ({"listener"} \cap handles)
  /\ StartTasks(c, handles \cup {"listener"}, alive \cup {"listener"})
  /\ UNCHANGED <<flagVars, complete, closedUp, tangled>>

(* The port is taken: the exception leaves the engine running, with nothing *)
(* that runs.                                                               *)
BindFails(c) ==
  /\ Faults /\ ops[c].op = "start" /\ ops[c].step = 2
  /\ raised' = TRUE
  /\ Done(c)
  /\ UNCHANGED <<flagVars, partVars, complete, closedUp, tangled>>

(* The download loop ends by itself when the last piece is verified, or     *)
(* when it finds that none was missing.                                     *)
Completes ==
  /\ "download" \in alive
  /\ complete' = TRUE
  /\ alive' = alive \ {"download"}
  /\ UNCHANGED <<flagVars, bound, handles, stray, quitting, closedUp, ops, raised, tangled>>

-----------------------------------------------------------------------------
(* pause, stop and aclose: _stop_tasks, one part after the other.           *)

(* The handles a stop takes when it comes to part n.  Those of the loop of  *)
(* the trackers and of the swarm stay until the part has ended.             *)
Takes(n) == IF n \in DOMAIN Parts THEN {Parts[n]} \ {"tracker", "peers"} ELSE {}

AtPart(op, n, held) ==
  [op |-> op, step |-> n,
   waits |-> IF n \in DOMAIN Parts /\ Parts[n] \in held THEN "task" ELSE "nothing"]

StopBegins(c, op) ==
  /\ ops' = [ops EXCEPT ![c] = AtPart(op, 1, handles)]
  /\ handles' = handles \ Takes(1) /\ alive' = alive \ Takes(1)
  /\ quitting' = (quitting \/ "metrics" \in handles)
  /\ Tangles(op)

PauseCall(c) ==
  /\ ops[c] = NoOp /\ running /\ ~paused
  /\ paused' = TRUE
  /\ StopBegins(c, "pause")
  /\ UNCHANGED <<running, startedOnce, stopped, failed, bound, stray, complete, closedUp, raised>>

(* A second stop returns at once, whether or not the first has; an aclose   *)
(* goes on from there.                                                      *)
StopCall(c, op) ==
  /\ op \in {"stop", "aclose"} /\ ops[c] = NoOp
  /\ IF stopped
     THEN /\ closedUp' = (closedUp \/ op = "aclose")
          /\ tangled' = (tangled \/ \E d \in Callees : ops[d].op = "start")
          /\ UNCHANGED <<flagVars, partVars, ops>>
     ELSE /\ stopped' = TRUE /\ paused' = FALSE /\ running' = FALSE
          /\ StopBegins(c, op)
          /\ UNCHANGED <<startedOnce, failed, bound, stray, closedUp>>
  /\ UNCHANGED <<complete, raised>>

(* Faulty variant: the handle of the swarm is not given up.                 *)
ForgetsLess(c) ==
  IF ops[c].waits = "nothing" THEN {} ELSE {Parts[ops[c].step]} \cap {"tracker"}

(* The handles a stop gives up when the part it awaits has ended, whatever  *)
(* they lead to by then.                                                    *)
Forgets(c) ==
  IF ops[c].waits = "nothing" THEN {} ELSE {Parts[ops[c].step]} \cap {"tracker", "peers"}

(* A swarm started after another stop had given up the one awaited here.    *)
Strays(c) ==
  IF ops[c].waits = "gone" /\ ~\E d \in Callees : Awaits(d, 5) THEN {"peers"} \cap alive ELSE {}

(* The end of the loop of the trackers wakes all who await it together.     *)
Woken(c) == IF Awaits(c, 4) THEN {d \in Callees : Awaits(d, 4)} ELSE {c}

(* The part has ended, or its end raised: either way the next one is due.   *)
(* After the listener the port is forgotten.                                *)
PartEnded(c) ==
  /\ Stops(ops[c].op) /\ ops[c].step \in DOMAIN Parts
  /\ LET n == ops[c].step
         held == handles \ Forgets(c)
         live == alive \ (IF ops[c].waits = "task" THEN Forgets(c) ELSE Strays(c))
     IN
     /\ ops' = [d \in Callees |->
                  IF d \in Woken(c) THEN AtPart(ops[d].op, n + 1, held)
                  ELSE IF Awaits(c, 5) /\ Awaits(d, 5) THEN [ops[d] EXCEPT !.waits = "gone"]
                  ELSE ops[d]]
     /\ handles' = held \ Takes(n + 1) /\ alive' = live \ Takes(n + 1)
     /\ bound' = (bound /\ n < Len(Parts))
  /\ stray' = stray \cup Strays(c)
  /\ quitting' = (quitting /\ ~Awaits(c, 1))
  /\ UNCHANGED <<flagVars, complete, closedUp, raised, tangled>>

(* _save_progress has ended, whether it saved or not; an aclose releases.   *)
Saved(c) ==
  /\ Stops(ops[c].op) /\ ops[c].step = Len(Parts) + 1
  /\ closedUp' = (closedUp \/ ops[c].op = "aclose")
  /\ raised' = FALSE
  /\ Done(c)
  /\ UNCHANGED <<flagVars, partVars, complete, tangled>>

-----------------------------------------------------------------------------
EngNext ==
  \/ Completes
  \/ \E c \in Callees :
       \/ StartCall(c) \/ Prepared(c) \/ PrepareFails(c) \/ Bound(c) \/ BindFails(c)
       \/ PauseCall(c) \/ StopCall(c, "stop") \/ StopCall(c, "aclose") \/ PartEnded(c) \/ Saved(c)

EngSpec == EngInit /\ [][EngNext]_engVars

-----------------------------------------------------------------------------
(* Properties.  What overlapping starts leave wrong is put right by the     *)
(* next pause or stop that is not refused and that no start overlaps.       *)

EngineCalls == [op : {"none", "start", "pause", "stop", "aclose"}, step : 0 .. Len(Parts) + 1,
          waits : {"nothing", "task", "gone"}]

EngTypeOK ==
  /\ running \in BOOLEAN /\ paused \in BOOLEAN /\ startedOnce \in BOOLEAN
  /\ stopped \in BOOLEAN /\ failed \in BOOLEAN /\ bound \in BOOLEAN
  /\ quitting \in BOOLEAN /\ complete \in BOOLEAN /\ closedUp \in BOOLEAN
  /\ raised \in BOOLEAN /\ tangled \in BOOLEAN
  /\ handles \subseteq AllParts /\ alive \subseteq AllParts /\ stray \subseteq AllParts
  /\ ops \in [Callees -> EngineCalls]

(* When no call is under way, an engine that is paused or stopped has       *)
(* nothing that runs, no port, and no handle of a task: however its stops   *)
(* overlapped, and whatever failed.                                         *)
StoppedIsDown ==
  Quiet /\ (paused \/ ~running) /\ ~tangled =>
    alive = {} /\ stray = {} /\ ~bound /\ handles = {}

(* When no call is under way, an engine that runs has every part running,   *)
(* however often it was paused and stopped, unless a start raised and       *)
(* nobody has stopped it since.                                             *)
RunningIsUp ==
  Quiet /\ running /\ ~paused /\ ~raised /\ ~tangled =>
    bound /\ alive \cup (IF complete THEN {"download"} ELSE {}) = AllParts

(* Once storage and trackers are released, what still runs is what a stop   *)
(* under way has yet to end.                                                *)
ReleasedLast ==
  closedUp /\ ~tangled => alive = {} \/ \E c \in Callees : Stops(ops[c].op)

(* "A torrent must not be double-started" (torrent_service.py:9): however   *)
(* the calls overlap, no task is started beside one that nobody is ending.  *)
StartedOnce == Tasks \cap alive \cap stray = {} /\ stray \subseteq {"peers", "listener"}

(* What engine.py:214 says of running, "Whether the engine is up": false     *)
(* after the listener failed to bind, and from then on a start returns at   *)
(* once.                                                                    *)
RunningMeansUp == Quiet /\ running /\ ~paused => bound

(* A stop, "safe to call twice" (engine.py:308), that has returned has      *)
(* stopped everything: false when a start that waits for its files or for   *)
(* the port goes on after it; and every later stop is refused.              *)
StopIsHeard == Quiet /\ stopped => alive = {}

(* Nothing that uses the storage runs or ends once it is released: false of *)
(* an aclose that finds the engine stopped and does not wait for the stop.  *)
NothingOutlivesStorage ==
  closedUp => alive = {} /\ \A c \in Callees, n \in DOMAIN Parts : ~Awaits(c, n)
=============================================================================
