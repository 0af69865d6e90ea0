---------------------------- MODULE ServiceProofs ---------------------------
(***************************************************************************)
(* Machine-checked proofs about what runs the torrents and shows them: the *)
(* life of an engine (EngineLife) and of the session it is in (Session),   *)
(* for any number of overlapping calls; the feed of its events to the      *)
(* window (EventBridge), for any number of emitting threads and any        *)
(* capacity; what is on disk when a client or a command ends (Settings,    *)
(* Desktop, CommandLine); and the recheck of the pieces believed complete, *)
(* by a pool of threads that hash (HashPool).                              *)
(***************************************************************************)
EXTENDS Session, EngineLife, EventBridge, Settings, CommandLine, Desktop, HashPool,
        SequenceTheorems, FiniteSetTheorems, WellFoundedInduction, TLAPS

-----------------------------------------------------------------------------
(* The engine: its flags are true when a start has it to itself, and what   *)
(* overlapping starts leave is put right by the next stop that is heard.    *)

Down == alive = {} /\ handles = {} /\ ~bound

(* Part i is over for a stop that has come this far.                        *)
IsOver(i, call) ==
  i < call.step \/ (i = call.step /\ (i \notin {4, 5} \/ call.waits # "task"))

CallsAreReal ==
  \A c \in Callees :
    \/ ops[c] = NoOp
    \/ ops[c].op = "start" /\ ops[c].step \in 1 .. 2
    \/ /\ Stops(ops[c].op) /\ ops[c].step \in 1 .. 7
       /\ ops[c].waits = "gone" => ops[c].step = 5

QuittingIsAwaited == quitting => \E c \in Callees : Awaits(c, 1)

StraysAre ==
  /\ stray \subseteq {"peers", "listener"}
  /\ "peers" \in stray => "peers" \notin alive \cup handles

StartsAreAlone ==
  \A c \in Callees : ops[c].op = "start" =>
    /\ \A d \in Callees : c # d => ops[d] = NoOp
    /\ ~stopped /\ ~paused /\ (ops[c].step = 2 => running) /\ Down

StopsGoOn ==
  \A c \in Callees : Stops(ops[c].op) =>
    /\ paused \/ ~running
    /\ \A i \in 1 .. 6 : IsOver(i, ops[c]) => Parts[i] \notin handles
    /\ ops[c].step = 7 => ~bound

DownOrUp ==
  Quiet => IF paused \/ ~running THEN Down
           ELSE raised \/ (bound /\ alive \cup (IF complete THEN {"download"} ELSE {}) = AllParts)

Tidy ==
  /\ stray = {} /\ alive \subseteq handles
  /\ stopped \/ closedUp => paused \/ ~running
  /\ closedUp => \A c \in Callees : ops[c].op # "start"
  /\ StartsAreAlone /\ StopsGoOn /\ DownOrUp

LifeInv ==
  EngTypeOK /\ CallsAreReal /\ QuittingIsAwaited /\ StraysAre /\ (~tangled => Tidy)

LEMMA PartsAre ==
  /\ DOMAIN Parts = 1 .. 6 /\ Len(Parts) = 6
  /\ Parts[1] = "metrics" /\ Parts[2] = "download" /\ Parts[3] = "upload"
  /\ Parts[4] = "tracker" /\ Parts[5] = "peers" /\ Parts[6] = "listener"
  /\ AllParts = {Parts[i] : i \in 1 .. 6}
BY DEF Parts, AllParts, Tasks

LEMMA TakesAre ==
  /\ Takes(1) = {"metrics"} /\ Takes(2) = {"download"} /\ Takes(3) = {"upload"}
  /\ Takes(4) = {} /\ Takes(5) = {} /\ Takes(6) = {"listener"} /\ Takes(7) = {}
BY PartsAre DEF Takes

LEMMA StartTasksDoes ==
  ASSUME LifeInv, NEW c \in Callees, NEW held \in SUBSET AllParts, NEW live \in SUBSET AllParts,
         StartTasks(c, held, live)
  PROVE  /\ handles' \subseteq AllParts /\ alive' \subseteq AllParts
         /\ bound' = TRUE /\ raised' \in BOOLEAN /\ quitting' = quitting
         /\ ops' = [ops EXCEPT ![c] = NoOp]
         /\ "peers" \in stray /\ "peers" \notin held \cup live => "peers" \notin alive' \cup handles'
         /\ held = {"listener"} /\ live = held /\ "peers" \notin stray /\ ~quitting =>
              alive' = AllParts /\ handles' = AllParts
<1>1. /\ bound' = TRUE /\ quitting' = quitting /\ ops' = [ops EXCEPT ![c] = NoOp]
      /\ raised \in BOOLEAN
  BY DEF StartTasks, Done, LifeInv, EngTypeOK
<1>2. CASE "peers" \notin held /\ "peers" \in live \cup stray
  <2>1. handles' = held /\ alive' = live /\ raised' = TRUE
    BY <1>2 DEF StartTasks
  <2>2. held = {"listener"} /\ live = held => "peers" \in stray
    BY <1>2
  <2> QED
    BY <1>1, <2>1, <2>2
<1>3. CASE ~("peers" \notin held /\ "peers" \in live \cup stray)
  <2>1. /\ handles' = held \cup (Tasks \ held) /\ raised' = raised
        /\ \E over \in {{}} \cup (IF quitting THEN {{"metrics"}} ELSE {}) :
             alive' = live \cup ((Tasks \ held) \ over)
    BY <1>3 DEF StartTasks
  <2>2. Tasks \subseteq AllParts /\ AllParts = Tasks \cup {"listener"} /\ "listener" \notin Tasks
    BY DEF Tasks, AllParts
  <2>3. "peers" \in stray => "peers" \in held
    BY <1>3
  <2>4. ASSUME held = {"listener"}, live = held, ~quitting
        PROVE  alive' = AllParts /\ handles' = AllParts
    BY <2>1, <2>2, <2>4
  <2>5. handles' \subseteq AllParts /\ alive' \subseteq AllParts
    BY <2>1, <2>2
  <2> QED
    BY <1>1, <2>1, <2>3, <2>4, <2>5
<1> QED
  BY <1>2, <1>3

(* What a step of a start that has or has not the engine to itself comes to *)
(* and how the parts it may have started fit what was there.                *)
LEMMA StartMoves ==
  ASSUME LifeInv, NEW c \in Callees, ~Stops(ops[c].op),
         running' \in BOOLEAN, paused' \in BOOLEAN, startedOnce' \in BOOLEAN,
         stopped' \in BOOLEAN, failed' \in BOOLEAN, tangled' \in BOOLEAN,
         complete' = complete, closedUp' = closedUp,
         \/ /\ \E n \in {1, 2} : Waits(c, n) /\ (n = 2 => running')
            /\ UNCHANGED <<partVars, raised>>
         \/ /\ Done(c) /\ UNCHANGED partVars
            /\ raised' = TRUE
         \/ /\ StartTasks(c, handles, alive) /\ stray' = stray /\ running'
            /\ bound \/ "listener" \in handles
         \/ /\ StartTasks(c, handles \cup {"listener"}, alive \cup {"listener"})
            /\ ops[c].op = "start" /\ ops[c].step = 2
            /\ stray' = stray \cup ({"listener"} \cap handles),
         ~tangled' => /\ ~paused' /\ ~stopped' /\ ~closedUp /\ Tidy /\ Down
                      /\ \A d \in Callees : d # c => ops[d] = NoOp
                      /\ ops[c].op = "start" /\ ops[c].step = 2 => running'
  PROVE  LifeInv'
<1>0. /\ "listener" \in AllParts /\ handles \subseteq AllParts /\ alive \subseteq AllParts
      /\ stray \subseteq AllParts
      /\ ops \in [Callees -> EngineCalls] /\ bound \in BOOLEAN /\ quitting \in BOOLEAN
      /\ complete \in BOOLEAN /\ closedUp \in BOOLEAN /\ raised \in BOOLEAN
  BY DEF LifeInv, EngTypeOK, AllParts
<1>1. ASSUME NEW call \in {NoOp, [op |-> "start", step |-> 1, waits |-> "nothing"],
                            [op |-> "start", step |-> 2, waits |-> "nothing"]},
             ops' = [ops EXCEPT ![c] = call],
             call.step = 2 => running',
             raised' \in BOOLEAN, quitting' = quitting, stray' \subseteq {"peers", "listener"},
             handles' \subseteq AllParts, alive' \subseteq AllParts, bound' \in BOOLEAN,
             "peers" \in stray' => "peers" \notin alive' \cup handles',
             ~tangled' => /\ stray' = {} /\ alive' \subseteq handles'
                          /\ call # NoOp => Down'
                          /\ \/ Down' /\ (call = NoOp => raised')
                             \/ running' /\ bound' /\ alive' = AllParts
      PROVE  LifeInv'
  <2>1. /\ ops'[c] = call
        /\ \A d \in Callees : d # c => ops'[d] = ops[d]
    BY <1>0, <1>1
  <2>2. EngTypeOK'
    <3>1. ops' \in [Callees -> EngineCalls]
      <4>1. call \in EngineCalls
        BY PartsAre DEF EngineCalls, NoOp
      <4> QED
        BY <1>0, <1>1, <4>1
    <3>2. stray' \subseteq AllParts
      BY <1>1 DEF AllParts, Tasks
    <3>3. quitting' \in BOOLEAN /\ complete' \in BOOLEAN /\ closedUp' \in BOOLEAN
      BY <1>0, <1>1
    <3> QED
      BY <1>1, <3>1, <3>2, <3>3 DEF EngTypeOK
  <2>3. CallsAreReal'
    BY <2>1 DEF LifeInv, CallsAreReal, NoOp
  <2>4. QuittingIsAwaited'
    <3>1. ASSUME quitting' PROVE \E d \in Callees : Awaits(d, 1)'
      <4>1. PICK d \in Callees : Awaits(d, 1)
        BY <1>1, <3>1 DEF LifeInv, QuittingIsAwaited
      <4>2. d # c
        BY <4>1 DEF Awaits
      <4> QED
        BY <2>1, <4>1, <4>2 DEF Awaits
    <3> QED
      BY <3>1 DEF QuittingIsAwaited
  <2>5. StraysAre'
    BY <1>1 DEF StraysAre
  <2>6. ASSUME ~tangled' PROVE Tidy'
    <3>1. \A d \in Callees : d # c => ops'[d] = NoOp
      BY <2>1, <2>6
    <3>2. StartsAreAlone'
      BY <1>1, <2>1, <2>6, <3>1 DEF StartsAreAlone, NoOp
    <3>3. StopsGoOn'
      BY <2>1, <3>1 DEF StopsGoOn, NoOp, Stops
    <3>4. DownOrUp'
      <4>1. Quiet' => call = NoOp
        BY <2>1 DEF Quiet
      <4>2. alive' = AllParts => alive' \cup (IF complete' THEN {"download"} ELSE {}) = AllParts
        BY DEF AllParts, Tasks
      <4> QED
        BY <1>1, <2>6, <4>1, <4>2, Zenon DEF DownOrUp
    <3> QED
      BY <1>1, <2>6, <3>2, <3>3, <3>4 DEF Tidy
  <2> QED
    BY <2>2, <2>3, <2>4, <2>5, <2>6 DEF LifeInv
<1>2. CASE \E n \in {1, 2} : Waits(c, n) /\ (n = 2 => running') /\ UNCHANGED <<partVars, raised>>
  <2>1. PICK n \in {1, 2} : Waits(c, n) /\ (n = 2 => running') /\ UNCHANGED <<partVars, raised>>
    BY <1>2
  <2>2. /\ UNCHANGED <<bound, handles, alive, stray, quitting, raised>>
        /\ ops' = [ops EXCEPT ![c] = [op |-> "start", step |-> n, waits |-> "nothing"]]
    BY <2>1 DEF partVars, Waits
  <2>3. ~tangled' => stray' = {} /\ alive' \subseteq handles' /\ Down'
    BY <2>2 DEF Tidy, Down
  <2>4. stray' \subseteq {"peers", "listener"} /\ ("peers" \in stray' => "peers" \notin alive' \cup handles')
    BY <2>2 DEF LifeInv, StraysAre
  <2> QED
    BY <1>0, <1>1, <2>1, <2>2, <2>3, <2>4 DEF NoOp
<1>7. NoOp.step # 2
  BY DEF NoOp
<1>3. CASE Done(c) /\ UNCHANGED partVars /\ raised' = TRUE
  <2>1. /\ UNCHANGED <<bound, handles, alive, stray, quitting>>
        /\ ops' = [ops EXCEPT ![c] = NoOp]
    BY <1>3 DEF partVars, Done
  <2>3. ~tangled' => stray' = {} /\ alive' \subseteq handles' /\ Down'
    BY <2>1 DEF Tidy, Down
  <2>4. stray' \subseteq {"peers", "listener"} /\ ("peers" \in stray' => "peers" \notin alive' \cup handles')
    BY <2>1 DEF LifeInv, StraysAre
  <2> QED
    BY <1>0, <1>1, <1>3, <1>7, <2>1, <2>3, <2>4
<1>4. ASSUME NEW held \in SUBSET AllParts, NEW live \in SUBSET AllParts, StartTasks(c, held, live),
             stray' \subseteq stray \cup {"listener"}, "peers" \in held \cup live => "peers" \in handles \cup alive,
             ~tangled' => running' /\ held = {"listener"} /\ live = held /\ stray' = {}
      PROVE  LifeInv'
  <2>1. /\ handles' \subseteq AllParts /\ alive' \subseteq AllParts
        /\ bound' = TRUE /\ raised' \in BOOLEAN /\ quitting' = quitting
        /\ ops' = [ops EXCEPT ![c] = NoOp]
        /\ "peers" \in stray /\ "peers" \notin held \cup live => "peers" \notin alive' \cup handles'
        /\ held = {"listener"} /\ live = held /\ "peers" \notin stray /\ ~quitting =>
             alive' = AllParts /\ handles' = AllParts
    BY <1>4, StartTasksDoes
  <2>2. ~tangled' => ~quitting
    <3>1. ASSUME ~tangled', quitting PROVE FALSE
      <4>1. PICK d \in Callees : Awaits(d, 1)
        BY <3>1 DEF LifeInv, QuittingIsAwaited
      <4>2. d = c
        BY <3>1, <4>1 DEF Awaits, NoOp, Stops
      <4> QED
        BY <4>1, <4>2 DEF Awaits
    <3> QED
      BY <3>1
  <2>3. ~tangled' => "peers" \notin stray /\ alive' = AllParts /\ handles' = AllParts
    BY <1>4, <2>1, <2>2 DEF Tidy
  <2>4. stray' \subseteq {"peers", "listener"} /\ ("peers" \in stray' => "peers" \notin alive' \cup handles')
    BY <1>4, <2>1 DEF LifeInv, StraysAre
  <2> QED
    BY <1>1, <1>4, <1>7, <2>1, <2>3, <2>4
<1>5. CASE /\ StartTasks(c, handles, alive) /\ stray' = stray /\ running'
           /\ bound \/ "listener" \in handles
  <2>1. tangled'
    BY <1>5 DEF Down
  <2> QED
    BY <1>0, <1>4, <1>5, <2>1
<1>6. CASE /\ StartTasks(c, handles \cup {"listener"}, alive \cup {"listener"})
           /\ ops[c].op = "start" /\ ops[c].step = 2
           /\ stray' = stray \cup ({"listener"} \cap handles)
  <2>1. ~tangled' => /\ handles \cup {"listener"} = {"listener"} /\ alive \cup {"listener"} = {"listener"}
                     /\ stray' = {}
    BY <1>6 DEF Down, Tidy
  <2> QED
    BY <1>0, <1>4, <1>6, <2>1
<1> QED
  BY <1>2, <1>3, <1>5, <1>6

LEMMA StartKeeps ==
  ASSUME LifeInv, NEW c \in Callees,
         StartCall(c) \/ Prepared(c) \/ PrepareFails(c) \/ Bound(c) \/ BindFails(c)
  PROVE  LifeInv'
<1>0. /\ running \in BOOLEAN /\ paused \in BOOLEAN /\ startedOnce \in BOOLEAN
      /\ stopped \in BOOLEAN /\ failed \in BOOLEAN /\ tangled \in BOOLEAN
  BY DEF LifeInv, EngTypeOK
<1>1. ~Stops(ops[c].op)
  BY DEF StartCall, Prepared, PrepareFails, Bound, BindFails, NoOp, Stops
<1>2. CASE StartCall(c)
  <2>1. /\ ops[c] = NoOp /\ (~running \/ paused)
        /\ paused' = FALSE /\ stopped' = FALSE /\ failed' = FALSE
        /\ tangled' = (tangled \/ ~Quiet \/ closedUp)
        /\ UNCHANGED <<startedOnce, complete, closedUp>>
    BY <1>2 DEF StartCall, Tangles
  <2>2. ~tangled' => /\ Tidy /\ Down /\ ~closedUp /\ \A d \in Callees : d # c => ops[d] = NoOp
    BY <2>1 DEF LifeInv, Tidy, DownOrUp, Quiet
  <2>3. \/ /\ Waits(c, 1) /\ running' = running /\ UNCHANGED <<partVars, raised>>
        \/ GoOn(c)
    BY <1>2 DEF StartCall
  <2>4. running' \in BOOLEAN
    BY <1>0, <2>3 DEF GoOn
  <2>5. GoOn(c) => \/ Waits(c, 2) /\ running' /\ UNCHANGED <<partVars, raised>>
                   \/ /\ StartTasks(c, handles, alive) /\ stray' = stray /\ running'
                      /\ bound \/ "listener" \in handles
    BY DEF GoOn
  <2>6. ~(ops[c].op = "start" /\ ops[c].step = 2)
    BY <2>1 DEF NoOp
  <2>7. tangled' \in BOOLEAN /\ startedOnce' \in BOOLEAN /\ paused' \in BOOLEAN
        /\ stopped' \in BOOLEAN /\ failed' \in BOOLEAN
    BY <1>0, <2>1
  <2> QED
    <3>1. CASE Waits(c, 1) /\ UNCHANGED <<partVars, raised>>
      <4>1. \E n \in {1, 2} : Waits(c, n) /\ (n = 2 => running')
        BY <3>1
      <4> QED
        BY <1>1, <2>1, <2>2, <2>4, <2>6, <2>7, <3>1, <4>1, StartMoves
    <3>2. CASE Waits(c, 2) /\ running' /\ UNCHANGED <<partVars, raised>>
      <4>1. \E n \in {1, 2} : Waits(c, n) /\ (n = 2 => running')
        BY <3>2
      <4> QED
        BY <1>1, <2>1, <2>2, <2>4, <2>6, <2>7, <3>2, <4>1, StartMoves
    <3>3. CASE /\ StartTasks(c, handles, alive) /\ stray' = stray /\ running'
               /\ bound \/ "listener" \in handles
      BY <1>1, <2>1, <2>2, <2>4, <2>6, <2>7, <3>3, StartMoves
    <3> QED
      BY <2>3, <2>5, <3>1, <3>2, <3>3
<1>3. CASE ~StartCall(c)
  <2>1. /\ ops[c].op = "start" /\ ops[c] # NoOp
        /\ UNCHANGED <<paused, stopped, complete, closedUp, tangled>>
    BY <1>3 DEF Prepared, PrepareFails, Bound, BindFails, flagVars, NoOp
  <2>2. ~tangled' => /\ Tidy /\ Down /\ ~closedUp /\ ~paused' /\ ~stopped'
                     /\ \A d \in Callees : d # c => ops[d] = NoOp
                     /\ ops[c].step = 2 => running
    BY <2>1 DEF LifeInv, Tidy, StartsAreAlone
  <2>3. /\ running' \in BOOLEAN /\ startedOnce' \in BOOLEAN /\ failed' \in BOOLEAN
        /\ paused' \in BOOLEAN /\ stopped' \in BOOLEAN /\ tangled' \in BOOLEAN
    BY <1>0, <1>3, <2>1 DEF Prepared, PrepareFails, Bound, BindFails, flagVars, GoOn
  <2>4. CASE Prepared(c)
    <3>1. \/ Waits(c, 2) /\ running' /\ UNCHANGED <<partVars, raised>>
          \/ /\ StartTasks(c, handles, alive) /\ stray' = stray /\ running'
             /\ bound \/ "listener" \in handles
      BY <2>4 DEF Prepared, GoOn
    <3>2. ops[c].step # 2
      BY <2>4 DEF Prepared
    <3> QED
      BY <1>1, <2>1, <2>2, <2>3, <3>1, <3>2, StartMoves
  <2>5. CASE PrepareFails(c)
    <3>1. Done(c) /\ UNCHANGED partVars /\ raised' = TRUE /\ ops[c].step # 2
      BY <2>5 DEF PrepareFails
    <3> QED
      BY <1>1, <2>1, <2>2, <2>3, <3>1, StartMoves
  <2>6. CASE Bound(c)
    <3>1. /\ StartTasks(c, handles \cup {"listener"}, alive \cup {"listener"})
          /\ stray' = stray \cup ({"listener"} \cap handles) /\ running' = running
          /\ ops[c].step = 2
      BY <2>6 DEF Bound, flagVars
    <3> QED
      BY <1>1, <2>1, <2>2, <2>3, <2>6, <3>1, StartMoves
  <2>7. CASE BindFails(c)
    <3>1. Done(c) /\ UNCHANGED partVars /\ raised' = TRUE /\ running' = running
      BY <2>7 DEF BindFails, flagVars
    <3> QED
      BY <1>1, <2>1, <2>2, <2>3, <3>1, StartMoves
  <2> QED
    BY <1>3, <2>4, <2>5, <2>6, <2>7
<1> QED
  BY <1>2, <1>3

LEMMA StopCallKeeps ==
  ASSUME LifeInv, NEW c \in Callees,
         PauseCall(c) \/ StopCall(c, "stop") \/ StopCall(c, "aclose")
  PROVE  LifeInv'
<1>1. PICK op \in {"pause", "stop", "aclose"} :
        IF op = "pause" THEN PauseCall(c) ELSE StopCall(c, op)
  OBVIOUS
<1>2. ops[c] = NoOp /\ raised' = raised /\ complete' = complete
  BY <1>1 DEF PauseCall, StopCall
<1>3. CASE op # "pause" /\ stopped
  <2>1. /\ UNCHANGED <<running, paused, startedOnce, stopped, failed>>
        /\ UNCHANGED <<bound, handles, alive, stray, quitting, ops>>
        /\ closedUp' = (closedUp \/ op = "aclose")
        /\ tangled' = (tangled \/ \E d \in Callees : ops[d].op = "start")
    BY <1>1, <1>3 DEF StopCall, flagVars, partVars
  <2>2. EngTypeOK'
    <3>1. closedUp' \in BOOLEAN /\ tangled' \in BOOLEAN
      BY <2>1
    <3> QED
      BY <1>2, <2>1, <3>1, Zenon DEF LifeInv, EngTypeOK
  <2>3. CallsAreReal' /\ QuittingIsAwaited' /\ StraysAre'
    BY <2>1 DEF LifeInv, CallsAreReal, QuittingIsAwaited, StraysAre, Awaits
  <2>4. ASSUME ~tangled' PROVE Tidy'
    <3>1. Tidy /\ \A d \in Callees : ops[d].op # "start"
      BY <2>1, <2>4 DEF LifeInv
    <3>2. StartsAreAlone' /\ StopsGoOn'
      BY <2>1, <3>1 DEF Tidy, StartsAreAlone, StopsGoOn, IsOver, Down
    <3>3. DownOrUp'
      BY <1>2, <2>1, <3>1, Zenon DEF Tidy, DownOrUp, Quiet, Down
    <3> QED
      BY <1>3, <2>1, <3>1, <3>2, <3>3 DEF Tidy
  <2> QED
    BY <2>2, <2>3, <2>4 DEF LifeInv
<1>4. CASE op = "pause" \/ ~stopped
  <2>1. StopBegins(c, op) /\ UNCHANGED <<startedOnce, failed, bound, stray, closedUp>>
    BY <1>1, <1>4 DEF PauseCall, StopCall
  <2>2. /\ ops' = [ops EXCEPT ![c] = AtPart(op, 1, handles)]
        /\ handles' = handles \ {"metrics"} /\ alive' = alive \ {"metrics"}
        /\ quitting' = (quitting \/ "metrics" \in handles)
        /\ tangled' = IF Quiet THEN Lost # {} ELSE tangled \/ \E d \in Callees : ops[d].op = "start"
    BY <2>1, TakesAre DEF StopBegins, Tangles
  <2>3. /\ paused' \/ ~running'
        /\ running' \in BOOLEAN /\ paused' \in BOOLEAN /\ stopped' \in BOOLEAN
    BY <1>1, <1>4 DEF LifeInv, EngTypeOK, PauseCall, StopCall
  <2>4. /\ AtPart(op, 1, handles) \in EngineCalls
        /\ AtPart(op, 1, handles).op = op /\ AtPart(op, 1, handles).step = 1
        /\ AtPart(op, 1, handles).waits \in {"nothing", "task"}
        /\ "metrics" \in handles => AtPart(op, 1, handles).waits = "task"
    BY PartsAre DEF AtPart, EngineCalls
  <2>5. /\ ops'[c] = AtPart(op, 1, handles)
        /\ \A d \in Callees : d # c => ops'[d] = ops[d]
        /\ Stops(op) /\ op # "start" /\ op # "none"
        /\ ops' \in [Callees -> EngineCalls]
    BY <2>2, <2>4 DEF LifeInv, EngTypeOK, Stops
  <2>6. EngTypeOK'
    <3>1. quitting' \in BOOLEAN /\ tangled' \in BOOLEAN
      BY <2>2 DEF LifeInv, EngTypeOK
    <3>2. handles' \subseteq AllParts /\ alive' \subseteq AllParts
      BY <2>2 DEF LifeInv, EngTypeOK
    <3> QED
      BY <1>2, <2>1, <2>3, <2>5, <3>1, <3>2, Zenon DEF LifeInv, EngTypeOK
  <2>7. CallsAreReal'
    <3>1. ops'[c].waits # "gone" /\ ops'[c].step \in 1 .. 7
      BY <2>4, <2>5
    <3> QED
      BY <2>4, <2>5, <3>1 DEF LifeInv, CallsAreReal
  <2>8. QuittingIsAwaited'
    <3>1. CASE "metrics" \in handles
      BY <2>4, <2>5, <3>1 DEF QuittingIsAwaited, Awaits
    <3>2. CASE "metrics" \notin handles
      <4>1. \A d \in Callees : Awaits(d, 1) => Awaits(d, 1)'
        BY <1>2, <2>5 DEF Awaits, NoOp, Stops
      <4> QED
        BY <2>2, <3>2, <4>1 DEF LifeInv, QuittingIsAwaited
    <3> QED
      BY <3>1, <3>2
  <2>9. StraysAre'
    BY <2>1, <2>2 DEF LifeInv, StraysAre
  <2>10. ASSUME ~tangled' PROVE Tidy'
    <3>1. /\ stray = {} /\ alive \subseteq handles
          /\ \A d \in Callees : ops[d].op # "start"
          /\ Quiet \/ Tidy
      <4>1. CASE Quiet
        <5>1. stray = {} /\ alive \ handles = {}
          BY <2>2, <2>10, <4>1 DEF Lost
        <5> QED
          BY <4>1, <5>1 DEF Quiet, NoOp
      <4>2. CASE ~Quiet
        BY <2>2, <2>10, <4>2 DEF LifeInv, Tidy
      <4> QED
        BY <4>1, <4>2
    <3>2. StartsAreAlone' /\ \A d \in Callees : ops'[d].op # "start"
      BY <2>4, <2>5, <3>1 DEF StartsAreAlone
    <3>3. StopsGoOn'
      <4>1. \A i \in 1 .. 6 : IsOver(i, ops'[c]) => i = 1
        BY <2>4, <2>5 DEF IsOver
      <4>2. \A d \in Callees : d # c /\ Stops(ops'[d].op) =>
              /\ \A i \in 1 .. 6 : IsOver(i, ops'[d]) => Parts[i] \notin handles'
              /\ ops'[d].step = 7 => ~bound'
        BY <2>1, <2>2, <2>5, <3>1 DEF Tidy, StopsGoOn, Quiet, NoOp, Stops
      <4>3. /\ \A i \in 1 .. 6 : IsOver(i, ops'[c]) => Parts[i] \notin handles'
            /\ ops'[c].step # 7
        BY <2>2, <2>4, <2>5, <4>1, PartsAre
      <4> QED
        BY <2>3, <4>2, <4>3 DEF StopsGoOn
    <3>4. ~Quiet'
      BY <2>4, <2>5 DEF Quiet, NoOp
    <3> QED
      BY <2>1, <2>2, <2>3, <3>1, <3>2, <3>3, <3>4 DEF Tidy, DownOrUp
  <2> QED
    BY <2>6, <2>7, <2>8, <2>9, <2>10 DEF LifeInv
<1> QED
  BY <1>3, <1>4

LEMMA SavedKeeps ==
  ASSUME LifeInv, NEW c \in Callees, Saved(c)
  PROVE  LifeInv'
<1>1. /\ Stops(ops[c].op) /\ ops[c].step = 7
      /\ ops' = [ops EXCEPT ![c] = NoOp]
      /\ closedUp' = (closedUp \/ ops[c].op = "aclose")
      /\ raised' = FALSE
      /\ UNCHANGED <<running, paused, startedOnce, stopped, failed>>
      /\ UNCHANGED <<bound, handles, alive, stray, quitting, complete, tangled>>
  BY PartsAre DEF Saved, Done, flagVars, partVars
<1>2. /\ ops'[c] = NoOp
      /\ \A d \in Callees : d # c => ops'[d] = ops[d]
      /\ ops[c] # NoOp /\ ops[c].op # "start"
  BY <1>1 DEF LifeInv, EngTypeOK, NoOp, Stops
<1>3. EngTypeOK'
  <2>1. ops' \in [Callees -> EngineCalls]
    <3>1. NoOp \in EngineCalls
      BY PartsAre DEF NoOp, EngineCalls
    <3> QED
      BY <1>1, <3>1 DEF LifeInv, EngTypeOK
  <2>2. closedUp' \in BOOLEAN
    BY <1>1
  <2> QED
    BY <1>1, <2>1, <2>2, Zenon DEF LifeInv, EngTypeOK
<1>4. CallsAreReal' /\ QuittingIsAwaited' /\ StraysAre'
  BY <1>1, <1>2 DEF LifeInv, CallsAreReal, QuittingIsAwaited, StraysAre, Awaits
<1>5. ASSUME ~tangled PROVE Tidy'
  <2>1. /\ paused \/ ~running
        /\ \A i \in 1 .. 6 : IsOver(i, ops[c]) => Parts[i] \notin handles
        /\ ~bound /\ alive \subseteq handles
    BY <1>1, <1>5 DEF LifeInv, Tidy, StopsGoOn
  <2>2. \A i \in 1 .. 6 : IsOver(i, ops[c])
    BY <1>1 DEF IsOver
  <2>3. Down
    BY <2>1, <2>2, PartsAre DEF LifeInv, EngTypeOK, Down
  <2>4. \A d \in Callees : ops'[d].op # "start"
    BY <1>2, <1>5 DEF LifeInv, Tidy, StartsAreAlone, NoOp
  <2>5. StartsAreAlone' /\ StopsGoOn'
    BY <1>1, <1>2, <1>5, <2>4 DEF LifeInv, Tidy, StartsAreAlone, StopsGoOn, NoOp, Stops
  <2>6. DownOrUp'
    BY <1>1, <2>1, <2>3 DEF DownOrUp, Down
  <2> QED
    BY <1>1, <1>5, <2>1, <2>4, <2>5, <2>6 DEF LifeInv, Tidy
<1> QED
  BY <1>1, <1>3, <1>4, <1>5 DEF LifeInv

LEMMA CompletesKeeps ==
  ASSUME LifeInv, Completes
  PROVE  LifeInv'
<1>1. /\ "download" \in alive /\ complete' = TRUE /\ alive' = alive \ {"download"}
      /\ UNCHANGED <<running, paused, startedOnce, stopped, failed>>
      /\ UNCHANGED <<bound, handles, stray, quitting, closedUp, ops, raised, tangled>>
  BY DEF Completes, flagVars
<1>2. EngTypeOK'
  <2>1. alive' \subseteq AllParts /\ complete' \in BOOLEAN
    BY <1>1 DEF LifeInv, EngTypeOK
  <2> QED
    BY <1>1, <2>1, Zenon DEF LifeInv, EngTypeOK
<1>3. CallsAreReal' /\ QuittingIsAwaited' /\ StraysAre'
  BY <1>1 DEF LifeInv, CallsAreReal, QuittingIsAwaited, StraysAre, Awaits
<1>4. ASSUME ~tangled PROVE Tidy'
  <2>1. StartsAreAlone' /\ StopsGoOn'
    BY <1>1, <1>4 DEF LifeInv, Tidy, StartsAreAlone, StopsGoOn, Down, IsOver
  <2>2. DownOrUp'
    BY <1>1, <1>4 DEF LifeInv, Tidy, DownOrUp, Down, Quiet
  <2> QED
    BY <1>1, <1>4, <2>1, <2>2 DEF LifeInv, Tidy
<1> QED
  BY <1>1, <1>2, <1>3, <1>4 DEF LifeInv

(* One part has ended, and the next is told.                                *)
LEMMA PartEndedKeeps ==
  ASSUME LifeInv, NEW c \in Callees, PartEnded(c)
  PROVE  LifeInv'
<1> DEFINE n == ops[c].step
           held == handles \ Forgets(c)
           live == alive \ (IF ops[c].waits = "task" THEN Forgets(c) ELSE Strays(c))
           next(op) == AtPart(op, n + 1, held)
<1>1. /\ n \in 1 .. 6 /\ Stops(ops[c].op)
      /\ ops' = [d \in Callees |->
                   IF d \in Woken(c) THEN next(ops[d].op)
                   ELSE IF Awaits(c, 5) /\ Awaits(d, 5) THEN [ops[d] EXCEPT !.waits = "gone"]
                   ELSE ops[d]]
      /\ handles' = held \ Takes(n + 1) /\ alive' = live \ Takes(n + 1)
      /\ bound' = (bound /\ n < 6)
      /\ stray' = stray \cup Strays(c)
      /\ quitting' = (quitting /\ ~Awaits(c, 1))
      /\ UNCHANGED <<running, paused, startedOnce, stopped, failed>>
      /\ UNCHANGED <<complete, closedUp, raised, tangled>>
  BY PartsAre DEF PartEnded, flagVars
<1>2. /\ c \in Woken(c)
      /\ \A d \in Woken(c) : Stops(ops[d].op) /\ ops[d].step = n /\ (d = c \/ (n = 4 /\ Awaits(c, 4)))
  BY <1>1 DEF Woken, Awaits
<1>3. /\ Forgets(c) \subseteq {"tracker", "peers"} /\ Strays(c) \subseteq {"peers"} \cap alive
      /\ Strays(c) # {} => ops[c].waits = "gone" /\ n = 5
      /\ n \in {4, 5} /\ ops[c].waits # "nothing" => Forgets(c) = {Parts[n]}
      /\ ops[c].waits = "nothing" => Forgets(c) = {}
      /\ ops[c].waits = "gone" => n = 5
  <2>1. ops[c].waits = "gone" => n = 5
    BY <1>1 DEF LifeInv, CallsAreReal, NoOp, Stops
  <2>2. Strays(c) \subseteq {"peers"} \cap alive /\ (Strays(c) # {} => ops[c].waits = "gone")
    BY DEF Strays
  <2>3. /\ Forgets(c) \subseteq {"tracker", "peers"}
        /\ ops[c].waits = "nothing" => Forgets(c) = {}
        /\ n \in {4, 5} /\ ops[c].waits # "nothing" => Forgets(c) = {Parts[n]}
    BY PartsAre DEF Forgets
  <2> QED
    BY <2>1, <2>2, <2>3
<1>4. handles' \subseteq handles /\ alive' \subseteq alive /\ Forgets(c) \cap handles' = {}
  BY <1>1
<1>5. \A d \in Callees :
        /\ next(ops[d].op).op = ops[d].op /\ next(ops[d].op).step = n + 1
        /\ next(ops[d].op).waits \in {"nothing", "task"}
        /\ n < 6 /\ Parts[n + 1] \in held => next(ops[d].op).waits = "task"
        /\ ops[d] \in EngineCalls /\ next(ops[d].op) \in EngineCalls
  <2>1. \A d \in Callees : ops[d] \in EngineCalls
    BY DEF LifeInv, EngTypeOK
  <2> QED
    BY <1>1, <2>1, PartsAre DEF AtPart, EngineCalls
<1>6. ops' \in [Callees -> EngineCalls]
  <2>1. \A d \in Callees : [ops[d] EXCEPT !.waits = "gone"] \in EngineCalls
    BY <1>5 DEF EngineCalls
  <2> QED
    BY <1>1, <1>5, <2>1
<1>7. \A d \in Callees : d \notin Woken(c) =>
        /\ ops'[d].op = ops[d].op /\ ops'[d].step = ops[d].step
        /\ ~(Awaits(c, 5) /\ Awaits(d, 5)) => ops'[d] = ops[d]
        /\ Awaits(c, 5) /\ Awaits(d, 5) => ops'[d].waits = "gone" /\ ops'[d].step = 5 /\ Stops(ops'[d].op)
  <2>1. \A d \in Callees : ops[d] \in EngineCalls
    BY <1>5
  <2> QED
    BY <1>1, <2>1 DEF EngineCalls, Awaits
<1>8. \A d \in Woken(c) : d \in Callees /\ ops'[d] = next(ops[d].op)
  BY <1>1 DEF Woken
<1> HIDE DEF next
<1>9. EngTypeOK'
  <2>1. stray' \subseteq AllParts /\ handles' \subseteq AllParts /\ alive' \subseteq AllParts
    BY <1>1, <1>3, <1>4 DEF LifeInv, EngTypeOK
  <2>2. bound' \in BOOLEAN /\ quitting' \in BOOLEAN
    BY <1>1
  <2> QED
    BY <1>1, <1>6, <2>1, <2>2, Zenon DEF LifeInv, EngTypeOK
<1>10. CallsAreReal'
  <2>1. \A d \in Woken(c) : Stops(ops'[d].op) /\ ops'[d].step \in 1 .. 7 /\ ops'[d].waits # "gone"
    BY <1>1, <1>2, <1>5, <1>8
  <2>2. ASSUME NEW d \in Callees, d \notin Woken(c)
        PROVE  \/ ops'[d] = NoOp
               \/ ops'[d].op = "start" /\ ops'[d].step \in 1 .. 2
               \/ /\ Stops(ops'[d].op) /\ ops'[d].step \in 1 .. 7
                  /\ ops'[d].waits = "gone" => ops'[d].step = 5
    BY <1>7, <2>2 DEF LifeInv, CallsAreReal
  <2> QED
    BY <2>1, <2>2 DEF CallsAreReal
<1>11. QuittingIsAwaited'
  <2>1. ASSUME quitting' PROVE \E d \in Callees : Awaits(d, 1)'
    <3>1. quitting /\ ~Awaits(c, 1)
      BY <1>1, <2>1
    <3>2. PICK d \in Callees : Awaits(d, 1)
      BY <3>1 DEF LifeInv, QuittingIsAwaited
    <3>3. d \notin Woken(c) /\ ~Awaits(d, 5)
      BY <1>2, <3>1, <3>2 DEF Awaits
    <3> QED
      BY <1>7, <3>2, <3>3 DEF Awaits
  <2> QED
    BY <2>1 DEF QuittingIsAwaited
<1>12. StraysAre'
  <2>1. Strays(c) # {} => "peers" \notin alive' \cup handles'
    <3>1. ASSUME Strays(c) # {} PROVE "peers" \notin alive' \cup handles'
      <4>1. ops[c].waits = "gone" /\ Forgets(c) = {"peers"} /\ Strays(c) = {"peers"}
        BY <1>3, <3>1, PartsAre
      <4> QED
        BY <1>1, <4>1
    <3> QED
      BY <3>1
  <2> QED
    BY <1>1, <1>3, <1>4, <2>1 DEF LifeInv, StraysAre
<1>13. ASSUME ~tangled PROVE Tidy'
  <2>1. Tidy /\ ops[c] # NoOp /\ ops[c].op # "start"
    BY <1>1, <1>13 DEF LifeInv, NoOp, Stops
  <2>2. \A d \in Callees : ops[d].op # "start"
    BY <2>1 DEF Tidy, StartsAreAlone, NoOp
  <2>3. /\ paused \/ ~running
        /\ \A d \in Callees : Stops(ops[d].op) =>
             /\ \A i \in 1 .. 6 : IsOver(i, ops[d]) => Parts[i] \notin handles
             /\ ops[d].step = 7 => ~bound
    BY <1>1, <2>1 DEF Tidy, StopsGoOn
  <2>4. Strays(c) = {}
    <3>1. ASSUME Strays(c) # {} PROVE FALSE
      <4>1. n = 5 /\ ops[c].waits = "gone" /\ "peers" \in alive
        BY <1>3, <3>1
      <4>2. IsOver(5, ops[c])
        BY <4>1 DEF IsOver
      <4> QED
        BY <1>1, <2>1, <2>3, <4>1, <4>2, PartsAre DEF Tidy
    <3> QED
      BY <3>1
  <2>5. alive' \subseteq handles'
    <3>1. ops[c].waits = "gone" => "peers" \notin handles /\ Forgets(c) = {"peers"}
      <4>1. ops[c].waits = "gone" => IsOver(5, ops[c]) /\ Forgets(c) = {"peers"}
        BY <1>3, PartsAre DEF IsOver
      <4> QED
        BY <1>1, <2>3, <4>1, PartsAre
    <3>2. live \subseteq held
      <4>1. ops[c].waits \in {"nothing", "task", "gone"} /\ alive \subseteq handles
        BY <1>5, <2>1 DEF EngineCalls, Tidy
      <4> QED
        BY <1>3, <2>4, <3>1, <4>1
    <3> QED
      BY <1>1, <3>2
  <2>6. \A d \in Callees : ops'[d].op = ops[d].op
    BY <1>5, <1>7, <1>8
  <2>7. ASSUME NEW d \in Callees, Stops(ops'[d].op), NEW i \in 1 .. 6, IsOver(i, ops'[d])
        PROVE  Parts[i] \notin handles'
    <3>1. CASE d \in Woken(c)
      <4>1. /\ ops'[d].step = n + 1 /\ ops[d].step = n /\ Stops(ops[d].op)
            /\ n < 6 /\ Parts[n + 1] \in held => ops'[d].waits = "task"
        BY <1>2, <1>5, <1>8, <3>1
      <4>0. handles' = held \ Takes(n + 1)
        BY <1>1
      <4>7. n \in 1 .. 6
        BY <1>1
      <4>2. CASE i < n
        <5>1. IsOver(i, ops[d])
          BY <4>1, <4>2 DEF IsOver
        <5> QED
          BY <1>4, <2>3, <4>1, <5>1
      <4>3. CASE i = n
        <5>1. CASE n \in {4, 5} /\ ops[c].waits = "task"
          BY <1>3, <1>4, <4>3, <5>1
        <5>2. CASE ~(n \in {4, 5} /\ ops[c].waits = "task")
          <6>1. IsOver(n, ops[c])
            BY <5>2 DEF IsOver
          <6> QED
            BY <1>1, <1>4, <2>3, <4>3, <6>1
        <5> QED
          BY <5>1, <5>2
      <4>4. CASE i = n + 1 /\ n + 1 \notin {4, 5}
        <5>1. Takes(n + 1) = {Parts[n + 1]}
          BY <1>1, <4>4, TakesAre, PartsAre
        <5>2. Parts[n + 1] \notin handles'
          BY <4>0, <5>1
        <5> QED
          BY <4>4, <5>2
      <4>5. CASE i = n + 1 /\ n + 1 \in {4, 5}
        <5>1. ops'[d].waits # "task"
          <6>1. ops'[d].step = i /\ i \in 1 .. 6 /\ i \in {4, 5} /\ ~(i < i)
            BY <4>1, <4>5
          <6> QED
            BY <2>7, <6>1 DEF IsOver
        <5>2. Parts[n + 1] \notin held
          <6>1. n < 6
            BY <4>5, <4>7
          <6> QED
            BY <4>1, <5>1, <6>1
        <5>3. Parts[n + 1] \notin handles'
          BY <4>0, <5>2
        <5> QED
          BY <4>5, <5>3
      <4>6. i <= n + 1
        BY <2>7, <4>1, <4>7 DEF IsOver
      <4> QED
        BY <1>1, <4>2, <4>3, <4>4, <4>5, <4>6
    <3>2. CASE d \notin Woken(c)
      <4>1. CASE Awaits(c, 5) /\ Awaits(d, 5)
        <5>1. Forgets(c) = {"peers"}
          BY <1>3, <4>1, PartsAre DEF Awaits
        <5>2. i = 5 \/ IsOver(i, ops[d])
          BY <1>7, <2>7, <3>2, <4>1 DEF IsOver, Awaits
        <5> QED
          BY <1>4, <2>3, <4>1, <5>1, <5>2, PartsAre DEF Awaits
      <4>2. CASE ~(Awaits(c, 5) /\ Awaits(d, 5))
        BY <1>4, <1>7, <2>3, <2>7, <3>2, <4>2
      <4> QED
        BY <4>1, <4>2
    <3> QED
      BY <3>1, <3>2
  <2>8. ASSUME NEW d \in Callees, Stops(ops'[d].op), ops'[d].step = 7
        PROVE  ~bound'
    <3>1. CASE d \in Woken(c)
      <4>1. n + 1 = 7
        BY <1>5, <1>8, <2>8, <3>1
      <4>2. ~(n < 6)
        BY <1>1, <4>1
      <4> QED
        BY <1>1, <4>2
    <3>2. CASE d \notin Woken(c)
      BY <1>1, <1>7, <2>3, <2>8, <3>2
    <3> QED
      BY <3>1, <3>2
  <2>9. StopsGoOn' /\ StartsAreAlone'
    <3>1. paused' = paused /\ running' = running
      BY <1>1
    <3>2. StopsGoOn'
      BY <2>3, <2>7, <2>8, <3>1 DEF StopsGoOn
    <3> QED
      BY <2>2, <2>6, <3>2 DEF StartsAreAlone
  <2>10. ~Quiet'
    <3>1. ops'[c].op = ops[c].op /\ Stops(ops[c].op)
      BY <1>1, <2>6
    <3>2. ops'[c].op # NoOp.op
      BY <3>1 DEF NoOp, Stops
    <3>3. ops'[c] # NoOp
      BY <3>2
    <3> QED
      BY <3>3 DEF Quiet
  <2> QED
    BY <1>1, <2>1, <2>2, <2>4, <2>5, <2>6, <2>9, <2>10 DEF Tidy, DownOrUp
<1> QED
  BY <1>1, <1>9, <1>10, <1>11, <1>12, <1>13 DEF LifeInv

LEMMA LifeInvStart == EngInit => LifeInv
<1>1. SUFFICES ASSUME EngInit PROVE LifeInv
  OBVIOUS
<1>2. /\ running = FALSE /\ paused = FALSE /\ startedOnce = FALSE /\ stopped = FALSE /\ failed = FALSE
      /\ bound = FALSE /\ handles = {} /\ alive = {} /\ stray = {} /\ quitting = FALSE
      /\ complete \in BOOLEAN /\ closedUp = FALSE /\ raised = FALSE /\ tangled = FALSE
      /\ ops = [c \in Callees |-> NoOp]
  BY <1>1 DEF EngInit, Assembled
<1>3. EngTypeOK
  <2>1. NoOp \in EngineCalls
    BY PartsAre DEF NoOp, EngineCalls
  <2> QED
    BY <1>2, <2>1 DEF EngTypeOK
<1>4. CallsAreReal /\ QuittingIsAwaited /\ StraysAre
  BY <1>2 DEF CallsAreReal, QuittingIsAwaited, StraysAre
<1>5. Tidy
  BY <1>2 DEF Tidy, StartsAreAlone, StopsGoOn, DownOrUp, Down, NoOp, Stops
<1> QED
  BY <1>3, <1>4, <1>5 DEF LifeInv

LEMMA LifeInvStep == LifeInv /\ [EngNext]_engVars => LifeInv'
<1>1. SUFFICES ASSUME LifeInv, [EngNext]_engVars PROVE LifeInv'
  OBVIOUS
<1>2. CASE Completes
  BY <1>1, <1>2, CompletesKeeps
<1>3. ASSUME NEW c \in Callees,
             StartCall(c) \/ Prepared(c) \/ PrepareFails(c) \/ Bound(c) \/ BindFails(c)
      PROVE  LifeInv'
  BY <1>1, <1>3, StartKeeps
<1>4. ASSUME NEW c \in Callees, PauseCall(c) \/ StopCall(c, "stop") \/ StopCall(c, "aclose")
      PROVE  LifeInv'
  BY <1>1, <1>4, StopCallKeeps
<1>5. ASSUME NEW c \in Callees, PartEnded(c) PROVE LifeInv'
  BY <1>1, <1>5, PartEndedKeeps
<1>6. ASSUME NEW c \in Callees, Saved(c) PROVE LifeInv'
  BY <1>1, <1>6, SavedKeeps
<1>7. CASE UNCHANGED engVars
  <2>1. /\ UNCHANGED <<running, paused, startedOnce, stopped, failed>>
        /\ UNCHANGED <<bound, handles, alive, stray, quitting>>
        /\ UNCHANGED <<complete, closedUp, ops, raised, tangled>>
    BY <1>7 DEF engVars, flagVars, partVars
  <2>2. EngTypeOK'
    BY <1>1, <2>1, Zenon DEF LifeInv, EngTypeOK
  <2>3. CallsAreReal' /\ QuittingIsAwaited' /\ StraysAre'
    BY <1>1, <2>1 DEF LifeInv, CallsAreReal, QuittingIsAwaited, StraysAre, Awaits
  <2>4. ASSUME ~tangled PROVE Tidy'
    BY <1>1, <2>1, <2>4
       DEF LifeInv, Tidy, StartsAreAlone, StopsGoOn, DownOrUp, Down, Quiet, IsOver
  <2> QED
    BY <2>1, <2>2, <2>3, <2>4 DEF LifeInv
<1> QED
  BY <1>1, <1>2, <1>3, <1>4, <1>5, <1>6, <1>7 DEF EngNext

LEMMA LifeInvAlways == EngSpec => []LifeInv
<1>1. EngInit => LifeInv
  BY LifeInvStart
<1>2. LifeInv /\ [EngNext]_engVars => LifeInv'
  BY LifeInvStep
<1> QED
  BY <1>1, <1>2, PTL DEF EngSpec

(* What LifeInv says of the engine between its calls, and of the tasks of   *)
(* starts that overlap.                                                     *)
LEMMA LifeInvSays ==
  LifeInv => StoppedIsDown /\ RunningIsUp /\ ReleasedLast /\ StartedOnce
<1>1. SUFFICES ASSUME LifeInv PROVE StoppedIsDown /\ RunningIsUp /\ ReleasedLast /\ StartedOnce
  OBVIOUS
<1>2. StoppedIsDown
  BY <1>1 DEF LifeInv, Tidy, StoppedIsDown, DownOrUp, Down
<1>3. RunningIsUp
  BY <1>1 DEF LifeInv, Tidy, RunningIsUp, DownOrUp
<1>4. ReleasedLast
  <2>1. SUFFICES ASSUME closedUp, ~tangled, \A c \in Callees : ~Stops(ops[c].op) PROVE alive = {}
    BY DEF ReleasedLast
  <2>2. Tidy
    BY <1>1, <2>1 DEF LifeInv
  <2>3. Quiet
    BY <1>1, <2>1, <2>2 DEF LifeInv, CallsAreReal, Tidy, Quiet
  <2> QED
    BY <2>1, <2>2, <2>3 DEF Tidy, DownOrUp, Down
<1>5. StartedOnce
  BY <1>1 DEF LifeInv, StraysAre, StartedOnce, Tasks
<1> QED
  BY <1>2, <1>3, <1>4, <1>5

(* The flags and the parts agree when no call is under way, and no task is  *)
(* started beside one that nobody is ending, however start, pause, stop and *)
(* aclose overlap (engine.py:272-346).                                      *)
THEOREM EngineIsAsItSaysAlways ==
  EngSpec => [](EngTypeOK /\ StoppedIsDown /\ RunningIsUp /\ StartedOnce)
<1>1. LifeInv => EngTypeOK /\ StoppedIsDown /\ RunningIsUp /\ StartedOnce
  BY LifeInvSays DEF LifeInv
<1> QED
  BY <1>1, LifeInvAlways, PTL

(* Storage and trackers are released after the parts that use them, or the  *)
(* parts left are those a stop under way is ending (engine.py:327-337).     *)
THEOREM ReleasedLastAlways == EngSpec => []ReleasedLast
<1>1. LifeInv => ReleasedLast
  BY LifeInvSays
<1> QED
  BY <1>1, LifeInvAlways, PTL

-----------------------------------------------------------------------------
(* The feed between the engine and the window.                              *)

Due == {t \in Emitters : at[t] = "signal"}

(* A signal is outstanding exactly while something is announced.            *)
SignalInv ==
  /\ at \in [Emitters -> {"idle", "changed", "read", "signal"}]
  /\ signals \in Nat
  /\ pending # <<>> => announced = TRUE
  /\ announced = TRUE <=> signals = 1 \/ Due # {}
  /\ signals <= 1 /\ (signals = 1 => Due = {})
  /\ \A t, u \in Due : t = u

LEMMA SignalInit ==
  ASSUME BridgeInit
  PROVE  SignalInv
<1>1. \A t \in Emitters : at[t] = "idle"
  BY DEF BridgeInit
<1>2. Due = {}
  BY <1>1 DEF Due
<1>3. at \in [Emitters -> {"idle", "changed", "read", "signal"}]
  BY DEF BridgeInit
<1>4. signals = 0 /\ announced = FALSE /\ pending = <<>>
  BY DEF BridgeInit
<1> QED
  BY <1>2, <1>3, <1>4 DEF SignalInv

LEMMA SignalStep ==
  ASSUME SignalInv, [BridgeNext]_bridgeVars
  PROVE  SignalInv'
<1> USE DEF SignalInv, Due
<1>1. CASE UNCHANGED bridgeVars \/ Listen \/ Unlisten
  BY <1>1 DEF bridgeVars, Listen, Unlisten
<1>2. CASE Drain
  BY <1>2 DEF Drain
<1>3. ASSUME NEW t \in Emitters, Emit(t) \/ Read(t)
      PROVE  SignalInv'
  BY <1>3 DEF Emit, Read
<1>4. ASSUME NEW t \in Emitters, Queue(t)
      PROVE  SignalInv'
  BY <1>4 DEF Queue
<1>5. ASSUME NEW t \in Emitters, Signal(t)
      PROVE  SignalInv'
  BY <1>5 DEF Signal
<1> QED
  BY <1>1, <1>2, <1>3, <1>4, <1>5 DEF BridgeNext, EmitterGoes

LEMMA SignalMeans ==
  ASSUME SignalInv
  PROVE  OneSignalOutstanding
BY DEF SignalInv, OneSignalOutstanding, Due

(* No wake-up is lost and none is doubled, however many threads emit        *)
(* (EventFeed._on_change and drain).                                        *)
THEOREM OneSignalAlways == BridgeSpec => []OneSignalOutstanding
<1>1. BridgeInit => SignalInv
  BY SignalInit
<1>2. SignalInv /\ [BridgeNext]_bridgeVars => SignalInv'
  BY SignalStep
<1>3. SignalInv => OneSignalOutstanding
  BY SignalMeans
<1> QED
  BY <1>1, <1>2, <1>3, PTL DEF BridgeSpec

(* The state keeps the newest events, no more than its capacity.            *)
LEMMA KeptFits ==
  ASSUME BridgeAssumption, NEW S, NEW s \in Seq(S), Len(s) <= Capacity, NEW n \in S,
         NEW k, k = Kept(Append(s, n))
  PROVE  k \in Seq(S) /\ Len(k) <= Capacity /\ k # <<>>
<1> DEFINE l == Append(s, n)
<1>1. l \in Seq(S) /\ Len(l) = Len(s) + 1 /\ Len(s) \in Nat
  BY AppendProperties, LenProperties
<1>2. k = IF Len(l) > Capacity THEN Tail(l) ELSE l
  BY DEF Kept
<1>c. Capacity \in Nat /\ Capacity > 0
  BY DEF BridgeAssumption
<1> HIDE DEF l
<1>3. l # <<>>
  BY <1>1, EmptySeq
<1>4. CASE Len(l) > Capacity
  <2>1. k \in Seq(S) /\ Len(k) = Len(l) - 1
    BY <1>1, <1>2, <1>3, <1>4, HeadTailProperties
  <2>2. Len(k) > 0 /\ Len(k) <= Capacity
    BY <1>1, <1>c, <1>4, <2>1
  <2> QED
    BY <2>1, <2>2, EmptySeq
<1>5. CASE ~(Len(l) > Capacity)
  BY <1>1, <1>2, <1>3, <1>c, <1>5
<1> QED
  BY <1>4, <1>5

(* Whoever reads the newest event finds one, and queues it.                 *)
ReadsFind ==
  \A t \in Emitters :
    /\ at[t] = "changed" => events # <<>>
    /\ at[t] = "read" => latest[t] \in 1 .. MaxEvents

LEMMA BridgeTypeInit ==
  ASSUME BridgeAssumption, BridgeInit
  PROVE  BridgeTypeOK /\ ReadsFind
<1>1. <<>> \in Seq(1 .. MaxEvents) /\ Len(<<>>) = 0
  BY EmptySeq
<1>2. listening \in BOOLEAN
  BY DEF BridgeInit
<1>3. announced \in BOOLEAN
  BY DEF BridgeInit
<1> QED
  BY <1>1, <1>2, <1>3 DEF BridgeAssumption, BridgeInit, BridgeTypeOK, ReadsFind

LEMMA BridgeTypeStep ==
  ASSUME BridgeAssumption, BridgeTypeOK, ReadsFind, [BridgeNext]_bridgeVars
  PROVE  BridgeTypeOK' /\ ReadsFind'
<1>t. /\ revision \in 0 .. MaxEvents
      /\ events \in Seq(1 .. MaxEvents) /\ Len(events) <= Capacity
      /\ pending \in Seq(1 .. MaxEvents)
      /\ shown \in Seq(1 .. MaxEvents) /\ emitted \in Seq(1 .. MaxEvents)
      /\ at \in [Emitters -> {"idle", "changed", "read", "signal"}]
      /\ latest \in [Emitters -> 0 .. MaxEvents] /\ signals \in Nat
  BY DEF BridgeTypeOK
<1>b. listening \in BOOLEAN /\ announced \in BOOLEAN
  BY DEF BridgeTypeOK
<1>1. listening' \in BOOLEAN
  <2>1. listening' = listening \/ listening' = TRUE \/ listening' = FALSE
    BY DEF BridgeNext, EmitterGoes, bridgeVars, Drain, Listen, Unlisten, Emit, Read, Queue, Signal
  <2> QED
    BY <1>b, <2>1
<1>2. announced' \in BOOLEAN
  <2>1. announced' = announced \/ announced' = TRUE \/ announced' = FALSE
    BY DEF BridgeNext, EmitterGoes, bridgeVars, Drain, Listen, Unlisten, Emit, Read, Queue, Signal
  <2> QED
    BY <1>b, <2>1
<1> DEFINE Rest ==
             /\ revision' \in 0 .. MaxEvents
             /\ events' \in Seq(1 .. MaxEvents) /\ Len(events') <= Capacity
             /\ pending' \in Seq(1 .. MaxEvents)
             /\ shown' \in Seq(1 .. MaxEvents) /\ emitted' \in Seq(1 .. MaxEvents)
             /\ at' \in [Emitters -> {"idle", "changed", "read", "signal"}]
             /\ latest' \in [Emitters -> 0 .. MaxEvents] /\ signals' \in Nat
             /\ ReadsFind'
<1>3. ASSUME UNCHANGED bridgeVars \/ Listen \/ Unlisten PROVE Rest
  BY <1>t, <1>3 DEF bridgeVars, Listen, Unlisten, ReadsFind
<1>4. ASSUME Drain PROVE Rest
  <2>1. shown' \in Seq(1 .. MaxEvents) /\ pending' \in Seq(1 .. MaxEvents)
    BY <1>t, <1>4, EmptySeq, ConcatProperties DEF Drain
  <2> QED
    BY <1>t, <1>4, <2>1 DEF Drain, ReadsFind
<1>5. ASSUME NEW t \in Emitters, Emit(t) PROVE Rest
  <2>1. revision' \in 1 .. MaxEvents
    BY <1>t, <1>5 DEF Emit, BridgeAssumption
  <2>2. events' \in Seq(1 .. MaxEvents) /\ Len(events') <= Capacity /\ events' # <<>>
    BY <1>t, <1>5, <2>1, KeptFits DEF Emit
  <2>3. emitted' \in Seq(1 .. MaxEvents)
    BY <1>t, <1>5, <2>1, AppendProperties DEF Emit
  <2>4. at' \in [Emitters -> {"idle", "changed", "read", "signal"}]
    BY <1>t, <1>5 DEF Emit
  <2>5. ReadsFind'
    BY <1>t, <1>5, <2>2 DEF Emit, ReadsFind
  <2> QED
    BY <1>t, <1>5, <2>1, <2>2, <2>3, <2>4, <2>5 DEF Emit
<1>6. ASSUME NEW t \in Emitters, Read(t) PROVE Rest
  <2>1. events[Len(events)] \in 1 .. MaxEvents
    <3>1. Len(events) \in 1 .. Len(events)
      BY <1>t, <1>6, EmptySeq, LenProperties DEF Read, ReadsFind
    <3> QED
      BY <1>t, <3>1, ElementOfSeq
  <2>2. ReadsFind'
    BY <1>t, <1>6, <2>1 DEF Read, ReadsFind
  <2> QED
    BY <1>t, <1>6, <2>1, <2>2 DEF Read
<1>7. ASSUME NEW t \in Emitters, Queue(t) PROVE Rest
  <2>1. pending' \in Seq(1 .. MaxEvents)
    BY <1>t, <1>7, AppendProperties DEF Queue, ReadsFind
  <2>2. ReadsFind'
    BY <1>t, <1>7 DEF Queue, ReadsFind
  <2> QED
    BY <1>t, <1>7, <2>1, <2>2 DEF Queue
<1>8. ASSUME NEW t \in Emitters, Signal(t) PROVE Rest
  BY <1>t, <1>8 DEF Signal, ReadsFind
<1>9. Rest
  BY <1>3, <1>4, <1>5, <1>6, <1>7, <1>8 DEF BridgeNext, EmitterGoes
<1> QED
  BY <1>1, <1>2, <1>9 DEF BridgeTypeOK

(* With one thread that emits, what the feed will hand over is what was     *)
(* emitted and is not shown yet: first what is pending, then the event      *)
(* under way, which _on_change finds last in the state.                     *)
InFlight == IF \E t \in Emitters : at[t] \in {"changed", "read"} THEN 1 ELSE 0

FeedInv ==
  /\ revision \in Nat /\ events \in Seq(Nat)
  /\ emitted \in Seq(Nat) /\ shown \in Seq(Nat) /\ pending \in Seq(Nat)
  /\ latest \in [Emitters -> Nat]
  /\ at \in [Emitters -> {"idle", "changed", "read", "signal"}]
  /\ Len(emitted) = Len(shown) + Len(pending) + InFlight
  /\ \A i \in 1 .. Len(shown) : shown[i] = emitted[i]
  /\ \A i \in 1 .. Len(pending) : pending[i] = emitted[Len(shown) + i]
  /\ \A t \in Emitters :
       /\ at[t] = "changed" => events # <<>> /\ events[Len(events)] = emitted[Len(emitted)]
       /\ at[t] = "read" => latest[t] = emitted[Len(emitted)]

(* The event just reduced is the last one of the state.                     *)
LEMMA LastIsKept ==
  ASSUME BridgeAssumption, NEW s \in Seq(Nat), NEW n \in Nat, NEW k, k = Kept(Append(s, n))
  PROVE  k \in Seq(Nat) /\ k # <<>> /\ k[Len(k)] = n
<1> DEFINE l == Append(s, n)
<1>k. k = Kept(l)
  OBVIOUS
<1>1. l \in Seq(Nat) /\ l # <<>> /\ Len(l) = Len(s) + 1 /\ l[Len(l)] = n /\ Len(s) \in Nat
  <2>1. Len(s) \in Nat
    BY LenProperties
  <2>2. l \in Seq(Nat) /\ Len(l) = Len(s) + 1
    BY AppendProperties
  <2>3. l[Len(s) + 1] = n
    BY AppendProperties
  <2> HIDE DEF l
  <2>4. l # <<>>
    BY <2>1, <2>2, EmptySeq
  <2> QED
    BY <2>1, <2>2, <2>3, <2>4
<1> HIDE DEF l
<1>2. CASE Len(l) > Capacity
  <2> DEFINE rest == Tail(l)
  <2>1. Len(s) >= 1
    BY <1>1, <1>2 DEF BridgeAssumption
  <2>2. /\ rest \in Seq(Nat) /\ Len(rest) = Len(l) - 1
        /\ \A i \in 1 .. Len(rest) : rest[i] = l[i + 1]
    BY <1>1, HeadTailProperties
  <2>3. k = rest
    BY <1>k, <1>2 DEF Kept
  <2> HIDE DEF rest
  <2>4. Len(rest) \in 1 .. Len(rest) /\ Len(rest) + 1 = Len(l)
    BY <1>1, <2>1, <2>2
  <2>5. rest[Len(rest)] = n
    BY <1>1, <2>2, <2>4
  <2>6. rest # <<>>
    BY <2>4, EmptySeq
  <2> QED
    BY <2>2, <2>3, <2>5, <2>6
<1>3. CASE ~(Len(l) > Capacity)
  BY <1>k, <1>1, <1>3 DEF Kept
<1> QED
  BY <1>2, <1>3

LEMMA FeedInit == BridgeInit => FeedInv
<1> SUFFICES ASSUME BridgeInit PROVE FeedInv
  OBVIOUS
<1>1. <<>> \in Seq(Nat) /\ Len(<<>>) = 0
  BY EmptySeq
<1> QED
  BY <1>1 DEF BridgeInit, FeedInv, InFlight

(* The one emitter finishes with an event before it emits another.          *)
LEMMA FeedStep ==
  ASSUME BridgeAssumption, \A t, u \in Emitters : t = u, FeedInv, [BridgeNext]_bridgeVars
  PROVE  FeedInv'
<1>t. /\ revision \in Nat /\ events \in Seq(Nat)
      /\ emitted \in Seq(Nat) /\ shown \in Seq(Nat) /\ pending \in Seq(Nat)
      /\ latest \in [Emitters -> Nat]
      /\ at \in [Emitters -> {"idle", "changed", "read", "signal"}]
  BY DEF FeedInv
<1>c. Len(emitted) = Len(shown) + Len(pending) + InFlight
  BY DEF FeedInv
<1>i. /\ \A i \in 1 .. Len(shown) : shown[i] = emitted[i]
      /\ \A i \in 1 .. Len(pending) : pending[i] = emitted[Len(shown) + i]
  BY DEF FeedInv
<1>e. \A t \in Emitters :
        /\ at[t] = "changed" => events # <<>> /\ events[Len(events)] = emitted[Len(emitted)]
        /\ at[t] = "read" => latest[t] = emitted[Len(emitted)]
  BY DEF FeedInv
<1>l. Len(emitted) \in Nat /\ Len(shown) \in Nat /\ Len(pending) \in Nat
  BY <1>t, LenProperties
<1>1. CASE UNCHANGED <<events, revision, at, latest, pending, shown, emitted>>
  BY <1>1 DEF FeedInv, InFlight
<1>2. ASSUME NEW t \in Emitters, Emit(t)
      PROVE  FeedInv'
  <2>1. /\ revision' \in Nat /\ events' \in Seq(Nat) /\ events' # <<>>
        /\ events'[Len(events')] = revision'
    BY <1>2, <1>t, LastIsKept DEF Emit
  <2>2. InFlight = 0
    BY <1>2 DEF Emit, InFlight
  <2>3. CASE listening
    <3>1. emitted' = Append(emitted, revision')
      BY <1>2, <2>3 DEF Emit
    <3>2. /\ emitted' \in Seq(Nat) /\ Len(emitted') = Len(emitted) + 1
          /\ emitted'[Len(emitted')] = revision'
          /\ \A i \in 1 .. Len(emitted) : emitted'[i] = emitted[i]
      BY <1>t, <2>1, <3>1, AppendProperties
    <3>3. Len(emitted) = Len(shown) + Len(pending)
      BY <1>l, <1>c, <2>2
    <3>4. /\ \A i \in 1 .. Len(shown) : i \in 1 .. Len(emitted)
          /\ \A i \in 1 .. Len(pending) : Len(shown) + i \in 1 .. Len(emitted)
      BY <1>l, <3>3
    <3>5. at' = [at EXCEPT ![t] = "changed"] /\ UNCHANGED <<latest, shown, pending>>
      BY <1>2, <2>3 DEF Emit
    <3>6. InFlight' = 1
      BY <1>t, <3>5 DEF InFlight
    <3>7. /\ \A i \in 1 .. Len(shown') : shown'[i] = emitted'[i]
          /\ \A i \in 1 .. Len(pending') : pending'[i] = emitted'[Len(shown') + i]
      BY <1>i, <3>2, <3>4, <3>5
    <3>8. Len(emitted') = Len(shown') + Len(pending') + InFlight'
      BY <1>l, <3>2, <3>3, <3>5, <3>6
    <3>9. \A u \in Emitters : at'[u] = "changed"
      BY <1>t, <3>5
    <3> QED
      BY <1>t, <2>1, <3>2, <3>5, <3>7, <3>8, <3>9 DEF FeedInv
  <2>4. CASE ~listening
    <3>1. at' = at /\ UNCHANGED <<latest, shown, pending, emitted>>
      BY <1>2, <1>t, <2>4 DEF Emit
    <3>2. \A u \in Emitters : at'[u] = "idle"
      BY <1>2, <3>1 DEF Emit
    <3> QED
      BY <1>t, <1>c, <1>i, <2>1, <3>1, <3>2 DEF FeedInv, InFlight
  <2> QED
    BY <2>3, <2>4
<1>3. ASSUME NEW t \in Emitters, Read(t)
      PROVE  FeedInv'
  <2>1. events # <<>> /\ events[Len(events)] = emitted[Len(emitted)]
    BY <1>3, <1>e DEF Read
  <2>2. Len(events) \in 1 .. Len(events)
    BY <1>t, <2>1, EmptySeq
  <2>3. events[Len(events)] \in Nat
    BY <1>t, <2>2, ElementOfSeq
  <2>4. /\ at' = [at EXCEPT ![t] = "read"] /\ latest' = [latest EXCEPT ![t] = events[Len(events)]]
        /\ UNCHANGED <<events, revision, pending, shown, emitted>>
    BY <1>3 DEF Read
  <2>5. InFlight' = InFlight
    BY <1>3, <1>t, <2>4 DEF Read, InFlight
  <2>6. \A u \in Emitters : at'[u] = "read" /\ latest'[u] = emitted'[Len(emitted')]
    BY <1>t, <2>1, <2>4
  <2> QED
    BY <1>t, <1>c, <1>i, <2>3, <2>4, <2>5, <2>6 DEF FeedInv
<1>4. ASSUME NEW t \in Emitters, Queue(t)
      PROVE  FeedInv'
  <2>1. pending' = Append(pending, latest[t]) /\ latest[t] \in Nat
    BY <1>4, <1>t DEF Queue
  <2>2. /\ pending' \in Seq(Nat) /\ Len(pending') = Len(pending) + 1
        /\ pending'[Len(pending) + 1] = latest[t]
        /\ \A i \in 1 .. Len(pending) : pending'[i] = pending[i]
    BY <1>t, <2>1, AppendProperties
  <2>3. InFlight = 1 /\ latest[t] = emitted[Len(emitted)]
    BY <1>4, <1>e DEF Queue, InFlight
  <2>4. \A u \in Emitters : at'[u] \in {"idle", "signal"}
    BY <1>4, <1>t DEF Queue
  <2>5. InFlight' = 0
    BY <2>4 DEF InFlight
  <2>6. UNCHANGED <<events, revision, latest, shown, emitted>>
    BY <1>4 DEF Queue
  <2>7. Len(emitted') = Len(shown') + Len(pending') + InFlight'
    BY <1>l, <1>c, <2>2, <2>3, <2>5, <2>6
  <2>8. \A i \in 1 .. Len(pending') : pending'[i] = emitted'[Len(shown') + i]
    <3>1. \A i \in 1 .. Len(pending') : i \in 1 .. Len(pending) \/ i = Len(pending) + 1
      BY <1>l, <2>2
    <3>2. Len(shown) + (Len(pending) + 1) = Len(emitted)
      BY <1>l, <1>c, <2>3
    <3> QED
      BY <1>i, <2>2, <2>3, <2>6, <3>1, <3>2
  <2>9. at' \in [Emitters -> {"idle", "changed", "read", "signal"}]
    BY <1>4, <1>t DEF Queue
  <2> QED
    BY <1>t, <1>i, <2>2, <2>4, <2>6, <2>7, <2>8, <2>9 DEF FeedInv
<1>5. ASSUME NEW t \in Emitters, Signal(t)
      PROVE  FeedInv'
  <2>1. at' = [at EXCEPT ![t] = "idle"] /\ at[t] = "signal"
        /\ UNCHANGED <<events, revision, latest, pending, shown, emitted>>
    BY <1>5 DEF Signal
  <2>2. InFlight' = 0 /\ InFlight = 0
    BY <1>t, <2>1 DEF InFlight
  <2>3. \A u \in Emitters : at'[u] = "idle"
    BY <1>t, <2>1
  <2> QED
    BY <1>t, <1>c, <1>i, <2>1, <2>2, <2>3 DEF FeedInv
<1>6. CASE Drain
  <2>1. shown' = shown \o pending /\ pending' = <<>>
        /\ UNCHANGED <<events, revision, at, latest, emitted>>
    BY <1>6 DEF Drain
  <2>2. /\ shown' \in Seq(Nat) /\ Len(shown') = Len(shown) + Len(pending)
        /\ \A i \in 1 .. Len(shown) + Len(pending) :
             shown'[i] = IF i <= Len(shown) THEN shown[i] ELSE pending[i - Len(shown)]
    BY <1>t, <2>1, ConcatProperties
  <2>3. \A i \in 1 .. Len(shown') : shown'[i] = emitted[i]
    <3> SUFFICES ASSUME NEW i \in 1 .. Len(shown) + Len(pending) PROVE shown'[i] = emitted[i]
      BY <2>2
    <3>1. CASE i <= Len(shown)
      <4>1. i \in 1 .. Len(shown) /\ shown'[i] = shown[i]
        BY <1>l, <2>2, <3>1
      <4> QED
        BY <1>i, <4>1
    <3>2. CASE i > Len(shown)
      <4>1. i - Len(shown) \in 1 .. Len(pending) /\ Len(shown) + (i - Len(shown)) = i
        BY <1>l, <3>2
      <4>2. shown'[i] = pending[i - Len(shown)]
        BY <1>l, <2>2, <3>2
      <4> QED
        BY <1>i, <4>1, <4>2
    <3> QED
      BY <1>l, <3>1, <3>2
  <2>4. pending' \in Seq(Nat) /\ Len(pending') = 0
    BY <2>1, EmptySeq
  <2>5. InFlight' = InFlight
    BY <2>1 DEF InFlight
  <2>6. Len(emitted') = Len(shown') + Len(pending') + InFlight'
    <3>1. InFlight \in Nat
      BY DEF InFlight
    <3> QED
      BY <1>l, <1>c, <2>1, <2>2, <2>4, <2>5, <3>1
  <2>7. \A i \in 1 .. Len(pending') : FALSE
    BY <2>4
  <2>8. \A u \in Emitters :
          /\ at'[u] = "changed" => events' # <<>> /\ events'[Len(events')] = emitted'[Len(emitted')]
          /\ at'[u] = "read" => latest'[u] = emitted'[Len(emitted')]
    BY <1>e, <2>1
  <2> QED
    BY <1>t, <2>1, <2>2, <2>3, <2>4, <2>6, <2>7, <2>8 DEF FeedInv
<1> QED
  BY <1>1, <1>2, <1>3, <1>4, <1>5, <1>6 DEF BridgeNext, EmitterGoes, bridgeVars, Listen, Unlisten

(* What is emitted while the feed listens is sent on the channel, a drain   *)
(* hands over what has come, and nothing else is seen of the feed.          *)
LEMMA FeedRefines ==
  ASSUME BridgeAssumption, \A t, u \in Emitters : t = u, FeedInv, [BridgeNext]_bridgeVars
  PROVE  [Window!Send \/ Window!Receive]_<<emitted, shown>>
<1>t. /\ revision \in Nat /\ emitted \in Seq(Nat) /\ shown \in Seq(Nat)
      /\ pending \in Seq(Nat)
  BY DEF FeedInv
<1>l. Len(emitted) \in Nat /\ Len(shown) \in Nat /\ Len(pending) \in Nat
  BY <1>t, LenProperties
<1>c. Len(emitted) >= Len(shown) + Len(pending)
  <2>1. InFlight \in Nat /\ Len(emitted) = Len(shown) + Len(pending) + InFlight
    BY DEF FeedInv, InFlight
  <2> QED
    BY <1>l, <2>1
<1>1. ASSUME NEW t \in Emitters, Emit(t), listening
      PROVE  Window!Send
  <2>1. emitted' = Append(emitted, revision') /\ revision' \in Nat /\ UNCHANGED shown
    BY <1>1, <1>t DEF Emit
  <2>2. /\ emitted' \in Seq(Nat) /\ Len(emitted') = Len(emitted) + 1
        /\ \A i \in 1 .. Len(emitted) : emitted'[i] = emitted[i]
    BY <1>t, <2>1, AppendProperties
  <2>3. \A i \in 1 .. Len(emitted) : emitted'[i] \in Nat
    BY <1>t, <2>2, ElementOfSeq
  <2>4. /\ SubSeq(emitted', 1, Len(emitted)) \in Seq(Nat)
        /\ Len(SubSeq(emitted', 1, Len(emitted))) = Len(emitted)
        /\ \A i \in 1 .. Len(emitted) : SubSeq(emitted', 1, Len(emitted))[i] = emitted'[i]
    BY <1>l, <2>3, SubSeqProperties
  <2>5. SubSeq(emitted', 1, Len(emitted)) = emitted
    BY <1>t, <2>2, <2>4, SeqEqual
  <2> QED
    BY <2>1, <2>2, <2>5 DEF Window!Send
<1>2. ASSUME Drain, pending # <<>>
      PROVE  Window!Receive
  <2>1. FeedInv'
    BY <1>2, FeedStep
  <2>2. shown' = shown \o pending /\ UNCHANGED emitted
    BY <1>2 DEF Drain
  <2>3. Len(pending) > 0
    BY <1>2, <1>t, <1>l, EmptySeq
  <2>4. Len(shown') = Len(shown) + Len(pending) /\ shown' \in Seq(Nat)
    BY <1>t, <2>2, ConcatProperties
  <2>5. Len(shown') \in Len(shown) + 1 .. Len(emitted)
    BY <1>l, <1>c, <2>3, <2>4
  <2>6. \A i \in 1 .. Len(shown') : shown'[i] = emitted[i] /\ emitted[i] \in Nat
    <3>1. \A i \in 1 .. Len(shown') : i \in 1 .. Len(emitted)
      BY <1>l, <2>5
    <3> QED
      BY <1>t, <2>1, <2>2, <3>1, ElementOfSeq DEF FeedInv
  <2>7. /\ SubSeq(emitted, 1, Len(shown')) \in Seq(Nat)
        /\ Len(SubSeq(emitted, 1, Len(shown'))) = Len(shown')
        /\ \A i \in 1 .. Len(shown') : SubSeq(emitted, 1, Len(shown'))[i] = emitted[i]
    BY <1>l, <2>5, <2>6, SubSeqProperties
  <2>8. shown' = SubSeq(emitted, 1, Len(shown'))
    BY <2>4, <2>6, <2>7, SeqEqual
  <2> QED
    BY <2>2, <2>5, <2>8 DEF Window!Receive
<1>3. CASE Drain /\ pending = <<>>
  <2>1. shown' = shown
    BY <1>3, <1>t, ConcatEmptySeq DEF Drain
  <2> QED
    BY <1>3, <2>1 DEF Drain, FeedInv
<1>4. CASE UNCHANGED <<emitted, shown>>
  BY <1>4
<1>5. \/ UNCHANGED <<emitted, shown>>
      \/ Drain
      \/ \E t \in Emitters : Emit(t) /\ listening
  BY DEF BridgeNext, EmitterGoes, bridgeVars, Listen, Unlisten, Emit, Read, Queue, Signal
<1> QED
  BY <1>1, <1>2, <1>3, <1>4, <1>5

(* EventFeed implements the channel: with one thread that emits, the window *)
(* is shown every event emitted while the feed listens, once and in order.  *)
THEOREM FeedImplementsChannel ==
  ASSUME BridgeAssumption, \A t, u \in Emitters : t = u
  PROVE  BridgeSpec => FeedIsChannel
<1>1. BridgeInit => FeedInv /\ Window!ChannelInit
  BY FeedInit DEF BridgeInit, Window!ChannelInit
<1>2. FeedInv /\ [BridgeNext]_bridgeVars => FeedInv'
  BY FeedStep
<1>3. FeedInv /\ [BridgeNext]_bridgeVars => [Window!Send \/ Window!Receive]_<<emitted, shown>>
  BY FeedRefines
<1> QED
  BY <1>1, <1>2, <1>3, PTL DEF BridgeSpec, FeedIsChannel, Window!ChannelSpec

-----------------------------------------------------------------------------
(* The session: a torrent it manages has an engine of its own that nobody   *)
(* closed, and the announcer is told of every torrent, with any number of   *)
(* calls under way and whichever of them fail.                              *)

Points == {"idle", "build", "resolve", "start", "pause", "resume", "remove", "bind"} \cup CloseSteps
CallSet == [at : Points, hash : Hashes \cup {NoEngine}, engine : Engines \cup {NoEngine}]
RegSet == [engine : Engines \cup {NoEngine}, status : Status]

(* A call that deals with a torrent or its engine knows it; a torrent has   *)
(* an engine of its own, and one that is being removed is no longer managed.*)
CallsAreOwned ==
  \A c \in Callers :
    /\ calls[c].at \in Points \ ({"idle", "bind"} \cup CloseSteps) => calls[c].hash \in Hashes
    /\ calls[c].at \in {"start", "pause", "resume", "remove"} => calls[c].engine \in built
    /\ calls[c].at = "remove" => \A h \in Hashes : services[h] # calls[c].engine

EnginesAreOwned ==
  /\ \A h \in Hashes : services[h] \in built \cup {NoEngine}
  /\ \A g, h \in Hashes : services[g] = services[h] /\ services[h] # NoEngine => g = h

(* A torrent the pass under way was not told of is still in its queue, or   *)
(* the loop has been poked.                                                 *)
NewAreQueued ==
  \A h \in Hashes : announcer = "asking" /\ registered[h].status = "new" =>
    poked \/ <<h, registered[h].engine>> \in queue

(* A loop has a node, unless one came late.                                 *)
LoopHasNode == ~late /\ announcer # "off" => attached /\ dht # "off"

Heard == PokeIsHeard /\ PassHasNode /\ LoopHasNode /\ (~late => NewAreQueued)

OwnInv == SessionTypeOK /\ CallsAreOwned /\ EnginesAreOwned /\ ManagedIsOpen
HeardInv == SessionTypeOK /\ Heard

LEMMA CallGoesTo ==
  ASSUME NEW c \in Callers, NEW call \in CallSet, calls \in [Callers -> CallSet],
         calls' = [calls EXCEPT ![c] = call]
  PROVE  /\ calls' \in [Callers -> CallSet]
         /\ calls'[c] = call
         /\ \A d \in Callers \ {c} : calls'[d] = calls[d]
OBVIOUS

LEMMA Called ==
  ASSUME SessionTypeOK, NEW c \in Callers, NEW pc \in Points, NEW h \in Hashes \cup {NoEngine},
         NEW e \in Engines \cup {NoEngine},
         \/ Goto(c, pc, h, e)
         \/ Return(c) /\ pc = "idle" /\ h = NoEngine /\ e = NoEngine
  PROVE  /\ calls' \in [Callers -> CallSet]
         /\ calls'[c] = [at |-> pc, hash |-> h, engine |-> e]
         /\ \A d \in Callers \ {c} : calls'[d] = calls[d]
<1>1. [at |-> pc, hash |-> h, engine |-> e] \in CallSet
  BY DEF CallSet
<1>2. calls \in [Callers -> CallSet]
  BY DEF SessionTypeOK, CallSet, Points, CloseSteps
<1>3. calls' = [calls EXCEPT ![c] = [at |-> pc, hash |-> h, engine |-> e]]
  BY DEF Goto, Return, NoCall
<1> QED
  BY <1>1, <1>2, <1>3, CallGoesTo

LEMMA MarkedAre ==
  ASSUME NEW regs \in [Hashes -> RegSet], NEW S, NEW status \in Status \ {"new"}
  PROVE  /\ Marked(regs, S, status) \in [Hashes -> RegSet]
         /\ \A h \in Hashes :
              /\ Marked(regs, S, status)[h].engine = regs[h].engine
              /\ <<h, regs[h].engine>> \in S => Marked(regs, S, status)[h].status = status
              /\ <<h, regs[h].engine>> \notin S => Marked(regs, S, status)[h] = regs[h]
<1> DEFINE marks(h) == IF <<h, regs[h].engine>> \in S THEN [regs[h] EXCEPT !.status = status]
                       ELSE regs[h]
<1>1. \A h \in Hashes :
        /\ marks(h) \in RegSet
        /\ marks(h).engine = regs[h].engine
        /\ <<h, regs[h].engine>> \in S => marks(h).status = status
        /\ <<h, regs[h].engine>> \notin S => marks(h) = regs[h]
  BY DEF RegSet
<1>2. Marked(regs, S, status) = [h \in Hashes |-> marks(h)]
  BY DEF Marked
<1> HIDE DEF marks
<1> QED
  BY <1>1, <1>2

(* A pass visits what it was told of, or leaves it in the queue.            *)
LEMMA AdvanceVisits ==
  ASSUME NEW regs \in [Hashes -> RegSet], NEW todo, Advance(regs, todo)
  PROVE  /\ registered' \in [Hashes -> RegSet]
         /\ announcer' \in {"asking", "wait"}
         /\ short' \in BOOLEAN \/ short' = short
         /\ \A h \in Hashes : registered'[h].status = "new" =>
              /\ regs[h].status = "new"
              /\ registered'[h].engine = regs[h].engine
              /\ announcer' = "wait" /\ attached => <<h, regs[h].engine>> \notin todo
              /\ announcer' = "asking" /\ <<h, regs[h].engine>> \in todo
                   => <<h, registered'[h].engine>> \in queue'
<1> DEFINE bare == {r \in todo : r[2] \notin serving}
<1>0. /\ "skipped" \in Status \ {"new"} /\ "asked" \in Status \ {"new"}
  BY DEF Status
<1>1. CASE \E r \in todo \ bare, S \in SUBSET bare :
             /\ registered' = Marked(Marked(regs, S, "skipped"), {r}, "asked")
             /\ \/ attached /\ queue' = todo \ (S \cup {r}) /\ announcer' = "asking" /\ short' = short
                \/ ~attached /\ announcer' = "wait" /\ short' \in BOOLEAN
  <2> PICK r \in todo \ bare, S \in SUBSET bare :
        /\ registered' = Marked(Marked(regs, S, "skipped"), {r}, "asked")
        /\ \/ attached /\ queue' = todo \ (S \cup {r}) /\ announcer' = "asking" /\ short' = short
           \/ ~attached /\ announcer' = "wait" /\ short' \in BOOLEAN
    BY <1>1
  <2> DEFINE mid == Marked(regs, S, "skipped")
  <2>1. /\ mid \in [Hashes -> RegSet]
        /\ \A h \in Hashes :
             /\ mid[h].engine = regs[h].engine
             /\ <<h, regs[h].engine>> \in S => mid[h].status = "skipped"
             /\ <<h, regs[h].engine>> \notin S => mid[h] = regs[h]
    BY <1>0, MarkedAre
  <2> HIDE DEF mid
  <2>2. registered' = Marked(mid, {r}, "asked")
    BY DEF mid
  <2>3. /\ registered' \in [Hashes -> RegSet]
        /\ \A h \in Hashes :
             /\ registered'[h].engine = mid[h].engine
             /\ <<h, mid[h].engine>> \in {r} => registered'[h].status = "asked"
             /\ <<h, mid[h].engine>> \notin {r} => registered'[h] = mid[h]
    <3> DEFINE one == {r}
    <3>1. registered' = Marked(mid, one, "asked")
      BY <2>2
    <3> HIDE DEF one
    <3>2. /\ Marked(mid, one, "asked") \in [Hashes -> RegSet]
          /\ \A h \in Hashes :
               /\ Marked(mid, one, "asked")[h].engine = mid[h].engine
               /\ <<h, mid[h].engine>> \in one => Marked(mid, one, "asked")[h].status = "asked"
               /\ <<h, mid[h].engine>> \notin one => Marked(mid, one, "asked")[h] = mid[h]
      BY <1>0, <2>1, MarkedAre
    <3> QED
      BY <3>1, <3>2 DEF one
  <2>4. ASSUME NEW h \in Hashes, registered'[h].status = "new"
        PROVE  /\ regs[h].status = "new" /\ registered'[h].engine = regs[h].engine
               /\ <<h, regs[h].engine>> \notin S \cup {r}
    BY <2>1, <2>3, <2>4
  <2> QED
    BY <2>3, <2>4
<1>2. CASE /\ todo = bare /\ registered' = Marked(regs, todo, "skipped")
           /\ announcer' = "wait" /\ short' = RetrySoon(registered')
  <2>1. /\ registered' \in [Hashes -> RegSet]
        /\ \A h \in Hashes :
             /\ registered'[h].engine = regs[h].engine
             /\ <<h, regs[h].engine>> \in todo => registered'[h].status = "skipped"
             /\ <<h, regs[h].engine>> \notin todo => registered'[h] = regs[h]
    BY <1>0, <1>2, MarkedAre
  <2>2. short' \in BOOLEAN
    BY <1>2 DEF RetrySoon
  <2> QED
    BY <1>2, <2>1, <2>2
<1> QED
  BY <1>1, <1>2 DEF Advance, RetrySoon

(* The step of a call moves it alone; where it may be in the code.          *)
LEMMA CallsGoOn ==
  ASSUME OwnInv, NEW c \in Callers,
         \/ MagnetFails(c) \/ MagnetResolved(c) \/ AddStarted(c) \/ StartFails(c)
         \/ Toggled(c) \/ Removed(c) \/ StartDht(c) \/ DhtStarted(c)
         \/ CloseBegin(c) \/ CloseDht(c) \/ CloseNode(c) \/ CloseRegs(c) \/ CloseEnd(c)
         \/ \E e \in Engines : AddBuilt(c, e)
         \/ \E h \in Hashes : AddBegin(c, h) \/ MagnetBegin(c, h) \/ Toggle(c, h) \/ RemoveBegin(c, h)
  PROVE  /\ calls' \in [Callers -> CallSet]
         /\ \A d \in Callers \ {c} : calls'[d] = calls[d]
<1>1. /\ calls \in [Callers -> CallSet]
      /\ Points = {"idle", "build", "resolve", "start", "pause", "resume", "remove", "bind",
                   "undht", "unbind", "unreg", "closing"}
      /\ \A h \in Hashes : services[h] \in Engines \cup {NoEngine}
  BY DEF OwnInv, SessionTypeOK, CallSet, Points, CloseSteps
<1>2. SessionTypeOK
  BY DEF OwnInv
<1>3. CASE Return(c)
  BY <1>1, <1>2, <1>3, Called
<1>4. ASSUME NEW pc \in Points, NEW h \in Hashes \cup {NoEngine}, NEW e \in Engines \cup {NoEngine},
             Goto(c, pc, h, e)
      PROVE  /\ calls' \in [Callers -> CallSet]
             /\ \A d \in Callers \ {c} : calls'[d] = calls[d]
  BY <1>2, <1>4, Called
<1>5. CASE calls' = calls
  BY <1>1, <1>5
<1>6. CASE MagnetResolved(c)
  <2>1. calls[c].hash \in Hashes
    BY <1>6 DEF MagnetResolved, At, OwnInv, CallsAreOwned, Points, CloseSteps
  <2> QED
    BY <1>1, <1>3, <1>4, <1>6, <2>1 DEF MagnetResolved
<1>7. CASE \E e \in Engines : AddBuilt(c, e)
  <2>1. calls[c].hash \in Hashes
    BY <1>7 DEF AddBuilt, At, OwnInv, CallsAreOwned, Points, CloseSteps
  <2> QED
    BY <1>1, <1>3, <1>4, <1>7, <2>1 DEF AddBuilt
<1>8. CASE \E h \in Hashes : Toggle(c, h)
  <2>1. PICK h \in Hashes : Goto(c, IF services[h] \in serving THEN "pause" ELSE "resume", h, services[h])
    BY <1>8 DEF Toggle
  <2> QED
    BY <1>1, <1>4, <2>1
<1>9. CASE \E h \in Hashes : RemoveBegin(c, h)
  BY <1>1, <1>4, <1>5, <1>9 DEF RemoveBegin
<1>10. CASE \/ MagnetFails(c) \/ AddStarted(c) \/ StartFails(c) \/ Toggled(c) \/ Removed(c)
            \/ DhtStarted(c) \/ CloseEnd(c)
  BY <1>3, <1>10 DEF MagnetFails, AddStarted, StartFails, Toggled, Removed, DhtStarted, CloseEnd
<1>11. CASE \/ StartDht(c) \/ CloseBegin(c) \/ CloseDht(c) \/ CloseNode(c) \/ CloseRegs(c)
            \/ \E h \in Hashes : AddBegin(c, h) \/ MagnetBegin(c, h)
  BY <1>1, <1>4, <1>11 DEF StartDht, CloseBegin, CloseDht, CloseNode, CloseRegs, AddBegin, MagnetBegin
<1> QED
  BY <1>6, <1>7, <1>8, <1>9, <1>10, <1>11

LEMMA RegistrationsAre ==
  ASSUME SessionTypeOK, NEW h \in Hashes, NEW e \in Engines \cup {NoEngine},
         Register(h, e) \/ Unregister(h)
  PROVE  /\ registered' \in [Hashes -> RegSet]
         /\ \A g \in Hashes : registered'[g].status = "new" => registered'[g] = registered[g] \/ Register(h, e)
<1>1. registered \in [Hashes -> RegSet] /\ NoReg \in RegSet /\ [engine |-> e, status |-> "new"] \in RegSet
  BY DEF SessionTypeOK, RegSet, NoReg, Status
<1>2. CASE Register(h, e)
  BY <1>1, <1>2 DEF Register
<1>3. CASE Unregister(h)
  BY <1>1, <1>3 DEF Unregister, NoReg
<1> QED
  BY <1>2, <1>3

Typed ==
  /\ services \in [Hashes -> Engines \cup {NoEngine}]
  /\ magnets \in [Hashes -> {"none", "resolving", "failed"}]
  /\ calls \in [Callers -> CallSet]
  /\ built \subseteq Engines /\ serving \subseteq built /\ closed \subseteq built
  /\ dht \in {"off", "bound", "closing"} /\ attached \in BOOLEAN
  /\ registered \in [Hashes -> RegSet]
  /\ announcer \in {"off", "begin", "asking", "wait"}
  /\ poked \in BOOLEAN /\ short \in BOOLEAN /\ ended \in BOOLEAN /\ late \in BOOLEAN
  /\ toClose \subseteq built

LEMMA TypesAre == SessionTypeOK <=> Typed
BY DEF SessionTypeOK, Typed, CallSet, Points, RegSet, CloseSteps

LEMMA SessionTypeStep ==
  ASSUME OwnInv, SessionNext
  PROVE  SessionTypeOK'
<1> USE DEF annVars, engineVars, endVars, Typed
<1>1. Typed
  BY TypesAre DEF OwnInv
<1>2. /\ NoReg \in RegSet /\ [h \in Hashes |-> NoReg] \in [Hashes -> RegSet]
      /\ [h \in Hashes |-> NoEngine] \in [Hashes -> Engines \cup {NoEngine}]
  BY DEF NoReg, RegSet, Status
<1> SUFFICES Typed'
  BY DEF SessionTypeOK, Typed, CallSet, Points, RegSet, CloseSteps
<1>3. ASSUME NEW c \in Callers,
             StartDht(c) \/ DhtStarted(c) \/ CloseDht(c) \/ CloseNode(c)
      PROVE  Typed'
  <2>1. calls' \in [Callers -> CallSet]
    BY <1>3, CallsGoOn
  <2>2. (late \/ Closing \/ ended) \in BOOLEAN
    OBVIOUS
  <2> QED
    BY <1>1, <1>3, <2>1, <2>2 DEF StartDht, DhtStarted, CloseDht, CloseNode
<1>4. CASE Pass
  <2>1. \/ /\ registered' \in [Hashes -> RegSet] /\ announcer' \in {"asking", "wait"}
           /\ short' \in BOOLEAN \/ short' = short
        \/ announcer' = "wait" /\ short' \in BOOLEAN /\ registered' = registered
    BY <1>1, <1>4, AdvanceVisits DEF Pass, RunPass, PassBody, RetrySoon
  <2> QED
    BY <1>1, <1>4, <2>1 DEF Pass, RunPass
<1>5. CASE Announced
  <2> DEFINE one == {current}
  <2>1. PICK status \in {"published", "failed"} : Advance(Marked(registered, one, status), queue)
    BY <1>5 DEF Announced
  <2> HIDE DEF one
  <2>2. Marked(registered, one, status) \in [Hashes -> RegSet]
    BY <1>1, MarkedAre DEF Status
  <2>3. /\ registered' \in [Hashes -> RegSet] /\ announcer' \in {"asking", "wait"}
        /\ short' \in BOOLEAN \/ short' = short
    BY <2>1, <2>2, AdvanceVisits
  <2> QED
    BY <1>1, <1>5, <2>3 DEF Announced
<1>6. ASSUME NEW c \in Callers, NEW h \in Hashes,
             AddBegin(c, h) \/ MagnetBegin(c, h) \/ Toggle(c, h) \/ RemoveBegin(c, h)
      PROVE  Typed'
  <2>1. calls' \in [Callers -> CallSet]
    BY <1>6, CallsGoOn
  <2>2. Unregister(h) => registered' \in [Hashes -> RegSet]
    BY <1>2, RegistrationsAre DEF OwnInv
  <2> QED
    BY <1>1, <1>6, <2>1, <2>2 DEF AddBegin, MagnetBegin, Toggle, RemoveBegin
<1>7. ASSUME NEW c \in Callers,
             MagnetFails(c) \/ MagnetResolved(c) \/ StartFails(c) \/ CloseBegin(c) \/ CloseEnd(c)
      PROVE  Typed'
  <2>1. calls' \in [Callers -> CallSet]
    BY <1>7, CallsGoOn
  <2> QED
    BY <1>1, <1>2, <1>7, <2>1 DEF MagnetFails, MagnetResolved, StartFails, CloseBegin, CloseEnd, LoopEnds
<1>8. ASSUME NEW c \in Callers, AddStarted(c)
      PROVE  Typed'
  <2>1. calls' \in [Callers -> CallSet]
    BY <1>8, CallsGoOn
  <2>2. calls[c].engine \in built /\ calls[c].hash \in Hashes
    BY <1>8 DEF AddStarted, At, OwnInv, CallsAreOwned, Points, CloseSteps
  <2>3. registered' \in [Hashes -> RegSet]
    BY <1>1, <1>8, <2>2, RegistrationsAre DEF OwnInv, AddStarted, Publish
  <2> QED
    BY <1>1, <1>8, <2>1, <2>2, <2>3 DEF AddStarted, Publish
<1>9. ASSUME NEW c \in Callers, Toggled(c) \/ Removed(c)
      PROVE  Typed'
  <2>1. calls' \in [Callers -> CallSet]
    BY <1>9, CallsGoOn
  <2>2. calls[c].engine \in built
    BY <1>9 DEF Toggled, Removed, At, OwnInv, CallsAreOwned
  <2> QED
    BY <1>1, <1>9, <2>1, <2>2 DEF Toggled, Removed
<1>10. ASSUME NEW c \in Callers, CloseRegs(c)
      PROVE  Typed'
  <2>1. calls' \in [Callers -> CallSet]
    BY <1>10, CallsGoOn
  <2>2. toClose' \subseteq built
    BY <1>10 DEF CloseRegs, OwnInv, EnginesAreOwned
  <2> QED
    BY <1>1, <1>2, <1>10, <2>1, <2>2 DEF CloseRegs, LoopEnds
<1>11. ASSUME NEW c \in Callers, NEW e \in Engines, AddBuilt(c, e)
      PROVE  Typed'
  <2>1. calls' \in [Callers -> CallSet]
    BY <1>11, CallsGoOn
  <2>2. calls[c].hash \in Hashes
    BY <1>11 DEF AddBuilt, At, OwnInv, CallsAreOwned, Points, CloseSteps
  <2>3. Register(calls[c].hash, e) => registered' \in [Hashes -> RegSet]
    BY <1>1, <2>2, RegistrationsAre DEF OwnInv
  <2> QED
    BY <1>1, <1>11, <2>1, <2>2, <2>3 DEF AddBuilt, Publish
<1>12. ASSUME NEW c \in Callers, NEW e \in Engines, CloseOne(c, e)
      PROVE  Typed'
  BY <1>1, <1>12 DEF CloseOne
<1> QED
  BY <1>3, <1>4, <1>5, <1>6, <1>7, <1>8, <1>9, <1>10, <1>11, <1>12 DEF SessionNext

(* Whoever closes the session goes on until it ends.                        *)
LEMMA ClosingGoesOn ==
  ASSUME OwnInv, SessionNext, Closing, ~ Closing'
  PROVE  \E c \in Callers : CloseEnd(c)
<1>1. PICK d \in Callers : calls[d].at \in CloseSteps
  BY DEF Closing
<1>2. calls'[d].at \notin CloseSteps
  BY DEF Closing
<1>3. CASE UNCHANGED calls
  BY <1>1, <1>2, <1>3
<1>4. ASSUME NEW c \in Callers, c # d, calls'[d] = calls[d]
      PROVE  FALSE
  BY <1>1, <1>2, <1>4
<1>5. ASSUME NEW c \in Callers,
             \/ MagnetFails(c) \/ MagnetResolved(c) \/ AddStarted(c) \/ StartFails(c)
             \/ Toggled(c) \/ Removed(c) \/ StartDht(c) \/ DhtStarted(c)
             \/ CloseBegin(c) \/ CloseDht(c) \/ CloseNode(c) \/ CloseRegs(c) \/ CloseEnd(c)
             \/ \E e \in Engines : AddBuilt(c, e)
             \/ \E h \in Hashes : AddBegin(c, h) \/ MagnetBegin(c, h) \/ Toggle(c, h) \/ RemoveBegin(c, h)
      PROVE  c = d
  BY <1>4, <1>5, CallsGoOn
<1>6. CASE CloseDht(d) \/ CloseNode(d) \/ CloseRegs(d)
  <2>1. calls'[d].at \in {"unbind", "unreg", "closing"}
    <3>1. calls \in [Callers -> CallSet]
      BY TypesAre DEF OwnInv, Typed
    <3> QED
      BY <1>6, <3>1 DEF CloseDht, CloseNode, CloseRegs, Goto
  <2> QED
    BY <1>2, <2>1 DEF CloseSteps
<1>7. CASE Pass \/ Announced \/ \E c \in Callers, e \in Engines : CloseOne(c, e)
  BY <1>3, <1>7 DEF Pass, RunPass, Announced, CloseOne
<1>8. ASSUME NEW c \in Callers,
             \/ MagnetFails(c) \/ MagnetResolved(c) \/ AddStarted(c) \/ StartFails(c)
             \/ Toggled(c) \/ Removed(c) \/ StartDht(c) \/ DhtStarted(c) \/ CloseBegin(c)
             \/ \E e \in Engines : AddBuilt(c, e)
             \/ \E h \in Hashes : AddBegin(c, h) \/ MagnetBegin(c, h) \/ Toggle(c, h) \/ RemoveBegin(c, h)
      PROVE  FALSE
  <2>1. c = d
    BY <1>5, <1>8
  <2> QED
    BY <1>1, <1>3, <1>8, <2>1 DEF MagnetFails, MagnetResolved, AddStarted, StartFails, Toggled, Removed,
      StartDht, DhtStarted, CloseBegin, AddBuilt, AddBegin, MagnetBegin, Toggle, RemoveBegin, Calls, At,
      CloseSteps
<1> QED
  BY <1>5, <1>6, <1>7, <1>8 DEF SessionNext

(* Nothing but a call to close begins the end of the session.               *)
LEMMA ClosingBegins ==
  ASSUME OwnInv, SessionNext, Closing', ~ Closing
  PROVE  \E c \in Callers : CloseBegin(c)
<1>1. PICK d \in Callers : calls'[d].at \in CloseSteps
  BY DEF Closing
<1>2. calls[d].at \notin CloseSteps
  BY DEF Closing
<1>3. CASE UNCHANGED calls
  BY <1>1, <1>2, <1>3
<1>4. ASSUME NEW c \in Callers, calls' \in [Callers -> CallSet] /\ \A x \in Callers \ {c} : calls'[x] = calls[x]
      PROVE  c = d
  BY <1>1, <1>2, <1>4
<1>5. calls \in [Callers -> CallSet]
  BY TypesAre DEF OwnInv, Typed
<1>6. CASE Pass \/ Announced \/ \E c \in Callers, e \in Engines : CloseOne(c, e)
  BY <1>3, <1>6 DEF Pass, RunPass, Announced, CloseOne
<1>7. ASSUME NEW c \in Callers,
             \/ MagnetFails(c) \/ MagnetResolved(c) \/ AddStarted(c) \/ StartFails(c)
             \/ Toggled(c) \/ Removed(c) \/ StartDht(c) \/ DhtStarted(c)
             \/ CloseDht(c) \/ CloseNode(c) \/ CloseRegs(c) \/ CloseEnd(c)
             \/ \E e \in Engines : AddBuilt(c, e)
             \/ \E h \in Hashes : AddBegin(c, h) \/ MagnetBegin(c, h) \/ Toggle(c, h) \/ RemoveBegin(c, h)
      PROVE  FALSE
  <2>1. c = d
    BY <1>4, <1>7, CallsGoOn
  <2>2. CASE CloseDht(c) \/ CloseNode(c) \/ CloseRegs(c)
    BY <1>2, <2>1, <2>2 DEF CloseDht, CloseNode, CloseRegs, At, CloseSteps
  <2>3. CASE Return(c)
    BY <1>1, <1>5, <2>1, <2>3 DEF Return, NoCall, CloseSteps
  <2>4. ASSUME NEW pc, NEW h, NEW e, Goto(c, pc, h, e), pc \notin CloseSteps
        PROVE  FALSE
    BY <1>1, <1>5, <2>1, <2>4 DEF Goto
  <2>5. CASE \/ MagnetFails(c) \/ MagnetResolved(c) \/ AddStarted(c) \/ StartFails(c)
             \/ Toggled(c) \/ Removed(c) \/ DhtStarted(c) \/ CloseEnd(c)
    BY <2>3, <2>4, <2>5 DEF MagnetFails, MagnetResolved, AddStarted, StartFails, Toggled, Removed,
      DhtStarted, CloseEnd, CloseSteps
  <2>6. CASE \E e \in Engines : AddBuilt(c, e)
    BY <2>3, <2>4, <2>6 DEF AddBuilt, CloseSteps
  <2>7. ASSUME NEW h \in Hashes, AddBegin(c, h) \/ MagnetBegin(c, h) \/ Toggle(c, h) \/ RemoveBegin(c, h)
        PROVE  FALSE
    <3>1. CASE UNCHANGED calls
      BY <1>1, <1>2, <3>1
    <3>2. ASSUME NEW pc \in {"build", "resolve", "pause", "resume", "remove"}, NEW e, Goto(c, pc, h, e)
          PROVE  FALSE
      <4>1. pc \notin CloseSteps
        BY DEF CloseSteps
      <4> QED
        BY <2>4, <3>2, <4>1
    <3>3. CASE Toggle(c, h)
      <4>1. Goto(c, IF services[h] \in serving THEN "pause" ELSE "resume", h, services[h])
        BY <3>3 DEF Toggle
      <4> QED
        BY <3>2, <4>1
    <3> QED
      BY <2>7, <3>1, <3>2, <3>3 DEF AddBegin, MagnetBegin, RemoveBegin
  <2>8. CASE StartDht(c)
    BY <2>4, <2>8 DEF StartDht, CloseSteps
  <2> QED
    BY <1>7, <2>2, <2>5, <2>6, <2>7, <2>8
<1> QED
  BY <1>6, <1>7 DEF SessionNext

LEMMA OwnInvStep ==
  ASSUME SessionAssumption, OwnInv, SessionNext
  PROVE  OwnInv'
<1> USE DEF annVars, engineVars, endVars
<1>1. Typed /\ CallsAreOwned /\ EnginesAreOwned /\ ManagedIsOpen /\ NoEngine \notin Engines
  BY TypesAre DEF OwnInv, SessionAssumption
<1>2. SessionTypeOK'
  BY SessionTypeStep
<1>3. CASE Pass \/ Announced
  <2>1. UNCHANGED <<services, calls, engineVars>>
    BY <1>3 DEF Pass, RunPass, Announced
  <2> QED
    BY <1>1, <1>2, <2>1 DEF OwnInv, CallsAreOwned, EnginesAreOwned, ManagedIsOpen, Closing
<1>4. ASSUME \A h \in Hashes : services'[h] \in closed' => services[h] \in closed \/ Closing'
      PROVE  ManagedIsOpen'
  <2> SUFFICES ASSUME NEW h \in Hashes, services'[h] \in closed', ~ Closing'
               PROVE  FALSE
    BY DEF ManagedIsOpen
  <2>1. Closing
    BY <1>1, <1>4 DEF ManagedIsOpen
  <2>2. PICK c \in Callers : CloseEnd(c)
    BY <2>1, ClosingGoesOn
  <2> QED
    BY <1>1, <2>2 DEF CloseEnd, Typed
<1>5. ASSUME NEW c \in Callers, NEW pc \in Points, NEW g \in Hashes \cup {NoEngine},
             NEW e \in Engines \cup {NoEngine},
             \/ Goto(c, pc, g, e)
             \/ Return(c) /\ pc = "idle" /\ g = NoEngine /\ e = NoEngine,
             pc \in Points \ ({"idle", "bind"} \cup CloseSteps) => g \in Hashes,
             pc \in {"start", "pause", "resume", "remove"} => e \in built',
             pc = "remove" => \A h \in Hashes : services'[h] # e,
             built \subseteq built',
             \A d \in Callers \ {c}, h \in Hashes : calls[d].at = "remove" => services'[h] # calls[d].engine
      PROVE  CallsAreOwned'
  <2>1. /\ calls'[c] = [at |-> pc, hash |-> g, engine |-> e]
        /\ \A d \in Callers \ {c} : calls'[d] = calls[d]
    BY <1>5, Called DEF OwnInv
  <2>2. /\ calls'[c].at = pc /\ calls'[c].hash = g /\ calls'[c].engine = e
    BY <2>1
  <2> QED
    BY <1>1, <1>5, <2>1, <2>2 DEF CallsAreOwned
<1>6. ASSUME NEW c \in Callers, Return(c), services' = services, built' = built
      PROVE  CallsAreOwned' /\ EnginesAreOwned'
  <2>1. CallsAreOwned'
    BY <1>1, <1>5, <1>6 DEF Points, CallsAreOwned, CloseSteps
  <2> QED
    BY <1>1, <1>6, <2>1 DEF EnginesAreOwned
<1>7. ASSUME UNCHANGED <<services, built, closed>>
      PROVE  EnginesAreOwned' /\ ManagedIsOpen'
  BY <1>1, <1>4, <1>7 DEF EnginesAreOwned
<1>8. ASSUME NEW c \in Callers,
             MagnetFails(c) \/ AddStarted(c) \/ StartFails(c) \/ Toggled(c) \/ DhtStarted(c)
      PROVE  OwnInv'
  <2>1. Return(c) /\ UNCHANGED <<services, built, closed>>
    BY <1>8 DEF MagnetFails, AddStarted, StartFails, Toggled, DhtStarted
  <2> QED
    BY <1>2, <1>6, <1>7, <2>1 DEF OwnInv
<1>9. ASSUME NEW c \in Callers, NEW h \in Hashes,
             AddBegin(c, h) \/ MagnetBegin(c, h) \/ Toggle(c, h)
      PROVE  OwnInv'
  <2>1. /\ UNCHANGED <<services, built, closed>>
        /\ \/ Goto(c, "build", h, NoEngine) \/ Goto(c, "resolve", h, NoEngine)
           \/ Goto(c, "pause", h, services[h]) /\ services[h] # NoEngine
           \/ Goto(c, "resume", h, services[h]) /\ services[h] # NoEngine
    BY <1>9 DEF AddBegin, MagnetBegin, Toggle
  <2>2. CallsAreOwned'
    <3>1. /\ NoEngine \in Engines \cup {NoEngine} /\ services[h] \in Engines \cup {NoEngine}
          /\ services[h] # NoEngine => services[h] \in built
          /\ \A d \in Callers, g \in Hashes : calls[d].at = "remove" => services[g] # calls[d].engine
      BY <1>1 DEF Typed, EnginesAreOwned, CallsAreOwned
    <3>2. CASE Goto(c, "build", h, NoEngine)
      BY <1>5, <2>1, <3>1, <3>2 DEF Points, CloseSteps
    <3>3. CASE Goto(c, "resolve", h, NoEngine)
      BY <1>5, <2>1, <3>1, <3>3 DEF Points, CloseSteps
    <3>4. CASE Goto(c, "pause", h, services[h]) /\ services[h] # NoEngine
      BY <1>5, <2>1, <3>1, <3>4 DEF Points, CloseSteps
    <3>5. CASE Goto(c, "resume", h, services[h]) /\ services[h] # NoEngine
      BY <1>5, <2>1, <3>1, <3>5 DEF Points, CloseSteps
    <3> QED
      BY <2>1, <3>2, <3>3, <3>4, <3>5
  <2> QED
    BY <1>2, <1>7, <2>1, <2>2 DEF OwnInv
<1>10. ASSUME NEW c \in Callers,
              \/ MagnetResolved(c) \/ StartDht(c)
              \/ CloseBegin(c) \/ CloseDht(c) \/ CloseNode(c) \/ CloseRegs(c)
      PROVE  OwnInv'
  <2>1. /\ UNCHANGED <<services, built, closed>>
        /\ \/ Goto(c, "build", calls[c].hash, NoEngine) /\ calls[c].at = "resolve"
           \/ Return(c)
           \/ \E pc \in {"bind"} \cup CloseSteps : Goto(c, pc, NoEngine, NoEngine)
    BY <1>10 DEF MagnetResolved, StartDht, CloseBegin, CloseDht, CloseNode, CloseRegs, At, CloseSteps
  <2>2. CallsAreOwned'
    <3>1. /\ NoEngine \in Engines \cup {NoEngine} /\ NoEngine \in Hashes \cup {NoEngine}
          /\ calls[c].at = "resolve" => calls[c].hash \in Hashes
          /\ \A d \in Callers, g \in Hashes : calls[d].at = "remove" => services[g] # calls[d].engine
      BY <1>1 DEF CallsAreOwned, Points, CloseSteps
    <3>2. CASE Goto(c, "build", calls[c].hash, NoEngine) /\ calls[c].at = "resolve"
      BY <1>5, <2>1, <3>1, <3>2 DEF Points, CloseSteps
    <3>3. CASE Return(c)
      BY <1>6, <2>1, <3>3
    <3>4. ASSUME NEW pc \in {"bind"} \cup CloseSteps, Goto(c, pc, NoEngine, NoEngine)
          PROVE  CallsAreOwned'
      <4>1. /\ pc \in Points /\ pc \notin Points \ ({"idle", "bind"} \cup CloseSteps)
            /\ pc \notin {"start", "pause", "resume", "remove"} /\ pc # "remove"
        BY DEF Points, CloseSteps
      <4> QED
        BY <1>5, <2>1, <3>1, <3>4, <4>1
    <3> QED
      BY <2>1, <3>2, <3>3, <3>4
  <2> QED
    BY <1>2, <1>7, <2>1, <2>2 DEF OwnInv
<1>11. ASSUME NEW c \in Callers, NEW h \in Hashes, RemoveBegin(c, h)
      PROVE  OwnInv'
  <2>1. CASE UNCHANGED <<services, calls>>
    <3>1. UNCHANGED <<services, calls, built, closed>>
      BY <1>11, <2>1 DEF RemoveBegin
    <3>2. CallsAreOwned'
      BY <1>1, <3>1 DEF CallsAreOwned
    <3> QED
      BY <1>2, <1>7, <3>1, <3>2 DEF OwnInv
  <2>2. CASE /\ services[h] # NoEngine /\ Goto(c, "remove", h, services[h])
             /\ services' = [services EXCEPT ![h] = NoEngine] /\ UNCHANGED <<built, closed>>
    <3>1. /\ services[h] \in built /\ built \subseteq Engines
          /\ \A g \in Hashes : services'[g] = IF g = h THEN NoEngine ELSE services[g]
          /\ \A g \in Hashes : services'[g] # services[h]
      BY <1>1, <2>2 DEF Typed, EnginesAreOwned
    <3>2. \A d \in Callers, g \in Hashes : calls[d].at = "remove" => services'[g] # calls[d].engine
      BY <1>1, <3>1 DEF CallsAreOwned, Typed
    <3>3. CallsAreOwned'
      BY <1>5, <2>2, <3>1, <3>2 DEF Points, CloseSteps
    <3>4. EnginesAreOwned'
      BY <1>1, <2>2, <3>1 DEF EnginesAreOwned
    <3>5. ManagedIsOpen'
      BY <1>1, <1>4, <2>2, <3>1 DEF Typed
    <3> QED
      BY <1>2, <3>3, <3>4, <3>5 DEF OwnInv
  <2> QED
    BY <1>11, <2>1, <2>2 DEF RemoveBegin
<1>12. ASSUME NEW c \in Callers, Removed(c)
      PROVE  OwnInv'
  <2>1. /\ Return(c) /\ UNCHANGED <<services, built>> /\ closed' = closed \cup {calls[c].engine}
        /\ \A h \in Hashes : services[h] # calls[c].engine
    BY <1>1, <1>12 DEF Removed, At, CallsAreOwned
  <2> QED
    BY <1>2, <1>4, <1>6, <2>1 DEF OwnInv
<1>13. ASSUME NEW c \in Callers, NEW e \in Engines, AddBuilt(c, e)
      PROVE  OwnInv'
  <2> DEFINE g == calls[c].hash
  <2>1. /\ g \in Hashes /\ e \notin built /\ built' = built \cup {e} /\ closed' = closed
        /\ services' = [services EXCEPT ![g] = e]
        /\ Goto(c, "start", g, e) \/ Return(c)
    BY <1>1, <1>13 DEF AddBuilt, At, CallsAreOwned, Points, CloseSteps
  <2> HIDE DEF g
  <2>2. \A h \in Hashes : services'[h] = IF h = g THEN e ELSE services[h]
    BY <1>1, <2>1 DEF Typed
  <2>3. \A d \in Callers, h \in Hashes : calls[d].at = "remove" => services'[h] # calls[d].engine
    BY <1>1, <2>1, <2>2 DEF CallsAreOwned
  <2>4. CallsAreOwned'
    <3>1. CASE Goto(c, "start", g, e)
      BY <1>5, <2>1, <2>3, <3>1 DEF Points, CloseSteps
    <3>2. CASE Return(c)
      BY <1>5, <2>1, <2>3, <3>2 DEF Points, CloseSteps
    <3> QED
      BY <2>1, <3>1, <3>2
  <2>5. EnginesAreOwned'
    <3>1. \A h \in Hashes : services[h] # e
      BY <1>1, <2>1 DEF EnginesAreOwned
    <3> QED
      BY <1>1, <2>1, <2>2, <3>1 DEF EnginesAreOwned
  <2>6. ManagedIsOpen'
    BY <1>1, <1>4, <2>1, <2>2 DEF Typed
  <2> QED
    BY <1>2, <2>4, <2>5, <2>6 DEF OwnInv
<1>14. ASSUME NEW c \in Callers, NEW e \in Engines, CloseOne(c, e)
      PROVE  OwnInv'
  <2>1. UNCHANGED <<services, calls, built>> /\ Closing'
    BY <1>14 DEF CloseOne, Closing, At, CloseSteps
  <2>2. CallsAreOwned' /\ EnginesAreOwned'
    BY <1>1, <2>1 DEF CallsAreOwned, EnginesAreOwned
  <2> QED
    BY <1>2, <1>4, <2>1, <2>2 DEF OwnInv
<1>15. ASSUME NEW c \in Callers, CloseEnd(c)
      PROVE  OwnInv'
  <2>1. /\ Return(c) /\ UNCHANGED <<built, closed>> /\ built \subseteq Engines
        /\ \A h \in Hashes : services'[h] = NoEngine
    BY <1>1, <1>15 DEF CloseEnd, Typed
  <2>2. \A d \in Callers, h \in Hashes : calls[d].at = "remove" => services'[h] # calls[d].engine
    BY <1>1, <2>1 DEF CallsAreOwned
  <2>3. CallsAreOwned'
    BY <1>5, <2>1, <2>2 DEF Points, CloseSteps
  <2>4. EnginesAreOwned' /\ ManagedIsOpen'
    BY <1>1, <1>4, <2>1 DEF EnginesAreOwned, Typed
  <2> QED
    BY <1>2, <2>3, <2>4 DEF OwnInv
<1> QED
  BY <1>3, <1>8, <1>9, <1>10, <1>11, <1>12, <1>13, <1>14, <1>15 DEF SessionNext

LEMMA OwnInvStart ==
  ASSUME SessionInit
  PROVE  OwnInv
<1>1. \A c \in Callers : calls[c].at = "idle"
  BY DEF SessionInit, NoCall
<1>2. SessionTypeOK
  <2>1. NoCall \in CallSet /\ NoReg \in RegSet
    BY DEF NoCall, NoReg, CallSet, Points, RegSet, Status, CloseSteps
  <2> QED
    BY <2>1, TypesAre DEF SessionInit, Typed
<1> QED
  BY <1>1, <1>2 DEF SessionInit, OwnInv, CallsAreOwned, EnginesAreOwned, ManagedIsOpen

-----------------------------------------------------------------------------
LEMMA HeardInvStart ==
  ASSUME SessionInit
  PROVE  HeardInv
<1>1. ~ Closing
  BY DEF SessionInit, NoCall, Closing, CloseSteps
<1> QED
  BY <1>1, OwnInvStart
  DEF OwnInv, HeardInv, Heard, LoopHasNode, SessionInit, PokeIsHeard, PassHasNode, NewAreQueued

(* Whatever is registered anew pokes the loop.                              *)
LEMMA HeardInvStep ==
  ASSUME OwnInv, HeardInv, SessionNext
  PROVE  HeardInv'
<1> USE DEF annVars, engineVars, endVars
<1>1. Typed /\ PokeIsHeard /\ PassHasNode /\ LoopHasNode /\ (~late => NewAreQueued)
  BY TypesAre DEF HeardInv, Heard
<1>2. SessionTypeOK'
  BY SessionTypeStep
<1>3. ASSUME NEW c \in Callers, CloseBegin(c)
      PROVE  HeardInv'
  BY <1>1, <1>2, <1>3
  DEF CloseBegin, LoopEnds, HeardInv, Heard, LoopHasNode, PokeIsHeard, PassHasNode, NewAreQueued
<1> SUFFICES ASSUME Closing' => Closing
             PROVE  HeardInv'
  BY <1>3, ClosingBegins
<1>4. ASSUME UNCHANGED <<attached, announcer, queue, dht, late>>, ended' => ended \/ Closing,
             \/ poked'
             \/ poked' = poked /\ \A h \in Hashes :
                  registered'[h].status = "new" => registered'[h] = registered[h]
      PROVE  HeardInv'
  BY <1>1, <1>2, <1>4 DEF HeardInv, Heard, LoopHasNode, PokeIsHeard, PassHasNode, NewAreQueued
<1>5. ASSUME NEW c \in Callers, DhtStarted(c)
      PROVE  HeardInv'
  <2>1. CASE UNCHANGED <<dht, attached, announcer, late>>
    BY <1>4, <1>5, <2>1 DEF DhtStarted
  <2>2. CASE /\ dht' = "bound" /\ attached' = TRUE
             /\ announcer' = IF announcer = "off" THEN "begin" ELSE announcer
             /\ late' = (late \/ Closing \/ ended)
    BY <1>1, <1>2, <1>5, <2>2
    DEF DhtStarted, HeardInv, Heard, LoopHasNode, PokeIsHeard, PassHasNode, NewAreQueued
  <2> QED
    BY <1>5, <2>1, <2>2 DEF DhtStarted
<1>6. CASE Pass
  <2>1. CASE attached
    <3> DEFINE todo == {<<h, registered[h].engine>> : h \in {g \in Hashes : registered[g] # NoReg}}
    <3>1. Advance(registered, todo) /\ attached' = attached
      BY <1>6, <2>1 DEF Pass, RunPass, PassBody
    <3>4. UNCHANGED <<dht, late, ended>> /\ announcer # "off"
      BY <1>6 DEF Pass, RunPass
    <3>2. \A h \in Hashes : registered[h].status = "new" => <<h, registered[h].engine>> \in todo
      BY DEF NoReg
    <3> HIDE DEF todo
    <3>3. \A h \in Hashes : registered'[h].status = "new" =>
            /\ announcer' = "asking" => <<h, registered'[h].engine>> \in queue'
            /\ announcer' # "wait"
      BY <1>1, <2>1, <3>1, <3>2, AdvanceVisits DEF Typed
    <3> QED
      BY <1>1, <1>2, <2>1, <3>1, <3>3, <3>4 DEF HeardInv, Heard, LoopHasNode, PokeIsHeard, PassHasNode, NewAreQueued
  <2>2. CASE ~attached
    BY <1>1, <1>2, <1>6, <2>2 DEF Pass, RunPass, PassBody, HeardInv, Heard, LoopHasNode, PokeIsHeard, PassHasNode, NewAreQueued
  <2> QED
    BY <2>1, <2>2
<1>7. CASE Announced
  <2> DEFINE one == {current}
  <2>1. PICK status \in {"published", "failed"} : Advance(Marked(registered, one, status), queue)
    BY <1>7 DEF Announced
  <2> DEFINE regs == Marked(registered, one, status)
  <2> HIDE DEF one
  <2>2. /\ regs \in [Hashes -> RegSet]
        /\ \A h \in Hashes :
             /\ regs[h].engine = registered[h].engine
             /\ <<h, registered[h].engine>> \in one => regs[h].status = status
             /\ <<h, registered[h].engine>> \notin one => regs[h] = registered[h]
    BY <1>1, MarkedAre DEF Status, Typed
  <2>3. Advance(regs, queue)
    BY <2>1
  <2> HIDE DEF regs
  <2>4. \A h \in Hashes : regs[h].status = "new" => regs[h] = registered[h]
    BY <2>2
  <2>5. \A h \in Hashes : registered'[h].status = "new" =>
          /\ regs[h].status = "new" /\ registered'[h].engine = regs[h].engine
          /\ announcer' = "wait" /\ attached => <<h, regs[h].engine>> \notin queue
          /\ announcer' = "asking" /\ <<h, regs[h].engine>> \in queue => <<h, registered'[h].engine>> \in queue'
    BY <2>2, <2>3, AdvanceVisits
  <2>6. announcer = "asking" /\ UNCHANGED <<poked, attached, dht, late, ended>>
    BY <1>7 DEF Announced
  <2> QED
    BY <1>1, <1>2, <2>4, <2>5, <2>6 DEF HeardInv, Heard, LoopHasNode, PokeIsHeard, PassHasNode, NewAreQueued
<1>8. ASSUME NEW c \in Callers, NEW h \in Hashes,
             AddBegin(c, h) \/ MagnetBegin(c, h) \/ Toggle(c, h) \/ RemoveBegin(c, h)
      PROVE  HeardInv'
  <2>1. Unregister(h) => \A g \in Hashes : registered'[g].status = "new" => registered'[g] = registered[g]
    BY <1>1 DEF Unregister, Typed, NoReg
  <2> QED
    BY <1>4, <1>8, <2>1 DEF AddBegin, MagnetBegin, Toggle, RemoveBegin
<1>9. ASSUME NEW c \in Callers, AddStarted(c) \/ \E e \in Engines : AddBuilt(c, e)
      PROVE  HeardInv'
  BY <1>4, <1>9 DEF AddStarted, AddBuilt, Publish
<1>10. ASSUME NEW c \in Callers,
              \/ MagnetFails(c) \/ MagnetResolved(c) \/ StartFails(c) \/ Toggled(c) \/ Removed(c)
              \/ StartDht(c) \/ CloseEnd(c) \/ \E e \in Engines : CloseOne(c, e)
      PROVE  HeardInv'
  <2>1. CloseEnd(c) => Closing
    BY DEF CloseEnd, Closing, At, CloseSteps
  <2> QED
    BY <1>4, <1>10, <2>1 DEF MagnetFails, MagnetResolved, StartFails, Toggled, Removed, StartDht,
      CloseEnd, CloseOne
<1>11. ASSUME NEW c \in Callers, CloseDht(c) \/ CloseNode(c) \/ CloseRegs(c)
      PROVE  HeardInv'
  <2>1. Closing /\ late' = late /\ ended' = ended
    BY <1>11 DEF CloseDht, CloseNode, CloseRegs, Closing, At, CloseSteps
  <2>2. ~late => announcer = "off" /\ announcer' = "off"
    BY <1>1, <1>11, <2>1 DEF PassHasNode, CloseDht, CloseNode, CloseRegs, LoopEnds
  <2> QED
    BY <1>2, <2>1, <2>2 DEF HeardInv, Heard, LoopHasNode, PokeIsHeard, PassHasNode, NewAreQueued
<1> QED
  BY <1>3, <1>5, <1>6, <1>7, <1>8, <1>9, <1>10, <1>11 DEF SessionNext

LEMMA SessionStays ==
  ASSUME OwnInv, HeardInv, UNCHANGED sessionVars
  PROVE  OwnInv' /\ HeardInv'
BY DEF sessionVars, annVars, engineVars, endVars, OwnInv, HeardInv, SessionTypeOK, CallsAreOwned,
  EnginesAreOwned, ManagedIsOpen, Heard, LoopHasNode, PokeIsHeard, PassHasNode, NewAreQueued, Closing

(* A torrent the session manages has an engine nobody closed, and the       *)
(* announcer hears of every torrent before it waits, with any number of     *)
(* torrents, calls and engines, whether or not the calls are in turn.       *)
THEOREM ManagedIsOpenAlways ==
  ASSUME SessionAssumption
  PROVE  SessionSpec => [](SessionTypeOK /\ ManagedIsOpen /\ PokeIsHeard /\ PassHasNode)
<1> DEFINE Inv == OwnInv /\ HeardInv
<1>1. SessionInit => Inv
  BY OwnInvStart, HeardInvStart
<1>2. Inv /\ [SessionNext]_sessionVars => Inv'
  BY OwnInvStep, HeardInvStep, SessionStays
<1>3. Inv => SessionTypeOK /\ ManagedIsOpen /\ PokeIsHeard /\ PassHasNode
  BY DEF OwnInv, HeardInv, Heard
<1> QED
  BY <1>1, <1>2, <1>3, PTL DEF SessionSpec

-----------------------------------------------------------------------------
(* The configuration: whenever the client dies, the file is what it was or  *)
(* a configuration that a save was begun with.                              *)

(* What stands in a file, and what a section can be told.                   *)
Told == Values \cup {Invalid, Absent}
Files == {NoFile, Broken, NotText} \cup {Mapping(m) : m \in [Sections -> Told]}

(* A temporary file that is about to be put in place is whole.              *)
SavedInv ==
  /\ SettingsTypeOK /\ file \in Files /\ kept \subseteq Configs
  /\ SavedOrBefore
  /\ saving => \E c \in kept : temp = Mapping(c)

LEMMA MappingsAre ==
  ASSUME SettingsAssumption, NEW m \in [Sections -> Told]
  PROVE  /\ Acceptable(m) => FromMapping(m) \in Configs
         /\ \A over \in [Sections -> Told] : Merged(m, over) \in [Sections -> Told]
BY DEF SettingsAssumption, Acceptable, FromMapping, Section, Configs, Merged, Told

LEMMA LoadedIsConfig ==
  ASSUME SettingsAssumption, NEW f \in Files
  PROVE  Loaded(f) \in Configs
<1>1. Defaults \in Configs
  BY DEF SettingsAssumption, Defaults, Configs
<1>2. CASE f \in {NoFile, Broken, NotText}
  <2>1. NoFile.kind = "none" /\ Broken.kind = "not JSON" /\ NotText.kind = "not UTF-8"
    BY DEF NoFile, Broken, NotText
  <2>2. f.kind # "mapping"
    BY <1>2, <2>1
  <2> QED
    BY <1>1, <2>2 DEF Loaded
<1>3. ASSUME NEW m \in [Sections -> Told], f = Mapping(m)
      PROVE  Loaded(f) \in Configs
  <2>1. f.of = m
    BY <1>3 DEF Mapping
  <2> QED
    BY <1>1, <2>1, MappingsAre DEF Loaded
<1> QED
  BY <1>2, <1>3 DEF Files

LEMMA SavedInvStart ==
  ASSUME SettingsAssumption, SettingsInit
  PROVE  SavedInv
<1>1. file \in Files
  <2>1. [Sections -> {Default, Invalid, Absent}] \subseteq [Sections -> Told]
    BY DEF SettingsAssumption, Told
  <2> QED
    BY <2>1 DEF SettingsInit, Written, Files
<1>2. config \in Configs /\ launched \in BOOLEAN
  BY <1>1, LoadedIsConfig DEF SettingsInit, Starts
<1>3. begun \in 0 .. MaxSaves
  BY DEF SettingsInit, SettingsAssumption
<1> QED
  BY <1>1, <1>2, <1>3 DEF SettingsInit, SavedInv, SettingsTypeOK, SavedOrBefore

LEMMA SavedInvStep ==
  ASSUME SettingsAssumption, SavedInv, SettingsNext \/ UNCHANGED setVars
  PROVE  SavedInv'
<1> DEFINE Types == /\ config \in Configs /\ launched \in BOOLEAN /\ saving \in BOOLEAN
                    /\ begun \in 0 .. MaxSaves /\ file \in Files /\ kept \subseteq Configs
<1>1. Types /\ SavedOrBefore /\ (saving => \E c \in kept : temp = Mapping(c))
  BY DEF SavedInv, SettingsTypeOK, Told
<1>2. Types' /\ SavedOrBefore' /\ (saving' => \E c \in kept' : temp' = Mapping(c)) => SavedInv'
  BY DEF SavedInv, SettingsTypeOK, Told
<1>3. Configs \subseteq [Sections -> Told] /\ \A c \in Configs : Mapping(c) \in Files
  BY DEF Configs, Told, Files
<1>4. ASSUME NEW s \in Sections, NEW v \in Values, Override(s, v)
      PROVE  SavedInv'
  <2> DEFINE over == [NoEdits EXCEPT ![s] = v]
  <2>1. over \in [Sections -> Values \cup {Absent}] /\ over \in [Sections -> Told]
    BY <1>4 DEF NoEdits, Override, Told
  <2>2. Merged(config, over) \in Configs
    BY <1>1, <2>1 DEF Merged, Configs
  <2>3. config' \in Configs
    BY <1>4, <2>2 DEF Override, FromMapping, Section, Configs, SettingsAssumption
  <2> QED
    BY <1>1, <1>2, <1>4, <2>3 DEF Override, SavedOrBefore
<1>5. CASE SaveBegin
  <2>1. begun' \in 0 .. MaxSaves
    BY <1>1, <1>5 DEF SaveBegin, SettingsAssumption
  <2> QED
    BY <1>1, <1>2, <1>5, <2>1 DEF SaveBegin, SavedOrBefore
<1>6. CASE SaveEnd
  BY <1>1, <1>2, <1>3, <1>6 DEF SaveEnd, SavedOrBefore
<1>7. CASE Restart
  BY <1>1, <1>2, <1>7, LoadedIsConfig DEF Restart, SavedOrBefore, Starts
<1>8. CASE UNCHANGED setVars
  BY <1>1, <1>2, <1>8 DEF setVars, SavedOrBefore
<1> QED
  BY <1>4, <1>5, <1>6, <1>7, <1>8 DEF SettingsNext

(* Whenever the client dies, the configuration that the next start finds is *)
(* one that a save was begun with, or the one there was before any save     *)
(* (Config.save writes next to the file and renames), for any sections,     *)
(* values and number of saves.                                              *)
THEOREM SettingsAreSavedAlways ==
  ASSUME SettingsAssumption
  PROVE  SettingsSpec => [](SettingsTypeOK /\ SavedOrBefore)
<1>1. SettingsInit => SavedInv
  BY SavedInvStart
<1>2. SavedInv /\ [SettingsNext]_setVars => SavedInv'
  BY SavedInvStep
<1>3. SavedInv => SettingsTypeOK /\ SavedOrBefore
  BY DEF SavedInv
<1> QED
  BY <1>1, <1>2, <1>3, PTL DEF SettingsSpec

-----------------------------------------------------------------------------
(* The command line: progress is on disk when a command has ended, and 0    *)
(* means that what was asked was done.                                      *)

(* Before a download waits it has nothing to save; an exit code is given at *)
(* the end.                                                                 *)
CommandInv ==
  /\ where \in {"parsing", "announcing", "adding"} => ~unwritten
  /\ code = 0 => where = "ended"
  /\ EndedIsSaved /\ ZeroIsComplete

LEMMA CommandInvStart ==
  ASSUME CliInit
  PROVE  CommandInv
BY DEF CliInit, CommandInv, EndedIsSaved, ZeroIsComplete

LEMMA CommandInvStep ==
  ASSUME CommandInv, CliNext \/ UNCHANGED cliVars
  PROVE  CommandInv'
<1> USE DEF CommandInv, EndedIsSaved, ZeroIsComplete
<1>1. CASE Added \/ AddFails \/ Piece \/ SeedingEnds
  BY <1>1 DEF Added, AddFails, Piece, SeedingEnds
<1>2. CASE Unwound
  BY <1>2 DEF Unwound, Next2
<1>3. CASE Closed
  BY <1>3 DEF Closed, ExitCode, Interrupted
<1>4. CASE CtrlC
  BY <1>4 DEF CtrlC, CancelWork, CancelUnwinding, CancelClose, Interrupted
<1>5. ASSUME NEW well \in BOOLEAN, Parsed(well) \/ AnnounceEnds(well) \/ WaitEnds(well)
      PROVE  CommandInv'
  BY <1>5 DEF Parsed, AnnounceEnds, WaitEnds, Next2
<1>6. CASE UNCHANGED cliVars
  BY <1>6 DEF cliVars
<1> QED
  BY <1>1, <1>2, <1>3, <1>4, <1>5, <1>6 DEF CliNext

(* A command that has ended has its progress on disk, unless an interrupt   *)
(* caught it while it closed, and 0 says that what was asked was done,      *)
(* whenever Ctrl-C comes and however often (cli.main's handlers).           *)
THEOREM CommandsAreSavedAlways == CliSpec => [](EndedIsSaved /\ ZeroIsComplete)
<1>1. CliInit => CommandInv
  BY CommandInvStart
<1>2. CommandInv /\ [CliNext]_cliVars => CommandInv'
  BY CommandInvStep
<1>3. CommandInv => EndedIsSaved /\ ZeroIsComplete
  BY DEF CommandInv
<1> QED
  BY <1>1, <1>2, <1>3, PTL DEF CliSpec

-----------------------------------------------------------------------------
(* The desktop client: an exit that was given its time loses no progress.   *)

Items == [kind : {"start", "add", "stop", "halt"}, what : Nat \cup Links]
StopsOf(q) == {i \in 1 .. Len(q) : q[i].kind = "stop"}

(* Application.stop is asked for once.                                       *)
Once(q) == q \in Seq(Items) /\ \A i, j \in StopsOf(q) : i = j
Asked(w, s, q) ==
  /\ Once(q)
  /\ w \in {"off", "up"} \/ StopsOf(q) # {} => s = "no"
  /\ w \in {"off", "up"} => StopsOf(q) = {}

(* One process, by where its main thread, its loop and its stop are.        *)
Departed(w, l, s, parts, un, c) ==
  /\ w = "off" => l = "none"
  /\ \A t \in Torrents : parts[t] = "closed" => t \notin un
  /\ s = "done" => \A t \in Torrents : parts[t] = "closed"
  /\ l = "none" => un = {}
  /\ w \in {"off", "up", "waiting"} => c = "whole"
  /\ w \in {"joining", "gone"} /\ c = "whole" => s = "done" \/ l = "none"

DeskTypes ==
  /\ phase \in [Procs -> {"off", "up", "waiting", "joining", "gone"}]
  /\ name \in Procs \cup {"nobody"} /\ inbox \in [Procs -> Seq(Links)]
  /\ link \in [Links -> {"idle", "sent", "queued", "added", "dropped"}]
  /\ loop \in [Procs -> {"none", "serving", "stopped"}]
  /\ stop \in [Procs -> {"no", "dht", "services", "done"}]
PartTypes ==
  /\ part \in [Procs -> [Torrents -> {"open", "flushing", "saving", "closed"}]]
  /\ unsaved \in [Procs -> SUBSET Torrents]
  /\ cut \in [Procs -> {"whole", "stop", "join", "crash"}]
  /\ backlog \in [Procs -> Seq(Items)]

DeskInv ==
  /\ DeskTypes /\ PartTypes
  /\ \A p \in Procs :
       /\ Asked(phase[p], stop[p], backlog[p])
       /\ Departed(phase[p], loop[p], stop[p], part[p], unsaved[p], cut[p])

LEMMA OnceAppends ==
  ASSUME NEW q, NEW m \in Items, Once(q)
  PROVE  /\ m.kind # "stop" => Once(Append(q, m)) /\ StopsOf(Append(q, m)) = StopsOf(q)
         /\ m.kind = "stop" /\ StopsOf(q) = {} => Once(Append(q, m))
<1> DEFINE n == Len(q)
           r == Append(q, m)
<1>1. q \in Seq(Items) /\ n \in Nat /\ \A i, j \in StopsOf(q) : i = j
  BY DEF Once
<1>2. r \in Seq(Items) /\ Len(r) = n + 1 /\ r[n + 1] = m /\ \A i \in 1 .. n : r[i] = q[i]
  BY <1>1
<1> HIDE DEF n, r
<1>3. StopsOf(q) = {i \in 1 .. n : q[i].kind = "stop"}
  BY DEF StopsOf, n
<1>4. StopsOf(r) = {i \in 1 .. n + 1 : r[i].kind = "stop"}
  BY <1>2 DEF StopsOf
<1>5. StopsOf(r) = StopsOf(q) \cup (IF m.kind = "stop" THEN {n + 1} ELSE {})
  BY <1>1, <1>2, <1>3, <1>4
<1> QED
  BY <1>1, <1>2, <1>5 DEF Once, r

LEMMA OnceTails ==
  ASSUME NEW q, q # << >>, Once(q)
  PROVE  /\ Once(Tail(q))
         /\ Head(q).kind = "stop" => StopsOf(Tail(q)) = {}
         /\ StopsOf(q) = {} => StopsOf(Tail(q)) = {} /\ Head(q).kind # "stop"
<1> DEFINE n == Len(q)
           r == Tail(q)
           h == Head(q)
<1>1. q \in Seq(Items) /\ n \in Nat \ {0} /\ \A i, j \in StopsOf(q) : i = j
  BY DEF Once
<1>2. r \in Seq(Items) /\ Len(r) = n - 1 /\ h = q[1] /\ \A i \in 1 .. n - 1 : r[i] = q[i + 1]
  BY <1>1
<1> HIDE DEF n, r, h
<1>3. StopsOf(q) = {i \in 1 .. n : q[i].kind = "stop"}
  BY DEF StopsOf, n
<1>4. StopsOf(r) = {i \in 1 .. n - 1 : r[i].kind = "stop"}
  BY <1>2 DEF StopsOf
<1>5. /\ \A i \in StopsOf(r) : i \in 1 .. n - 1 /\ i + 1 \in StopsOf(q)
      /\ 1 \in StopsOf(q) <=> h.kind = "stop"
  BY <1>1, <1>2, <1>3, <1>4
<1>6. \A i, j \in StopsOf(r) : i = j
  <2> TAKE i \in StopsOf(r), j \in StopsOf(r)
  <2>1. i \in Nat /\ j \in Nat /\ i + 1 = j + 1
    BY <1>1, <1>5
  <2> QED
    BY <2>1
<1>7. h.kind = "stop" => StopsOf(r) = {}
  <2> SUFFICES ASSUME h.kind = "stop", NEW i \in StopsOf(r)
               PROVE  FALSE
    OBVIOUS
  <2>1. i \in Nat \ {0} /\ i + 1 = 1
    BY <1>1, <1>5
  <2> QED
    BY <2>1
<1> QED
  BY <1>2, <1>5, <1>6, <1>7 DEF Once, r, h

LEMMA DeskInvStart ==
  ASSUME DeskInit
  PROVE  DeskInv
<1>1. << >> \in Seq(Items) /\ << >> \in Seq(Links) /\ StopsOf(<< >>) = {}
  BY DEF StopsOf
<1>2. DeskTypes /\ PartTypes
  BY <1>1 DEF DeskInit, DeskTypes, PartTypes
<1>3. ASSUME NEW p \in Procs
      PROVE  /\ Asked(phase[p], stop[p], backlog[p])
             /\ Departed(phase[p], loop[p], stop[p], part[p], unsaved[p], cut[p])
  BY <1>1 DEF DeskInit, Departed, Asked, Once
<1> QED
  BY <1>2, <1>3 DEF DeskInv

(* What a step does not touch stays as it was.                              *)
Same(r) ==
  /\ phase'[r] = phase[r] /\ loop'[r] = loop[r] /\ backlog'[r] = backlog[r] /\ stop'[r] = stop[r]
  /\ part'[r] = part[r] /\ unsaved'[r] = unsaved[r]
  /\ cut'[r] = cut[r]

LEMMA OthersStay ==
  ASSUME DeskInv, NEW p \in Procs, DeskTypes', PartTypes', \A r \in Procs \ {p} : Same(r),
         Asked(phase'[p], stop'[p], backlog'[p]),
         Departed(phase'[p], loop'[p], stop'[p], part'[p], unsaved'[p], cut'[p])
  PROVE  DeskInv'
BY DEF DeskInv, Same

(* A process of which nothing is touched but where it is.                   *)
LEMMA UpKeeps ==
  ASSUME DeskInv, NEW p \in Procs, phase[p] = "off", Up(p),
         inbox' \in [Procs -> Seq(Links)],
         link' \in [Links -> {"idle", "sent", "queued", "added", "dropped"}],
         UNCHANGED <<stop, part, unsaved, cut>>
  PROVE  DeskInv'
<1> DEFINE m == Item("start", 0)
           q == Append(backlog[p], m)
<1>1. m \in Items /\ m.kind = "start"
  BY DEF Item, Items
<1>2. /\ unsaved[p] = {} /\ cut[p] = "whole" /\ Once(backlog[p]) /\ StopsOf(backlog[p]) = {}
      /\ Departed("off", "none", stop[p], part[p], {}, "whole") /\ stop[p] = "no"
  BY DEF DeskInv, Departed, Asked
<1>3. /\ phase' = [phase EXCEPT ![p] = "up"] /\ loop' = [loop EXCEPT ![p] = "serving"]
      /\ backlog' = [backlog EXCEPT ![p] = q] /\ name' = p
  BY DEF Up, StartLoop, Submit, TakeName
<1> HIDE DEF m
<1>4. q \in Seq(Items) /\ Asked("up", "no", q)
  BY <1>1, <1>2, OnceAppends DEF Asked, Once
<1> HIDE DEF q
<1>5. DeskTypes' /\ PartTypes'
  BY <1>3, <1>4 DEF DeskInv, DeskTypes, PartTypes
<1>6. /\ phase'[p] = "up" /\ loop'[p] = "serving" /\ backlog'[p] = q
      /\ \A r \in Procs \ {p} : Same(r)
  BY <1>3 DEF DeskInv, DeskTypes, PartTypes, Same
<1>7. Departed("up", "serving", stop[p], part[p], {}, "whole")
  BY <1>2 DEF Departed
<1> QED
  BY <1>2, <1>4, <1>5, <1>6, <1>7, OthersStay

(* An item is put behind the others, by a process that is up or leaving.    *)
LEMMA SubmitKeeps ==
  ASSUME DeskInv, NEW p \in Procs, NEW m \in Items, Submit(p, m),
         NEW w \in {"up", "waiting", "joining"}, phase[p] \in {"up", "waiting"},
         NEW c, phase' = [phase EXCEPT ![p] = w], cut' = [cut EXCEPT ![p] = c],
         w # "joining" => c = cut[p], w = "up" => phase[p] = "up",
         m.kind = "stop" => w = "waiting" /\ phase[p] = "up",
         w = "joining" => c = (IF stop[p] = "done" THEN cut[p] ELSE "stop"),
         inbox' \in [Procs -> Seq(Links)],
         link' \in [Links -> {"idle", "sent", "queued", "added", "dropped"}],
         UNCHANGED <<name, loop, stop, part, unsaved>>
  PROVE  DeskInv'
<1> DEFINE q == Append(backlog[p], m)
<1>1. /\ Departed(phase[p], loop[p], stop[p], part[p], unsaved[p], cut[p])
      /\ Asked(phase[p], stop[p], backlog[p]) /\ cut[p] = "whole"
  BY DEF DeskInv, Departed
<1>2. q \in Seq(Items)
  BY <1>1 DEF Asked, Once
<1>3. backlog'[p] = q /\ phase'[p] = w /\ cut'[p] = c /\ \A r \in Procs \ {p} : Same(r)
  BY DEF DeskInv, DeskTypes, PartTypes, Submit, Same
<1>4. DeskTypes' /\ PartTypes'
  BY <1>1, <1>2 DEF DeskInv, DeskTypes, PartTypes, Submit
<1>5. Departed(w, loop[p], stop[p], part[p], unsaved[p], c)
  BY <1>1 DEF Departed
<1>6. Asked(w, stop[p], q)
  BY <1>1, OnceAppends DEF Asked
<1> HIDE DEF q
<1> QED
  BY <1>3, <1>4, <1>5, <1>6, OthersStay

(* The thread of the loop takes what is first.                              *)
LEMMA RunKeeps ==
  ASSUME DeskInv, NEW p \in Procs, Run(p)
  PROVE  DeskInv'
<1> DEFINE h == Head(backlog[p])
           q == Tail(backlog[p])
<1>1. /\ Departed(phase[p], loop[p], stop[p], part[p], unsaved[p], cut[p])
      /\ Asked(phase[p], stop[p], backlog[p])
  BY DEF DeskInv
<1>2. loop[p] = "serving" /\ phase[p] # "gone" /\ backlog[p] # << >>
  BY DEF Run
<1>3. /\ Once(q)
      /\ h.kind = "stop" => StopsOf(q) = {}
      /\ StopsOf(backlog[p]) = {} => StopsOf(q) = {} /\ h.kind # "stop"
      /\ h.kind = "stop" => stop[p] = "no"
  BY <1>1, <1>2, OnceTails DEF Asked
<1>4. q \in Seq(Items)
  BY <1>3 DEF Once
<1>5. /\ backlog' = [backlog EXCEPT ![p] = q]
      /\ loop' = [loop EXCEPT ![p] = IF h.kind = "halt" THEN "stopped" ELSE @]
      /\ stop' = [stop EXCEPT ![p] = IF h.kind = "stop" THEN "dht" ELSE @]
      /\ link' = IF h.kind = "add" THEN [link EXCEPT ![h.what] = "added"] ELSE link
      /\ UNCHANGED <<phase, name, inbox, part, unsaved, cut>>
  BY DEF Run
<1> HIDE DEF h, q
<1>6. /\ backlog'[p] = q /\ loop'[p] \in {"stopped", "serving"}
      /\ stop'[p] = (IF h.kind = "stop" THEN "dht" ELSE stop[p])
      /\ \A r \in Procs \ {p} : Same(r)
  BY <1>2, <1>5 DEF DeskInv, DeskTypes, PartTypes, Same
<1>7. DeskTypes' /\ PartTypes'
  BY <1>4, <1>5 DEF DeskInv, DeskTypes, PartTypes
<1>8. h.kind = "stop" => stop[p] # "done" /\ ~(cut[p] = "whole" /\ phase[p] = "joining")
  BY <1>1, <1>2, <1>3 DEF Departed
<1>9. Departed(phase[p], loop'[p], stop'[p], part[p], unsaved[p], cut[p])
  BY <1>1, <1>2, <1>6, <1>8 DEF Departed
<1>10. Asked(phase[p], stop'[p], q)
  BY <1>1, <1>3, <1>6 DEF Asked
<1> QED
  BY <1>5, <1>6, <1>7, <1>9, <1>10, OthersStay

(* A step that leaves alone what is ahead of the loop.                      *)
LEMMA QuietKeeps ==
  ASSUME DeskInv, NEW p \in Procs, DeskTypes', PartTypes', \A r \in Procs \ {p} : Same(r),
         UNCHANGED <<loop, backlog>>, phase'[p] = phase[p], cut'[p] = cut[p],
         \/ StopsOf(backlog[p]) = {} /\ phase[p] \notin {"off", "up"}
         \/ stop'[p] = stop[p],
         Departed(phase[p], loop[p], stop'[p], part'[p], unsaved'[p], cut[p])
  PROVE  DeskInv'
<1>1. Asked(phase[p], stop'[p], backlog[p])
  BY DEF DeskInv, Asked
<1> QED
  BY <1>1, OthersStay DEF DeskInv

(* The progress of torrents, and the close of the session.                  *)
LEMMA CloseKeeps ==
  ASSUME DeskInv, NEW p \in Procs,
         \/ DhtStopped(p) \/ Stopped(p)
         \/ \E t \in Torrents : Progress(p, t) \/ CloseService(p, t) \/ Flushed(p, t) \/ SaveEnds(p, t)
  PROVE  DeskInv'
<1>1. /\ Departed(phase[p], loop[p], stop[p], part[p], unsaved[p], cut[p])
      /\ Asked(phase[p], stop[p], backlog[p]) /\ DeskTypes /\ PartTypes
  BY DEF DeskInv
<1>2. CASE DhtStopped(p)
  <2>1. stop[p] = "dht" /\ stop' = [stop EXCEPT ![p] = "services"]
    BY <1>2 DEF DhtStopped
  <2>2. StopsOf(backlog[p]) = {} /\ phase[p] \notin {"off", "up"}
    BY <1>1, <2>1 DEF Asked
  <2>3. DeskTypes' /\ PartTypes' /\ (\A r \in Procs \ {p} : Same(r)) /\ stop'[p] = "services"
    BY <1>1, <1>2 DEF DhtStopped, DeskTypes, PartTypes, Same
  <2>4. Departed(phase[p], loop[p], "services", part[p], unsaved[p], cut[p])
    BY <1>1, <2>1 DEF Departed
  <2> QED
    BY <1>2, <2>2, <2>3, <2>4, QuietKeeps DEF DhtStopped
<1>3. CASE Stopped(p)
  <2>1. stop[p] = "services" /\ stop' = [stop EXCEPT ![p] = "done"] /\ AllClosed(p)
    BY <1>3 DEF Stopped
  <2>2. StopsOf(backlog[p]) = {} /\ phase[p] \notin {"off", "up"}
    BY <1>1, <2>1 DEF Asked
  <2>3. DeskTypes' /\ PartTypes' /\ (\A r \in Procs \ {p} : Same(r)) /\ stop'[p] = "done"
    BY <1>1, <1>3 DEF Stopped, DeskTypes, PartTypes, Same
  <2>4. Departed(phase[p], loop[p], "done", part[p], unsaved[p], cut[p])
    BY <1>1, <2>1 DEF Departed, AllClosed
  <2> QED
    BY <1>3, <2>2, <2>3, <2>4, QuietKeeps DEF Stopped
<1>4. ASSUME NEW t \in Torrents, Progress(p, t)
      PROVE  DeskInv'
  <2>1. loop[p] = "serving" /\ part[p][t] = "open" /\ unsaved' = [unsaved EXCEPT ![p] = @ \cup {t}]
    BY <1>4 DEF Progress, Serving
  <2>2. unsaved'[p] = unsaved[p] \cup {t} /\ unsaved' \in [Procs -> SUBSET Torrents]
    BY <1>1, <2>1 DEF PartTypes
  <2>3. DeskTypes' /\ PartTypes' /\ (\A r \in Procs \ {p} : Same(r))
    BY <1>1, <1>4, <2>2 DEF Progress, DeskTypes, PartTypes, Same
  <2>4. Departed(phase[p], loop[p], stop[p], part[p], unsaved'[p], cut[p])
    BY <1>1, <2>1, <2>2 DEF Departed
  <2> QED
    BY <1>4, <2>3, <2>4, QuietKeeps DEF Progress
<1>5. ASSUME NEW t \in Torrents, NEW from \in {"open", "flushing"}, NEW to \in {"flushing", "saving"},
             part[p][t] = from, part' = [part EXCEPT ![p][t] = to],
             UNCHANGED <<phase, name, inbox, link, loop, backlog, stop, unsaved, cut>>
      PROVE  DeskInv'
  <2>1. /\ part'[p][t] = to /\ \A u \in Torrents \ {t} : part'[p][u] = part[p][u]
        /\ part' \in [Procs -> [Torrents -> {"open", "flushing", "saving", "closed"}]]
    BY <1>1, <1>5 DEF PartTypes
  <2>2. DeskTypes' /\ PartTypes' /\ (\A r \in Procs \ {p} : Same(r))
    BY <1>1, <1>5, <2>1 DEF DeskTypes, PartTypes, Same
  <2>3. Departed(phase[p], loop[p], stop[p], part'[p], unsaved[p], cut[p])
    BY <1>1, <1>5, <2>1 DEF Departed
  <2> QED
    BY <1>5, <2>2, <2>3, QuietKeeps
<1>6. ASSUME NEW t \in Torrents, SaveEnds(p, t)
      PROVE  DeskInv'
  <2>1. /\ part[p][t] = "saving" /\ part' = [part EXCEPT ![p][t] = "closed"]
        /\ unsaved' = [unsaved EXCEPT ![p] = @ \ {t}]
    BY <1>6 DEF SaveEnds
  <2>2. /\ part'[p][t] = "closed" /\ \A u \in Torrents \ {t} : part'[p][u] = part[p][u]
        /\ part' \in [Procs -> [Torrents -> {"open", "flushing", "saving", "closed"}]]
        /\ unsaved'[p] = unsaved[p] \ {t} /\ unsaved' \in [Procs -> SUBSET Torrents]
    BY <1>1, <2>1 DEF PartTypes
  <2>3. DeskTypes' /\ PartTypes' /\ (\A r \in Procs \ {p} : Same(r))
    BY <1>1, <1>6, <2>2 DEF SaveEnds, DeskTypes, PartTypes, Same
  <2>4. Departed(phase[p], loop[p], stop[p], part'[p], unsaved'[p], cut[p])
    BY <1>1, <2>2 DEF Departed
  <2> QED
    BY <1>6, <2>3, <2>4, QuietKeeps DEF SaveEnds
<1> QED
  BY <1>2, <1>3, <1>4, <1>5, <1>6 DEF CloseService, Flushed

(* A process goes, at the end of its waits or when it is killed.            *)
LEMMA GoneKeeps ==
  ASSUME DeskInv, NEW p \in Procs, NEW c \in {"whole", "stop", "join", "crash"},
         phase[p] \in {"up", "waiting", "joining"}, name' \in Procs \cup {"nobody"},
         phase' = [phase EXCEPT ![p] = "gone"], cut' = [cut EXCEPT ![p] = c],
         c = "crash" \/ (phase[p] = "joining" /\ c = IF loop[p] = "stopped" THEN cut[p] ELSE "join"),
         UNCHANGED <<inbox, link, loop, backlog, stop, part, unsaved>>
  PROVE  DeskInv'
<1>1. /\ Asked(phase[p], stop[p], backlog[p])
      /\ Departed(phase[p], loop[p], stop[p], part[p], unsaved[p], cut[p])
      /\ DeskTypes /\ PartTypes
  BY DEF DeskInv
<1>2. phase'[p] = "gone" /\ cut'[p] = c /\ \A r \in Procs \ {p} : Same(r)
  BY <1>1 DEF DeskTypes, PartTypes, Same
<1>3. DeskTypes' /\ PartTypes'
  BY <1>1 DEF DeskTypes, PartTypes
<1>4. Asked("gone", stop[p], backlog[p])
  BY <1>1 DEF Asked
<1>5. Departed("gone", loop[p], stop[p], part[p], unsaved[p], c)
  BY <1>1 DEF Departed
<1> QED
  BY <1>1, <1>2, <1>3, <1>4, <1>5, OthersStay

(* A launch hands its link to whoever listens, and is gone.                 *)
LEMMA HandKeeps ==
  ASSUME DeskInv, NEW p \in Procs, NEW l \in Links, phase[p] = "off", name # "nobody",
         phase' = [phase EXCEPT ![p] = "gone"], inbox' = [inbox EXCEPT ![name] = Append(@, l)],
         link' = [link EXCEPT ![l] = "sent"],
         UNCHANGED <<name, loop, backlog, stop, part, unsaved, cut>>
  PROVE  DeskInv'
<1>1. /\ Asked("off", stop[p], backlog[p])
      /\ Departed("off", loop[p], stop[p], part[p], unsaved[p], cut[p])
      /\ DeskTypes /\ PartTypes
  BY DEF DeskInv
<1>2. phase'[p] = "gone" /\ \A r \in Procs \ {p} : Same(r)
  BY <1>1 DEF DeskTypes, PartTypes, Same
<1>3. inbox' \in [Procs -> Seq(Links)]
  <2>1. inbox[name] \in Seq(Links)
    BY <1>1 DEF DeskTypes
  <2>2. Append(inbox[name], l) \in Seq(Links)
    BY <2>1
  <2> QED
    BY <1>1, <2>2 DEF DeskTypes
<1>4. DeskTypes' /\ PartTypes'
  BY <1>1, <1>3 DEF DeskTypes, PartTypes
<1>5. Asked("gone", stop[p], backlog[p])
  BY <1>1 DEF Asked
<1>6. Departed("gone", loop[p], stop[p], part[p], unsaved[p], cut[p])
  BY <1>1 DEF Departed
<1> QED
  BY <1>1, <1>2, <1>4, <1>5, <1>6, OthersStay

LEMMA DeskInvStep ==
  ASSUME DeskInv, DeskNext \/ UNCHANGED deskVars
  PROVE  DeskInv'
<1>1. DeskTypes /\ PartTypes
  BY DEF DeskInv
<1>2. ASSUME NEW p \in Procs, Launch(p)
      PROVE  DeskInv'
  BY <1>1, <1>2, UpKeeps DEF Launch, DeskTypes
<1>3. ASSUME NEW p \in Procs, NEW l \in Links, LaunchWith(p, l)
      PROVE  DeskInv'
  <2>1. CASE name = "nobody"
    <3>1. link' \in [Links -> {"idle", "sent", "queued", "added", "dropped"}]
      BY <1>1, <1>3, <2>1 DEF LaunchWith, DeskTypes
    <3> QED
      BY <1>1, <1>3, <2>1, <3>1, UpKeeps DEF LaunchWith, DeskTypes
  <2>2. CASE name # "nobody"
    BY <1>3, <2>2, HandKeeps DEF LaunchWith
  <2> QED
    BY <2>1, <2>2
<1>4. ASSUME NEW p \in Procs, TakeLink(p)
      PROVE  DeskInv'
  <2> DEFINE h == Head(inbox[p])
             m == Item("add", h)
  <2>1. inbox[p] \in Seq(Links) /\ inbox[p] # << >> /\ phase[p] = "up"
    BY <1>1, <1>4 DEF TakeLink, DeskTypes
  <2>2. h \in Links /\ Tail(inbox[p]) \in Seq(Links)
    BY <2>1
  <2>3. m \in Items /\ m.kind = "add"
    BY <2>2 DEF Item, Items
  <2>4. /\ inbox' = [inbox EXCEPT ![p] = Tail(inbox[p])] /\ Submit(p, m)
        /\ link' = [link EXCEPT ![h] = "queued"]
        /\ UNCHANGED <<phase, name, loop, stop, part, unsaved, cut>>
    BY <1>4 DEF TakeLink
  <2> HIDE DEF m, h
  <2>5. /\ inbox' \in [Procs -> Seq(Links)]
        /\ link' \in [Links -> {"idle", "sent", "queued", "added", "dropped"}]
    BY <1>1, <2>2, <2>4 DEF DeskTypes
  <2>6. phase' = [phase EXCEPT ![p] = "up"] /\ cut' = [cut EXCEPT ![p] = cut[p]]
    BY <1>1, <2>1, <2>4 DEF DeskTypes, PartTypes
  <2> QED
    BY <2>1, <2>3, <2>4, <2>5, <2>6, SubmitKeeps
<1>5. ASSUME NEW p \in Procs, Exit(p)
      PROVE  DeskInv'
  <2> DEFINE m == Item("stop", 0)
  <2>1. m \in Items /\ m.kind = "stop"
    BY DEF Item, Items
  <2>2. /\ phase[p] = "up" /\ phase' = [phase EXCEPT ![p] = "waiting"] /\ Submit(p, m)
        /\ UNCHANGED <<name, inbox, link, loop, stop, part, unsaved, cut>>
    BY <1>5 DEF Exit
  <2> HIDE DEF m
  <2>3. cut' = [cut EXCEPT ![p] = cut[p]]
    BY <1>1, <2>2 DEF PartTypes
  <2>4. /\ inbox' \in [Procs -> Seq(Links)]
        /\ link' \in [Links -> {"idle", "sent", "queued", "added", "dropped"}]
    BY <1>1, <2>2 DEF DeskTypes
  <2> QED
    BY <2>1, <2>2, <2>3, <2>4, SubmitKeeps
<1>6. ASSUME NEW p \in Procs, StopTheLoop(p)
      PROVE  DeskInv'
  <2> DEFINE m == Item("halt", 0)
             c == IF stop[p] = "done" THEN cut[p] ELSE "stop"
  <2>1. m \in Items /\ m.kind = "halt"
    BY DEF Item, Items
  <2>2. /\ phase[p] = "waiting" /\ phase' = [phase EXCEPT ![p] = "joining"] /\ Submit(p, m)
        /\ cut' = [cut EXCEPT ![p] = c]
        /\ UNCHANGED <<name, inbox, link, loop, stop, part, unsaved>>
    BY <1>6 DEF StopTheLoop, StopLoop
  <2> HIDE DEF m
  <2>4. /\ inbox' \in [Procs -> Seq(Links)]
        /\ link' \in [Links -> {"idle", "sent", "queued", "added", "dropped"}]
    BY <1>1, <2>2 DEF DeskTypes
  <2> QED
    BY <2>1, <2>2, <2>4, SubmitKeeps
<1>7. ASSUME NEW p \in Procs, Gone(p)
      PROVE  DeskInv'
  <2> DEFINE c == IF loop[p] = "stopped" THEN cut[p] ELSE "join"
  <2>1. c \in {"whole", "stop", "join", "crash"} /\ cut' = [cut EXCEPT ![p] = c]
    BY <1>1, <1>7 DEF Gone, PartTypes
  <2>2. name' \in Procs \cup {"nobody"}
    BY <1>1, <1>7 DEF Gone, DeskTypes
  <2> QED
    BY <1>7, <2>1, <2>2, GoneKeeps DEF Gone
<1>8. ASSUME NEW p \in Procs, Crash(p)
      PROVE  DeskInv'
  <2>1. name' \in Procs \cup {"nobody"}
    BY <1>1, <1>8 DEF Crash, DeskTypes
  <2> QED
    BY <1>8, <2>1, GoneKeeps DEF Crash
<1>9. CASE UNCHANGED deskVars
  <2>1. UNCHANGED <<phase, name, inbox, link, loop, backlog, stop, part, unsaved, cut>>
    BY <1>9 DEF deskVars
  <2> QED
    BY <2>1 DEF DeskInv, DeskTypes, PartTypes
<1> QED
  BY <1>2, <1>3, <1>4, <1>5, <1>6, <1>7, <1>8, <1>9, RunKeeps, CloseKeeps
     DEF DeskNext, InWindow, Loop, Thread, Leave

LEMMA DeskInvMeans ==
  ASSUME DeskInv
  PROVE  DeskTypeOK /\ WholeExitIsSaved
<1>1. ASSUME NEW p \in Procs, phase[p] = "gone", cut[p] = "whole"
      PROVE  unsaved[p] = {}
  <2>1. Departed("gone", loop[p], stop[p], part[p], unsaved[p], "whole") /\ unsaved[p] \subseteq Torrents
    BY <1>1 DEF DeskInv, PartTypes
  <2> QED
    BY <2>1 DEF Departed
<1> QED
  BY <1>1 DEF DeskInv, DeskTypes, PartTypes, DeskTypeOK, WholeExitIsSaved

(* An exit of the desktop client that was given its time has saved the      *)
(* progress of each torrent, with any number of processes, torrents and     *)
(* links.                                                                   *)
THEOREM ExitsAreSavedAlways == DeskSpec => [](DeskTypeOK /\ WholeExitIsSaved)
<1>1. DeskInit => DeskInv
  BY DeskInvStart
<1>2. DeskInv /\ [DeskNext]_deskVars => DeskInv'
  BY DeskInvStep
<1>3. DeskInv => DeskTypeOK /\ WholeExitIsSaved
  BY DeskInvMeans
<1> QED
  BY <1>1, <1>2, <1>3, PTL DEF DeskSpec

-----------------------------------------------------------------------------
(* The recheck and the pool of threads that hash: a recheck believes what it *)
(* has read, hashed and found good, and nobody waits for a hash nobody has. *)

States == {"short", "bad", "good"}
Reads == UNION {[S -> States] : S \in SUBSET Pieces}
Checkings == [at : {"idle", "reading", "submitting", "judging"}, targets : SUBSET Pieces,
              batch : SUBSET Pieces, got : Reads, pool : Nat, valid : SUBSET Pieces,
              seen : SUBSET Pieces]
WritingOf == [at : {"idle", "hashing", "writing"}, data : {"good", "bad"}]
HashJobs == [piece : Pieces, by : {"check", "write"}, data : States, pool : Nat, at : {"queued", "hashed"}]

DiskTypes ==
  /\ disk \in [Pieces -> States] /\ believed \in SUBSET Pieces /\ damaged \in SUBSET Pieces
  /\ check \in Checkings /\ writes \in [Pieces -> WritingOf]
PoolTypes ==
  /\ jobs \in SUBSET HashJobs /\ \A j \in jobs : j.pool \in 1 .. made
  /\ made \in 0 .. MaxPools /\ inUse \in 0 .. made
  /\ pools \in Seq({"open", "closing", "shut"}) /\ Len(pools) = made

(* What a piece was when it was read still holds, or its damage is known    *)
(* and was not seen.                                                        *)
StillGood(i) == disk[i] = "good" \/ (i \in damaged /\ i \notin check.seen)

(* A recheck goes through what was believed, batch after batch.             *)
CheckGoes ==
  /\ check.targets \subseteq believed /\ check.batch \subseteq check.targets
  /\ check.valid \subseteq check.targets /\ check.seen \subseteq check.targets \cap damaged
  /\ DOMAIN check.got \subseteq check.batch
  /\ check.at # "idle" => check.batch # {}
  /\ check.at = "submitting" => check.pool \in 1 .. made
  /\ \A v \in check.valid, k \in check.batch : v < k
  /\ \A i \in check.valid : StillGood(i)
  /\ \A i \in DOMAIN check.got : check.got[i] = "good" => StillGood(i)

(* What is in the pool, and who waits for it.                               *)
JobsAreWaitedFor ==
  /\ \A j \in JobsOf("check") :
       /\ check.at \in {"submitting", "judging"}
       /\ j.piece \in Hashable /\ j.data = check.got[j.piece]
  /\ \A j \in JobsOf("write") : writes[j.piece].at = "hashing"
  /\ \A j, k \in JobsOf("write") : j.piece = k.piece => j = k

WritesAreNew == \A i \in Pieces : writes[i].at # "idle" => i \notin believed

HashInv ==
  /\ DiskTypes /\ PoolTypes /\ CheckGoes /\ JobsAreWaitedFor /\ WritesAreNew
  /\ BelievedIsOnDisk /\ WaitIsServed

LEMMA BatchIsFirst ==
  ASSUME PoolAssumption, NEW S \in SUBSET Pieces
  PROVE  FirstOf(S) \subseteq S /\ (S # {} => FirstOf(S) # {})
<1>1. Pieces \subseteq Nat /\ Workers \in Nat \ {0} /\ Factor \in Nat \ {0}
  BY DEF PoolAssumption
<1>2. BatchSize \in Nat \ {0}
  BY <1>1 DEF BatchSize
<1>3. ASSUME S # {}
      PROVE  FirstOf(S) # {}
  <2>1. PICK m \in S : \A n \in S : ~(<<n, m>> \in OpToRel(<, Nat))
    BY <1>1, <1>3, WFMin, NatLessThanWellFounded
  <2>2. {k \in S : k < m} = {}
    <3> SUFFICES ASSUME NEW n \in S, n < m PROVE FALSE
      OBVIOUS
    <3>1. <<n, m>> \in OpToRel(<, Nat)
      BY <1>1, Zenon DEF OpToRel
    <3> QED
      BY <2>1, <3>1
  <2>3. Cardinality({k \in S : k < m}) = 0
    BY <2>2, FS_EmptySet
  <2> QED
    BY <1>2, <2>3 DEF FirstOf
<1> QED
  BY <1>3 DEF FirstOf

LEMMA NothingIsRead == << >> \in Reads /\ DOMAIN << >> = {}
<1>1. << >> = [i \in {} |-> "good"] /\ DOMAIN << >> = {}
  OBVIOUS
<1>2. [i \in {} |-> "good"] \in [{} -> States]
  BY DEF States
<1> QED
  BY <1>1, <1>2 DEF Reads

LEMMA NoCheckIs ==
  /\ NoCheck \in Checkings /\ NoCheck.at = "idle" /\ NoCheck.targets = {} /\ NoCheck.batch = {}
  /\ NoCheck.valid = {} /\ NoCheck.seen = {} /\ DOMAIN NoCheck.got = {}
BY NothingIsRead DEF NoCheck, Checkings

LEMMA HashInvStart ==
  ASSUME PoolAssumption, HashInit
  PROVE  HashInv
<1>1. DiskTypes
  BY NoCheckIs DEF HashInit, DiskTypes, States, NoWrite, WritingOf
<1>2. PoolTypes
  BY DEF HashInit, PoolTypes, PoolAssumption
<1>3. CheckGoes /\ JobsAreWaitedFor /\ WritesAreNew /\ BelievedIsOnDisk
  BY NoCheckIs DEF HashInit, CheckGoes, JobsAreWaitedFor, WritesAreNew, BelievedIsOnDisk, JobsOf, NoWrite
<1>4. WaitIsServed
  BY NoCheckIs DEF HashInit, WaitIsServed, NoWrite
<1> QED
  BY <1>1, <1>2, <1>3, <1>4 DEF HashInv

(* A pool is there when it is wanted.                                       *)
LEMMA PoolIsThere ==
  ASSUME PoolAssumption, PoolTypes, MayMake, MakePool
  PROVE  /\ made' \in 0 .. MaxPools /\ made <= made' /\ inUse' \in 0 .. made' /\ Chosen \in 1 .. made'
         /\ pools' \in Seq({"open", "closing", "shut"}) /\ Len(pools') = made'
<1>1. MaxPools \in Nat
  BY DEF PoolAssumption
<1>2. CASE inUse = 0
  <2>1. made' = made + 1 /\ inUse' = made + 1 /\ pools' = Append(pools, "open") /\ made < MaxPools
    BY <1>2 DEF MayMake, MakePool, Chosen
  <2>2. Append(pools, "open") \in Seq({"open", "closing", "shut"}) /\ Len(Append(pools, "open")) = made + 1
    BY DEF PoolTypes
  <2> QED
    BY <1>1, <1>2, <2>1, <2>2 DEF PoolTypes, Chosen
<1>3. CASE inUse # 0
  BY <1>1, <1>3 DEF MayMake, MakePool, Chosen, PoolTypes
<1> QED
  BY <1>2, <1>3

(* A recheck and its files are as they were, and so are its jobs.           *)
LEMMA CheckKeeps ==
  ASSUME HashInv, UNCHANGED <<disk, believed, check, damaged>>
  PROVE  /\ (CheckGoes /\ made <= made' /\ made \in Nat /\ made' \in Nat => CheckGoes')
         /\ BelievedIsOnDisk' /\ (writes' = writes => WritesAreNew')
<1>1. CheckGoes /\ BelievedIsOnDisk /\ WritesAreNew
  BY DEF HashInv
<1>2. made <= made' /\ made \in Nat /\ made' \in Nat => CheckGoes'
  BY <1>1 DEF CheckGoes, StillGood
<1> QED
  BY <1>1, <1>2 DEF BelievedIsOnDisk, WritesAreNew

LEMMA HashKeeps ==
  ASSUME PoolAssumption, HashInv, NEW job \in jobs, Hash(job)
  PROVE  HashInv'
<1> DEFINE fin == Finished(job)
<1>1. /\ DiskTypes /\ PoolTypes /\ JobsAreWaitedFor /\ WaitIsServed /\ CheckGoes
      /\ job \in HashJobs /\ jobs' = (jobs \ {job}) \cup {fin}
      /\ UNCHANGED <<disk, believed, check, writes, inUse, made, pools, damaged>>
  BY DEF HashInv, PoolTypes, Hash
<1>2. /\ fin \in HashJobs /\ fin.piece = job.piece /\ fin.by = job.by /\ fin.data = job.data
      /\ fin.pool = job.pool
  BY <1>1 DEF Finished, HashJobs
<1> HIDE DEF fin
<1>3. DiskTypes' /\ PoolTypes'
  BY <1>1, <1>2 DEF DiskTypes, PoolTypes
<1>4. \A by \in {"check", "write"} :
        /\ \A j \in JobsOf(by)' : \/ j = fin /\ job \in JobsOf(by)
                                  \/ j # fin /\ j # job /\ j \in JobsOf(by)
        /\ \A j \in JobsOf(by) : \E k \in JobsOf(by)' : k.piece = j.piece
  BY <1>1, <1>2 DEF JobsOf
<1>5. Hashable' = Hashable
  BY <1>1 DEF Hashable
<1>6. JobsAreWaitedFor'
  <2>1. \A j \in JobsOf("check")' : /\ check'.at \in {"submitting", "judging"}
                                    /\ j.piece \in Hashable' /\ j.data = check'.got[j.piece]
    BY <1>1, <1>2, <1>4, <1>5 DEF JobsAreWaitedFor
  <2>2. \A j \in JobsOf("write")' : writes'[j.piece].at = "hashing"
    BY <1>1, <1>2, <1>4 DEF JobsAreWaitedFor
  <2>3. \A j, k \in JobsOf("write")' : j.piece = k.piece => j = k
    BY <1>1, <1>2, <1>4 DEF JobsAreWaitedFor
  <2> QED
    BY <2>1, <2>2, <2>3 DEF JobsAreWaitedFor
<1>7. WaitIsServed'
  <2>1. {j.piece : j \in JobsOf("check")'} = {j.piece : j \in JobsOf("check")}
    BY <1>2, <1>4
  <2>2. check'.at = "judging" => Hashable' = {j.piece : j \in JobsOf("check")'}
    BY <1>1, <1>5, <2>1 DEF WaitIsServed
  <2>3. \A i \in Pieces : writes'[i].at = "hashing" => \E j \in JobsOf("write")' : j.piece = i
    BY <1>1, <1>4 DEF WaitIsServed
  <2> QED
    BY <2>2, <2>3 DEF WaitIsServed
<1>8. made \in Nat /\ made' \in Nat /\ made <= made'
  BY <1>1 DEF PoolTypes, PoolAssumption
<1> QED
  BY <1>1, <1>3, <1>6, <1>7, <1>8, CheckKeeps DEF HashInv

(* Pools that are closed, or made, leave their hashes in them.              *)
LEMMA PoolsKeep ==
  ASSUME PoolAssumption, HashInv, Close \/ \E p \in DOMAIN pools : ClosedOff(p)
  PROVE  HashInv'
<1>1. /\ DiskTypes /\ PoolTypes /\ JobsAreWaitedFor /\ WaitIsServed /\ CheckGoes
      /\ UNCHANGED <<disk, believed, check, writes, made, jobs, damaged>>
  BY DEF HashInv, Close, ClosedOff, Shut
<1>2. PoolTypes'
  BY <1>1 DEF PoolTypes, Close, ClosedOff
<1>3. DiskTypes' /\ JobsAreWaitedFor' /\ WaitIsServed'
  BY <1>1 DEF DiskTypes, JobsAreWaitedFor, WaitIsServed, JobsOf, Hashable
<1>4. made \in Nat /\ made' \in Nat /\ made <= made'
  BY <1>1 DEF PoolTypes, PoolAssumption
<1> QED
  BY <1>1, <1>2, <1>3, <1>4, CheckKeeps DEF HashInv

(* The recheck begins with what is believed.                                *)
LEMMA RecheckKeeps ==
  ASSUME PoolAssumption, HashInv, Recheck
  PROVE  HashInv'
<1> DEFINE lead == FirstOf(believed)
<1>1. /\ DiskTypes /\ PoolTypes /\ JobsAreWaitedFor /\ WaitIsServed /\ CheckGoes /\ WritesAreNew
      /\ BelievedIsOnDisk /\ check.at = "idle" /\ believed # {} /\ believed \in SUBSET Pieces
      /\ UNCHANGED <<disk, believed, writes, inUse, made, pools, jobs, damaged>>
      /\ check' = [NoCheck EXCEPT !.at = "reading", !.targets = believed, !.batch = lead]
  BY DEF HashInv, Recheck, DiskTypes
<1>2. lead \subseteq believed /\ lead # {}
  BY <1>1, BatchIsFirst
<1> HIDE DEF lead
<1>3. /\ check' \in Checkings /\ check'.at = "reading" /\ check'.targets = believed
      /\ check'.batch = lead /\ check'.valid = {} /\ check'.seen = {} /\ DOMAIN check'.got = {}
  BY <1>1, <1>2, NoCheckIs DEF Checkings
<1>4. DiskTypes' /\ PoolTypes'
  BY <1>1, <1>3 DEF DiskTypes, PoolTypes
<1>5. CheckGoes'
  BY <1>1, <1>2, <1>3 DEF CheckGoes
<1>6. JobsOf("check") = {} /\ JobsOf("check")' = {} /\ JobsOf("write")' = JobsOf("write")
  BY <1>1 DEF JobsAreWaitedFor, JobsOf
<1>7. JobsAreWaitedFor' /\ WaitIsServed'
  BY <1>1, <1>3, <1>6 DEF JobsAreWaitedFor, WaitIsServed
<1> QED
  BY <1>1, <1>4, <1>5, <1>7 DEF HashInv, WritesAreNew, BelievedIsOnDisk

(* A piece is read, as it is.                                               *)
LEMMA ReadKeeps ==
  ASSUME PoolAssumption, HashInv, NEW i \in check.batch, ReadOne(i)
  PROVE  HashInv'
<1> DEFINE g == [k \in DOMAIN check.got \cup {i} |-> IF k = i THEN disk[i] ELSE check.got[k]]
           s == check.seen \cup ({i} \cap damaged)
<1>1. /\ DiskTypes /\ PoolTypes /\ JobsAreWaitedFor /\ WaitIsServed /\ CheckGoes /\ WritesAreNew
      /\ BelievedIsOnDisk /\ check.at = "reading" /\ i \notin DOMAIN check.got
      /\ UNCHANGED <<disk, believed, writes, inUse, made, pools, jobs, damaged>>
      /\ check' = [check EXCEPT !.got = g, !.seen = s] /\ check \in Checkings
  BY DEF HashInv, ReadOne, DiskTypes
<1>2. PICK S \in SUBSET Pieces : check.got \in [S -> States]
  BY <1>1 DEF Checkings, Reads
<1>3. i \in Pieces /\ DOMAIN check.got = S /\ disk[i] \in States /\ s \in SUBSET Pieces
  BY <1>1, <1>2 DEF DiskTypes, Checkings
<1>4. g \in [S \cup {i} -> States] /\ DOMAIN g = S \cup {i} /\ g[i] = disk[i] /\ \A k \in S : k # i /\ g[k] = check.got[k]
  BY <1>1, <1>2, <1>3
<1> HIDE DEF g, s
<1>5. g \in Reads
  BY <1>3, <1>4 DEF Reads
<1>6. /\ check' \in Checkings /\ check'.got = g /\ check'.seen = s /\ check'.at = "reading"
      /\ check'.targets = check.targets /\ check'.batch = check.batch /\ check'.valid = check.valid
      /\ check'.pool = check.pool
  BY <1>1, <1>3, <1>5 DEF Checkings
<1>7. DiskTypes' /\ PoolTypes'
  BY <1>1, <1>6 DEF DiskTypes, PoolTypes
<1>8. i \notin check.valid
  <2>1. \A v \in check.valid : v < i /\ v \in Nat
    BY <1>1, <1>3, <1>6 DEF CheckGoes, PoolAssumption, Checkings
  <2> QED
    BY <2>1
<1>9. /\ \A v \in check.valid : StillGood(v)'
      /\ \A v \in S \cup {i} : g[v] = "good" => StillGood(v)'
  BY <1>1, <1>2, <1>4, <1>6, <1>8 DEF CheckGoes, StillGood, s
<1>10. s \subseteq check.targets \cap damaged /\ S \cup {i} \subseteq check.batch
  BY <1>1, <1>3 DEF CheckGoes, s
<1>11. CheckGoes'
  BY <1>1, <1>4, <1>6, <1>9, <1>10 DEF CheckGoes
<1>12. JobsOf("check") = {} /\ JobsOf("check")' = {} /\ JobsOf("write")' = JobsOf("write")
  BY <1>1 DEF JobsAreWaitedFor, JobsOf
<1>13. JobsAreWaitedFor' /\ WaitIsServed'
  BY <1>1, <1>6, <1>12 DEF JobsAreWaitedFor, WaitIsServed
<1> QED
  BY <1>1, <1>7, <1>11, <1>13 DEF HashInv, WritesAreNew, BelievedIsOnDisk

(* All of a batch is read.                                                  *)
LEMMA AllReadKeeps ==
  ASSUME PoolAssumption, HashInv, ReadAll
  PROVE  HashInv'
<1>1. /\ DiskTypes /\ PoolTypes /\ JobsAreWaitedFor /\ WaitIsServed /\ CheckGoes /\ WritesAreNew
      /\ BelievedIsOnDisk /\ check.at = "reading" /\ check \in Checkings
      /\ UNCHANGED <<disk, believed, writes, jobs, damaged>>
  BY DEF HashInv, ReadAll, DiskTypes
<1>2. JobsOf("check") = {} /\ JobsOf("check")' = {} /\ JobsOf("write")' = JobsOf("write")
  BY <1>1 DEF JobsAreWaitedFor, JobsOf
<1>3. made \in Nat
  BY <1>1 DEF PoolTypes, PoolAssumption
<1>4. CASE Hashable = {}
  <2>1. check' = [check EXCEPT !.at = "judging"] /\ UNCHANGED <<inUse, made, pools>>
    BY <1>4 DEF ReadAll
  <2>2. /\ check' \in Checkings /\ check'.at = "judging" /\ check'.got = check.got
        /\ check'.targets = check.targets /\ check'.batch = check.batch /\ check'.valid = check.valid
        /\ check'.pool = check.pool /\ check'.seen = check.seen
    BY <1>1, <2>1 DEF Checkings
  <2>3. DiskTypes' /\ PoolTypes' /\ CheckGoes'
    BY <1>1, <2>1, <2>2 DEF DiskTypes, PoolTypes, CheckGoes, StillGood
  <2>4. JobsAreWaitedFor' /\ WaitIsServed'
    BY <1>1, <1>2, <1>4, <2>2 DEF JobsAreWaitedFor, WaitIsServed, Hashable
  <2> QED
    BY <1>1, <2>3, <2>4 DEF HashInv, WritesAreNew, BelievedIsOnDisk
<1>5. CASE Hashable # {}
  <2>1. check' = [check EXCEPT !.at = "submitting", !.pool = Chosen] /\ MayMake /\ MakePool
    BY <1>5 DEF ReadAll
  <2>2. /\ made' \in 0 .. MaxPools /\ made <= made' /\ inUse' \in 0 .. made' /\ Chosen \in 1 .. made'
        /\ pools' \in Seq({"open", "closing", "shut"}) /\ Len(pools') = made'
    BY <1>1, <2>1, PoolIsThere
  <2>3. made' \in Nat /\ Chosen \in Nat
    BY <2>2 DEF PoolAssumption
  <2>4. /\ check' \in Checkings /\ check'.at = "submitting" /\ check'.got = check.got
        /\ check'.targets = check.targets /\ check'.batch = check.batch /\ check'.valid = check.valid
        /\ check'.pool = Chosen /\ check'.seen = check.seen
    BY <1>1, <2>1, <2>3 DEF Checkings
  <2>5. PoolTypes'
    BY <1>1, <1>3, <2>2, <2>3 DEF PoolTypes
  <2>6. DiskTypes' /\ CheckGoes'
    BY <1>1, <2>2, <2>4 DEF DiskTypes, CheckGoes, StillGood
  <2>7. JobsAreWaitedFor' /\ WaitIsServed'
    BY <1>1, <1>2, <2>4 DEF JobsAreWaitedFor, WaitIsServed
  <2> QED
    BY <1>1, <2>5, <2>6, <2>7 DEF HashInv, WritesAreNew, BelievedIsOnDisk
<1> QED
  BY <1>4, <1>5

(* A recheck that stops leaves nothing behind it.                           *)
LEMMA RecheckLeaves ==
  ASSUME DiskTypes, PoolTypes, JobsAreWaitedFor, WaitIsServed, check' = NoCheck,
         jobs' = jobs \ JobsOf("check"),
         UNCHANGED <<disk, believed, writes, inUse, made, pools, damaged>>
  PROVE  DiskTypes' /\ PoolTypes' /\ CheckGoes' /\ JobsAreWaitedFor' /\ WaitIsServed'
<1>1. DiskTypes' /\ PoolTypes' /\ CheckGoes'
  BY NoCheckIs DEF DiskTypes, PoolTypes, CheckGoes
<1>2. JobsOf("check")' = {} /\ JobsOf("write")' = JobsOf("write")
  BY DEF JobsOf
<1>3. JobsAreWaitedFor' /\ WaitIsServed'
  BY <1>2, NoCheckIs DEF JobsAreWaitedFor, WaitIsServed
<1> QED
  BY <1>1, <1>3

(* A hash of the recheck is submitted, or its pool is shut.                 *)
LEMMA HashSubmitKeeps ==
  ASSUME PoolAssumption, HashInv, NEW i \in check.batch, SubmitHash(i)
  PROVE  HashInv'
<1> DEFINE new == Job(i, "check", check.got[i], check.pool)
<1>1. /\ DiskTypes /\ PoolTypes /\ JobsAreWaitedFor /\ WaitIsServed /\ CheckGoes /\ WritesAreNew
      /\ BelievedIsOnDisk /\ check.at = "submitting" /\ check \in Checkings
      /\ i \in Hashable /\ \A j \in JobsOf("check") : j.piece # i
      /\ UNCHANGED <<disk, believed, writes, inUse, made, pools, damaged>>
  BY DEF HashInv, SubmitHash, DiskTypes
<1>2. CASE pools[check.pool] # "shut"
  <2>1. /\ jobs' = jobs \cup {new}
        /\ check' = IF Hashable = {j.piece : j \in JobsOf("check")} \cup {i}
                    THEN [check EXCEPT !.at = "judging"] ELSE check
    BY <1>2 DEF SubmitHash
  <2>2. PICK S \in SUBSET Pieces : check.got \in [S -> States]
    BY <1>1 DEF Checkings, Reads
  <2>3. i \in S /\ check.got[i] \in States /\ check.pool \in 1 .. made /\ check.pool \in Nat
    BY <1>1, <2>2 DEF Hashable, CheckGoes, Checkings
  <2>4. /\ new \in HashJobs /\ new.piece = i /\ new.by = "check" /\ new.data = check.got[i]
        /\ new.pool = check.pool
    BY <2>2, <2>3 DEF Job, HashJobs
  <2> HIDE DEF new
  <2>5. /\ check' \in Checkings /\ check'.at \in {"submitting", "judging"} /\ check'.got = check.got
        /\ check'.targets = check.targets /\ check'.batch = check.batch /\ check'.valid = check.valid
        /\ check'.pool = check.pool /\ check'.seen = check.seen
        /\ (check'.at = "judging" => Hashable = {j.piece : j \in JobsOf("check")} \cup {i})
    <3>1. CASE Hashable = {j.piece : j \in JobsOf("check")} \cup {i}
      BY <1>1, <2>1, <3>1 DEF Checkings
    <3>2. CASE Hashable # {j.piece : j \in JobsOf("check")} \cup {i}
      BY <1>1, <2>1, <3>2
    <3> QED
      BY <3>1, <3>2
  <2>6. DiskTypes' /\ PoolTypes' /\ CheckGoes'
    <3>1. DiskTypes'
      BY <1>1, <2>5 DEF DiskTypes
    <3>2. PoolTypes'
      BY <1>1, <2>1, <2>3, <2>4 DEF PoolTypes
    <3>3. CheckGoes'
      BY <1>1, <2>5 DEF CheckGoes, StillGood
    <3> QED
      BY <3>1, <3>2, <3>3
  <2>7. JobsOf("check")' = JobsOf("check") \cup {new} /\ JobsOf("write")' = JobsOf("write")
    BY <2>1, <2>4 DEF JobsOf
  <2>8. Hashable' = Hashable
    BY <2>5 DEF Hashable
  <2>9. JobsAreWaitedFor'
    BY <1>1, <2>4, <2>5, <2>7, <2>8 DEF JobsAreWaitedFor
  <2>10. {j.piece : j \in JobsOf("check")'} = {j.piece : j \in JobsOf("check")} \cup {i}
    BY <2>4, <2>7
  <2>11. WaitIsServed'
    BY <1>1, <2>5, <2>7, <2>8, <2>10 DEF WaitIsServed
  <2> QED
    BY <1>1, <2>6, <2>9, <2>11 DEF HashInv, WritesAreNew, BelievedIsOnDisk
<1>3. CASE pools[check.pool] = "shut"
  <2>1. jobs' = jobs \ JobsOf("check") /\ check' = NoCheck
    BY <1>3 DEF SubmitHash
  <2> QED
    BY <1>1, <2>1, RecheckLeaves DEF HashInv, WritesAreNew, BelievedIsOnDisk
<1> QED
  BY <1>2, <1>3

(* The answers of a batch are in: what passed was read, hashed and found    *)
(* good, and what it was read as holds yet, or its damage was not seen.     *)
LEMMA JudgeKeeps ==
  ASSUME PoolAssumption, HashInv, Judge
  PROVE  HashInv' /\ KeepsWritten
<1> DEFINE val == check.valid \cup Passed
           rest == {i \in check.targets : \A k \in check.batch : i > k}
           lead == FirstOf(rest)
<1>1. /\ DiskTypes /\ PoolTypes /\ JobsAreWaitedFor /\ WaitIsServed /\ CheckGoes /\ WritesAreNew
      /\ BelievedIsOnDisk /\ check.at = "judging" /\ check \in Checkings
      /\ jobs' = jobs \ JobsOf("check") /\ UNCHANGED <<disk, writes, inUse, made, pools>>
  BY DEF HashInv, Judge, DiskTypes
<1>2. rest \in SUBSET Pieces /\ val \in SUBSET check.targets /\ val \in SUBSET Pieces
  <2>1. Passed \subseteq DOMAIN check.got
    BY <1>1 DEF Passed, JobsAreWaitedFor, Hashable
  <2> QED
    BY <1>1, <2>1 DEF CheckGoes, Checkings
<1>3. \A i \in val : StillGood(i)
  <2>1. \A i \in Passed : i \in DOMAIN check.got /\ check.got[i] = "good"
    BY <1>1 DEF Passed, JobsAreWaitedFor, Hashable
  <2> QED
    BY <1>1, <2>1 DEF CheckGoes
<1>4. CASE rest # {}
  <2>1. /\ check' = [check EXCEPT !.at = "reading", !.batch = lead, !.got = << >>, !.valid = val]
        /\ UNCHANGED <<believed, damaged>>
    BY <1>4 DEF Judge
  <2>2. lead \subseteq rest /\ lead # {}
    BY <1>2, <1>4, BatchIsFirst
  <2>3. lead \in SUBSET check.targets /\ lead \in SUBSET Pieces
    BY <1>2, <2>2
  <2>4. \A v \in val, k \in lead : v < k
    <3>1. PICK m \in check.batch : TRUE
      BY <1>1 DEF CheckGoes
    <3>2. /\ \A v \in check.valid : v < m
          /\ \A k \in lead : \A n \in check.batch : k > n
      BY <1>1, <2>2, <3>1 DEF CheckGoes
    <3>3. \A v \in Passed : v \in check.batch
      BY <1>1 DEF Passed, JobsAreWaitedFor, Hashable, CheckGoes
    <3>4. /\ \A v \in val : v \in Nat
          /\ \A k \in lead : k \in Nat
          /\ m \in Nat
      BY <1>1, <1>2, <2>3, <3>1 DEF PoolAssumption, Checkings
    <3> SUFFICES ASSUME NEW v \in val, NEW k \in lead
                 PROVE  v < k
      OBVIOUS
    <3>5. CASE v \in check.valid
      BY <3>1, <3>2, <3>4, <3>5
    <3>6. CASE v \in Passed
      BY <3>2, <3>3, <3>4, <3>6
    <3> QED
      BY <3>5, <3>6
  <2> HIDE DEF lead, val, rest
  <2>5. /\ check' \in Checkings /\ check'.at = "reading" /\ check'.got = << >> /\ DOMAIN check'.got = {}
        /\ check'.targets = check.targets /\ check'.batch = lead /\ check'.valid = val
        /\ check'.pool = check.pool /\ check'.seen = check.seen
    BY <1>1, <1>2, <2>1, <2>3, NothingIsRead DEF Checkings
  <2>6. DiskTypes' /\ PoolTypes'
    BY <1>1, <2>1, <2>5 DEF DiskTypes, PoolTypes
  <2>7. CheckGoes'
    BY <1>1, <1>2, <1>3, <2>1, <2>2, <2>3, <2>4, <2>5 DEF CheckGoes, StillGood
  <2>8. JobsOf("check")' = {} /\ JobsOf("write")' = JobsOf("write")
    BY <1>1 DEF JobsOf
  <2>9. JobsAreWaitedFor' /\ WaitIsServed'
    BY <1>1, <2>5, <2>8 DEF JobsAreWaitedFor, WaitIsServed
  <2> QED
    BY <1>1, <2>1, <2>6, <2>7, <2>9 DEF HashInv, WritesAreNew, BelievedIsOnDisk, KeepsWritten
<1>5. CASE rest = {}
  <2>1. /\ check' = NoCheck /\ believed' = val \cup (believed \ check.targets)
        /\ damaged' = damaged \ check.seen
    BY <1>5 DEF Judge, StillBelieved
  <2> HIDE DEF val, rest
  <2>2. /\ DiskTypes' /\ PoolTypes' /\ CheckGoes' /\ JobsAreWaitedFor' /\ WaitIsServed'
    <3>1. /\ check' \in Checkings /\ believed' \in SUBSET Pieces /\ damaged' \in SUBSET Pieces
      BY <1>1, <1>2, <2>1, NoCheckIs DEF DiskTypes
    <3>2. DiskTypes' /\ PoolTypes'
      BY <1>1, <3>1 DEF DiskTypes, PoolTypes
    <3>3. CheckGoes'
      BY <2>1, NoCheckIs DEF CheckGoes
    <3>4. JobsOf("check")' = {} /\ JobsOf("write")' = JobsOf("write")
      BY <1>1 DEF JobsOf
    <3>5. JobsAreWaitedFor' /\ WaitIsServed'
      BY <1>1, <2>1, <3>4, NoCheckIs DEF JobsAreWaitedFor, WaitIsServed
    <3> QED
      BY <3>2, <3>3, <3>5
  <2>3. believed' \subseteq believed
    BY <1>1, <1>2, <2>1 DEF CheckGoes
  <2>4. WritesAreNew'
    BY <1>1, <2>3 DEF WritesAreNew
  <2>5. BelievedIsOnDisk'
    <3> SUFFICES ASSUME NEW i \in believed'
                 PROVE  disk[i] = "good" \/ i \in damaged \ check.seen
      BY <1>1, <2>1 DEF BelievedIsOnDisk
    <3>1. CASE i \in val
      BY <1>3, <3>1 DEF StillGood
    <3>2. CASE i \notin val
      BY <1>1, <2>1, <3>2 DEF BelievedIsOnDisk, CheckGoes
    <3> QED
      BY <3>1, <3>2
  <2>6. KeepsWritten
    BY <2>1 DEF KeepsWritten
  <2> QED
    BY <2>2, <2>4, <2>5, <2>6 DEF HashInv
<1> QED
  BY <1>4, <1>5

(* The recheck does not see what becomes of a write.                        *)
LEMMA ChecksSame ==
  ASSUME CheckGoes, JobsAreWaitedFor, WaitIsServed, UNCHANGED <<disk, believed, check, damaged>>,
         made \in Nat, made' \in Nat, made <= made', JobsOf("check")' = JobsOf("check")
  PROVE  /\ CheckGoes'
         /\ \A j \in JobsOf("check")' : /\ check'.at \in {"submitting", "judging"}
                                        /\ j.piece \in Hashable' /\ j.data = check'.got[j.piece]
         /\ check'.at = "judging" => Hashable' = {j.piece : j \in JobsOf("check")'}
<1>1. Hashable' = Hashable
  BY DEF Hashable
<1>2. CheckGoes'
  BY DEF CheckGoes, StillGood
<1> QED
  BY <1>1, <1>2 DEF JobsAreWaitedFor, WaitIsServed

(* A piece arrives: it is new, so nothing of it is in the pool.             *)
LEMMA WriteBeginKeeps ==
  ASSUME PoolAssumption, HashInv, NEW i \in Pieces, NEW data \in {"good", "bad"}, WriteBegin(i, data)
  PROVE  HashInv'
<1> DEFINE new == Job(i, "write", data, Chosen)
           w == [at |-> "hashing", data |-> data]
<1>1. /\ DiskTypes /\ PoolTypes /\ JobsAreWaitedFor /\ WaitIsServed /\ CheckGoes /\ WritesAreNew
      /\ BelievedIsOnDisk /\ writes[i].at = "idle" /\ i \notin believed /\ MayMake /\ MakePool
      /\ writes' = [writes EXCEPT ![i] = w] /\ jobs' = jobs \cup {new}
      /\ UNCHANGED <<disk, believed, check, damaged>>
  BY DEF HashInv, WriteBegin
<1>2. /\ made' \in 0 .. MaxPools /\ made <= made' /\ inUse' \in 0 .. made' /\ Chosen \in 1 .. made'
      /\ pools' \in Seq({"open", "closing", "shut"}) /\ Len(pools') = made'
  BY <1>1, PoolIsThere
<1>3. made \in Nat /\ made' \in Nat /\ Chosen \in Nat
  BY <1>1, <1>2 DEF PoolTypes, PoolAssumption
<1>4. /\ new \in HashJobs /\ new.piece = i /\ new.by = "write" /\ new.pool = Chosen
  BY <1>3 DEF Job, HashJobs, States
<1>5. w \in WritingOf /\ w.at = "hashing"
  BY DEF WritingOf
<1> HIDE DEF new, w
<1>6. /\ writes' \in [Pieces -> WritingOf] /\ writes'[i].at = "hashing"
      /\ \A k \in Pieces : k # i => writes'[k] = writes[k]
  BY <1>1, <1>5 DEF DiskTypes
<1>7. DiskTypes' /\ PoolTypes'
  <2>1. DiskTypes'
    BY <1>1, <1>6 DEF DiskTypes
  <2>2. jobs' \in SUBSET HashJobs /\ \A j \in jobs' : j.pool \in 1 .. made'
    BY <1>1, <1>2, <1>3, <1>4 DEF PoolTypes
  <2> QED
    BY <1>2, <2>1, <2>2 DEF PoolTypes
<1>8. JobsOf("check")' = JobsOf("check") /\ JobsOf("write")' = JobsOf("write") \cup {new}
  BY <1>1, <1>4 DEF JobsOf
<1>9. \A j \in JobsOf("write") : j.piece \in Pieces /\ j.piece # i
  BY <1>1 DEF JobsOf, JobsAreWaitedFor, PoolTypes, HashJobs
<1>10. /\ CheckGoes'
       /\ \A j \in JobsOf("check")' : /\ check'.at \in {"submitting", "judging"}
                                      /\ j.piece \in Hashable' /\ j.data = check'.got[j.piece]
       /\ check'.at = "judging" => Hashable' = {j.piece : j \in JobsOf("check")'}
  BY <1>1, <1>2, <1>3, <1>8, ChecksSame
<1>11. /\ \A j \in JobsOf("write")' : writes'[j.piece].at = "hashing"
       /\ \A j, k \in JobsOf("write")' : j.piece = k.piece => j = k
  BY <1>1, <1>4, <1>6, <1>8, <1>9 DEF JobsAreWaitedFor
<1>12. \A k \in Pieces : writes'[k].at = "hashing" => \E j \in JobsOf("write")' : j.piece = k
  BY <1>1, <1>4, <1>6, <1>8 DEF WaitIsServed
<1>13. WritesAreNew'
  BY <1>1, <1>6 DEF WritesAreNew
<1> QED
  BY <1>1, <1>7, <1>10, <1>11, <1>12, <1>13 DEF HashInv, JobsAreWaitedFor, WaitIsServed, BelievedIsOnDisk

(* Its hash is known: it is written, or refused.                            *)
LEMMA WriteHashedKeeps ==
  ASSUME PoolAssumption, HashInv, NEW job \in jobs, WriteHashed(job)
  PROVE  HashInv'
<1> DEFINE i == job.piece
           w == IF job.data = "good" THEN [writes[i] EXCEPT !.at = "writing"] ELSE NoWrite
<1>1. /\ DiskTypes /\ PoolTypes /\ JobsAreWaitedFor /\ WaitIsServed /\ CheckGoes /\ WritesAreNew
      /\ BelievedIsOnDisk /\ job.by = "write" /\ jobs' = jobs \ {job}
      /\ writes' = [writes EXCEPT ![i] = w]
      /\ UNCHANGED <<disk, believed, check, inUse, made, pools, damaged>>
  BY DEF HashInv, WriteHashed
<1>2. i \in Pieces /\ job \in JobsOf("write") /\ writes[i].at = "hashing" /\ writes[i] \in WritingOf
  BY <1>1 DEF JobsOf, JobsAreWaitedFor, PoolTypes, HashJobs, DiskTypes
<1>3. w \in WritingOf /\ w.at \in {"idle", "writing"}
  BY <1>2 DEF WritingOf, NoWrite
<1> HIDE DEF w, i
<1>4. /\ writes' \in [Pieces -> WritingOf] /\ writes'[i] = w
      /\ \A k \in Pieces : k # i => writes'[k] = writes[k]
  BY <1>1, <1>2, <1>3 DEF DiskTypes
<1>5. DiskTypes' /\ PoolTypes'
  BY <1>1, <1>4 DEF DiskTypes, PoolTypes
<1>6. JobsOf("check")' = JobsOf("check") /\ JobsOf("write")' = JobsOf("write") \ {job}
  BY <1>1 DEF JobsOf
<1>7. \A j \in JobsOf("write")' : j \in JobsOf("write") /\ j.piece \in Pieces /\ j.piece # i
  BY <1>1, <1>2, <1>6 DEF JobsOf, JobsAreWaitedFor, PoolTypes, HashJobs, i
<1>8. made \in Nat /\ made' \in Nat /\ made <= made'
  BY <1>1 DEF PoolTypes, PoolAssumption
<1>9. /\ CheckGoes'
      /\ \A j \in JobsOf("check")' : /\ check'.at \in {"submitting", "judging"}
                                     /\ j.piece \in Hashable' /\ j.data = check'.got[j.piece]
      /\ check'.at = "judging" => Hashable' = {j.piece : j \in JobsOf("check")'}
  BY <1>1, <1>6, <1>8, ChecksSame
<1>10. /\ \A j \in JobsOf("write")' : writes'[j.piece].at = "hashing"
       /\ \A j, k \in JobsOf("write")' : j.piece = k.piece => j = k
  BY <1>1, <1>4, <1>7 DEF JobsAreWaitedFor
<1>11. \A k \in Pieces : writes'[k].at = "hashing" => \E j \in JobsOf("write")' : j.piece = k
  <2> SUFFICES ASSUME NEW k \in Pieces, writes'[k].at = "hashing"
               PROVE  \E j \in JobsOf("write")' : j.piece = k
    OBVIOUS
  <2>1. k # i
    BY <1>3, <1>4
  <2>2. PICK j \in JobsOf("write") : j.piece = k
    BY <1>1, <1>4, <2>1 DEF WaitIsServed
  <2>3. j # job
    BY <2>1, <2>2 DEF i
  <2> QED
    BY <1>6, <2>2, <2>3
<1>12. WritesAreNew'
  <2>1. i \notin believed
    BY <1>1, <1>2 DEF WritesAreNew
  <2> QED
    BY <1>1, <1>4, <2>1 DEF WritesAreNew
<1> QED
  BY <1>1, <1>5, <1>9, <1>10, <1>11, <1>12 DEF HashInv, JobsAreWaitedFor, WaitIsServed, BelievedIsOnDisk

(* It is on disk.                                                           *)
LEMMA WriteEndsKeeps ==
  ASSUME PoolAssumption, HashInv, NEW i \in Pieces, WriteEnds(i)
  PROVE  HashInv'
<1>1. /\ DiskTypes /\ PoolTypes /\ JobsAreWaitedFor /\ WaitIsServed /\ CheckGoes /\ WritesAreNew
      /\ BelievedIsOnDisk /\ writes[i].at = "writing"
      /\ disk' = [disk EXCEPT ![i] = "good"] /\ believed' = believed \cup {i}
      /\ writes' = [writes EXCEPT ![i] = NoWrite]
      /\ UNCHANGED <<check, inUse, made, pools, jobs, damaged>>
  BY DEF HashInv, WriteEnds
<1>2. NoWrite \in WritingOf /\ NoWrite.at = "idle"
  BY DEF NoWrite, WritingOf
<1>3. /\ writes' \in [Pieces -> WritingOf] /\ writes'[i] = NoWrite
      /\ \A k \in Pieces : k # i => writes'[k] = writes[k]
      /\ disk' \in [Pieces -> States] /\ disk'[i] = "good"
      /\ \A k \in Pieces : k # i => disk'[k] = disk[k]
  BY <1>1, <1>2 DEF DiskTypes, States
<1>4. believed \in SUBSET Pieces /\ \A v \in DOMAIN check.got \cup check.valid : v \in Pieces
  BY <1>1 DEF DiskTypes, CheckGoes, Checkings
<1>5. DiskTypes' /\ PoolTypes'
  BY <1>1, <1>3 DEF DiskTypes, PoolTypes
<1>6. \A v \in Pieces : StillGood(v) => StillGood(v)'
  BY <1>1, <1>3 DEF StillGood
<1>7. CheckGoes'
  BY <1>1, <1>4, <1>6 DEF CheckGoes
<1>8. JobsOf("check")' = JobsOf("check") /\ JobsOf("write")' = JobsOf("write") /\ Hashable' = Hashable
  BY <1>1 DEF JobsOf, Hashable
<1>9. \A j \in JobsOf("write") : j.piece \in Pieces /\ j.piece # i
  BY <1>1 DEF JobsOf, JobsAreWaitedFor, PoolTypes, HashJobs
<1>10. JobsAreWaitedFor' /\ WaitIsServed'
  <2>1. JobsAreWaitedFor'
    BY <1>1, <1>3, <1>8, <1>9 DEF JobsAreWaitedFor
  <2>2. WaitIsServed'
    BY <1>1, <1>2, <1>3, <1>8 DEF WaitIsServed
  <2> QED
    BY <2>1, <2>2
<1>11. WritesAreNew' /\ BelievedIsOnDisk'
  BY <1>1, <1>2, <1>3, <1>4 DEF WritesAreNew, BelievedIsOnDisk
<1> QED
  BY <1>5, <1>7, <1>10, <1>11 DEF HashInv

(* A file is touched outside the client, which knows nothing of it.         *)
LEMMA DamageKeeps ==
  ASSUME PoolAssumption, HashInv, NEW i \in Pieces, Damage(i)
  PROVE  HashInv'
<1>1. PICK what \in {"bad", "short"} : disk' = [disk EXCEPT ![i] = what]
  BY DEF Damage
<1>2. /\ DiskTypes /\ PoolTypes /\ JobsAreWaitedFor /\ WaitIsServed /\ CheckGoes /\ WritesAreNew
      /\ BelievedIsOnDisk /\ i \notin damaged /\ damaged' = damaged \cup {i}
      /\ UNCHANGED <<believed, check, writes, inUse, made, pools, jobs>>
  BY DEF HashInv, Damage
<1>3. /\ disk' \in [Pieces -> States] /\ \A k \in Pieces : k # i => disk'[k] = disk[k]
  BY <1>1, <1>2 DEF DiskTypes, States
<1>4. believed \in SUBSET Pieces /\ \A v \in DOMAIN check.got \cup check.valid : v \in Pieces
  BY <1>2 DEF DiskTypes, CheckGoes, Checkings
<1>5. DiskTypes' /\ PoolTypes' /\ JobsAreWaitedFor' /\ WaitIsServed' /\ WritesAreNew'
  <2>1. DiskTypes' /\ PoolTypes'
    BY <1>2, <1>3 DEF DiskTypes, PoolTypes
  <2>2. JobsOf("check")' = JobsOf("check") /\ JobsOf("write")' = JobsOf("write") /\ Hashable' = Hashable
    BY <1>2 DEF JobsOf, Hashable
  <2>3. JobsAreWaitedFor' /\ WaitIsServed' /\ WritesAreNew'
    BY <1>2, <2>2 DEF JobsAreWaitedFor, WaitIsServed, WritesAreNew
  <2> QED
    BY <2>1, <2>3
<1>6. i \notin check.seen
  BY <1>2 DEF CheckGoes
<1>7. \A v \in Pieces : StillGood(v) => StillGood(v)'
  BY <1>2, <1>3, <1>6 DEF StillGood
<1>8. CheckGoes'
  BY <1>2, <1>4, <1>7 DEF CheckGoes
<1>9. BelievedIsOnDisk'
  BY <1>2, <1>3, <1>4 DEF BelievedIsOnDisk
<1> QED
  BY <1>5, <1>8, <1>9 DEF HashInv

(* Each step keeps what holds, and only a recheck that ends stops believing *)
(* in a piece.                                                              *)
LEMMA HashInvStep ==
  ASSUME PoolAssumption, HashInv, HashNext \/ UNCHANGED poolVars
  PROVE  HashInv' /\ (KeepsWritten \/ UNCHANGED poolVars)
<1>1. CASE UNCHANGED poolVars
  <2>1. UNCHANGED <<disk, believed, check, writes, inUse, made, pools, jobs, damaged>>
    BY <1>1 DEF poolVars
  <2>2. JobsOf("check")' = JobsOf("check") /\ JobsOf("write")' = JobsOf("write") /\ Hashable' = Hashable
    BY <2>1 DEF JobsOf, Hashable
  <2>3. DiskTypes' /\ PoolTypes' /\ BelievedIsOnDisk' /\ WritesAreNew'
    BY <2>1 DEF HashInv, DiskTypes, PoolTypes, BelievedIsOnDisk, WritesAreNew
  <2>4. CheckGoes' /\ JobsAreWaitedFor' /\ WaitIsServed'
    BY <2>1, <2>2 DEF HashInv, CheckGoes, StillGood, JobsAreWaitedFor, WaitIsServed
  <2> QED
    BY <1>1, <2>3, <2>4 DEF HashInv
<1>2. CASE Checks
  <2>1. CASE \E i \in check.batch : ReadOne(i)
    BY <2>1, ReadKeeps DEF ReadOne, KeepsWritten
  <2>2. CASE \E i \in check.batch : SubmitHash(i)
    BY <2>2, HashSubmitKeeps DEF SubmitHash, KeepsWritten
  <2>3. CASE ReadAll
    BY <2>3, AllReadKeeps DEF ReadAll, KeepsWritten
  <2>4. CASE Judge
    BY <2>4, JudgeKeeps
  <2> QED
    BY <1>2, <2>1, <2>2, <2>3, <2>4 DEF Checks
<1>3. CASE Answers
  <2>1. CASE \E job \in jobs : Hash(job)
    BY <2>1, HashKeeps DEF Hash, KeepsWritten
  <2>2. CASE \E job \in jobs : WriteHashed(job)
    BY <2>2, WriteHashedKeeps DEF WriteHashed, KeepsWritten
  <2>3. CASE \E i \in Pieces : WriteEnds(i)
    BY <2>3, WriteEndsKeeps DEF WriteEnds, KeepsWritten
  <2>4. CASE \E p \in DOMAIN pools : ClosedOff(p)
    BY <2>4, PoolsKeep DEF ClosedOff, KeepsWritten
  <2> QED
    BY <1>3, <2>1, <2>2, <2>3, <2>4 DEF Answers
<1>4. CASE Recheck \/ Close
  BY <1>4, RecheckKeeps, PoolsKeep DEF Recheck, Close, KeepsWritten
<1>5. CASE \E i \in Pieces : Damage(i)
  BY <1>5, DamageKeeps DEF Damage, KeepsWritten
<1>6. CASE \E i \in Pieces : \E data \in {"good", "bad"} : WriteBegin(i, data)
  BY <1>6, WriteBeginKeeps DEF WriteBegin, KeepsWritten
<1> QED
  BY <1>1, <1>2, <1>3, <1>4, <1>5, <1>6 DEF HashNext

LEMMA HashInvMeans ==
  ASSUME PoolAssumption, HashInv
  PROVE  HashTypeOK /\ BelievedIsOnDisk /\ WaitIsServed
<1>1. DiskTypes /\ PoolTypes /\ CheckGoes /\ BelievedIsOnDisk /\ WaitIsServed
  BY DEF HashInv
<1>2. /\ disk \in [Pieces -> {"short", "bad", "good"}]
      /\ believed \subseteq Pieces /\ damaged \subseteq Pieces
      /\ check.targets \subseteq Pieces /\ DOMAIN check.got \subseteq check.batch
  BY <1>1 DEF DiskTypes, CheckGoes, Checkings, States
<1>3. \A i \in Pieces : writes[i].at \in {"idle", "hashing", "writing"}
  BY <1>1 DEF DiskTypes, WritingOf
<1>4. /\ inUse \in 0 .. made /\ Len(pools) = made /\ made <= MaxPools
      /\ \A j \in jobs : j.piece \in Pieces /\ j.pool \in 1 .. made
  BY <1>1 DEF PoolTypes, HashJobs, PoolAssumption
<1> QED
  BY <1>1, <1>2, <1>3, <1>4 DEF HashTypeOK

(* The pool and the recheck, for every number of pieces, threads, pools and *)
(* damaged files: what is believed complete is on disk and good, unless it  *)
(* was spoilt since the last recheck that read it, and every wait for a     *)
(* hash has its hash (StorageManager.verify_existing, PieceVerifier).       *)
THEOREM BelievedIsOnDiskAlways ==
  ASSUME PoolAssumption
  PROVE  HashSpec => [](HashTypeOK /\ BelievedIsOnDisk /\ WaitIsServed)
<1>1. HashInit => HashInv
  BY HashInvStart
<1>2. HashInv /\ [HashNext]_poolVars => HashInv'
  BY HashInvStep
<1>3. HashInv => HashTypeOK /\ BelievedIsOnDisk /\ WaitIsServed
  BY HashInvMeans
<1> QED
  BY <1>1, <1>2, <1>3, PTL DEF HashSpec

(* A piece that was written while a recheck ran is still believed complete  *)
(* when the recheck is over (the union at the end of verify_existing).      *)
THEOREM WrittenIsKeptAlways ==
  ASSUME PoolAssumption
  PROVE  HashSpec => [][KeepsWritten]_poolVars
<1>1. HashInit => HashInv
  BY HashInvStart
<1>2. HashInv /\ [HashNext]_poolVars => HashInv' /\ [KeepsWritten]_poolVars
  BY HashInvStep
<1> QED
  BY <1>1, <1>2, PTL DEF HashSpec
=============================================================================
