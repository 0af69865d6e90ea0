----------------------------- MODULE MCServices -----------------------------
(***************************************************************************)
(* Instances for TLC of what runs the torrents and shows them: session,     *)
(* engine, files, command line and window.                                  *)
(***************************************************************************)
EXTENDS Integers, Sequences, FiniteSets, SequencesExt, TLC, TLAPS

CONSTANTS
  Explored,                        \* the components explored
  Hashes, Callers, MaxEngines,     \* of Session
  Callees, Faults,                 \* of EngineLife
  Emitters, MaxEvents, Capacity,   \* of EventBridge
  Sections, Values, Default, Built, MaxSaves,   \* of Settings
  Procs, Torrents, Clicked,        \* of Desktop
  Silent, NoSeed, MaxCtrlC,                     \* of CommandLine
  Hashed, Workers, Factor, MaxPools, MaxBad,    \* of HashPool
  h1, p1, NoEngine, Missing, Wrong, NotJson, NotUtf8, Never

VARIABLES part, sessionServices, sessionMagnets, calls, built, sessionListening, closed, dht,
  attached, registered, announcer, sessionQueue, sessionCurrent, poked, short, toClose, ended, late,
  running, paused, startedOnce, stopped, failed, bound, handles, alive, stray, quitting,
  complete, closedUp, ops, engineRaised, tangled, events, revision, feedAt, latest, feedListening,
  pending, announced, signals, shown, feedEmitted, config, launched, file, temp, saving,
  setSaves, setKept, first, phase, name, inbox, link, loop, deskQueue, stop, deskPart, deskUnsaved,
  cut, command, cliAt, finished, cliUnsaved, leaving, said, code, ctrlC, caught, files,
  held, resumeKept, fatal, resumeSaves, disk, hashDone, check, writes, hashCurrent, made, pools,
  hashJobs, damaged, statsTime, arrivals, statsMeters, statsTotal, firstAt, statsDone, cached,
  peers, sample, series, ticks, gauges, metersTotal, started, book, counter, metersMoved,
  recorded, webServices, webMagnets, links, webJobs, gui, selected, ledger, parsed, mail, parsing,
  dialog, page, clock, engines, listeners, verified, offered, sharedMoved, counted, timeline,
  counts, sharedEmitted, subs, stack, forwarding, tasks, doomed, closing, drains, missed, emits,
  session, known, winView, needle, rows, chosen, detail, removing, pendingRm, named, deleting,
  labelled, removals, agreed, leavingOn, shell, tray, chip, lines, filter, logFeed, about, own,
  told, cards, notices, retired

ShortLast == [h \in {"a", "b"} |-> IF h = "a" THEN [len |-> 2, count |-> 2, total |-> 3]
                                              ELSE [len |-> 1, count |-> 1, total |-> 1]]
TwoAndOne == [t \in {"A", "B"} |-> IF t = "A" THEN 2 ELSE 1]
OneOfA == [t \in {"A", "B"} |-> IF t = "A" THEN {1} ELSE {}]
AllHear == [h \in {"x", "z"} |-> IF h = "x" THEN {"domain"} ELSE {"domain", "log"}]

sessionVars == <<sessionServices, sessionMagnets, calls, built, sessionListening, closed, dht,
  attached, registered, announcer, sessionQueue, sessionCurrent, poked, short, toClose, ended, late>>

engineVars == <<running, paused, startedOnce, stopped, failed, bound, handles, alive, stray,
  quitting, complete, closedUp, ops, engineRaised, tangled>>
feedVars == <<events, revision, feedAt, latest, feedListening, pending, announced, signals, shown,
  feedEmitted>>

setVars == <<config, launched, file, temp, saving, setSaves, setKept, first>>
deskVars == <<phase, name, inbox, link, loop, deskQueue, stop, deskPart, deskUnsaved, cut>>
cliVars == <<command, cliAt, finished, cliUnsaved, leaving, said, code, ctrlC, caught>>
hashVars == <<disk, hashDone, check, writes, hashCurrent, made, pools, hashJobs, damaged>>

(* The components ServiceProofs is about.                                    *)
Inner == INSTANCE ServiceProofs WITH
  Orderly <- FALSE, StartsFail <- TRUE,
  services <- sessionServices, magnets <- sessionMagnets, serving <- sessionListening,
  queue <- sessionQueue, current <- sessionCurrent,
  raised <- engineRaised,
  at <- feedAt, listening <- feedListening, emitted <- feedEmitted,
  begun <- setSaves, kept <- setKept,
  Links <- Clicked, Pieces <- Hashed,
  backlog <- deskQueue, part <- deskPart, unsaved <- deskUnsaved,
  where <- cliAt, unwritten <- cliUnsaved,
  believed <- hashDone, inUse <- hashCurrent, jobs <- hashJobs

resumeVars == <<files, held, resumeKept, fatal, resumeSaves>>
Resume == INSTANCE ResumeFile WITH
  Hashes <- {"a", "b"}, Geometry <- ShortLast, Foreign <- {"odd"}, Counts <- {0, 1, 2, 3},
  MaxSaves <- 2, kept <- resumeKept, saves <- resumeSaves

statsVars == <<statsTime, arrivals, statsMeters, statsTotal, firstAt, statsDone, cached, peers,
  sample, series>>
Stats == INSTANCE Statistics WITH
  Windows <- <<1, 2, 3>>, Samples <- 2, PieceSizes <- <<2, 1>>, Amounts <- {-1, 1}, Swarm <- 1,
  Horizon <- 3, Arrivals <- 2, time <- statsTime, meters <- statsMeters, total <- statsTotal,
  done <- statsDone,
  Spans <- <<1, 3>>, Sizes <- {1}, Series <- {"down"}, Capacity <- 1, LastTick <- 4,
  MaxMoves <- 2, sum <- metersTotal, moved <- metersMoved

metersVars == <<ticks, gauges, metersTotal, started, book, counter, metersMoved, recorded>>

webVars == <<webServices, webMagnets, links, webJobs, gui, selected, ledger, parsed, mail, parsing,
  dialog, page, clock>>
Web == INSTANCE WebUi WITH
  Hashes <- {h1}, Peers <- {p1}, None <- NoEngine, MaxJobs <- 1, MaxBytes <- 1, MaxClock <- 1,
  services <- webServices, magnets <- webMagnets, jobs <- webJobs

sharedVars == <<engines, listeners, verified, offered, sharedMoved, counted, timeline, counts,
  sharedEmitted>>
busVars == <<subs, stack, forwarding, tasks, doomed, closing, drains, missed, emits>>
Bus == INSTANCE EventBus WITH
  Threads <- {"loop", "gui"}, Handlers <- {"x", "z"}, Hears <- AllHear, Async <- {"z"},
  Faulty <- {"x", "z"}, MaxEmits <- 2,
  Torrents <- {"A", "B"}, PieceCount <- TwoAndOne, Resumed <- OneOfA, Recent <- 2,
  ListenerFails <- TRUE, Blocks <- 1, Emissions <- 6, moved <- sharedMoved, emitted <- sharedEmitted

Quiet == [of |-> "a", due |-> FALSE]
Loud == [of |-> "none", due |-> TRUE]

windowVars == <<session, known, winView, needle, rows, chosen, detail>>
dialogVars == <<removing, pendingRm, named, deleting, labelled, removals, agreed, leavingOn, shell,
  tray, chip>>
linesVars == <<lines, filter, logFeed, about, own, told, cards, notices, retired>>
Win == INSTANCE MainWindow WITH
  Torrents <- {"a", "b"}, NoTorrent <- "none", States <- {"downloading", "starting", "paused"},
  Gone <- "gone", view <- winView, leaving <- leavingOn,
  EventsSeen <- {Quiet, Loud}, Filters <- {{Quiet, Loud}, {Loud}}, Kept <- 2, KeptRows <- 1,
  MaxVisible <- 2, MaxTold <- 4, MaxNotices <- 3, events <- lines, feed <- logFeed

ASSUME ServicesAssumption ==
  /\ Inner!SessionAssumption
  /\ Inner!EngineAssumption /\ Inner!BridgeAssumption
  /\ Inner!SettingsAssumption /\ Inner!PoolAssumption
  /\ Stats!StatisticsAssumption
  /\ Bus!SharedBusAssumption
  /\ Win!WindowAssumption

-----------------------------------------------------------------------------
SumInit ==
  /\ part \in Explored
  /\ Inner!SessionInit
  /\ Inner!EngInit /\ (part # "engine" => complete = FALSE)
  /\ Inner!BridgeInit
  /\ Inner!SettingsInit /\ (part # "set" => file = Inner!NoFile /\ config = Inner!Defaults)
  /\ Inner!DeskInit
  /\ Inner!CliInit /\ (part # "cli" => command = "info")
  /\ Resume!ResumeInit
  /\ Inner!HashInit /\ (part # "hash" => disk = [i \in Hashed |-> "short"])
  /\ Stats!StatsInit /\ (part # "stats" => statsDone = {})
  /\ Stats!MetersInit
  /\ Web!WebInit
  /\ Bus!SharedInit
  /\ Bus!BusInit
  /\ Win!WindowInit /\ (part # "window" => session = Win!Empty)
  /\ Win!DialogInit
  /\ Win!LinesInit /\ (part # "lines" => filter = {Loud})

(* Every component but the one explored stays as it is.                      *)
Rest ==
  /\ part' = part
  /\ part # "session" => UNCHANGED sessionVars
  /\ part # "engine" => UNCHANGED engineVars
  /\ part # "feed" => UNCHANGED feedVars
  /\ part # "set" => UNCHANGED setVars
  /\ part # "desk" => UNCHANGED deskVars
  /\ part # "cli" => UNCHANGED cliVars
  /\ part # "resume" => UNCHANGED resumeVars
  /\ part # "hash" => UNCHANGED hashVars
  /\ part # "stats" => UNCHANGED statsVars
  /\ part # "meters" => UNCHANGED metersVars
  /\ part # "web" => UNCHANGED webVars
  /\ part # "shared" => UNCHANGED sharedVars
  /\ part # "bus" => UNCHANGED busVars
  /\ part # "window" => UNCHANGED windowVars
  /\ part # "lines" => UNCHANGED linesVars
  /\ part # "dialogs" => UNCHANGED dialogVars

SumNext ==
  \/ part = "session" /\ Inner!SessionNext /\ Rest
  \/ part = "engine" /\ Inner!EngNext /\ Rest
  \/ part = "feed" /\ Inner!BridgeNext /\ Rest
  \/ part = "set" /\ Inner!SettingsNext /\ Rest
  \/ part = "desk" /\ Inner!DeskNext /\ Rest
  \/ part = "cli" /\ Inner!CliNext /\ Rest
  \/ part = "resume" /\ Resume!ResumeNext /\ Rest
  \/ part = "hash" /\ Inner!HashNext /\ Rest
  \/ part = "stats" /\ Stats!StatsNext /\ Rest
  \/ part = "meters" /\ Stats!MetersNext /\ Rest
  \/ part = "web" /\ Web!WebNext /\ Rest
  \/ part = "shared" /\ Bus!SharedNext /\ Rest
  \/ part = "bus" /\ Bus!BusNext /\ Rest
  \/ part = "window" /\ Win!WindowNext /\ Rest
  \/ part = "dialogs" /\ Win!DialogNext /\ Rest
  \/ part = "lines" /\ Win!LinesNext /\ Rest

sumVars == <<part, sessionVars, engineVars, feedVars, setVars, deskVars, cliVars, resumeVars,
  hashVars, statsVars, metersVars, webVars, sharedVars, busVars, windowVars, dialogVars,
  linesVars>>
SumSpec == SumInit /\ [][SumNext]_sumVars

-----------------------------------------------------------------------------
(* While the DHT announcer waits no torrent is left that it was not told of, *)
(* a pass keeps its node to the end and none runs once a close has begun     *)
(* (unless a node binds after that), and a torrent of the session has an     *)
(* engine nobody closed, whichever calls overlap.                            *)
SessionHoldsTogether ==
  part = "session" => Inner!SessionTypeOK /\ Inner!PokeIsHeard /\ Inner!PassHasNode /\ Inner!ManagedIsOpen

(* When no call is under way, an engine is as up or as down as its flags say *)
(* it is, and a stop puts right what overlapping starts left; what its tasks *)
(* use is released after them; and no task is started beside its like.       *)
EngineIsAsItSays ==
  part = "engine" =>
    /\ Inner!EngTypeOK /\ Inner!StoppedIsDown /\ Inner!RunningIsUp
    /\ Inner!ReleasedLast /\ Inner!StartedOnce

(* The window is shown every event of the engine once and in order, however  *)
(* the threads interleave: the feed implements the channel, and the queue of *)
(* wake-ups never holds two.                                                 *)
FeedIsChannel ==
  /\ Inner!FeedIsChannel
  /\ [](part = "feed" => Inner!BridgeTypeOK /\ Inner!OneSignalOutstanding)

(* What was saved is there: settings whole or as before a crash, progress at *)
(* the end of a client or a command that did not lose its time, and a resume *)
(* file that fits its torrent whoever wrote it.                              *)
SavedIsThere ==
  /\ part = "set" => Inner!SettingsTypeOK /\ Inner!SavedOrBefore
  /\ part = "desk" => Inner!DeskTypeOK /\ Inner!WholeExitIsSaved
  /\ part = "cli" => Inner!EndedIsSaved /\ Inner!ZeroIsComplete
  /\ part = "resume" => Resume!HeldFitsTheTorrent /\ Resume!SavedIsLoaded

(* A recheck that ends leaves only pieces it read, hashed and found good to  *)
(* be believed, a close of the pool leaves nobody waiting for a hash, and a  *)
(* recheck undoes nothing but what it checked.                               *)
BelievedIsOnDisk ==
  /\ [](part = "hash" => Inner!HashTypeOK /\ Inner!BelievedIsOnDisk /\ Inner!WaitIsServed)
  /\ [][part = "hash" => Inner!KeepsWritten]_sumVars

(* What is shown happened: rates are the bytes of their window, samples      *)
(* agree with themselves, series hold the newest, and the page's readings    *)
(* are of the peers it shows.  Its library is of the last snapshot, its log  *)
(* of the last events, its detail page of the torrent selected, and what it  *)
(* removes is what its dialog showed.                                        *)
ShownIsTrue ==
  /\ part = "stats" => Stats!StatsTypeOK /\ Stats!RatesAreMeasured /\ Stats!SampleIsConsistent
  /\ part = "meters" => Stats!ReadingsAreTrue /\ Stats!SeriesIsTheNewest
  /\ part = "web" => Web!WebTypeOK /\ Web!LedgerIsShown
  /\ part = "window" => Win!WindowTypeOK /\ Win!LibraryIsShown /\ Win!DetailIsOfChosen
  /\ part = "dialogs" => Win!RemovesWhatWasShown /\ Win!HiddenHasTray
  /\ part = "lines" => Win!LogIsNewest /\ Win!NoticesAreNewest

(* Everyone subscribed is told of an event, whichever handler fails, and     *)
(* what the session notes of the events is what was emitted.                 *)
EveryoneIsTold ==
  /\ part = "bus" => Bus!EveryoneIsTold /\ Bus!LogsBegetNoLogs
  /\ part = "shared" => Bus!SharedTypeOK /\ Bus!TimelineIsRecent /\ Bus!OwnEventsAreHeard

(* What resume.py:29 says of load_or_none: "Corrupt state is never fatal".    *)
CorruptIsNotFatal == part = "resume" => Resume!CorruptIsNotFatal

-----------------------------------------------------------------------------
(* Proofs.  The components ServiceProofs is about start as on their own, and *)
(* a step of the whole is a step of each, or leaves it.                     *)

LEMMA EachStarts ==
  ASSUME SumInit
  PROVE  /\ Inner!SessionInit /\ Inner!EngInit /\ Inner!BridgeInit
         /\ Inner!SettingsInit /\ Inner!DeskInit /\ Inner!CliInit /\ Inner!HashInit
BY DEF SumInit

LEMMA EachMoves ==
  ASSUME [SumNext]_sumVars
  PROVE  /\ [Inner!SessionNext]_Inner!sessionVars
         /\ [Inner!EngNext]_Inner!engVars
         /\ [Inner!BridgeNext]_Inner!bridgeVars
         /\ [Inner!SettingsNext]_Inner!setVars
         /\ [Inner!DeskNext]_Inner!deskVars
         /\ [Inner!CliNext]_Inner!cliVars
         /\ [Inner!HashNext]_Inner!poolVars
<1>1. /\ Inner!SessionNext \/ UNCHANGED sessionVars
      /\ Inner!EngNext \/ UNCHANGED engineVars
      /\ Inner!BridgeNext \/ UNCHANGED feedVars
      /\ Inner!SettingsNext \/ UNCHANGED setVars
      /\ Inner!DeskNext \/ UNCHANGED deskVars
      /\ Inner!CliNext \/ UNCHANGED cliVars
      /\ Inner!HashNext \/ UNCHANGED hashVars
  <2>1. CASE UNCHANGED sumVars
    BY <2>1 DEF sumVars
  <2>2. CASE SumNext
    BY <2>2 DEF SumNext, Rest
  <2> QED
    BY <2>1, <2>2
<1>2. UNCHANGED engineVars => UNCHANGED Inner!engVars
  BY DEF engineVars, Inner!engVars, Inner!flagVars, Inner!partVars
<1>3. UNCHANGED feedVars => UNCHANGED Inner!bridgeVars
  BY DEF feedVars, Inner!bridgeVars
<1>4. UNCHANGED sessionVars => UNCHANGED Inner!sessionVars
  BY DEF sessionVars, Inner!sessionVars, Inner!annVars, Inner!engineVars, Inner!endVars
<1>5. UNCHANGED setVars => UNCHANGED Inner!setVars
  BY DEF setVars, Inner!setVars
<1>6. UNCHANGED deskVars => UNCHANGED Inner!deskVars
  BY DEF deskVars, Inner!deskVars
<1>7. UNCHANGED cliVars => UNCHANGED Inner!cliVars
  BY DEF cliVars, Inner!cliVars
<1>8. UNCHANGED hashVars => UNCHANGED Inner!poolVars
  BY DEF hashVars, Inner!poolVars
<1> QED
  BY <1>1, <1>2, <1>3, <1>4, <1>5, <1>6, <1>7, <1>8

(* A torrent of the session has an engine nobody closed and the announcer   *)
(* hears of each, whichever calls overlap and fail, with any number of      *)
(* torrents, calls and engines.                                             *)
THEOREM SessionStaysTogether == SumSpec => []SessionHoldsTogether
<1> DEFINE Inv == Inner!OwnInv /\ Inner!HeardInv
<1>1. SumInit => Inv
  BY EachStarts, Inner!OwnInvStart, Inner!HeardInvStart
<1>2. Inv /\ [SumNext]_sumVars => Inv'
  BY ServicesAssumption, EachMoves, Inner!OwnInvStep, Inner!HeardInvStep, Inner!SessionStays
<1>3. Inv => SessionHoldsTogether
  BY DEF SessionHoldsTogether, Inner!OwnInv, Inner!HeardInv, Inner!Heard
<1> QED
  BY <1>1, <1>2, <1>3, PTL DEF SumSpec

(* However the calls of an engine overlap, and whatever fails, its flags    *)
(* say what runs once a stop had it to itself, what its tasks use is        *)
(* released last, and no task runs beside its like, with any number of      *)
(* callers.                                                                 *)
THEOREM EngineStaysAsItSays == SumSpec => []EngineIsAsItSays
<1>1. SumInit => Inner!LifeInv
  BY EachStarts, Inner!LifeInvStart
<1>2. Inner!LifeInv /\ [SumNext]_sumVars => Inner!LifeInv'
  BY EachMoves, Inner!LifeInvStep
<1>3. Inner!LifeInv => EngineIsAsItSays
  BY Inner!LifeInvSays DEF EngineIsAsItSays, Inner!LifeInv
<1> QED
  BY <1>1, <1>2, <1>3, PTL DEF SumSpec

(* With one thread that emits the window is shown what was emitted, once    *)
(* and in order, woken by one signal at a time, for any number of events    *)
(* and any capacity of the state.                                           *)
THEOREM FeedStaysChannel ==
  ASSUME \A t, u \in Emitters : t = u
  PROVE  SumSpec => FeedIsChannel
<1> DEFINE Inv == Inner!FeedInv /\ Inner!SignalInv /\ Inner!BridgeTypeOK /\ Inner!ReadsFind
<1>1. SumInit => Inv /\ Inner!Window!ChannelInit
  BY ServicesAssumption, EachStarts, Inner!FeedInit, Inner!SignalInit, Inner!BridgeTypeInit
  DEF Inner!BridgeInit, Inner!Window!ChannelInit
<1>2. Inv /\ [SumNext]_sumVars => Inv'
  BY ServicesAssumption, EachMoves, Inner!FeedStep, Inner!SignalStep, Inner!BridgeTypeStep
<1>3. Inv /\ [SumNext]_sumVars => [Inner!Window!Send \/ Inner!Window!Receive]_<<feedEmitted, shown>>
  BY ServicesAssumption, EachMoves, Inner!FeedRefines
<1>4. Inv => (part = "feed" => Inner!BridgeTypeOK /\ Inner!OneSignalOutstanding)
  BY Inner!SignalMeans
<1> QED
  BY <1>1, <1>2, <1>3, <1>4, PTL
  DEF SumSpec, FeedIsChannel, Inner!FeedIsChannel, Inner!Window!ChannelSpec

(* Whatever is lost on the way out, what was saved is there: a crash costs  *)
(* no settings, an exit that had its time and a command that was let end    *)
(* have saved all progress, for any number of saves, clients, torrents and  *)
(* interrupts.  (The resume file of a torrent is left to the runs: its      *)
(* completed bytes are a fold over a sorted set.)                           *)
THEOREM SavedStaysThere == SumSpec => [](part # "resume" => SavedIsThere)
<1> DEFINE Inv == Inner!SavedInv /\ Inner!DeskInv /\ Inner!CommandInv
<1>1. SumInit => Inv
  BY ServicesAssumption, EachStarts, Inner!SavedInvStart, Inner!DeskInvStart, Inner!CommandInvStart
<1>2. Inv /\ [SumNext]_sumVars => Inv'
  BY ServicesAssumption, EachMoves, Inner!SavedInvStep, Inner!DeskInvStep, Inner!CommandInvStep
<1>3. Inv => (part # "resume" => SavedIsThere)
  BY ServicesAssumption, Inner!DeskInvMeans DEF SavedIsThere, Inner!SavedInv, Inner!CommandInv
<1> QED
  BY <1>1, <1>2, <1>3, PTL DEF SumSpec

(* A recheck believes only what it read, hashed and found good, leaves what *)
(* was written meanwhile, and has its hashes even if the pool is closed,    *)
(* for any number of pieces, threads, pools and damaged pieces.             *)
THEOREM BelievedStaysOnDisk == SumSpec => BelievedIsOnDisk
<1>1. SumInit => Inner!HashInv
  BY ServicesAssumption, EachStarts, Inner!HashInvStart
<1>2. Inner!HashInv /\ [SumNext]_sumVars => Inner!HashInv' /\ [part = "hash" => Inner!KeepsWritten]_sumVars
  <2> SUFFICES ASSUME Inner!HashInv, [SumNext]_sumVars
               PROVE  Inner!HashInv' /\ Inner!KeepsWritten
    OBVIOUS
  <2>1. Inner!HashInv' /\ (Inner!KeepsWritten \/ UNCHANGED Inner!poolVars)
    BY ServicesAssumption, EachMoves, Inner!HashInvStep
  <2>2. UNCHANGED Inner!poolVars => Inner!KeepsWritten
    BY DEF Inner!poolVars, Inner!KeepsWritten
  <2> QED
    BY <2>1, <2>2
<1>3. Inner!HashInv => (part = "hash" => Inner!HashTypeOK /\ Inner!BelievedIsOnDisk /\ Inner!WaitIsServed)
  BY ServicesAssumption, Inner!HashInvMeans
<1> QED
  BY <1>1, <1>2, <1>3, PTL DEF SumSpec, BelievedIsOnDisk
=============================================================================
