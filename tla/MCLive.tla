------------------------------- MODULE MCLive -------------------------------
(***************************************************************************)
(* Small instances for TLC of the components that have something to wait    *)
(* for, with the fairness of each.                                          *)
(***************************************************************************)
EXTENDS Integers, Sequences, FiniteSets, SequencesExt, TLC

CONSTANTS Explored, NoEngine

VARIABLES part, udpTurns, udpCalls, up, armed, udpConn, young, seed, udpSent, made, silent, health,
  seen, annCalls, annLoop, sessions, alive, closing, query, registry, replies, bound, wrongly,
  stage, metaReceived, wrong, requested, lapsed, expired, metaAsked, incoming, half, skewed, quiet,
  why, magPhase, task, announces, answer, magTaken, linked, candidates, fetch, private, upAttached, keen,
  choking, upTracked, queues, allowed, optimistic, upTurns, due, have, upTold, upPass, todo, size,
  progressed, upCurrent, delayed, upAsked, paceClock, tokens, updated, waiting, paceSent, paceTaken,
  charged, swarmConn, first, second, swarmReceived, swarmTold, swarmTracked, avail, interest, piece,
  swarmPass, left, dead, cur, sig, wanted, count, life, outcome, cancelled, sock, sess, bitfield,
  reason, closedEv, keep, keepHeld, keepCut, closers, reaper, wireTold, reads, sessionServices,
  sessionMagnets, sessionCalls, built, sessionListening, closed, dht, sessionAttached, registered,
  announcer, sessionQueue, sessionCurrent, poked, short, toClose, ended, late, events, revision, at,
  latest, feedListening, pending, announced, signals, shown, emitted, webServices, webMagnets,
  links, jobs, gui, selected, ledger, parsed, mail, parsing, dialog, page, webClock, deskPhase,
  name, inbox, link, deskLoop, deskQueue, stop, deskPart, unsaved, cut, session,
  known, winView, needle, rows, chosen, detail

(* One tier beside the announce URL; one of its URLs no client speaks.      *)
OneTier == <<<<"u1", "wss">>>>

udpVars == <<udpTurns, udpCalls, up, armed, udpConn, young, seed, udpSent, made, silent>>
Udp == INSTANCE UdpTracker WITH
  Callers <- {"p", "q"}, MaxRetries <- 1, MaxCalls <- 1, Batches <- 1, ClosesAlone <- FALSE,
  turns <- udpTurns, calls <- udpCalls, conn <- udpConn, sent <- udpSent

annVars == <<health, seen, annCalls, annLoop, sessions, alive, closing>>
Ann == INSTANCE Announcer WITH
  Urls <- {"u0", "u1", "wss"}, AnnounceUrl <- "u0", AnnounceList <- OneTier,
  Speakable <- {"u0", "u1"}, Mirrors <- {{}}, SwarmPeers <- {"p"}, Intervals <- {1},
  Multiplier <- 10, MaxGap <- 1, MaxExponent <- 1, calls <- annCalls, loop <- annLoop

krpcVars == <<query, registry, replies, bound, wrongly>>
Krpc == INSTANCE Krpc WITH
  Askers <- {"p", "q"}, NoAsker <- "nobody", Ids <- {1, 2}, Retries <- 1, Outstanding <- 1,
  FreshIds <- TRUE

metaVars == <<stage, metaReceived, wrong, requested, lapsed, expired, metaAsked, incoming, half,
  skewed, quiet, why>>
magVars == <<magPhase, task, announces, answer, magTaken, linked, candidates, fetch, private>>
Meta == INSTANCE Metadata WITH
  Chunks <- 2, Pipeline <- 1, Waits <- 1, Backlog <- 1, SlowPeers <- TRUE,
  received <- metaReceived, asked <- metaAsked,
  Peers <- {"p", "q"}, Limit <- 1, Cancels <- FALSE, BadAnswers <- TRUE, phase <- magPhase,
  taken <- magTaken

upVars == <<upAttached, keen, choking, upTracked, queues, allowed, optimistic, upTurns, due, have,
  upTold, upPass, todo, size, progressed, upCurrent, delayed, upAsked>>

paceVars == <<paceClock, tokens, updated, waiting, paceSent, paceTaken, charged>>
Up == INSTANCE Upload WITH
  Leechers <- {"p", "q", "r"}, Offered <- {}, NoLeecher <- "nobody", Slots <- 1, MaxRequests <- 1,
  Limited <- FALSE, Fickle <- FALSE, MaxTurns <- 1, Greedy <- FALSE, Rate <- 1, Lengths <- {1}, MaxLength <- 1,
  MaxClock <- 1, MaxBlocks <- 1, attached <- upAttached, tracked <- upTracked, turns <- upTurns,
  told <- upTold, pass <- upPass, current <- upCurrent, asked <- upAsked, clock <- paceClock,
  sent <- paceSent, taken <- paceTaken

swarmVars == <<swarmConn, first, second, swarmReceived, swarmTold, swarmTracked, avail, interest,
  piece, swarmPass, left, dead, cur, sig, wanted, count>>
Swarm == INSTANCE SwarmView WITH
  Peers <- {"p"}, NoPeer <- "nobody", Pieces <- {0}, BitfieldFirst <- TRUE, MayCorrupt <- FALSE,
  MayReturn <- FALSE, MaxCount <- 2, conn <- swarmConn, received <- swarmReceived,
  amInterested <- swarmTold, view <- swarmTracked, pump <- swarmPass

wireVars == <<life, outcome, cancelled, sock, sess, bitfield, reason, closedEv, keep, keepHeld,
  keepCut, closers, reaper, wireTold, reads>>
Conn == INSTANCE PeerWire WITH
  Closers <- {"w1", "w2"}, Messages <- 1, BeyondLast <- TRUE, announced <- wireTold

sessionVars == <<sessionServices, sessionMagnets, sessionCalls, built, sessionListening, closed,
  dht, sessionAttached, registered, announcer, sessionQueue, sessionCurrent, poked, short, toClose,
  ended, late>>
Session == INSTANCE Session WITH
  Hashes <- {"h", "i"}, Callers <- {"c"}, MaxEngines <- 2, Orderly <- TRUE, StartsFail <- FALSE,
  services <- sessionServices, magnets <- sessionMagnets, calls <- sessionCalls,
  serving <- sessionListening, attached <- sessionAttached, queue <- sessionQueue,
  current <- sessionCurrent

feedVars == <<events, revision, at, latest, feedListening, pending, announced, signals, shown,
  emitted>>
Feed == INSTANCE EventBridge WITH
  Emitters <- {"engine"}, MaxEvents <- 3, Capacity <- 2, listening <- feedListening

webVars == <<webServices, webMagnets, links, jobs, gui, selected, ledger, parsed, mail, parsing,
  dialog, page, webClock>>
Web == INSTANCE WebUi WITH
  Hashes <- {"h"}, Peers <- {"p"}, None <- NoEngine, MaxJobs <- 1, MaxBytes <- 1, MaxClock <- 1,
  services <- webServices, magnets <- webMagnets, clock <- webClock

deskVars == <<deskPhase, name, inbox, link, deskLoop, deskQueue, stop, deskPart, unsaved, cut>>
Desk == INSTANCE Desktop WITH
  Procs <- {"p"}, Torrents <- {"t"}, Links <- {"l"}, phase <- deskPhase,
  loop <- deskLoop, backlog <- deskQueue, part <- deskPart

windowVars == <<session, known, winView, needle, rows, chosen, detail>>
Win == INSTANCE MainWindow WITH
  Torrents <- {"a"}, NoTorrent <- "none", States <- {"downloading", "starting", "paused"},
  Gone <- "gone", view <- winView,
  removing <- 0, pendingRm <- 0, named <- 0, deleting <- 0, labelled <- 0, removals <- 0,
  agreed <- 0, leaving <- 0, shell <- 0, tray <- 0, chip <- 0,
  EventsSeen <- {}, Filters <- {}, Kept <- 1, KeptRows <- 1, MaxVisible <- 1, MaxTold <- 1,
  MaxNotices <- 1, events <- 0, filter <- 0, feed <- 0, about <- 0, own <- 0, told <- 0, cards <- 0,
  notices <- 0, retired <- 0

-----------------------------------------------------------------------------
SumInit ==
  /\ part \in Explored
  /\ Udp!UdpInit
  /\ Ann!AnnouncerInit /\ (part # "ann" => alive = {})
  /\ Krpc!KrpcInit
  /\ Meta!MetaInit
  /\ Meta!MagnetInit /\ (part # "mag" => linked = {})
  /\ Up!UpInit
  /\ Up!PaceInit
  /\ Swarm!SwarmInit
  /\ Conn!WireInit
  /\ Session!SessionInit
  /\ Feed!BridgeInit
  /\ Web!WebInit
  /\ Desk!DeskInit
  /\ Win!WindowInit /\ (part # "window" => session = Win!Empty)

(* Every component but the one explored stays as it is.                      *)
Rest ==
  /\ part' = part
  /\ part # "udp" => UNCHANGED udpVars
  /\ part # "ann" => UNCHANGED annVars
  /\ part # "krpc" => UNCHANGED krpcVars
  /\ part # "meta" => UNCHANGED metaVars
  /\ part # "mag" => UNCHANGED magVars
  /\ part # "up" => UNCHANGED upVars
  /\ part # "pace" => UNCHANGED paceVars
  /\ part # "swarm" => UNCHANGED swarmVars
  /\ part # "wire" => UNCHANGED wireVars
  /\ part # "session" => UNCHANGED sessionVars
  /\ part # "feed" => UNCHANGED feedVars
  /\ part # "web" => UNCHANGED webVars
  /\ part # "desk" => UNCHANGED deskVars
  /\ part # "window" => UNCHANGED windowVars

SumNext ==
  \/ part = "udp" /\ Udp!UdpNext /\ Rest
  \/ part = "ann" /\ Ann!AnnouncerNext /\ Rest
  \/ part = "krpc" /\ Krpc!KrpcNext /\ Rest
  \/ part = "meta" /\ Meta!MetaNext /\ Rest
  \/ part = "mag" /\ Meta!MagnetNext /\ Rest
  \/ part = "up" /\ Up!UpNext /\ Rest
  \/ part = "swarm" /\ Swarm!SwarmNext /\ Rest
  \/ part = "wire" /\ Conn!WireNext /\ Rest
  \/ part = "session" /\ Session!SessionNext /\ Rest
  \/ part = "feed" /\ Feed!BridgeNext /\ Rest
  \/ part = "web" /\ Web!WebNext /\ Rest
  \/ part = "desk" /\ Desk!DeskNext /\ Rest
  \/ part = "window" /\ Win!WindowNext /\ Rest

sumVars == <<part, udpVars, annVars, krpcVars, metaVars, magVars, upVars, paceVars, swarmVars,
  wireVars, sessionVars, feedVars, webVars, deskVars, windowVars>>
(* Each component's own fairness, while it is explored: tasks and threads    *)
(* that are ready run, sleeps and deadlines end, disks and sockets answer.   *)
QuestionsGo ==
  /\ \A c \in {"p", "q"} : WF_udpVars(part = "udp" /\ Udp!Goes(c))
  /\ WF_annVars(part = "ann" /\ Ann!LoopStep)
  /\ \A a \in {"p", "q"} : WF_krpcVars(part = "krpc" /\ Krpc!AskerGoes(a))
  /\ WF_metaVars(part = "meta" /\ Meta!FetchGoes)
  /\ WF_metaVars(part = "meta" /\ Meta!DeadlinePasses)
  /\ WF_metaVars(part = "meta" /\ Meta!Lapses /\ expired)
  /\ WF_magVars(part = "mag" /\ Meta!ResolveGoes)
  /\ WF_magVars(part = "mag" /\ Meta!Answers("tracker"))
  /\ WF_magVars(part = "mag" /\ Meta!LookupTimesOut)
  /\ \A p \in {"p", "q"} : WF_magVars(part = "mag" /\ Meta!Fetched(p))

PeersGo ==
  /\ WF_upVars(part = "up" /\ Up!StartUpload)
  /\ WF_upVars(part = "up" /\ (Up!PassBegin \/ Up!TellNext \/ Up!TellAborts \/ Up!Told \/ Up!ServeBegin))
  /\ WF_upVars(part = "up" /\ ((\E p \in {"p", "q", "r"} : Up!Serve(p)) \/ Up!Sent \/ Up!RoundEnd))
  /\ SF_upVars(part = "up" /\ Up!IntervalOver)
  /\ WF_swarmVars(part = "swarm" /\ Swarm!PassGoes)
  /\ SF_swarmVars(part = "swarm" /\ Swarm!InterestSent("p"))
  /\ SF_swarmVars(part = "swarm" /\ Swarm!ViewOnDisconnect("p"))
  /\ WF_wireVars(part = "wire" /\ Conn!RunGoes)
  /\ WF_wireVars(part = "wire" /\ Conn!KeepCancelled)
  /\ WF_wireVars(part = "wire" /\ Conn!ReapEnds)
  /\ \A c \in {"w1", "w2"} : WF_wireVars(part = "wire" /\ Conn!CloseEnds(c))

ServicesGo ==
  /\ WF_sessionVars(part = "session" /\ Session!Pass)
  /\ WF_sessionVars(part = "session" /\ Session!Announced)
  /\ WF_sessionVars(part = "session" /\ Session!CallGoes("c"))
  /\ WF_feedVars(part = "feed" /\ Feed!Drain)
  /\ WF_feedVars(part = "feed" /\ Feed!EmitterGoes("engine"))
  /\ WF_webVars(part = "web" /\ Web!Handle)
  /\ WF_webVars(part = "web" /\ Web!Tick)
  /\ WF_webVars(part = "web" /\ 1 \in DOMAIN jobs /\ Web!JobStep(1))
  /\ WF_deskVars(part = "desk" /\ Desk!Leave("p"))
  /\ WF_deskVars(part = "desk" /\ Desk!Thread("p"))
  /\ WF_windowVars(part = "window" /\ Win!UpdateState)

SumSpec == SumInit /\ [][SumNext]_sumVars /\ QuestionsGo /\ PeersGo /\ ServicesGo

-----------------------------------------------------------------------------
(* Every question ends, answered or not: a UDP call, a DHT query, a metadata *)
(* fetch, a resolution; and a tracker that answers is reached by the loop    *)
(* however many before it do not.                                            *)
EveryQuestionEnds ==
  /\ part = "udp" => Udp!EveryCallEnds
  /\ part = "krpc" => Krpc!EveryQueryEnds
  /\ part = "meta" => Meta!FetchEnds
  /\ part = "mag" => Meta!ResolveEnds
  /\ part = "ann" => Ann!WorkingTrackerIsReached

(* No peer is forgotten: one that waits interested gets its turn, one that   *)
(* has what we want is told so, and a connection that ends is closed and     *)
(* reaped.                                                                   *)
NoPeerIsForgotten ==
  /\ part = "up" => Up!EveryoneGetsATurn
  /\ part = "swarm" => Swarm!InterestIsTold
  /\ part = "wire" => Conn!CloseReturns /\ Conn!EndsAreReaped

(* What was begun is finished: a torrent that listens is published, an      *)
(* event is shown, a look-up stops its spinner, a client that leaves is     *)
(* gone, and the torrent that stays as it is is shown so.                   *)
WhatWasBegunEnds ==
  /\ part = "session" => Session!ListeningIsPublished
  /\ part = "feed" => Feed!FeedDelivers
  /\ part = "web" => Web!SpinnerStops
  /\ part = "desk" => Desk!ExitEnds
  /\ part = "window" => Win!SettledIsShown
=============================================================================
