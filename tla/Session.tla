------------------------------ MODULE Session -------------------------------
(***************************************************************************)
(* The session (services/session.py) with its torrents                      *)
(* (services/torrent_service.py), the magnets being resolved, and the loop  *)
(* that publishes torrents in the DHT (discovery/dht_announcer.py).         *)
(*                                                                          *)
(* Each call from the interface is a coroutine of its own on the engine's   *)
(* loop; a call waits while an engine is built, started, stopped or closed, *)
(* a magnet is resolved, or the DHT node binds, and others run meanwhile,   *)
(* a close of the session among them.                                       *)
(* An engine serves (its port is bound) from the end of a start to the end  *)
(* of a stop; its own steps are in EngineLife.                              *)
(***************************************************************************)
EXTENDS Integers, Sequences, FiniteSets

CONSTANTS
  Hashes,     \* info hashes of the torrents
  Callers,    \* calls that may be under way at once
  MaxEngines, \* bound: engines that are built
  NoEngine,
  Orderly,    \* whether calls for one torrent wait for each other, and close for all
  StartsFail  \* whether an engine may fail to start, or an announce raise

Engines == 1 .. MaxEngines

SessionAssumption ==
  /\ IsFiniteSet(Hashes) /\ IsFiniteSet(Callers)
  /\ MaxEngines \in Nat \ {0} /\ NoEngine \notin Engines

VARIABLES
  services,   \* Session._services: the engine of each torrent
  magnets,    \* Session._pending_magnets: "none", "resolving" or "failed"
  calls,      \* each call: [at, hash, engine]
  built,      \* engines that exist
  serving,    \* engines whose port is bound
  closed,     \* engines that were closed
  dht,        \* "off", "bound" or "closing": Session._dht
  attached,   \* DhtAnnouncer.node is set
  registered, \* DhtAnnouncer._registrations: [engine, status] of each torrent
  announcer,  \* "off", "begin", "asking", "wait"
  queue,      \* registrations this pass has still to visit
  current,    \* the registration being announced, << >> for none
  poked,      \* DhtAnnouncer._wake
  short,      \* the wait is SKIPPED_RETRY_INTERVAL
  toClose,    \* the engines aclose has still to close
  ended,      \* the session was closed
  late        \* history: a node was bound after a close had begun

annVars == <<announcer, queue, current, poked, short>>
engineVars == <<built, serving, closed>>
endVars == <<toClose, ended, late>>
sessionVars == <<services, magnets, calls, engineVars, dht, attached, registered, annVars, endVars>>

NoReg == [engine |-> NoEngine, status |-> "none"]
NoCall == [at |-> "idle", hash |-> NoEngine, engine |-> NoEngine]

SessionInit ==
  /\ services = [h \in Hashes |-> NoEngine]
  /\ magnets = [h \in Hashes |-> "none"]
  /\ calls = [c \in Callers |-> NoCall]
  /\ built = {} /\ serving = {} /\ closed = {}
  /\ dht = "off" /\ attached = FALSE
  /\ registered = [h \in Hashes |-> NoReg]
  /\ announcer = "off" /\ queue = {} /\ current = << >> /\ poked = FALSE /\ short = FALSE
  /\ toClose = {} /\ ended = FALSE /\ late = FALSE

-----------------------------------------------------------------------------
CloseSteps == {"undht", "unbind", "unreg", "closing"}
Closing == \E c \in Callers : calls[c].at \in CloseSteps

(* The interface makes a call for h.                                        *)
Calls(c, h) ==
  /\ calls[c].at = "idle" /\ ~ended
  /\ Orderly => ~Closing /\ \A d \in Callers : calls[d].hash # h

At(c, pc) == calls[c].at = pc
Goto(c, pc, h, e) == calls' = [calls EXCEPT ![c] = [at |-> pc, hash |-> h, engine |-> e]]
Return(c) == calls' = [calls EXCEPT ![c] = NoCall]

(* register: a torrent that is registered keeps the engine it came with.    *)
Register(h, e) ==
  registered' = IF registered[h] = NoReg
                THEN [registered EXCEPT ![h] = [engine |-> e, status |-> "new"]]
                ELSE registered
Unregister(h) == registered' = [registered EXCEPT ![h] = NoReg]

(* Faulty variant: the torrent is registered, and nobody is woken.          *)
PublishQuiet(h, e) == Register(h, e) /\ UNCHANGED poked

(* Faulty variant: a torrent that was added paused is not registered.       *)
PublishStarted(h, e) ==
  /\ IF \E c \in Callers : calls[c].at = "start" /\ calls[c].engine = e
     THEN Register(h, e) ELSE UNCHANGED registered
  /\ poked' = TRUE

(* _publish: the loop is woken for it.                                      *)
Publish(h, e) == Register(h, e) /\ poked' = TRUE

(* add_torrent up to the engine being built; resolve_magnet_only up to the  *)
(* resolver; and what the resolver comes back with.                         *)
AddBegin(c, h) ==
  /\ Calls(c, h) /\ services[h] = NoEngine
  /\ Cardinality(built) < MaxEngines
  /\ Goto(c, "build", h, NoEngine)
  /\ UNCHANGED <<services, magnets, engineVars, dht, attached, registered, annVars, endVars>>

MagnetBegin(c, h) ==
  /\ Calls(c, h) /\ services[h] = NoEngine
  /\ magnets' = [magnets EXCEPT ![h] = "resolving"]
  /\ Goto(c, "resolve", h, NoEngine)
  /\ UNCHANGED <<services, engineVars, dht, attached, registered, annVars, endVars>>

MagnetFails(c) ==
  /\ At(c, "resolve")
  /\ magnets' = [magnets EXCEPT ![calls[c].hash] = "failed"]
  /\ Return(c)
  /\ UNCHANGED <<services, engineVars, dht, attached, registered, annVars, endVars>>

(* A magnet that was removed, or whose torrent came by another way, raises. *)
MagnetResolved(c) ==
  /\ At(c, "resolve")
  /\ LET h == calls[c].hash IN
     /\ magnets' = [magnets EXCEPT ![h] = "none"]
     /\ IF magnets[h] # "none" /\ services[h] = NoEngine /\ Cardinality(built) < MaxEngines
        THEN Goto(c, "build", h, NoEngine) ELSE Return(c)
  /\ UNCHANGED <<services, engineVars, dht, attached, registered, annVars, endVars>>

(* build_engine returns: the torrent is in the session from here on.        *)
AddBuilt(c, e) ==
  /\ At(c, "build")
  /\ e \in Engines \ built /\ \A x \in Engines \ built : e <= x
  /\ LET h == calls[c].hash IN
     /\ built' = built \cup {e}
     /\ services' = [services EXCEPT ![h] = e]
     /\ \/ /\ Goto(c, "start", h, e)
           /\ UNCHANGED <<registered, poked>>
        \/ /\ Publish(h, e)
           /\ Return(c)
  /\ UNCHANGED <<magnets, serving, closed, dht, attached, announcer, queue, current, short, endVars>>

AddStarted(c) ==
  /\ At(c, "start")
  /\ serving' = serving \cup {calls[c].engine}
  /\ Publish(calls[c].hash, calls[c].engine)
  /\ Return(c)
  /\ UNCHANGED <<services, magnets, built, closed, dht, attached, announcer, queue, current, short, endVars>>

(* The engine does not start: the exception passes through add_torrent.     *)
StartFails(c) ==
  /\ StartsFail /\ calls[c].at \in {"start", "resume"}
  /\ Return(c)
  /\ UNCHANGED <<services, magnets, engineVars, dht, attached, registered, annVars, endVars>>

(* toggle_torrent: pause if it is active, else resume.                      *)
Toggle(c, h) ==
  /\ Calls(c, h) /\ services[h] # NoEngine
  /\ Goto(c, IF services[h] \in serving THEN "pause" ELSE "resume", h, services[h])
  /\ UNCHANGED <<services, magnets, engineVars, dht, attached, registered, annVars, endVars>>

Toggled(c) ==
  /\ calls[c].at \in {"pause", "resume"}
  /\ serving' = IF At(c, "pause") THEN serving \ {calls[c].engine}
                  ELSE serving \cup {calls[c].engine}
  /\ Return(c)
  /\ UNCHANGED <<services, magnets, built, closed, dht, attached, registered, annVars, endVars>>

(* remove: a magnet first; a torrent is forgotten before it is stopped.     *)
RemoveBegin(c, h) ==
  /\ Calls(c, h)
  /\ \/ /\ magnets[h] # "none"
        /\ magnets' = [magnets EXCEPT ![h] = "none"]
        /\ UNCHANGED <<services, registered, calls>>
     \/ /\ magnets[h] = "none" /\ services[h] # NoEngine
        /\ services' = [services EXCEPT ![h] = NoEngine]
        /\ Unregister(h)
        /\ Goto(c, "remove", h, services[h])
        /\ UNCHANGED magnets
  /\ UNCHANGED <<engineVars, dht, attached, annVars, endVars>>

Removed(c) ==
  /\ At(c, "remove")
  /\ serving' = serving \ {calls[c].engine}
  /\ closed' = closed \cup {calls[c].engine}
  /\ Return(c)
  /\ UNCHANGED <<services, magnets, built, dht, attached, registered, annVars, endVars>>

-----------------------------------------------------------------------------
(* The DHT node, and the end of the session.                                *)

(* start_dht makes a node, unless the one there is is bound, and waits for  *)
(* it to bind; two starts may do so at once.                                *)
StartDht(c) ==
  /\ calls[c].at = "idle" /\ ~ended /\ dht # "bound"
  /\ Orderly => ~Closing /\ \A d \in Callers : calls[d].at # "bind"
  /\ Goto(c, "bind", NoEngine, NoEngine)
  /\ UNCHANGED <<services, magnets, engineVars, dht, attached, registered, annVars, endVars>>

(* The node is bound and takes the place of the one there is, whatever      *)
(* happened meanwhile; the loop is started unless it runs.  Or it is not.   *)
DhtStarted(c) ==
  /\ At(c, "bind")
  /\ Return(c)
  /\ \/ /\ dht' = "bound" /\ attached' = TRUE
        /\ announcer' = IF announcer = "off" THEN "begin" ELSE announcer
        /\ late' = (late \/ Closing \/ ended)
     \/ UNCHANGED <<dht, attached, announcer, late>>
  /\ UNCHANGED <<services, magnets, engineVars, registered, queue, poked, current, short, toClose, ended>>

(* DhtAnnouncer.stop: a loop that is cancelled does nothing more.           *)
LoopEnds == announcer' = "off" /\ queue' = {} /\ current' = << >> /\ short' = FALSE

(* aclose calls stop_dht, which cancels the loop and waits for it ...       *)
CloseBegin(c) ==
  /\ calls[c].at = "idle" /\ ~ended /\ ~Closing
  /\ Orderly => \A d \in Callers : calls[d].at = "idle"
  /\ IF dht = "off" THEN Goto(c, "unreg", NoEngine, NoEngine) /\ UNCHANGED annVars
     ELSE Goto(c, "undht", NoEngine, NoEngine) /\ LoopEnds /\ UNCHANGED poked
  /\ UNCHANGED <<services, magnets, engineVars, dht, attached, registered, endVars>>

(* ... detaches the node and closes whichever is there ...                  *)
CloseDht(c) ==
  /\ At(c, "undht")
  /\ attached' = FALSE /\ dht' = "closing"
  /\ Goto(c, "unbind", NoEngine, NoEngine)
  /\ UNCHANGED <<services, magnets, engineVars, registered, annVars, endVars>>

(* ... and forgets the node that is there when it is closed.                *)
CloseNode(c) ==
  /\ At(c, "unbind")
  /\ dht' = "off"
  /\ Goto(c, "unreg", NoEngine, NoEngine)
  /\ UNCHANGED <<services, magnets, engineVars, attached, registered, annVars, endVars>>

(* DhtAnnouncer.aclose: the loop, the registrations and the node are gone.  *)
CloseRegs(c) ==
  /\ At(c, "unreg")
  /\ LoopEnds
  /\ attached' = FALSE
  /\ registered' = [h \in Hashes |-> NoReg]
  /\ toClose' = {services[h] : h \in Hashes} \ {NoEngine}
  /\ Goto(c, "closing", NoEngine, NoEngine)
  /\ UNCHANGED <<services, magnets, engineVars, dht, poked, ended, late>>

(* The services there were then are closed one by one.                      *)
CloseOne(c, e) ==
  /\ At(c, "closing") /\ e \in toClose
  /\ toClose' = toClose \ {e}
  /\ serving' = serving \ {e} /\ closed' = closed \cup {e}
  /\ UNCHANGED <<services, magnets, calls, built, dht, attached, registered, annVars, ended, late>>

CloseEnd(c) ==
  /\ At(c, "closing") /\ toClose = {}
  /\ services' = [h \in Hashes |-> NoEngine]
  /\ ended' = TRUE
  /\ Return(c)
  /\ UNCHANGED <<magnets, engineVars, dht, attached, registered, annVars, toClose, late>>

-----------------------------------------------------------------------------
(* The announce loop.                                                       *)

(* The registrations in S get a status; one that was dropped since, or      *)
(* dropped and made anew, is an object of its own.                          *)
Marked(regs, S, status) ==
  [h \in Hashes |-> IF <<h, regs[h].engine>> \in S THEN [regs[h] EXCEPT !.status = status]
                    ELSE regs[h]]

(* retry_soon                                                               *)
RetrySoon(regs) == \E h \in Hashes : regs[h].status = "skipped"

(* The next torrents of the pass, up to one that has a port: it is asked    *)
(* for, and those before it are skipped.  With none left the loop waits,    *)
(* and not for long if it skipped some.  Without a node the assertion ends  *)
(* the pass at the torrent that has a port.                                 *)
Advance(regs, todo) ==
  LET bare == {r \in todo : r[2] \notin serving} IN
  \/ \E r \in todo \ bare, S \in SUBSET bare :
       /\ registered' = Marked(Marked(regs, S, "skipped"), {r}, "asked")
       /\ IF attached
          THEN queue' = todo \ (S \cup {r}) /\ current' = r /\ announcer' = "asking" /\ UNCHANGED short
          ELSE queue' = {} /\ current' = << >> /\ announcer' = "wait" /\ short' = RetrySoon(registered')
  \/ /\ todo = bare
     /\ registered' = Marked(regs, todo, "skipped")
     /\ queue' = {} /\ current' = << >> /\ announcer' = "wait"
     /\ short' = RetrySoon(registered')

PassBody ==
  IF attached
  THEN Advance(registered, {<<h, registered[h].engine>> : h \in {g \in Hashes : registered[g] # NoReg}})
  ELSE /\ announcer' = "wait" /\ short' = RetrySoon(registered)
       /\ UNCHANGED <<registered, queue, current>>

(* The loop runs: at its start, when it is poked, and when the wait is over.*)
RunPass(woken) ==
  /\ announcer = "begin" \/ (announcer = "wait" /\ (woken => poked))
  /\ poked' = FALSE
  /\ PassBody
  /\ UNCHANGED <<services, magnets, calls, engineVars, dht, attached, endVars>>

Pass == RunPass(TRUE) \/ RunPass(FALSE)

(* announce_peer returns, or raises a DhtError.                             *)
Announced ==
  /\ announcer = "asking"
  /\ \E status \in {"published", "failed"} :
       Advance(Marked(registered, {current}, status), queue)
  /\ UNCHANGED <<services, magnets, calls, engineVars, dht, attached, poked, endVars>>

-----------------------------------------------------------------------------
SessionNext ==
  \/ Pass \/ Announced
  \/ \E c \in Callers :
       \/ MagnetFails(c) \/ MagnetResolved(c) \/ AddStarted(c) \/ StartFails(c)
       \/ Toggled(c) \/ Removed(c) \/ StartDht(c) \/ DhtStarted(c)
       \/ CloseBegin(c) \/ CloseDht(c) \/ CloseNode(c) \/ CloseRegs(c) \/ CloseEnd(c)
       \/ \E e \in Engines : AddBuilt(c, e) \/ CloseOne(c, e)
       \/ \E h \in Hashes : AddBegin(c, h) \/ MagnetBegin(c, h) \/ Toggle(c, h) \/ RemoveBegin(c, h)

SessionSpec == SessionInit /\ [][SessionNext]_sessionVars

(* Waits end, engines start and stop, nodes answer, and a task that is      *)
(* cancelled ends.                                                          *)
CallGoes(c) == AddStarted(c) \/ Toggled(c) \/ Removed(c) \/ DhtStarted(c) \/ CloseDht(c)
SessionFairness ==
  /\ WF_sessionVars(Pass) /\ WF_sessionVars(Announced)
  /\ \A c \in Callers : WF_sessionVars(CallGoes(c))

SessionFairSpec == SessionSpec /\ SessionFairness

-----------------------------------------------------------------------------
(* Properties.                                                              *)

Status == {"none", "new", "skipped", "asked", "published", "failed"}

SessionTypeOK ==
  /\ services \in [Hashes -> Engines \cup {NoEngine}]
  /\ magnets \in [Hashes -> {"none", "resolving", "failed"}]
  /\ calls \in [Callers -> [at : {"idle", "build", "resolve", "start", "pause", "resume",
                                  "remove", "bind"} \cup CloseSteps,
                            hash : Hashes \cup {NoEngine}, engine : Engines \cup {NoEngine}]]
  /\ built \subseteq Engines /\ serving \subseteq built /\ closed \subseteq built
  /\ dht \in {"off", "bound", "closing"} /\ attached \in BOOLEAN
  /\ registered \in [Hashes -> [engine : Engines \cup {NoEngine}, status : Status]]
  /\ announcer \in {"off", "begin", "asking", "wait"}
  /\ poked \in BOOLEAN /\ short \in BOOLEAN /\ ended \in BOOLEAN /\ late \in BOOLEAN
  /\ toClose \subseteq built

(* A torrent that was registered while a pass was running is not left for a *)
(* whole interval: while the loop waits, either the torrent was visited or  *)
(* the loop has been poked; unless a node came late.                        *)
PokeIsHeard ==
  \A h \in Hashes :
    announcer = "wait" /\ attached /\ ~late /\ registered[h].status = "new" => poked

(* The node is there for as long as a pass is at work: announce_once looks  *)
(* once, and each announce takes it for granted.  Once a close has begun    *)
(* there is no pass; unless a node came late.                               *)
PassHasNode ==
  ~late => (announcer = "asking" => attached) /\ (Closing \/ ended => announcer = "off")

(* A session that was closed has no node and no loop.                       *)
ClosedIsQuiet == ended => announcer = "off" /\ dht = "off"

(* A torrent the interface can find has an engine that was not closed,      *)
(* whatever calls are under way, until the whole session closes.            *)
ManagedIsOpen ==
  \A h \in Hashes : services[h] \in closed => Closing

(* A torrent that listens is published in time, however often others come   *)
(* and go, unless the node refuses it.                                      *)
ListeningIsPublished ==
  \A h \in Hashes :
    (services[h] \in serving /\ attached) ~>
      (registered[h].status \in {"published", "failed"} \/ services[h] \notin serving \/ ~attached)
=============================================================================
