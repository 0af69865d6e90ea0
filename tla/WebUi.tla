------------------------------- MODULE WebUi --------------------------------
(***************************************************************************)
(* The window (ui/web_bridge.py and the page it serves, ui/web/index.html): *)
(* what a tick of the pump reads, what it shows, and what the page's calls  *)
(* ask of the session.                                                      *)
(*                                                                          *)
(* Two threads.  The GUI thread runs the pump's tick and the bridge's       *)
(* slots, one at a time; the engine's thread runs the coroutines they       *)
(* submit (jobs), and goes on while a tick is half done.  What the bridge   *)
(* pushes to the page waits in a queue (mail) until the page handles it.    *)
(* A peer of a torrent is away, only a candidate, or connected and then its *)
(* session counts bytes from zero.                                          *)
(***************************************************************************)
EXTENDS Integers, Sequences, FiniteSets

CONSTANTS
  Hashes,    \* info hashes
  Peers,     \* peers, by the key the bridge gives them
  None,
  MaxJobs,   \* bound: coroutines the page submits
  MaxBytes,  \* bound: bytes of one connection
  MaxClock   \* bound: the time passed

WebAssumption ==
  /\ IsFiniteSet(Hashes) /\ IsFiniteSet(Peers) /\ None \notin Hashes
  /\ {MaxJobs, MaxBytes, MaxClock} \subseteq Nat

VARIABLES
  services,  \* Session._services: info hash -> "active" or "stopped"
  magnets,   \* Session._pending_magnets: info hash -> "resolving" or "failed"
  links,     \* the peers of each torrent
  jobs,      \* the coroutines submitted, in order: [kind, hash, at]
  gui,       \* the tick under way: [at, shown, pending, size, left]
  selected,  \* WebBridge._selected_torrent_id
  ledger,    \* WebBridge._last_peers: what each peer had at the last reading
  parsed,    \* WebBridge._parsed_torrents
  mail,      \* messages the page has still to handle
  parsing,   \* the page: a magnet is being looked up, the spinner turns
  dialog,    \* the page: the torrent that waits for "Add torrent"
  page,      \* what the page shows: [once, twice, of, rates]
  clock

webVars == <<services, magnets, links, jobs, gui, selected, ledger, parsed, mail,
             parsing, dialog, page, clock>>
engineVars == <<services, magnets, links>>
guiVars == <<gui, selected, ledger, page>>
pageVars == <<parsing, dialog>>

Away == -2
Candidate == -1
Links == Away .. MaxBytes
Kinds == {"resolve", "magnet", "add", "pause", "resume", "remove"}
Jobs == [kind : Kinds, hash : Hashes, at : {"queued", "waiting", "done"}]
Empty == [x \in {} |-> 0]
Idle == [at |-> "idle", shown |-> {}, pending |-> {}, size |-> 0, left |-> {}]
NoPage == [once |-> {}, twice |-> {}, of |-> None, rates |-> Empty]
Services == DOMAIN services
Pending == DOMAIN magnets

Set(f, h, v) == [x \in DOMAIN f \cup {h} |-> IF x = h THEN v ELSE f[x]]
Drop(f, h) == [x \in DOMAIN f \ {h} |-> f[x]]

WebInit ==
  /\ services = Empty /\ magnets = Empty
  /\ links = [h \in Hashes |-> [p \in Peers |-> Away]]
  /\ jobs = << >> /\ gui = Idle /\ selected = None
  /\ ledger = [h \in Hashes |-> Empty]
  /\ parsed = {} /\ mail = << >> /\ parsing = FALSE /\ dialog = None
  /\ page = NoPage /\ clock = 0

---------------------------------------------------------------------------
(* A tick of the pump: AppState.snapshot, then WebBridge._on_snapshot.      *)

\* The services are copied and each is asked for its view.
TickBegin ==
  /\ gui.at = "idle"
  /\ gui' = [at |-> "magnets", shown |-> Services, pending |-> {}, size |-> 0, left |-> {}]
  /\ UNCHANGED <<engineVars, jobs, selected, ledger, parsed, mail, pageVars, page, clock>>

\* Every magnet that is pending becomes a row of its own.
TickMagnets ==
  /\ gui.at = "magnets"
  /\ gui' = [gui EXCEPT !.at = "totals", !.pending = Pending,
                        !.size = Cardinality(Services), !.left = Services]
  /\ UNCHANGED <<engineVars, jobs, selected, ledger, parsed, mail, pageVars, page, clock>>

\* Session.totals goes through the dictionary itself: if its size changed
\* meanwhile, the iterator raises and the tick shows nothing.
TickTotals ==
  /\ gui.at = "totals"
  /\ IF Cardinality(Services) # gui.size
     THEN gui' = Idle
     ELSE \/ gui.left = {} /\ gui' = [gui EXCEPT !.at = "page"]
          \/ \E h \in gui.left : gui' = [gui EXCEPT !.left = @ \ {h}]
  /\ UNCHANGED <<engineVars, jobs, selected, ledger, parsed, mail, pageVars, page, clock>>

\* TorrentService.peers_view: the connected peers, and the candidates that
\* are not among them, which have no session and so no bytes.
PeersView(h) == {p \in Peers : links[h][p] # Away}
Downloaded(h, p) == IF links[h][p] = Candidate THEN 0 ELSE links[h][p]

\* The bytes a peer's rate is computed from: since its last reading, over a
\* time that must have passed.
Moved(h, p) ==
  IF p \in DOMAIN ledger[h] /\ clock > ledger[h][p].at
  THEN Downloaded(h, p) - ledger[h][p].down
  ELSE 0

Reading(h) == [p \in PeersView(h) |-> [down |-> Downloaded(h, p), at |-> clock]]

\* WebBridge._on_snapshot: the selected torrent, if the session still has it,
\* is shown with its peers, and only their readings are kept.
Detailed == selected \in Services /\ selected \in gui.shown \cup gui.pending

Page ==
  /\ gui.at = "page"
  /\ page' = [once |-> (gui.shown \cup gui.pending) \ (gui.shown \cap gui.pending),
              twice |-> gui.shown \cap gui.pending,
              of |-> IF Detailed THEN selected ELSE None,
              rates |-> IF Detailed THEN [p \in PeersView(selected) |-> Moved(selected, p)]
                                    ELSE Empty]
  /\ ledger' = IF Detailed THEN [ledger EXCEPT ![selected] = Reading(selected)] ELSE ledger
  /\ gui' = Idle
  /\ UNCHANGED <<engineVars, jobs, selected, parsed, mail, pageVars, clock>>

---------------------------------------------------------------------------
(* The bridge's slots: what the page asks for.                             *)

Submit(kind, h) ==
  /\ Len(jobs) < MaxJobs
  /\ jobs' = Append(jobs, [kind |-> kind, hash |-> h, at |-> "queued"])

Tell(src, h) == mail' = Append(mail, [src |-> src, hash |-> h])

(* select_torrent, which the window offers its page; this page never calls  *)
(* it (web/index.html), so that what it selects stays none.                 *)
Select(h) ==
  /\ gui.at = "idle"
  /\ selected' = h
  /\ UNCHANGED <<engineVars, jobs, gui, ledger, parsed, mail, pageVars, page, clock>>

\* The page looks one magnet up at a time, until its dialog is closed.
ParseMagnet(h) ==
  /\ gui.at = "idle" /\ ~parsing /\ dialog = None
  /\ parsing' = TRUE
  /\ Submit("resolve", h)
  /\ UNCHANGED <<engineVars, guiVars, parsed, mail, dialog, clock>>

\* A .torrent file is parsed at once; it is kept and the page is told.
ParseFile(h) ==
  /\ gui.at = "idle" /\ dialog = None /\ Len(mail) < MaxJobs
  /\ parsed' = parsed \cup {h}
  /\ Tell("TORRENT_PARSED", h)
  /\ UNCHANGED <<engineVars, guiVars, jobs, pageVars, clock>>

\* A second copy of the program hands its magnet link over.
IpcMagnet(h) ==
  /\ gui.at = "idle"
  /\ Submit("magnet", h)
  /\ UNCHANGED <<engineVars, guiVars, parsed, mail, pageVars, clock>>

\* "Add torrent": the metadata is taken out of the cache and added; when it
\* is not there, the exception is logged.  The page closes the dialog.
Confirm ==
  /\ gui.at = "idle" /\ dialog # None
  /\ IF dialog \in parsed
     THEN /\ Submit("add", dialog)
          /\ parsed' = parsed \ {dialog}
     ELSE UNCHANGED <<jobs, parsed>>
  /\ dialog' = None /\ parsing' = FALSE
  /\ UNCHANGED <<engineVars, guiVars, mail, clock>>

\* "Cancel": the dialog and the spinner go, nothing else.
Cancel ==
  /\ gui.at = "idle" /\ (dialog # None \/ parsing)
  /\ dialog' = None /\ parsing' = FALSE
  /\ UNCHANGED <<engineVars, guiVars, jobs, parsed, mail, clock>>

\* Pause or resume, by what the torrent is doing when the button is pressed.
Toggle(h) ==
  /\ gui.at = "idle" /\ h \in Services
  /\ Submit(IF services[h] = "active" THEN "pause" ELSE "resume", h)
  /\ UNCHANGED <<engineVars, guiVars, parsed, mail, pageVars, clock>>

Remove(h) ==
  /\ gui.at = "idle" /\ h \in page.once \cup page.twice
  /\ Submit("remove", h)
  /\ UNCHANGED <<engineVars, guiVars, parsed, mail, pageVars, clock>>

\* The page handles the oldest message: metadata opens the dialog, a failed
\* look-up stops the spinner.
Handle ==
  /\ mail # << >>
  /\ mail' = Tail(mail)
  /\ IF Head(mail).src = "TORRENT_PARSED"
     THEN dialog' = Head(mail).hash /\ parsing' = FALSE
     ELSE /\ parsing' = FALSE
          /\ dialog' = IF parsing THEN None ELSE dialog
  /\ UNCHANGED <<engineVars, guiVars, jobs, parsed, clock>>

---------------------------------------------------------------------------
(* The engine's thread: the jobs, and the peers of the torrents.            *)

At(j, kinds, at) == jobs[j].kind \in kinds /\ jobs[j].at = at
Goto(j, at) == jobs' = [jobs EXCEPT ![j].at = at]

\* Nobody waits for what an IPC magnet comes to; the page hears of the rest.
Report(j) == IF jobs[j].kind = "magnet" THEN UNCHANGED mail ELSE Tell("failed", jobs[j].hash)

ResolveBegin(j) ==
  /\ At(j, {"resolve", "magnet"}, "queued")
  /\ IF jobs[j].hash \in Services
     THEN Goto(j, "done") /\ Report(j) /\ UNCHANGED magnets
     ELSE /\ Goto(j, "waiting")
          /\ magnets' = Set(magnets, jobs[j].hash, "resolving")
          /\ UNCHANGED mail
  /\ UNCHANGED <<services, links, guiVars, parsed, pageVars, clock>>

ResolveFails(j) ==
  /\ At(j, {"resolve", "magnet"}, "waiting")
  /\ magnets' = Set(magnets, jobs[j].hash, "failed")
  /\ Goto(j, "done") /\ Report(j)
  /\ UNCHANGED <<services, links, guiVars, parsed, pageVars, clock>>

\* The metadata arrived.  If the magnet was removed meanwhile that is an
\* error; otherwise it is kept for the page, or added at once.
Resolved(j) ==
  LET h == jobs[j].hash IN
  /\ At(j, {"resolve", "magnet"}, "waiting")
  /\ magnets' = Drop(magnets, h)
  /\ IF h \notin Pending
     THEN Goto(j, "done") /\ Report(j) /\ UNCHANGED <<parsed>>
     ELSE IF jobs[j].kind = "magnet"
     THEN /\ jobs' = [jobs EXCEPT ![j] = [kind |-> "add", hash |-> h, at |-> "queued"]]
          /\ UNCHANGED <<parsed, mail>>
     ELSE /\ Goto(j, "done")
          /\ parsed' = parsed \cup {h}
                  /\ Tell("TORRENT_PARSED", h)
  /\ UNCHANGED <<services, links, guiVars, pageVars, clock>>

AddBegin(j) ==
  /\ At(j, {"add"}, "queued")
  /\ IF jobs[j].hash \in Services
     THEN Goto(j, "done") /\ Report(j)
     ELSE Goto(j, "waiting") /\ UNCHANGED mail
  /\ UNCHANGED <<engineVars, guiVars, parsed, pageVars, clock>>

\* The engine is built, registered, and started unless the user said not to.
Added(j) ==
  /\ At(j, {"add"}, "waiting")
  /\ \E start \in {"active", "stopped"} : services' = Set(services, jobs[j].hash, start)
  /\ links' = [links EXCEPT ![jobs[j].hash] = [p \in Peers |-> Away]]
  /\ Goto(j, "done")
  /\ UNCHANGED <<magnets, guiVars, parsed, mail, pageVars, clock>>

AddFails(j) ==
  /\ At(j, {"add"}, "waiting")
  /\ Goto(j, "done") /\ Report(j)
  /\ UNCHANGED <<engineVars, guiVars, parsed, pageVars, clock>>

Toggled(j) ==
  LET h == jobs[j].hash IN
  /\ At(j, {"pause", "resume"}, "queued")
  /\ services' = IF h \in Services
                 THEN [services EXCEPT ![h] = IF jobs[j].kind = "pause" THEN "stopped" ELSE "active"]
                 ELSE services
  /\ links' = IF jobs[j].kind = "pause" THEN [links EXCEPT ![h] = [p \in Peers |-> Away]] ELSE links
  /\ Goto(j, "done")
  /\ UNCHANGED <<magnets, guiVars, parsed, mail, pageVars, clock>>

\* A magnet of that hash is forgotten and nothing more is done; otherwise the
\* torrent leaves the session, then is stopped and closed.
RemoveRuns(j) ==
  LET h == jobs[j].hash IN
  /\ At(j, {"remove"}, "queued")
  /\ IF h \in Pending
     THEN magnets' = Drop(magnets, h) /\ UNCHANGED <<services, links>>
     ELSE /\ services' = Drop(services, h)
          /\ links' = [links EXCEPT ![h] = [p \in Peers |-> Away]]
          /\ UNCHANGED magnets
  /\ Goto(j, "done")
  /\ UNCHANGED <<guiVars, parsed, mail, pageVars, clock>>

\* A peer is heard of, connects with a fresh session, sends bytes, or goes
\* back to being a candidate.
PeerMoves(h, p) ==
  /\ h \in Services /\ services[h] = "active"
  /\ \E to \in Links \ {Away} :
       /\ \/ links[h][p] = Away /\ to = Candidate
          \/ links[h][p] = Candidate /\ to = 0
          \/ links[h][p] >= 0 /\ to \in {Candidate, links[h][p] + 1}
       /\ links' = [links EXCEPT ![h][p] = to]
  /\ UNCHANGED <<services, magnets, jobs, guiVars, parsed, mail, pageVars, clock>>

Wait ==
  /\ clock < MaxClock
  /\ clock' = clock + 1
  /\ UNCHANGED <<engineVars, jobs, guiVars, parsed, mail, pageVars>>

JobStep(j) ==
  \/ ResolveBegin(j) \/ ResolveFails(j) \/ Resolved(j)
  \/ AddBegin(j) \/ Added(j) \/ AddFails(j) \/ Toggled(j) \/ RemoveRuns(j)

Tick == TickBegin \/ TickMagnets \/ TickTotals \/ Page

WebNext ==
  \/ Tick
  \/ \E h \in Hashes :
       \/ Select(h) \/ ParseMagnet(h) \/ ParseFile(h) \/ IpcMagnet(h) \/ Toggle(h) \/ Remove(h)
       \/ \E p \in Peers : PeerMoves(h, p)
  \/ Confirm \/ Cancel \/ Handle \/ Wait
  \/ \E j \in DOMAIN jobs : JobStep(j)

\* Both threads run, every look-up and every build ends, and the page
\* handles what it is sent.
WebFairness ==
  /\ WF_webVars(Handle)
  /\ WF_webVars(Tick)
  /\ \A j \in 1 .. MaxJobs : WF_webVars(j \in DOMAIN jobs /\ JobStep(j))

WebSpec == WebInit /\ [][WebNext]_webVars /\ WebFairness

---------------------------------------------------------------------------
WebTypeOK ==
  /\ Services \subseteq Hashes /\ Pending \subseteq Hashes
  /\ \A h \in Services : services[h] \in {"active", "stopped"}
  /\ \A h \in Pending : magnets[h] \in {"resolving", "failed"}
  /\ links \in [Hashes -> [Peers -> Links]]
  /\ \A j \in DOMAIN jobs : jobs[j] \in Jobs
  /\ gui.at \in {"idle", "magnets", "totals", "page"}
  /\ selected \in Hashes \cup {None} /\ dialog \in Hashes \cup {None}
  /\ parsed \subseteq Hashes /\ parsing \in BOOLEAN

\* The readings a rate is computed from are those of peers the page shows: one
\* that left the swarm leaves nothing behind for a later one with its address
\* (web_bridge.py, the clean-up in _on_snapshot).
LedgerIsShown == page.of # None => DOMAIN ledger[page.of] = DOMAIN page.rates

\* While the spinner turns, the look-up it waits for is under way or its
\* answer is on its way to the page, and every look-up ends: the spinner
\* never turns for ever.
SpinnerStops == parsing ~> ~parsing

\* A rate is never negative: a peer that comes back under the same address
\* counts from zero again, which "is that, not an error"
\* (viewmodels/peers_vm.py, _activity_for).
RatesAreNotNegative == \A p \in DOMAIN page.rates : page.rates[p] >= 0

\* Every tick publishes a snapshot (ui/bridge.py, StatePump: "on every tick").
EveryTickPublishes ==
  [][gui.at # "idle" /\ gui'.at = "idle" => gui.at = "page"]_webVars

\* The dialog the page shows can be confirmed: its metadata is in the cache.
DialogCanBeConfirmed == dialog # None => dialog \in parsed

=============================================================================
