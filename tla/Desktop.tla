------------------------------- MODULE Desktop ------------------------------
(***************************************************************************)
(* The life of the desktop client (app/ui/app.py): the launch, which hands  *)
(* a magnet link to an instance that is already up (app/ui/ipc.py); the     *)
(* engine's event loop on a thread of its own (EngineLoop), to which the    *)
(* GUI thread submits coroutines; and the exit, which waits ten seconds for *)
(* Application.stop, then stops the loop, then waits ten more for its       *)
(* thread.                                                                  *)
(*                                                                          *)
(* Several instances may be up: only a launch with a link looks for one.    *)
(* What a service does when it is closed is flush, which may take longer    *)
(* than the exit waits, then save in a thread that the process waits for.   *)
(***************************************************************************)
EXTENDS Naturals, Sequences

CONSTANTS
  Procs,    \* launches of the program
  Torrents, \* torrents of a session, the same in each
  Links     \* magnet links that are clicked

VARIABLES
  phase,   \* where the main thread of each process is
  name,    \* the process that listens under the server's name, or "nobody"
  inbox,   \* what was written to each process's server, in order
  link,    \* each link: "idle", "sent", "queued", "added" or "dropped"
  loop,    \* EngineLoop and its thread: "none", "serving" or "stopped"
  backlog, \* callbacks and coroutines the loop has not begun, in order
  stop,    \* Application.stop: "no", "dht", "services" or "done"
  part,    \* each service: "open", "flushing", "saving" or "closed"
  unsaved, \* torrents with progress their resume file does not have
  cut      \* history: "whole", or what was cut short: "stop", "join", "crash"

deskVars == <<phase, name, inbox, link, loop, backlog, stop, part, unsaved, cut>>

DeskInit ==
  /\ phase = [p \in Procs |-> "off"] /\ name = "nobody"
  /\ inbox = [p \in Procs |-> <<>>] /\ link = [l \in Links |-> "idle"]
  /\ loop = [p \in Procs |-> "none"] /\ backlog = [p \in Procs |-> <<>>]
  /\ stop = [p \in Procs |-> "no"]
  /\ part = [p \in Procs |-> [t \in Torrents |-> "open"]]
  /\ unsaved = [p \in Procs |-> {}]
  /\ cut = [p \in Procs |-> "whole"]

Item(kind, what) == [kind |-> kind, what |-> what]

\* run_coroutine_threadsafe, from the GUI thread.
Submit(p, item) == backlog' = [backlog EXCEPT ![p] = Append(@, item)]

-----------------------------------------------------------------------------
(* The launch.                                                             *)

\* EngineLoop.start, which waits until the thread serves.
StartLoop(p) == loop' = [loop EXCEPT ![p] = "serving"]

\* removeServer, then listen: the name is taken from whoever has it.
TakeName(p) == name' = p

Up(p) ==
  /\ phase' = [phase EXCEPT ![p] = "up"]
  /\ StartLoop(p) /\ Submit(p, Item("start", 0)) /\ TakeName(p)

Launch(p) ==
  /\ phase[p] = "off" /\ Up(p)
  /\ UNCHANGED <<inbox, link, stop, part, unsaved, cut>>

\* A link is for the instance that listens; with none, this one starts, and
\* does nothing with the link.
LaunchWith(p, l) ==
  /\ phase[p] = "off" /\ link[l] = "idle"
  /\ IF name # "nobody"
     THEN /\ phase' = [phase EXCEPT ![p] = "gone"]
          /\ inbox' = [inbox EXCEPT ![name] = Append(@, l)]
          /\ link' = [link EXCEPT ![l] = "sent"]
          /\ UNCHANGED <<name, loop, backlog>>
     ELSE /\ Up(p)
          /\ link' = [link EXCEPT ![l] = "dropped"]
          /\ UNCHANGED inbox
  /\ UNCHANGED <<stop, part, unsaved, cut>>

-----------------------------------------------------------------------------
(* The GUI thread while the window is open.                                *)

\* _on_ready_read and on_magnet_received.
TakeLink(p) ==
  /\ phase[p] = "up" /\ inbox[p] # <<>>
  /\ inbox' = [inbox EXCEPT ![p] = Tail(@)]
  /\ Submit(p, Item("add", Head(inbox[p])))
  /\ link' = [link EXCEPT ![Head(inbox[p])] = "queued"]
  /\ UNCHANGED <<phase, name, loop, stop, part, unsaved, cut>>

\* exit_app or Quit: force_close, and exec returns.  A closed window is asked
\* about first, and may only be hidden.
Exit(p) ==
  /\ phase[p] = "up"
  /\ phase' = [phase EXCEPT ![p] = "waiting"] /\ Submit(p, Item("stop", 0))
  /\ UNCHANGED <<name, inbox, link, loop, stop, part, unsaved, cut>>

-----------------------------------------------------------------------------
(* The loop's thread.                                                      *)

\* loop.stop is one more callback: what was submitted before it has begun.
StopLoop(p) == Submit(p, Item("halt", 0))

\* The thread takes what is first in the queue.  loop.stop never waits, so it
\* is done when it has begun.
Run(p) ==
  LET item == Head(backlog[p]) IN
  /\ loop[p] = "serving" /\ phase[p] # "gone" /\ backlog[p] # <<>>
  /\ backlog' = [backlog EXCEPT ![p] = Tail(@)]
  /\ loop' = [loop EXCEPT ![p] = IF item.kind = "halt" THEN "stopped" ELSE @]
  /\ stop' = [stop EXCEPT ![p] = IF item.kind = "stop" THEN "dht" ELSE @]
  /\ link' = IF item.kind = "add" THEN [link EXCEPT ![item.what] = "added"] ELSE link
  /\ UNCHANGED <<phase, name, inbox, part, unsaved, cut>>

Serving(p) == loop[p] = "serving" /\ phase[p] # "gone"

Progress(p, t) ==
  /\ Serving(p) /\ part[p][t] = "open"
  /\ unsaved' = [unsaved EXCEPT ![p] = @ \cup {t}]
  /\ UNCHANGED <<phase, name, inbox, link, loop, backlog, stop, part, cut>>

\* Session.aclose: the node and the announcer, then one service at a time.
DhtStopped(p) ==
  /\ Serving(p) /\ stop[p] = "dht" /\ stop' = [stop EXCEPT ![p] = "services"]
  /\ UNCHANGED <<phase, name, inbox, link, loop, backlog, part, unsaved, cut>>

CloseService(p, t) ==
  /\ Serving(p) /\ stop[p] = "services" /\ part[p][t] = "open"
  /\ \A u \in Torrents : part[p][u] \in {"open", "closed"}
  /\ part' = [part EXCEPT ![p][t] = "flushing"]
  /\ UNCHANGED <<phase, name, inbox, link, loop, backlog, stop, unsaved, cut>>

Flushed(p, t) ==
  /\ Serving(p) /\ part[p][t] = "flushing"
  /\ part' = [part EXCEPT ![p][t] = "saving"]
  /\ UNCHANGED <<phase, name, inbox, link, loop, backlog, stop, unsaved, cut>>

\* In a thread, which does not need the loop.
SaveEnds(p, t) ==
  /\ part[p][t] = "saving" /\ phase[p] # "gone"
  /\ part' = [part EXCEPT ![p][t] = "closed"]
  /\ unsaved' = [unsaved EXCEPT ![p] = @ \ {t}]
  /\ UNCHANGED <<phase, name, inbox, link, loop, backlog, stop, cut>>

AllClosed(p) == \A t \in Torrents : part[p][t] = "closed"

Stopped(p) ==
  /\ Serving(p) /\ stop[p] = "services" /\ AllClosed(p)
  /\ stop' = [stop EXCEPT ![p] = "done"]
  /\ UNCHANGED <<phase, name, inbox, link, loop, backlog, part, unsaved, cut>>

-----------------------------------------------------------------------------
(* The exit.                                                               *)

\* result(timeout=10), with every exception suppressed: stop is done, or the
\* time is up.
StopTheLoop(p) ==
  /\ phase[p] = "waiting"
  /\ phase' = [phase EXCEPT ![p] = "joining"]
  /\ cut' = [cut EXCEPT ![p] = IF stop[p] = "done" THEN @ ELSE "stop"]
  /\ StopLoop(p)
  /\ UNCHANGED <<name, inbox, link, loop, stop, part, unsaved>>

\* join(timeout=10); then the interpreter waits for the threads that save.
\* The server goes, and may take with it the name another instance has taken.
Gone(p) ==
  /\ phase[p] = "joining" /\ \A t \in Torrents : part[p][t] # "saving"
  /\ phase' = [phase EXCEPT ![p] = "gone"]
  /\ cut' = [cut EXCEPT ![p] = IF loop[p] = "stopped" THEN @ ELSE "join"]
  /\ name' \in (IF name = p THEN {"nobody"} ELSE {name, "nobody"})
  /\ UNCHANGED <<inbox, link, loop, backlog, stop, part, unsaved>>

Crash(p) ==
  /\ phase[p] \in {"up", "waiting", "joining"}
  /\ phase' = [phase EXCEPT ![p] = "gone"] /\ cut' = [cut EXCEPT ![p] = "crash"]
  /\ name' = IF name = p THEN "nobody" ELSE name
  /\ UNCHANGED <<inbox, link, loop, backlog, stop, part, unsaved>>

-----------------------------------------------------------------------------
InWindow(p) == TakeLink(p) \/ Exit(p)
Loop(p) == \/ Run(p) \/ DhtStopped(p) \/ Stopped(p)
           \/ \E t \in Torrents : CloseService(p, t) \/ Flushed(p, t)
Thread(p) == \E t \in Torrents : SaveEnds(p, t)
Leave(p) == StopTheLoop(p) \/ Gone(p)

DeskNext ==
  \E p \in Procs :
    \/ Launch(p) \/ InWindow(p) \/ Loop(p) \/ Thread(p) \/ Leave(p) \/ Crash(p)
    \/ \E l \in Links : LaunchWith(p, l)
    \/ \E t \in Torrents : Progress(p, t)

\* The main thread and the threads that save go on; nothing is asked of the
\* loop's thread.
DeskFairness == \A p \in Procs : WF_deskVars(Leave(p)) /\ WF_deskVars(Thread(p))

DeskSpec == DeskInit /\ [][DeskNext]_deskVars /\ DeskFairness

-----------------------------------------------------------------------------
DeskTypeOK ==
  /\ phase \in [Procs -> {"off", "up", "waiting", "joining", "gone"}]
  /\ name \in Procs \cup {"nobody"}
  /\ link \in [Links -> {"idle", "sent", "queued", "added", "dropped"}]
  /\ loop \in [Procs -> {"none", "serving", "stopped"}]
  /\ stop \in [Procs -> {"no", "dht", "services", "done"}]
  /\ part \in [Procs -> [Torrents -> {"open", "flushing", "saving", "closed"}]]
  /\ unsaved \in [Procs -> SUBSET Torrents]
  /\ cut \in [Procs -> {"whole", "stop", "join", "crash"}]

\* An exit whose waits were long enough loses no progress: every service was
\* flushed and saved before the loop that saves them was stopped.
WholeExitIsSaved == \A p \in Procs : phase[p] = "gone" /\ cut[p] = "whole" => unsaved[p] = {}

\* Whoever leaves is gone in the end, whatever the loop's thread does.
ExitEnds == \A p \in Procs : phase[p] = "waiting" ~> phase[p] = "gone"

\* EngineBridge.stop stops "everything, in the order that loses nothing": a
\* client that was not killed has saved its progress.
NothingIsLost == \A p \in Procs : phase[p] = "gone" /\ cut[p] # "crash" => unsaved[p] = {}

\* A link is not lost: once it was clicked, the client that is up, or the one
\* that comes up for it, adds it.
LinkIsTaken == \A l \in Links : link[l] # "dropped"
=============================================================================
