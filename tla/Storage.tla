------------------------------- MODULE Storage -------------------------------
(***************************************************************************)
(* One torrent on disk: StorageManager (storage/manager.py), the file       *)
(* writes of storage/files.py, the resume file of storage/resume.py, and    *)
(* the part of an Engine's life that drives them (services/engine.py:       *)
(* build_engine, start, pause, stop, and TorrentService.remove), across     *)
(* crashes and restarts of the process.                                     *)
(*                                                                          *)
(* Blocking work runs in worker threads (asyncio.to_thread): one step per   *)
(* chunk written, per file deleted and per system call of ResumeStore.save. *)
(* Everything else is the asyncio loop between two awaits.                  *)
(*                                                                          *)
(* Abstractions.  A piece is the set of its chunks, one per file that       *)
(* FileLayout.plan cuts it into; a chunk is good or not.  Only data whose   *)
(* hash matched is written (verify_before_write, the default): a mismatch   *)
(* raises before storage changes.  A chunk cut short leaves the old bytes   *)
(* or the same new ones, so it makes nothing good that was not.  The resume *)
(* document is its list of pieces and its upload total.                     *)
(***************************************************************************)
EXTENDS Integers, FiniteSets

CONSTANTS
  Pieces,       \* piece indices
  Files,        \* files of the torrent, numbered in stream order
  Overlap,      \* the files each piece has a chunk in
  Inodes,       \* files the resume name and the temporary name can denote
  None,         \* no file, no write
  MaxUp,        \* bound: upload totals counted
  MaxSavers,    \* bound: saves of the resume state in flight at once
  SlowDisk,     \* whether a write may outlast FLUSH_TIMEOUT
  DiskFails     \* whether the disk may refuse a write

ASSUME LayoutAssumption ==
  /\ IsFiniteSet(Pieces) /\ IsFiniteSet(Files)
  /\ Files \subseteq Nat
  /\ Overlap \in [Pieces -> SUBSET Files]
  /\ \A i \in Pieces : Overlap[i] # {}

Chunks == {c \in Pieces \X Files : c[2] \in Overlap[c[1]]}
Docs   == [claims : SUBSET Pieces, up : 0 .. MaxUp]

(* Contents of a file that is not a whole document.                         *)
Torn == [claims |-> {}, up |-> -1]

ASSUME SaveAssumption ==
  /\ None \notin Inodes
  /\ \A F \in SUBSET Files : F # None
  /\ \A d \in Docs \cup {Torn} : d # None
  /\ MaxUp \in Nat
  /\ MaxSavers \in Nat \ {0}
  /\ SlowDisk \in BOOLEAN /\ DiskFails \in BOOLEAN

Callers == {"pause", "stop"}         \* Engine.pause, Engine.stop
Savers  == Callers \cup {"finish"}   \* and DownloadManager._finish

Modes    == {"down", "loading", "verifying", "idle", "running", "paused",
             "stopped", "deleting", "removed"}
CallPcs  == {"none", "called", "draining", "closing", "saving"}
SavePcs  == {"none", "open", "write", "rename", "unlink"}
LoopPcs  == {"none", "alive", "ended"}

VARIABLES
  mode,       \* the torrent's life: process, build_engine, Engine flags
  pc,         \* how far each call of pause and stop is
  loop,       \* DownloadManager._loop_task
  peersUp,    \* PeerManager running: blocks still arrive
  good,       \* chunks whose bytes on disk are right
  present,    \* files that exist on disk
  wr,         \* write_piece in progress: the files still to write
  completed,  \* StorageManager._completed
  todo,       \* pieces verify_completed, or files delete_files, has left
  valid,      \* pieces verify_completed found intact so far
  resume,     \* the inode of <info hash>.resume.json
  temp,       \* the inode of <info hash>.resume.json.tmp
  content,    \* what each inode holds
  spc,        \* where each saving thread is in ResumeStore.save
  sdoc,       \* the document each thread saves
  sino,       \* the inode each thread has open
  carried,    \* ResumeSummary.uploaded: the total of earlier runs
  served,     \* UploadStats.bytes_uploaded of this run
  lost        \* history: pieces damaged or deleted since they were written

lifeVars == <<mode, pc, loop, peersUp>>
diskVars == <<good, present, lost>>
loadVars == <<todo, valid>>
saveVars == <<resume, temp, content, spc, sdoc, sino>>
upVars   == <<carried, served>>
vars == <<mode, pc, loop, peersUp, good, present, wr, completed, todo, valid,
          resume, temp, content, spc, sdoc, sino, carried, served, lost>>

-----------------------------------------------------------------------------
(* Every chunk of the piece is right: verify_piece would accept it.         *)
Intact(i) == \A f \in Overlap[i] : <<i, f>> \in good

(* The document a restart would read, None when there is no resume file.    *)
Saved == IF resume = None THEN None ELSE content[resume]

Saving(s)  == spc[s] # "none"
InFlight   == {s \in Savers : Saving(s)}
MayWrite   == mode \in {"running", "paused", "stopped"} /\ peersUp
ProcessUp  == mode # "down"

(* StorageManager.save_resume: what is saved is read on the loop, before    *)
(* the thread starts.  _finish passes no upload total.                      *)
Snapshot(s) ==
  [claims |-> completed, up |-> IF s = "finish" THEN 0 ELSE carried + served]

SaveBegin(s) ==
  /\ ~Saving(s)
  /\ Cardinality(InFlight) < MaxSavers
  /\ spc' = [spc EXCEPT ![s] = "open"]
  /\ sdoc' = [sdoc EXCEPT ![s] = Snapshot(s)]
  /\ UNCHANGED <<resume, temp, content, sino>>

-----------------------------------------------------------------------------
Init ==
  /\ mode = "down" /\ loop = "none" /\ peersUp = FALSE
  /\ pc = [c \in Callers |-> "none"]
  /\ good = {} /\ present = {} /\ lost = {}
  /\ wr = [i \in Pieces |-> None]
  /\ completed = {} /\ todo = {} /\ valid = {}
  /\ resume = None /\ temp = None
  /\ content = [n \in Inodes |-> Torn]
  /\ spc = [s \in Savers |-> "none"]
  /\ sdoc = [s \in Savers |-> Torn]
  /\ sino = [s \in Savers |-> None]
  /\ carried = 0 /\ served = 0

-----------------------------------------------------------------------------
(* Coming up: build_engine.                                                 *)

(* StorageManager.__init__ and prepare: every file exists afterwards.       *)
Boot ==
  /\ mode = "down"
  /\ mode' = "loading"
  /\ present' = Files
  /\ UNCHANGED <<pc, loop, peersUp, good, lost, wr, completed, loadVars, saveVars, upVars>>

(* load_resume finds nothing, or a file load_or_none quarantines.           *)
LoadNothing ==
  /\ mode = "loading"
  /\ Saved \in {None, Torn}
  /\ mode' = "idle"
  /\ resume' = None
  /\ UNCHANGED <<pc, loop, peersUp, diskVars, wr, completed, loadVars, temp,
                 content, spc, sdoc, sino, upVars>>

(* Faulty variant: load_resume(verify=False).                               *)
LoadTrusting ==
  /\ mode = "loading"
  /\ Saved \notin {None, Torn}
  /\ mode' = "idle"
  /\ completed' = Saved.claims
  /\ carried' = Saved.up
  /\ UNCHANGED <<pc, loop, peersUp, diskVars, wr, loadVars, saveVars, served>>

(* load_resume(verify=True) adopts the list and starts to check it.         *)
Load ==
  /\ mode = "loading"
  /\ Saved \notin {None, Torn}
  /\ mode' = "verifying"
  /\ completed' = Saved.claims
  /\ todo' = Saved.claims
  /\ valid' = {}
  /\ carried' = Saved.up
  /\ UNCHANGED <<pc, loop, peersUp, diskVars, wr, saveVars, served>>

(* verify_completed reads and hashes one piece.                             *)
VerifyOne(i) ==
  /\ mode = "verifying" /\ i \in todo
  /\ todo' = todo \ {i}
  /\ valid' = IF Intact(i) THEN valid \cup {i} ELSE valid
  /\ UNCHANGED <<lifeVars, diskVars, wr, completed, saveVars, upVars>>

(* Faulty variant: one bad piece discredits the whole list.                 *)
VerifyEndAllOrNothing ==
  /\ mode = "verifying" /\ todo = {}
  /\ mode' = "idle"
  /\ completed' = IF valid = completed THEN valid ELSE {}
  /\ valid' = {}
  /\ UNCHANGED <<pc, loop, peersUp, diskVars, wr, todo, saveVars, upVars>>

(* verify_completed ends: what failed is dropped.                           *)
VerifyEnd ==
  /\ mode = "verifying" /\ todo = {}
  /\ mode' = "idle"
  /\ completed' = valid
  /\ valid' = {}
  /\ UNCHANGED <<pc, loop, peersUp, diskVars, wr, todo, saveVars, upVars>>

(* Engine.start, also of a paused or stopped engine, also while a pause or  *)
(* a stop is still under way.                                               *)
Start ==
  /\ mode \in {"idle", "paused", "stopped"}
  /\ mode' = "running"
  /\ present' = IF mode = "idle" THEN Files ELSE present
  /\ peersUp' = TRUE
  /\ loop' = IF loop = "none" THEN "alive" ELSE loop
  /\ UNCHANGED <<pc, good, lost, wr, completed, loadVars, saveVars, upVars>>

-----------------------------------------------------------------------------
(* Writing pieces: write_piece, for a piece whose hash matched.             *)

(* Faulty variant: the piece is called complete before it is written.       *)
WriteBeginEager(i) ==
  /\ MayWrite
  /\ i \notin completed /\ wr[i] = None
  /\ wr' = [wr EXCEPT ![i] = Overlap[i]]
  /\ completed' = completed \cup {i}
  /\ UNCHANGED <<lifeVars, diskVars, loadVars, saveVars, upVars>>

(* A block completes a piece while peers are connected: on_block asks for   *)
(* nothing else, so a stopping engine starts writes too.                    *)
WriteBegin(i) ==
  /\ MayWrite
  /\ i \notin completed /\ wr[i] = None
  /\ wr' = [wr EXCEPT ![i] = Overlap[i]]
  /\ UNCHANGED <<lifeVars, diskVars, completed, loadVars, saveVars, upVars>>

NextFile(i) == CHOOSE f \in wr[i] : \A g \in wr[i] : f <= g

Writing(i) == wr[i] \notin {None, {}}

(* write_chunk, which creates the file when it is missing.                  *)
WriteChunk(i) ==
  /\ Writing(i)
  /\ good' = good \cup {<<i, NextFile(i)>>}
  /\ present' = present \cup {NextFile(i)}
  /\ wr' = [wr EXCEPT ![i] = @ \ {NextFile(i)}]
  /\ UNCHANGED <<lifeVars, lost, completed, loadVars, saveVars, upVars>>

(* write_chunk raises AllocationError, with or without having created the   *)
(* file.                                                                    *)
WriteError(i) ==
  /\ DiskFails
  /\ Writing(i)
  /\ present' \in {present, present \cup {NextFile(i)}}
  /\ wr' = [wr EXCEPT ![i] = None]
  /\ UNCHANGED <<lifeVars, good, lost, completed, loadVars, saveVars, upVars>>

(* The last chunk's thread has returned: the piece is complete.             *)
WriteDone(i) ==
  /\ wr[i] = {}
  /\ wr' = [wr EXCEPT ![i] = None]
  /\ completed' = completed \cup {i}
  /\ lost' = IF Intact(i) THEN lost \ {i} ELSE lost
  /\ UNCHANGED <<lifeVars, good, present, loadVars, saveVars, upVars>>

(* Blocks are served to peers (the total is bounded by MaxUp).              *)
Serve ==
  /\ mode = "running" /\ peersUp
  /\ carried + served < MaxUp
  /\ served' = served + 1
  /\ UNCHANGED <<lifeVars, diskVars, wr, completed, loadVars, saveVars, carried>>

(* DownloadManager._loop finds every piece verified: _finish saves, and the *)
(* loop is over.                                                            *)
Finish ==
  /\ loop = "alive" /\ completed = Pieces
  /\ loop' = "ended"
  /\ SaveBegin("finish")
  /\ UNCHANGED <<mode, pc, peersUp, diskVars, wr, completed, loadVars, upVars>>

-----------------------------------------------------------------------------
(* Pausing, stopping, removing.                                             *)

Pause ==
  /\ mode = "running" /\ pc["pause"] = "none"
  /\ mode' = "paused"
  /\ pc' = [pc EXCEPT !["pause"] = "called"]
  /\ UNCHANGED <<loop, peersUp, diskVars, wr, completed, loadVars, saveVars, upVars>>

Stop ==
  /\ mode \in {"running", "paused"} /\ pc["stop"] = "none"
  /\ mode' = "stopped"
  /\ pc' = [pc EXCEPT !["stop"] = "called"]
  /\ UNCHANGED <<loop, peersUp, diskVars, wr, completed, loadVars, saveVars, upVars>>

(* _stop_tasks -> DownloadManager.stop: the loop is cancelled.  A save that *)
(* _finish awaits goes on in its thread.                                    *)
CancelLoop(c) ==
  /\ pc[c] = "called"
  /\ pc' = [pc EXCEPT ![c] = "draining"]
  /\ loop' = "none"
  /\ UNCHANGED <<mode, peersUp, diskVars, wr, completed, loadVars, saveVars, upVars>>

(* DownloadManager.flush returns: nothing is being written ...              *)
FlushDone(c) ==
  /\ pc[c] = "draining"
  /\ \A i \in Pieces : wr[i] = None
  /\ pc' = [pc EXCEPT ![c] = "closing"]
  /\ UNCHANGED <<mode, loop, peersUp, diskVars, wr, completed, loadVars, saveVars, upVars>>

(* Faulty variant: flush waits as long as it takes.                         *)
FlushTimeoutNever(c) == FlushDone(c)

(* ... or FLUSH_TIMEOUT has passed.                                         *)
FlushTimeout(c) ==
  /\ SlowDisk
  /\ pc[c] = "draining"
  /\ \E i \in Pieces : wr[i] # None
  /\ pc' = [pc EXCEPT ![c] = "closing"]
  /\ UNCHANGED <<mode, loop, peersUp, diskVars, wr, completed, loadVars, saveVars, upVars>>

(* The rest of _stop_tasks ends with PeerManager.stop; then _save_progress. *)
PeersStopped(c) ==
  /\ pc[c] = "closing"
  /\ pc' = [pc EXCEPT ![c] = "saving"]
  /\ peersUp' = FALSE
  /\ SaveBegin(c)
  /\ UNCHANGED <<mode, loop, diskVars, wr, completed, loadVars, upVars>>

CallReturns(c) ==
  /\ pc[c] = "saving" /\ ~Saving(c)
  /\ pc' = [pc EXCEPT ![c] = "none"]
  /\ UNCHANGED <<mode, loop, peersUp, diskVars, wr, completed, loadVars, saveVars, upVars>>

(* TorrentService.remove(delete_data=True), once its stop has returned.     *)
DeleteBegin ==
  /\ mode \in {"idle", "stopped"} /\ pc["stop"] = "none"
  /\ mode' = "deleting"
  /\ todo' = Files
  /\ UNCHANGED <<pc, loop, peersUp, diskVars, wr, completed, valid, saveVars, upVars>>

(* _delete_files unlinks one file.                                          *)
DeleteOne(f) ==
  /\ mode = "deleting" /\ f \in todo
  /\ \A g \in todo : f <= g
  /\ todo' = todo \ {f}
  /\ present' = present \ {f}
  /\ good' = {c \in good : c[2] # f}
  /\ lost' = lost \cup {i \in Pieces : f \in Overlap[i]}
  /\ UNCHANGED <<lifeVars, wr, completed, valid, saveVars, upVars>>

DeleteEnd ==
  /\ mode = "deleting" /\ todo = {}
  /\ mode' = "removed"
  /\ completed' = {}
  /\ UNCHANGED <<pc, loop, peersUp, diskVars, wr, loadVars, saveVars, upVars>>

-----------------------------------------------------------------------------
(* ResumeStore.save, in a thread of its own.  All saves of a torrent use    *)
(* the same temporary name.                                                 *)

Unused == {n \in Inodes : n \notin {resume, temp} /\ \A s \in Savers : sino[s] # n}

(* Faulty variant: the resume file itself is opened for writing.            *)
SaveOpenInPlace(s) ==
  /\ spc[s] = "open"
  /\ \E n \in IF resume = None THEN Unused ELSE {resume} :
       /\ resume' = n
       /\ sino' = [sino EXCEPT ![s] = n]
       /\ content' = [content EXCEPT ![n] = Torn]
  /\ spc' = [spc EXCEPT ![s] = "write"]
  /\ UNCHANGED <<lifeVars, diskVars, wr, completed, loadVars, temp, sdoc, upVars>>

(* open(temporary, "w") creates the file, or truncates the one there is.    *)
SaveOpen(s) ==
  /\ spc[s] = "open"
  /\ \E n \in IF temp = None THEN Unused ELSE {temp} :
       /\ temp' = n
       /\ sino' = [sino EXCEPT ![s] = n]
       /\ content' = [content EXCEPT ![n] = Torn]
  /\ spc' = [spc EXCEPT ![s] = "write"]
  /\ UNCHANGED <<lifeVars, diskVars, wr, completed, loadVars, resume, sdoc, upVars>>

(* The document is written through the handle, wherever the file is by now. *)
(* Over another thread's longer document it leaves that one's tail behind.  *)
SaveWrite(s) ==
  LET n == sino[s] IN
  /\ spc[s] = "write"
  /\ \E d \in {sdoc[s]} \cup (IF content[n] \in {Torn, sdoc[s]} THEN {} ELSE {Torn}) :
       content' = [content EXCEPT ![n] = d]
  /\ sino' = [sino EXCEPT ![s] = None]
  /\ spc' = [spc EXCEPT ![s] = "rename"]
  /\ UNCHANGED <<lifeVars, diskVars, wr, completed, loadVars, resume, temp, sdoc, upVars>>

(* The bytes of a file without a name cannot be read any more.              *)
Dropped(n) == [m \in Inodes |-> IF m = n THEN Torn ELSE content[m]]

(* os.replace, which fails when another thread took the temporary file.     *)
SaveRename(s) ==
  /\ spc[s] = "rename"
  /\ resume' = IF temp = None THEN resume ELSE temp
  /\ content' = IF temp = None THEN content ELSE Dropped(resume)
  /\ temp' = None
  /\ spc' = [spc EXCEPT ![s] = "unlink"]
  /\ UNCHANGED <<lifeVars, diskVars, wr, completed, loadVars, sdoc, sino, upVars>>

(* finally: temporary.unlink(), whosever it is.  A call that the disk       *)
(* refused comes here too, its file as it was.                              *)
SaveUnlink(s) ==
  /\ spc[s] = "unlink" \/ (DiskFails /\ Saving(s))
  /\ temp' = None
  /\ content' = Dropped(temp)
  /\ sino' = [sino EXCEPT ![s] = None]
  /\ spc' = [spc EXCEPT ![s] = "none"]
  /\ sdoc' = [sdoc EXCEPT ![s] = Torn]
  /\ UNCHANGED <<lifeVars, diskVars, wr, completed, loadVars, resume, upVars>>

-----------------------------------------------------------------------------
(* The process dies, or exits: threads, tasks and memory are gone.          *)
Crash ==
  /\ ProcessUp
  /\ mode' = "down" /\ loop' = "none" /\ peersUp' = FALSE
  /\ pc' = [c \in Callers |-> "none"]
  /\ wr' = [i \in Pieces |-> None]
  /\ completed' = {} /\ todo' = {} /\ valid' = {}
  /\ spc' = [s \in Savers |-> "none"]
  /\ sdoc' = [s \in Savers |-> Torn]
  /\ sino' = [s \in Savers |-> None]
  /\ carried' = 0 /\ served' = 0
  /\ UNCHANGED <<diskVars, resume, temp, content>>

(* A chunk is damaged while the client is not running.                      *)
Damage(c) ==
  /\ mode = "down" /\ c \in good
  /\ good' = good \ {c}
  /\ lost' = lost \cup {c[1]}
  /\ UNCHANGED <<lifeVars, present, wr, completed, loadVars, saveVars, upVars>>

-----------------------------------------------------------------------------
Engine ==
  \/ Boot \/ LoadNothing \/ Load \/ VerifyEnd \/ Start \/ Pause \/ Stop
  \/ Finish \/ Serve \/ DeleteBegin \/ DeleteEnd
  \/ \E i \in Pieces : VerifyOne(i)
  \/ \E f \in Files : DeleteOne(f)
  \/ \E c \in Callers : CancelLoop(c) \/ FlushDone(c) \/ FlushTimeout(c)
                        \/ PeersStopped(c) \/ CallReturns(c)

Writes ==
  \E i \in Pieces : WriteBegin(i) \/ WriteChunk(i) \/ WriteError(i) \/ WriteDone(i)

Saves ==
  \E s \in Savers : SaveOpen(s) \/ SaveWrite(s) \/ SaveRename(s) \/ SaveUnlink(s)

Outside == Crash \/ \E c \in Chunks : Damage(c)

Next == Engine \/ Writes \/ Saves \/ Outside

Spec == Init /\ [][Next]_vars

(* The asyncio loop runs every ready coroutine, FLUSH_TIMEOUT passes and    *)
(* the thread that saves gets to run; nothing is assumed of piece writes.   *)
(* PeersStopped is strongly fair because only the bound MaxSavers, which    *)
(* the program does not have, switches it off.                              *)
CallGoes(c) == CancelLoop(c) \/ FlushDone(c) \/ FlushTimeout(c) \/ CallReturns(c)
SaveGoes(s) == SaveOpen(s) \/ SaveWrite(s) \/ SaveRename(s) \/ SaveUnlink(s)

Fairness ==
  /\ \A c \in Callers : WF_vars(CallGoes(c)) /\ SF_vars(PeersStopped(c))
  /\ \A s \in Savers : WF_vars(SaveGoes(s))

FairSpec == Spec /\ Fairness

-----------------------------------------------------------------------------
(* Properties.                                                              *)

TypeOK ==
  /\ mode \in Modes
  /\ pc \in [Callers -> CallPcs]
  /\ loop \in LoopPcs
  /\ peersUp \in BOOLEAN
  /\ good \subseteq Chunks
  /\ present \subseteq Files
  /\ wr \in [Pieces -> {None} \cup SUBSET Files]
  /\ completed \subseteq Pieces
  /\ todo \subseteq Pieces \cup Files
  /\ valid \subseteq Pieces
  /\ resume \in Inodes \cup {None}
  /\ temp \in Inodes \cup {None}
  /\ content \in [Inodes -> Docs \cup {Torn}]
  /\ spc \in [Savers -> SavePcs]
  /\ sdoc \in [Savers -> Docs \cup {Torn}]
  /\ sino \in [Savers -> Inodes \cup {None}]
  /\ carried \in 0 .. MaxUp
  /\ served \in 0 .. MaxUp
  /\ lost \subseteq Pieces

(* From the moment an engine is built until its files are deleted, every    *)
(* piece storage calls complete is intact on disk: uploads never serve a    *)
(* piece that a crash cut short or that was damaged between two runs.       *)
HaveIsOnDisk ==
  mode \in {"idle", "running", "paused", "stopped"} =>
    \A i \in completed : Intact(i)

(* Whatever the client did and whenever it died, every piece the resume     *)
(* file lists is intact on disk unless something outside damaged it: a      *)
(* piece is recorded only after its last chunk is written.                  *)
ResumeIsHonest ==
  Saved # None => \A i \in Saved.claims \ lost : Intact(i)

(* The resume file is never a half-written document, at any moment a crash  *)
(* may choose (ResumeStore.save writes a temporary file and renames it).    *)
ResumeReadable == Saved # Torn

(* A restart keeps every listed piece that nothing outside damaged.         *)
RestartKeepsProgress ==
  [][mode = "verifying" /\ mode' = "idle" => Saved.claims \ lost \subseteq completed']_vars

(* A stopped torrent has its progress on disk: when stop has returned, the  *)
(* next run starts from all that is complete.                               *)
StoppedIsSaved ==
  mode = "stopped" /\ pc["stop"] = "none" =>
    Saved # None /\ completed \subseteq Saved.claims

(* Once remove(delete_data=True) has deleted the files, they stay deleted.  *)
DeletedIsGone == mode = "removed" => present = {}

(* The upload total of earlier runs is never wiped from the resume file     *)
(* while the torrent runs.                                                  *)
UploadedIsCarried ==
  mode = "running" /\ Saved \notin {None, Torn} => Saved.up >= carried

(* A stop always returns, even when a write never does.                     *)
StopReturns == pc["stop"] # "none" ~> pc["stop"] = "none"
=============================================================================
