---------------------------- MODULE StorageProofs ----------------------------
(***************************************************************************)
(* Machine-checked proofs about module Storage, for every file layout,      *)
(* every number of saves in flight and every disk that its assumptions      *)
(* admit, across crashes and damage at any moment.                          *)
(***************************************************************************)
EXTENDS Storage, FiniteSetTheorems, WellFoundedInduction, TLAPS

-----------------------------------------------------------------------------
(* Files and documents.                                                     *)

(* Of a set of files one comes first.                                       *)
LEMMA LeastFile ==
  ASSUME NEW S \in SUBSET Files, S # {}
  PROVE  \E f \in S : \A g \in S : f <= g
<1> DEFINE Below(f) == {g \in S : g < f}
           Belows == {Below(f) : f \in S}
           R == StrictSubsetOrdering(S)
<1>1. \A f \in S : f \in Nat
  BY LayoutAssumption
<1>2. IsFiniteSet(S)
  BY LayoutAssumption, FS_Subset
<1>3. IsWellFoundedOn(R, FiniteSubsetsOf(S))
  BY <1>2, FS_StrictSubsetOrderingWellFounded
<1>4. Belows \subseteq FiniteSubsetsOf(S) /\ Belows # {}
  <2>1. \A T \in SUBSET S : IsFiniteSet(T)
    BY <1>2, FS_Subset
  <2> QED
    BY <2>1 DEF FiniteSubsetsOf
<1>5. PICK B \in Belows : \A C \in Belows : <<C, B>> \notin R
  <2> HIDE DEF R, Belows
  <2> QED
    BY <1>3, <1>4, WFMin
<1>6. PICK f \in S : B = Below(f)
  BY <1>5
<1>7. ASSUME NEW g \in S, g < f
      PROVE  FALSE
  <2>1. Below(g) \subseteq Below(f) /\ Below(g) # Below(f)
    BY <1>1, <1>7
  <2>2. Below(g) \in Belows /\ <<Below(g), B>> \in R
    BY <2>1, <1>6, <1>7 DEF StrictSubsetOrdering
  <2> QED
    BY <2>2, <1>5
<1> QED
  BY <1>1, <1>7

(* write_piece goes on with a file it has still to write.                   *)
LEMMA NextFileIsLeft ==
  ASSUME TypeOK, NEW i \in Pieces, Writing(i)
  PROVE  NextFile(i) \in wr[i] /\ wr[i] \in SUBSET Files
<1>1. wr[i] \in SUBSET Files /\ wr[i] # {}
  BY DEF TypeOK, Writing
<1> QED
  BY <1>1, LeastFile DEF NextFile

(* A file holds a document, and the resume name denotes one of the files.   *)
LEMMA SavedIsDocument ==
  ASSUME TypeOK, Saved \notin {None, Torn}
  PROVE  resume \in Inodes /\ Saved = content[resume] /\ Saved \in Docs
  BY DEF TypeOK, Saved

-----------------------------------------------------------------------------
(* The inductive invariant.                                                 *)

(* The upload total a snapshot may record stays within its bound.           *)
Totals == carried + served <= MaxUp

(* Until the engine is started, and once the process is gone, nothing is    *)
(* being written, called or saved, and before load_resume there is nothing  *)
(* to be had.                                                               *)
Quiet ==
  /\ mode \in {"down", "loading", "verifying", "idle"} =>
       /\ \A i \in Pieces : wr[i] = None
       /\ \A c \in Callers : pc[c] = "none"
       /\ \A s \in Savers : ~Saving(s)
       /\ loop = "none" /\ served = 0
  /\ mode \in {"down", "loading"} => completed = {} /\ carried = 0

(* What write_piece has left is part of the piece, and what it has behind   *)
(* it is on disk, unless files were deleted under it.                       *)
WritesMatch ==
  \A i \in Pieces : wr[i] # None =>
    /\ wr[i] \subseteq Overlap[i]
    /\ \A f \in Overlap[i] \ wr[i] : <<i, f>> \in good \/ i \in lost

(* A document that lists a piece nobody damaged tells the truth.            *)
Honest(d) == \A i \in d.claims \ lost : Intact(i)

(* What is complete, what the files hold and what the saving threads are    *)
(* about to write are all true.                                             *)
AllHonest ==
  /\ \A i \in completed \ lost : Intact(i)
  /\ \A n \in Inodes : Honest(content[n])
  /\ \A s \in Savers : Honest(sdoc[s])

(* From build_engine until files are deleted no chunk goes bad.             *)
Kept ==
  mode \in {"idle", "running", "paused", "stopped"} =>
    /\ \A i \in completed : Intact(i)
    /\ \A i \in Pieces : wr[i] # None =>
         \A f \in Overlap[i] \ wr[i] : <<i, f>> \in good

(* verify_completed works off the list of the resume file and has judged    *)
(* right what it has behind it.                                             *)
Checking ==
  mode = "verifying" =>
    /\ resume # None /\ completed = content[resume].claims
    /\ todo \subseteq completed /\ valid \subseteq completed
    /\ \A i \in valid : Intact(i)
    /\ \A i \in completed : Intact(i) => i \in todo \cup valid

(* Every way a piece can be on disk, being written, listed or checked.      *)
DiskInv == TypeOK /\ Totals /\ Quiet /\ WritesMatch /\ AllHonest /\ Kept /\ Checking

-----------------------------------------------------------------------------
(* Type correctness.                                                        *)

(* What a saving thread is given is a document.                             *)
LEMMA SnapshotIsDocument ==
  ASSUME TypeOK, Totals, NEW s \in Savers
  PROVE  Snapshot(s) \in Docs
<1>1. carried \in Nat /\ served \in Nat /\ MaxUp \in Nat
  BY SaveAssumption DEF TypeOK
<1>2. 0 \in 0 .. MaxUp /\ carried + served \in 0 .. MaxUp
  BY <1>1 DEF Totals
<1> QED
  BY <1>2 DEF TypeOK, Snapshot, Docs

(* A save that begins keeps the types.                                      *)
LEMMA SaveBeginType ==
  ASSUME TypeOK, Totals, NEW s \in Savers, SaveBegin(s)
  PROVE  spc' \in [Savers -> SavePcs] /\ sdoc' \in [Savers -> Docs \cup {Torn}]
  BY SnapshotIsDocument DEF TypeOK, SaveBegin, SavePcs

(* A process that is down is well typed.                                    *)
LEMMA InitType == Init => TypeOK
<1> SUFFICES ASSUME Init PROVE TypeOK
  OBVIOUS
<1>1. carried \in 0 .. MaxUp /\ served \in 0 .. MaxUp
  BY SaveAssumption DEF Init
<1>2. /\ pc \in [Callers -> CallPcs]
      /\ wr \in [Pieces -> {None} \cup SUBSET Files]
      /\ content \in [Inodes -> Docs \cup {Torn}]
      /\ spc \in [Savers -> SavePcs]
      /\ sdoc \in [Savers -> Docs \cup {Torn}]
      /\ sino \in [Savers -> Inodes \cup {None}]
  BY DEF Init, CallPcs, SavePcs
<1>3. /\ mode \in Modes /\ loop \in LoopPcs /\ peersUp \in BOOLEAN
      /\ good \subseteq Chunks /\ present \subseteq Files
      /\ completed \subseteq Pieces /\ valid \subseteq Pieces /\ lost \subseteq Pieces
      /\ todo \subseteq Pieces \cup Files
      /\ resume \in Inodes \cup {None} /\ temp \in Inodes \cup {None}
  BY DEF Init, Modes, LoopPcs
<1> QED
  BY <1>1, <1>2, <1>3 DEF TypeOK

(* Every step of the engine keeps the types.                                *)
LEMMA EngineType ==
  ASSUME TypeOK, Totals, Quiet, Engine
  PROVE  TypeOK'
<1> USE DEF TypeOK, Modes, CallPcs, LoopPcs, lifeVars, diskVars, loadVars, saveVars,
            upVars
<1>1. CASE Boot
  BY <1>1 DEF Boot
<1>2. CASE LoadNothing
  BY <1>2 DEF LoadNothing
<1>3. CASE Load
  BY <1>3, SavedIsDocument DEF Load, Docs
<1>4. CASE VerifyEnd
  BY <1>4 DEF VerifyEnd
<1>5. CASE Start
  BY <1>5 DEF Start
<1>6. CASE Pause \/ Stop
  BY <1>6 DEF Pause, Stop, Callers
<1>7. CASE Finish
  BY <1>7, SaveBeginType DEF Finish, SaveBegin, Savers
<1>8. CASE Serve
  BY <1>8, SaveAssumption DEF Serve
<1>9. CASE DeleteBegin \/ DeleteEnd
  BY <1>9 DEF DeleteBegin, DeleteEnd
<1>10. ASSUME NEW i \in Pieces, VerifyOne(i)
       PROVE  TypeOK'
  BY <1>10 DEF VerifyOne
<1>11. ASSUME NEW f \in Files, DeleteOne(f)
       PROVE  TypeOK'
  BY <1>11 DEF DeleteOne
<1>12. ASSUME NEW c \in Callers, CancelLoop(c) \/ FlushDone(c) \/ FlushTimeout(c)
       PROVE  TypeOK'
  BY <1>12 DEF CancelLoop, FlushDone, FlushTimeout
<1>13. ASSUME NEW c \in Callers, PeersStopped(c)
       PROVE  TypeOK'
  BY <1>13, SaveBeginType DEF PeersStopped, SaveBegin, Savers
<1>14. ASSUME NEW c \in Callers, CallReturns(c)
       PROVE  TypeOK'
  BY <1>14 DEF CallReturns
<1> QED
  BY <1>1, <1>2, <1>3, <1>4, <1>5, <1>6, <1>7, <1>8, <1>9, <1>10, <1>11, <1>12,
     <1>13, <1>14 DEF Engine

(* Every step of a write keeps the types.                                   *)
LEMMA WriteType ==
  ASSUME TypeOK, WritesMatch, Writes
  PROVE  TypeOK'
<1> USE DEF TypeOK, lifeVars, diskVars, loadVars, saveVars, upVars
<1> PICK i \in Pieces : WriteBegin(i) \/ WriteChunk(i) \/ WriteError(i) \/ WriteDone(i)
  BY DEF Writes
<1>1. CASE WriteBegin(i)
  BY <1>1, LayoutAssumption DEF WriteBegin
<1>2. CASE WriteChunk(i)
  <2>1. NextFile(i) \in wr[i] /\ wr[i] \in SUBSET Files
    BY <1>2, NextFileIsLeft DEF WriteChunk
  <2>2. NextFile(i) \in Overlap[i] /\ NextFile(i) \in Files
    BY <2>1, SaveAssumption DEF WritesMatch
  <2>3. <<i, NextFile(i)>> \in Chunks
    BY <2>2 DEF Chunks
  <2>4. wr[i] \ {NextFile(i)} \in SUBSET Files
    BY <2>1
  <2> QED
    BY <1>2, <2>2, <2>3, <2>4 DEF WriteChunk
<1>3. CASE WriteError(i)
  BY <1>3, NextFileIsLeft DEF WriteError
<1>4. CASE WriteDone(i)
  BY <1>4 DEF WriteDone
<1> QED
  BY <1>1, <1>2, <1>3, <1>4

(* Every step of ResumeStore.save keeps the types.                          *)
LEMMA SaveType ==
  ASSUME TypeOK, Saves
  PROVE  TypeOK'
<1> USE DEF TypeOK, SavePcs, lifeVars, diskVars, loadVars, upVars
<1> PICK s \in Savers : SaveOpen(s) \/ SaveWrite(s) \/ SaveRename(s) \/ SaveUnlink(s)
  BY DEF Saves
<1>1. CASE SaveOpen(s)
  BY <1>1 DEF SaveOpen, Unused
<1>2. CASE SaveWrite(s)
  BY <1>2 DEF SaveWrite
<1>3. CASE SaveRename(s)
  BY <1>3 DEF SaveRename, Dropped
<1>4. CASE SaveUnlink(s)
  BY <1>4 DEF SaveUnlink, Dropped
<1> QED
  BY <1>1, <1>2, <1>3, <1>4

(* Crashes and damage keep the types.                                       *)
LEMMA OutsideType ==
  ASSUME TypeOK, Outside
  PROVE  TypeOK'
<1> USE DEF TypeOK, lifeVars, diskVars, loadVars, saveVars, upVars
<1>1. CASE Crash
  <2>1. carried' \in 0 .. MaxUp /\ served' \in 0 .. MaxUp
    BY <1>1, SaveAssumption DEF Crash
  <2>2. /\ pc' \in [Callers -> CallPcs]
        /\ wr' \in [Pieces -> {None} \cup SUBSET Files]
        /\ spc' \in [Savers -> SavePcs]
        /\ sdoc' \in [Savers -> Docs \cup {Torn}]
        /\ sino' \in [Savers -> Inodes \cup {None}]
    BY <1>1 DEF Crash, CallPcs, SavePcs
  <2> QED
    BY <1>1, <2>1, <2>2 DEF Crash, Modes, LoopPcs
<1>2. ASSUME NEW c \in Chunks, Damage(c)
      PROVE  TypeOK'
  BY <1>2 DEF Damage, Chunks
<1> QED
  BY <1>1, <1>2 DEF Outside

(* No step leaves the types.                                                *)
LEMMA TypeStep ==
  ASSUME DiskInv, [Next]_vars
  PROVE  TypeOK'
<1>1. CASE UNCHANGED vars
  BY <1>1 DEF DiskInv, TypeOK, vars
<1>2. CASE Next
  BY <1>2, EngineType, WriteType, SaveType, OutsideType DEF Next, DiskInv
<1> QED
  BY <1>1, <1>2

-----------------------------------------------------------------------------
(* The parts of the invariant, one after the other.                         *)

(* Only a load, an upload and the end of the process change the totals.     *)
LEMMA TotalsStep ==
  ASSUME DiskInv, [Next]_vars
  PROVE  Totals'
<1> USE DEF lifeVars, diskVars, loadVars, saveVars, upVars
<1>1. carried \in Nat /\ served \in Nat /\ MaxUp \in Nat /\ carried + served <= MaxUp
  BY SaveAssumption DEF DiskInv, TypeOK, Totals
<1>2. CASE Load
  <2>1. Saved.up \in 0 .. MaxUp
    BY <1>2, SavedIsDocument DEF Load, DiskInv, Docs
  <2>2. served = 0
    BY <1>2 DEF Load, DiskInv, Quiet
  <2> QED
    BY <1>1, <1>2, <2>1, <2>2 DEF Load, Totals
<1>3. CASE Serve \/ Crash
  BY <1>1, <1>3 DEF Serve, Crash, Totals
<1>4. CASE UNCHANGED upVars
  BY <1>1, <1>4 DEF Totals
<1>5. Next => Load \/ Serve \/ Crash \/ UNCHANGED upVars
  BY DEF Next, Engine, Writes, Saves, Outside, Boot, LoadNothing, VerifyOne, VerifyEnd,
         Start, Pause, Stop, Finish, DeleteBegin, DeleteOne, DeleteEnd, CancelLoop,
         FlushDone, FlushTimeout, PeersStopped, CallReturns, WriteBegin, WriteChunk,
         WriteError, WriteDone, SaveOpen, SaveWrite, SaveRename, SaveUnlink, Damage
<1> QED
  BY <1>2, <1>3, <1>4, <1>5 DEF vars

(* A save, a call and a write begin only in a started engine.               *)
LEMMA QuietStep ==
  ASSUME DiskInv, [Next]_vars
  PROVE  Quiet'
<1> USE DEF Quiet, Saving, lifeVars, diskVars, loadVars, saveVars, upVars
<1>1. CASE UNCHANGED vars
  BY <1>1 DEF DiskInv, vars
<1>2. CASE Boot \/ LoadNothing \/ Load \/ VerifyEnd \/ Start \/ Serve
  BY <1>2 DEF DiskInv, Boot, LoadNothing, Load, VerifyEnd, Start, Serve
<1>3. CASE Pause \/ Stop \/ DeleteBegin \/ DeleteEnd
  BY <1>3 DEF DiskInv, Pause, Stop, DeleteBegin, DeleteEnd
<1>4. CASE Finish
  BY <1>4 DEF DiskInv, Finish, SaveBegin, Savers
<1>5. CASE \/ \E i \in Pieces : VerifyOne(i)
           \/ \E f \in Files : DeleteOne(f)
  BY <1>5 DEF DiskInv, VerifyOne, DeleteOne
<1>6. ASSUME NEW c \in Callers,
             CancelLoop(c) \/ FlushDone(c) \/ FlushTimeout(c) \/ PeersStopped(c)
               \/ CallReturns(c)
      PROVE  Quiet'
  <2>1. mode \notin {"down", "loading", "verifying", "idle"} /\ mode' = mode
    BY <1>6 DEF DiskInv, CancelLoop, FlushDone, FlushTimeout, PeersStopped, CallReturns
  <2> QED
    BY <2>1
<1>7. CASE Writes
  <2>1. mode \notin {"down", "loading", "verifying", "idle"} /\ mode' = mode
    BY <1>7, SaveAssumption
    DEF DiskInv, Writes, WriteBegin, WriteChunk, WriteError, WriteDone, MayWrite, Writing
  <2> QED
    BY <2>1
<1>8. CASE Saves
  <2>1. mode \notin {"down", "loading", "verifying", "idle"} /\ mode' = mode
    BY <1>8 DEF DiskInv, Saves, SaveOpen, SaveWrite, SaveRename, SaveUnlink
  <2> QED
    BY <2>1
<1>9. CASE Outside
  BY <1>9 DEF DiskInv, Outside, Crash, Damage
<1> QED
  BY <1>1, <1>2, <1>3, <1>4, <1>5, <1>6, <1>7, <1>8, <1>9 DEF Next, Engine

(* Only steps of a write, deletion, damage and the end of the process touch *)
(* what is being written and what is right on disk.                         *)
LEMMA DiskFrame ==
  ASSUME Next
  PROVE  \/ \E i \in Pieces : WriteBegin(i) \/ WriteChunk(i) \/ WriteError(i) \/ WriteDone(i)
         \/ \E f \in Files : DeleteOne(f)
         \/ Crash
         \/ \E c \in Chunks : Damage(c)
         \/ UNCHANGED <<wr, good, lost>>
  BY DEF Next, Engine, Writes, Saves, Outside, Boot, LoadNothing, Load, Serve, VerifyOne,
         VerifyEnd, Start, Pause, Stop, Finish, DeleteBegin, DeleteEnd, CancelLoop,
         FlushDone, FlushTimeout, PeersStopped, CallReturns, SaveOpen, SaveWrite,
         SaveRename, SaveUnlink, lifeVars, diskVars, loadVars, saveVars, upVars

(* A write in progress keeps what it has behind it.                         *)
LEMMA WritesMatchStep ==
  ASSUME DiskInv, [Next]_vars
  PROVE  WritesMatch'
<1> USE DEF WritesMatch, lifeVars, diskVars, loadVars, saveVars, upVars
<1>t. wr \in [Pieces -> {None} \cup SUBSET Files] /\ good \subseteq Chunks
  BY DEF DiskInv, TypeOK
<1>1. ASSUME NEW i \in Pieces, WriteBegin(i) \/ WriteError(i)
      PROVE  WritesMatch'
  BY <1>1, <1>t DEF DiskInv, WriteBegin, WriteError
<1>2. ASSUME NEW i \in Pieces, WriteChunk(i)
      PROVE  WritesMatch'
  <2>1. NextFile(i) \in wr[i]
    BY <1>2, NextFileIsLeft DEF WriteChunk, DiskInv
  <2> QED
    BY <1>2, <1>t, <2>1, SaveAssumption DEF DiskInv, WriteChunk, Writing
<1>3. ASSUME NEW i \in Pieces, WriteDone(i)
      PROVE  WritesMatch'
  BY <1>3, <1>t DEF DiskInv, WriteDone
<1>4. ASSUME NEW f \in Files, DeleteOne(f)
      PROVE  WritesMatch'
  BY <1>4, <1>t DEF DiskInv, DeleteOne
<1>5. CASE Crash
  BY <1>5 DEF Crash
<1>6. ASSUME NEW c \in Chunks, Damage(c)
      PROVE  WritesMatch'
  BY <1>6, <1>t DEF DiskInv, Damage, Chunks
<1>7. CASE UNCHANGED <<wr, good, lost>>
  BY <1>7 DEF DiskInv
<1> QED
  BY <1>1, <1>2, <1>3, <1>4, <1>5, <1>6, <1>7, DiskFrame DEF vars

(* A finished write makes its piece true; nothing else but damage and       *)
(* deletion, which are recorded, takes a chunk away.                        *)
LEMMA AllHonestStep ==
  ASSUME DiskInv, [Next]_vars
  PROVE  AllHonest'
<1> USE DEF AllHonest, Honest, Intact, lifeVars, diskVars, loadVars, upVars
<1>h. AllHonest /\ TypeOK /\ WritesMatch /\ Kept /\ Checking /\ Quiet
  BY DEF DiskInv
<1>1. CASE UNCHANGED <<completed, good, lost, content, sdoc>>
  BY <1>1, <1>h
<1>2. CASE Load
  BY <1>2, <1>h, SavedIsDocument DEF Load, saveVars
<1>3. CASE VerifyEnd
  BY <1>3, <1>h DEF VerifyEnd, Checking, saveVars
<1>4. ASSUME NEW s \in Savers, SaveBegin(s), UNCHANGED <<completed, good, lost>>
      PROVE  AllHonest'
  <2>1. sdoc' = [sdoc EXCEPT ![s] = Snapshot(s)] /\ content' = content
    BY <1>4 DEF SaveBegin
  <2>2. Snapshot(s).claims = completed
    BY DEF Snapshot
  <2> QED
    BY <1>4, <1>h, <2>1, <2>2 DEF TypeOK
<1>5. ASSUME NEW i \in Pieces, WriteChunk(i)
      PROVE  AllHonest'
  BY <1>5, <1>h DEF WriteChunk, saveVars
<1>6. ASSUME NEW i \in Pieces, WriteDone(i)
      PROVE  AllHonest'
  BY <1>6, <1>h, SaveAssumption DEF WriteDone, WritesMatch, saveVars
<1>7. ASSUME NEW f \in Files, DeleteOne(f)
      PROVE  AllHonest'
  <2>1. lost \subseteq lost' /\ good' \subseteq good
    BY <1>7 DEF DeleteOne
  <2>2. \A i \in Pieces \ lost' : Intact(i) => Intact(i)'
    BY <1>7 DEF DeleteOne
  <2>3. \A n \in Inodes : content[n].claims \subseteq Pieces
    BY <1>h DEF TypeOK, Docs, Torn
  <2>4. \A s \in Savers : sdoc[s].claims \subseteq Pieces
    BY <1>h DEF TypeOK, Docs, Torn
  <2>5. completed \subseteq Pieces /\ UNCHANGED <<completed, content, sdoc>>
    BY <1>7, <1>h DEF TypeOK, DeleteOne, saveVars
  <2> HIDE DEF Intact
  <2> QED
    BY <1>h, <2>1, <2>2, <2>3, <2>4, <2>5
<1>8. CASE DeleteEnd
  BY <1>8, <1>h DEF DeleteEnd, saveVars
<1>9. ASSUME NEW s \in Savers, SaveOpen(s)
      PROVE  AllHonest'
  BY <1>9, <1>h DEF SaveOpen, TypeOK, Torn
<1>10. ASSUME NEW s \in Savers, SaveWrite(s)
       PROVE  AllHonest'
  BY <1>10, <1>h DEF SaveWrite, TypeOK, Torn
<1>11. ASSUME NEW s \in Savers, SaveRename(s) \/ SaveUnlink(s)
       PROVE  AllHonest'
  BY <1>11, <1>h DEF SaveRename, SaveUnlink, Dropped, TypeOK, Torn
<1>12. CASE Crash
  BY <1>12, <1>h DEF Crash, Torn
<1>13. ASSUME NEW c \in Chunks, Damage(c)
       PROVE  AllHonest'
  <2>1. lost \subseteq lost' /\ good' \subseteq good
    BY <1>13 DEF Damage
  <2>2. \A i \in Pieces \ lost' : Intact(i) => Intact(i)'
    BY <1>13 DEF Damage
  <2>3. \A n \in Inodes : content[n].claims \subseteq Pieces
    BY <1>h DEF TypeOK, Docs, Torn
  <2>4. \A s \in Savers : sdoc[s].claims \subseteq Pieces
    BY <1>h DEF TypeOK, Docs, Torn
  <2>5. completed \subseteq Pieces /\ UNCHANGED <<completed, content, sdoc>>
    BY <1>13, <1>h DEF TypeOK, Damage, saveVars
  <2> HIDE DEF Intact
  <2> QED
    BY <1>h, <2>1, <2>2, <2>3, <2>4, <2>5
<1>14. CASE Finish \/ \E c \in Callers : PeersStopped(c)
  BY <1>14, <1>4 DEF Finish, PeersStopped, Savers
<1>15. Next => \/ UNCHANGED <<completed, good, lost, content, sdoc>>
               \/ Load \/ VerifyEnd \/ DeleteEnd \/ Crash \/ Finish
               \/ \E c \in Callers : PeersStopped(c)
               \/ \E i \in Pieces : WriteChunk(i) \/ WriteDone(i)
               \/ \E f \in Files : DeleteOne(f)
               \/ \E s \in Savers : SaveOpen(s) \/ SaveWrite(s) \/ SaveRename(s) \/ SaveUnlink(s)
               \/ \E c \in Chunks : Damage(c)
  BY DEF Next, Engine, Writes, Saves, Outside, Boot, LoadNothing, Serve, VerifyOne,
         Start, Pause, Stop, DeleteBegin, CancelLoop, FlushDone, FlushTimeout,
         CallReturns, WriteBegin, WriteError, saveVars
<1> QED
  BY <1>1, <1>2, <1>3, <1>5, <1>6, <1>7, <1>8, <1>9, <1>10, <1>11, <1>12, <1>13,
     <1>14, <1>15 DEF vars

(* Between build_engine and a deletion only chunks that are right are added *)
(* to the disk, and pieces that are whole to what is complete.              *)
LEMMA KeptStep ==
  ASSUME DiskInv, [Next]_vars
  PROVE  Kept'
<1> USE DEF Kept, Intact, lifeVars, diskVars, loadVars, saveVars, upVars
<1>h. TypeOK /\ WritesMatch /\ Kept /\ Checking /\ Quiet
  BY DEF DiskInv
<1>1. CASE mode' = mode /\ UNCHANGED <<completed, good, wr>>
  BY <1>1, <1>h
<1>2. CASE LoadNothing
  BY <1>2, <1>h DEF LoadNothing, Quiet
<1>3. CASE VerifyEnd
  BY <1>3, <1>h DEF VerifyEnd, Checking, Quiet
<1>4. CASE Start \/ Pause \/ Stop
  BY <1>4, <1>h DEF Start, Pause, Stop
<1>5. CASE mode' \notin {"idle", "running", "paused", "stopped"}
  BY <1>5
<1>6. ASSUME NEW i \in Pieces, WriteBegin(i) \/ WriteError(i)
      PROVE  Kept'
  BY <1>6, <1>h DEF WriteBegin, WriteError, TypeOK
<1>7. ASSUME NEW i \in Pieces, WriteChunk(i)
      PROVE  Kept'
  BY <1>7, <1>h, SaveAssumption DEF WriteChunk, Writing, TypeOK
<1>8. ASSUME NEW i \in Pieces, WriteDone(i)
      PROVE  Kept'
  BY <1>8, <1>h, SaveAssumption DEF WriteDone, TypeOK
<1>9. Next => \/ mode' = mode /\ UNCHANGED <<completed, good, wr>>
              \/ mode' \notin {"idle", "running", "paused", "stopped"}
              \/ LoadNothing \/ VerifyEnd \/ Start \/ Pause \/ Stop
              \/ \E i \in Pieces : \/ WriteBegin(i) \/ WriteChunk(i)
                                   \/ WriteError(i) \/ WriteDone(i)
  BY DEF Next, Engine, Writes, Saves, Outside, Boot, Load, Serve, VerifyOne, Finish,
         DeleteBegin, DeleteOne, DeleteEnd, CancelLoop, FlushDone, FlushTimeout,
         PeersStopped, CallReturns, SaveOpen, SaveWrite, SaveRename, SaveUnlink, Crash,
         Damage
<1> QED
  BY <1>1, <1>2, <1>3, <1>4, <1>5, <1>6, <1>7, <1>8, <1>9 DEF vars

(* While verify_completed runs nothing else happens to the torrent.         *)
LEMMA CheckingStep ==
  ASSUME DiskInv, [Next]_vars
  PROVE  Checking'
<1> USE DEF Checking, Intact, lifeVars, diskVars, loadVars, saveVars, upVars
<1>h. TypeOK /\ Checking /\ Quiet
  BY DEF DiskInv
<1>1. CASE mode' # "verifying"
  BY <1>1
<1>2. CASE Load
  BY <1>2, <1>h, SavedIsDocument DEF Load, Docs, Saved
<1>3. ASSUME NEW i \in Pieces, VerifyOne(i)
      PROVE  Checking'
  BY <1>3, <1>h DEF VerifyOne
<1>4. CASE UNCHANGED <<mode, resume, completed, content, todo, valid, good>>
  BY <1>4, <1>h
<1>5. CASE Finish \/ Saves \/ Writes \/ \E c \in Callers : PeersStopped(c)
  <2>1. CASE Finish
    BY <2>1, <1>h DEF Finish, Quiet
  <2>2. CASE Saves
    BY <2>2, <1>1, <1>h
    DEF Saves, SaveOpen, SaveWrite, SaveRename, SaveUnlink, Saving, Quiet
  <2>3. CASE Writes
    BY <2>3, <1>1, <1>h, SaveAssumption
    DEF Writes, WriteBegin, WriteChunk, WriteError, WriteDone, MayWrite, Writing, Quiet
  <2>4. CASE \E c \in Callers : PeersStopped(c)
    BY <2>4, <1>1, <1>h DEF PeersStopped, Quiet
  <2> QED
    BY <1>5, <2>1, <2>2, <2>3, <2>4
<1>6. Next => \/ mode' # "verifying"
              \/ Load \/ Finish \/ Saves \/ Writes
              \/ \E i \in Pieces : VerifyOne(i)
              \/ \E c \in Callers : PeersStopped(c)
              \/ UNCHANGED <<mode, resume, completed, content, todo, valid, good>>
  BY DEF Next, Engine, Outside, Boot, LoadNothing, Serve, VerifyEnd, Start, Pause, Stop,
         DeleteBegin, DeleteOne, DeleteEnd, CancelLoop, FlushDone, FlushTimeout,
         CallReturns, Crash, Damage
<1> QED
  BY <1>1, <1>2, <1>3, <1>4, <1>5, <1>6 DEF vars

-----------------------------------------------------------------------------
(* The theorems.                                                            *)

LEMMA DiskInvInit == Init => DiskInv
<1> SUFFICES ASSUME Init PROVE DiskInv
  OBVIOUS
<1>1. TypeOK
  BY InitType
<1>2. Totals
  BY SaveAssumption DEF Init, Totals
<1>3. Quiet
  BY DEF Init, Quiet, Saving
<1>4. WritesMatch /\ Kept /\ Checking
  BY DEF Init, WritesMatch, Kept, Checking
<1>5. AllHonest
  BY DEF Init, AllHonest, Honest, Torn
<1> QED
  BY <1>1, <1>2, <1>3, <1>4, <1>5 DEF DiskInv

LEMMA DiskInvStep == DiskInv /\ [Next]_vars => DiskInv'
  BY TypeStep, TotalsStep, QuietStep, WritesMatchStep, AllHonestStep, KeptStep, CheckingStep
  DEF DiskInv

LEMMA DiskInvAlways == Spec => []DiskInv
  BY DiskInvInit, DiskInvStep, PTL DEF Spec

(* StorageManager and the saving threads keep every variable within its     *)
(* type, whatever fails and whenever the process dies.                      *)
THEOREM StorageTypeCorrect == Spec => []TypeOK
<1>1. DiskInv => TypeOK
  BY DEF DiskInv
<1> QED
  BY <1>1, DiskInvAlways, PTL

(* What storage calls complete is intact on disk from build_engine until    *)
(* files are deleted: no upload serves a damaged or half-written piece.     *)
THEOREM HaveIsOnDiskAlways == Spec => []HaveIsOnDisk
<1>1. DiskInv => HaveIsOnDisk
  BY DEF DiskInv, Kept, HaveIsOnDisk
<1> QED
  BY <1>1, DiskInvAlways, PTL

(* No crash, no failed write and no overlap of saves makes the resume file  *)
(* list a piece that is not on disk.                                        *)
THEOREM ResumeIsHonestAlways == Spec => []ResumeIsHonest
<1>1. DiskInv => ResumeIsHonest
  <2> SUFFICES ASSUME DiskInv, Saved # None PROVE \A i \in Saved.claims \ lost : Intact(i)
    BY DEF ResumeIsHonest
  <2>1. resume \in Inodes /\ Saved = content[resume]
    BY DEF DiskInv, TypeOK, Saved
  <2> QED
    BY <2>1 DEF DiskInv, AllHonest, Honest
<1> QED
  BY <1>1, DiskInvAlways, PTL

(* The check of a restart gives up no piece that is still whole.            *)
THEOREM RestartKeepsProgressAlways == Spec => RestartKeepsProgress
<1> DEFINE Keeps == mode = "verifying" /\ mode' = "idle" => Saved.claims \ lost \subseteq completed'
<1>1. DiskInv /\ [Next]_vars => Keeps
  <2> SUFFICES ASSUME DiskInv, [Next]_vars, mode = "verifying", mode' = "idle"
               PROVE  Saved.claims \ lost \subseteq completed'
    OBVIOUS
  <2>1. VerifyEnd
    BY DEF vars, Next, Engine, Writes, Saves, Outside, Boot, LoadNothing, Load, Serve,
           VerifyOne, Start, Pause, Stop, Finish, DeleteBegin, DeleteOne, DeleteEnd,
           CancelLoop, FlushDone, FlushTimeout, PeersStopped, CallReturns, WriteBegin,
           WriteChunk, WriteError, WriteDone, SaveOpen, SaveWrite, SaveRename,
           SaveUnlink, Crash, Damage, lifeVars, diskVars, loadVars, saveVars, upVars
  <2>2. Saved.claims = completed /\ todo = {} /\ completed' = valid
    BY <2>1 DEF VerifyEnd, DiskInv, Checking, Saved
  <2>3. \A i \in completed \ lost : Intact(i)
    BY DEF DiskInv, AllHonest
  <2>4. \A i \in completed : Intact(i) => i \in valid
    BY <2>2 DEF DiskInv, Checking
  <2> QED
    BY <2>2, <2>3, <2>4
<1>2. []DiskInv /\ [][Next]_vars => [][Keeps]_vars
  BY <1>1, PTL
<1> QED
  BY <1>2, DiskInvAlways DEF Spec, RestartKeepsProgress

-----------------------------------------------------------------------------
(* Saves that do not overlap.  Overlapping ones do leave a torn resume file *)
(* behind: all of them use one temporary name.                              *)

(* A thread in ResumeStore.save has the temporary file to itself: empty     *)
(* until it writes, whole when it renames, never the resume file.           *)
OneSaver ==
  /\ \A s, t \in Savers : Saving(s) /\ Saving(t) => s = t
  /\ \A s \in Savers :
       /\ Saving(s) => sdoc[s] # Torn
       /\ spc[s] = "write" => temp # None /\ sino[s] = temp /\ content[temp] = Torn
       /\ spc[s] = "rename" => temp # None /\ content[temp] # Torn
  /\ temp # None => temp # resume
  /\ Saved # Torn

(* With room for one save, one begins only when none is under way.          *)
LEMMA AloneBegins ==
  ASSUME MaxSavers = 1, TypeOK, NEW s \in Savers, SaveBegin(s)
  PROVE  \A t \in Savers : ~Saving(t)
<1>1. IsFiniteSet(Savers)
  <2>1. Savers = {"pause"} \cup {"stop"} \cup {"finish"}
    BY DEF Savers, Callers
  <2> QED
    BY <2>1, FS_Singleton, FS_Union
<1>2. IsFiniteSet(InFlight)
  BY <1>1, FS_Subset DEF InFlight
<1>3. Cardinality(InFlight) \in Nat /\ Cardinality(InFlight) < 1
  BY <1>2, FS_CardinalityType DEF SaveBegin
<1>4. InFlight = {}
  BY <1>2, <1>3, FS_EmptySet
<1> QED
  BY <1>4 DEF InFlight

(* Documents are not torn.                                                  *)
LEMMA DocumentsAreWhole == \A d \in Docs : d # Torn
<1> SUFFICES ASSUME NEW d \in Docs PROVE d # Torn
  OBVIOUS
<1>1. d.up \in 0 .. MaxUp /\ Torn.up = -1
  BY DEF Docs, Torn
<1> QED
  BY <1>1, SaveAssumption

(* A step keeps the one thread in order.                                    *)
LEMMA OneSaverStep ==
  ASSUME MaxSavers = 1, DiskInv, OneSaver, [Next]_vars
  PROVE  OneSaver'
<1> USE DEF OneSaver, Saving, Saved
<1>t. TypeOK /\ Totals
  BY DEF DiskInv
<1>1. CASE UNCHANGED saveVars
  BY <1>1 DEF saveVars
<1>2. CASE LoadNothing
  BY <1>2, SaveAssumption DEF LoadNothing, Torn
<1>3. ASSUME NEW s \in Savers, SaveBegin(s)
      PROVE  OneSaver'
  <2>1. \A t \in Savers : spc[t] = "none"
    BY <1>3, <1>t, AloneBegins
  <2>2. Snapshot(s) # Torn
    BY <1>t, SnapshotIsDocument, DocumentsAreWhole
  <2>3. /\ spc' = [spc EXCEPT ![s] = "open"]
        /\ sdoc' = [sdoc EXCEPT ![s] = Snapshot(s)]
        /\ UNCHANGED <<resume, temp, content, sino>>
    BY <1>3 DEF SaveBegin
  <2> QED
    BY <2>1, <2>2, <2>3, <1>t DEF TypeOK
<1>4. ASSUME NEW s \in Savers, SaveOpen(s)
      PROVE  OneSaver'
  <2>1. PICK n \in IF temp = None THEN Unused ELSE {temp} :
          /\ temp' = n
          /\ sino' = [sino EXCEPT ![s] = n]
          /\ content' = [content EXCEPT ![n] = Torn]
    BY <1>4 DEF SaveOpen
  <2>2. n \in Inodes /\ n # resume /\ n # None
    BY <2>1, <1>t, SaveAssumption DEF Unused, TypeOK
  <2>3. /\ spc' = [spc EXCEPT ![s] = "write"] /\ spc[s] = "open"
        /\ UNCHANGED <<resume, sdoc>>
    BY <1>4 DEF SaveOpen
  <2>4. Saved' # Torn
    BY <2>1, <2>2, <2>3, <1>t DEF TypeOK
  <2> QED
    BY <2>1, <2>2, <2>3, <2>4, <1>t DEF TypeOK
<1>5. ASSUME NEW s \in Savers, SaveWrite(s)
      PROVE  OneSaver'
  <2>1. /\ spc[s] = "write" /\ temp # None /\ sino[s] = temp /\ content[temp] = Torn
        /\ sdoc[s] # Torn /\ temp \in Inodes /\ temp # resume
    BY <1>5, <1>t DEF SaveWrite, TypeOK
  <2>2. /\ content' = [content EXCEPT ![temp] = sdoc[s]]
        /\ sino' = [sino EXCEPT ![s] = None]
        /\ spc' = [spc EXCEPT ![s] = "rename"]
        /\ UNCHANGED <<resume, temp, sdoc>>
    BY <1>5, <2>1 DEF SaveWrite
  <2>3. Saved' # Torn
    BY <2>1, <2>2, <1>t DEF TypeOK
  <2> QED
    BY <2>1, <2>2, <2>3, <1>t DEF TypeOK
<1>6. ASSUME NEW s \in Savers, SaveRename(s)
      PROVE  OneSaver'
  <2>1. /\ spc[s] = "rename" /\ temp # None /\ content[temp] # Torn
        /\ temp \in Inodes /\ temp # resume
    BY <1>6, <1>t DEF SaveRename, TypeOK
  <2>2. /\ resume' = temp /\ temp' = None
        /\ content' = Dropped(resume)
        /\ spc' = [spc EXCEPT ![s] = "unlink"]
        /\ UNCHANGED <<sdoc, sino>>
    BY <1>6, <2>1 DEF SaveRename
  <2>3. content'[temp] = content[temp]
    BY <2>1, <2>2 DEF Dropped
  <2> QED
    BY <2>1, <2>2, <2>3, <1>t DEF TypeOK
<1>7. ASSUME NEW s \in Savers, SaveUnlink(s)
      PROVE  OneSaver'
  <2>1. /\ temp' = None
        /\ content' = Dropped(temp)
        /\ spc' = [spc EXCEPT ![s] = "none"]
        /\ UNCHANGED resume
        /\ \A t \in Savers : t # s => spc[t] = "none"
    BY <1>7, <1>t DEF SaveUnlink, TypeOK
  <2>2. Saved' # Torn
    BY <2>1, <1>t, SaveAssumption DEF TypeOK, Dropped
  <2> QED
    BY <2>1, <2>2, <1>t DEF TypeOK
<1>8. CASE Crash
  BY <1>8 DEF Crash
<1>9. CASE Finish \/ \E c \in Callers : PeersStopped(c)
  BY <1>9, <1>3 DEF Finish, PeersStopped, Savers
<1>10. Next => \/ UNCHANGED saveVars \/ LoadNothing \/ Crash \/ Finish
               \/ \E c \in Callers : PeersStopped(c)
               \/ \E s \in Savers : SaveOpen(s) \/ SaveWrite(s) \/ SaveRename(s) \/ SaveUnlink(s)
  BY DEF Next, Engine, Writes, Saves, Outside, Boot, Load, Serve, VerifyOne, VerifyEnd,
         Start, Pause, Stop, DeleteBegin, DeleteOne, DeleteEnd, CancelLoop, FlushDone,
         FlushTimeout, CallReturns, WriteBegin, WriteChunk, WriteError, WriteDone, Damage
<1> QED
  BY <1>1, <1>2, <1>4, <1>5, <1>6, <1>7, <1>8, <1>9, <1>10 DEF vars, saveVars

(* When a save is over before the next begins, no crash finds a half-written *)
(* resume file.                                                             *)
THEOREM ResumeReadableAlone ==
  ASSUME MaxSavers = 1
  PROVE  Spec => []ResumeReadable
<1>1. Init => OneSaver
  BY SaveAssumption DEF Init, OneSaver, Saving, Saved, Torn
<1>2. DiskInv /\ OneSaver /\ [Next]_vars => OneSaver'
  BY OneSaverStep
<1>3. OneSaver => ResumeReadable
  BY DEF OneSaver, ResumeReadable
<1> QED
  BY <1>1, <1>2, <1>3, DiskInvAlways, PTL DEF Spec
=============================================================================
