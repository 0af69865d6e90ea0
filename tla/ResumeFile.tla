----------------------------- MODULE ResumeFile -----------------------------
(***************************************************************************)
(* The resume files of storage/resume.py: one JSON document per torrent,    *)
(* read field by field into a ResumeState, set aside when it cannot be      *)
(* used, and written back whole.  (What two threads that save at once do to *)
(* one file is Storage's.)                                                  *)
(*                                                                          *)
(* A document is the verdict on each of its fields: missing, of the wrong   *)
(* type, or a number.  Piece sizes are numbers of bytes.                    *)
(***************************************************************************)
EXTENDS Integers, Sequences, FiniteSets, FiniteSetsExt, SequencesExt

CONSTANTS
  Hashes,   \* info hashes of torrents
  Geometry, \* the torrents: hash -> [len, count, total]
  Foreign,  \* names in the state directory that are no info hash
  Counts,   \* numbers a document may hold
  MaxSaves, \* bound: saves and hand-made changes
  Missing,  \* no file, or no such field
  Wrong,    \* a field of the wrong type
  NotJson,  \* a file that holds no JSON object
  NotUtf8   \* a file that holds no text

VARIABLES
  files,  \* name -> what its resume file holds, or Missing
  held,   \* hash -> the ResumeState in memory, or Missing
  kept,   \* history: hash -> what was saved and not touched since, or Missing
  fatal,  \* history: the reading calls that let an exception out
  saves   \* changes made so far

resumeVars == <<files, held, kept, fatal, saves>>

-----------------------------------------------------------------------------
(* ResumeState.                                                            *)

Ascending(s) == \A i, j \in DOMAIN s : i < j => s[i] < s[j]

\* __post_init__ accepts it.
Sound(s) ==
  /\ s.hash \in Hashes /\ s.len > 0 /\ s.count > 0 /\ s.total >= 0 /\ s.uploaded >= 0
  /\ \A i \in DOMAIN s.pieces : s.pieces[i] \in 0 .. s.count - 1
  /\ Ascending(s.pieces)

Fresh(h) == [hash |-> h, len |-> Geometry[h].len, count |-> Geometry[h].count,
             total |-> Geometry[h].total, pieces |-> <<>>, uploaded |-> 0]

\* The same torrent, and the same pieces of it.
Matches(s, h) ==
  s.hash = h /\ s.len = Geometry[h].len /\ s.count = Geometry[h].count /\ s.total = Geometry[h].total

\* piece_bytes, as completed_bytes adds them up.
PieceBytes(s, i) == IF i = s.count - 1 THEN s.total - i * s.len ELSE s.len
CompletedBytes(s) == FoldLeft(LAMBDA sum, i : sum + PieceBytes(s, i), 0, s.pieces)

WithPiece(s, i) ==
  IF i \in ToSet(s.pieces) THEN s
  ELSE [s EXCEPT !.pieces = SetToSortSeq(ToSet(@) \cup {i}, <)]

WithoutPiece(s, i) == [s EXCEPT !.pieces = SelectSeq(@, LAMBDA k : k # i)]

-----------------------------------------------------------------------------
(* Documents.                                                              *)

ToDict(s) == [version |-> 1] @@ s

\* _require_int: a field that is there is a number, and large enough.
Number(value, minimum, default) ==
  IF value = Missing THEN default # Missing ELSE value # Wrong /\ value >= minimum
Valued(value, default) == IF value = Missing THEN default ELSE value

\* A set, then sorted.
PiecesOf(doc) == SetToSortSeq(ToSet(Valued(doc.pieces, <<>>)), <)

PiecesFit(doc) ==
  /\ doc.pieces # Wrong
  /\ doc.pieces = Missing \/ \A i \in DOMAIN doc.pieces : doc.pieces[i] \in 0 .. doc.count - 1

\* from_dict accepts the document.
Accepts(doc) ==
  /\ Number(doc.version, 0, 1) /\ Valued(doc.version, 1) <= 1
  /\ doc.hash \in Hashes
  /\ Number(doc.count, 1, Missing) /\ PiecesFit(doc)
  /\ Number(doc.total, 0, Missing) /\ Number(doc.len, 1, Missing) /\ Number(doc.uploaded, 0, 0)

FromDict(doc) ==
  [hash |-> doc.hash, len |-> doc.len, count |-> doc.count, total |-> doc.total,
   pieces |-> PiecesOf(doc), uploaded |-> Valued(doc.uploaded, 0)]

-----------------------------------------------------------------------------
(* ResumeStore.  What reading a file comes to.                             *)

Holds(what) == what \notin {NotJson, NotUtf8, Missing}

\* load: "none", "state", a ResumeError, or another exception.
Loads(h) ==
  CASE h \notin Hashes -> "error"  \* path_for refuses the name
    [] files[h] = Missing -> "none"
    [] files[h] = NotUtf8 -> "raised"
    [] files[h] = NotJson -> "error"
    [] OTHER -> IF Accepts(files[h]) /\ files[h].hash = h THEN "state" ELSE "error"

\* The file is renamed, and nothing reads it again.
Quarantine(H) == files' = [n \in DOMAIN files |-> IF n \in H THEN Missing ELSE files[n]]

Names == Hashes \cup Foreign

\* Documents a file may come to hold: one field of a saved one is wrong.
Damaged(doc) ==
  UNION {{[doc EXCEPT ![f] = v] : v \in {Missing, Wrong} \cup Counts} :
           f \in {"version", "count", "total", "len", "uploaded"}}
    \cup {[doc EXCEPT !.pieces = v] : v \in {Missing, Wrong, <<0, 0>>, <<1, 0>>, <<-1>>, <<doc.count>>}}
    \cup {[doc EXCEPT !.hash = v] : v \in Hashes \cup {Missing, Wrong}}

ResumeInit ==
  /\ files = [n \in Names |-> Missing] 
  /\ held = [h \in Hashes |-> Missing] /\ kept = [h \in Hashes |-> Missing]
  /\ fatal = {} /\ saves = 0

\* A file is changed outside the client.
Touch(n) ==
  /\ saves < MaxSaves /\ saves' = saves + 1
  /\ \E what \in {NotJson, NotUtf8} \cup (IF Holds(files[n]) THEN Damaged(files[n]) ELSE {}) :
       files' = [files EXCEPT ![n] = what]
  /\ kept' = [h \in Hashes |-> IF h = n THEN Missing ELSE kept[h]]
  /\ UNCHANGED <<held, fatal>>

Begin(h) ==
  /\ held[h] = Missing
  /\ held' = [held EXCEPT ![h] = Fresh(h)]
  /\ UNCHANGED <<files, kept, fatal, saves>>

Turn(h, i) ==
  /\ held[h] # Missing /\ i < held[h].count
  /\ \E next \in {WithPiece(held[h], i), WithoutPiece(held[h], i)} :
       next # held[h] /\ held' = [held EXCEPT ![h] = next]
  /\ UNCHANGED <<files, kept, fatal, saves>>

Save(h) ==
  /\ held[h] # Missing /\ saves < MaxSaves /\ saves' = saves + 1
  /\ files' = [files EXCEPT ![h] = ToDict(held[h])]
  /\ kept' = [kept EXCEPT ![h] = held[h]]
  /\ UNCHANGED <<held, fatal>>

\* load_or_none, and what StorageManager.load_resume does with the state.
LoadOrNone(h) ==
  /\ held[h] = Missing
  /\ IF Loads(h) = "error" THEN Quarantine({h}) ELSE UNCHANGED files
  /\ held' = [held EXCEPT ![h] = IF Loads(h) = "state" /\ Matches(FromDict(files[h]), h)
                                 THEN FromDict(files[h]) ELSE Missing]
  /\ kept' = [kept EXCEPT ![h] = IF Loads(h) = "error" THEN Missing ELSE @]
  /\ fatal' = IF Loads(h) = "raised" THEN fatal \cup {"load_or_none"} ELSE fatal
  /\ UNCHANGED saves

\* load_all goes through the files in the order of their names, until one
\* raises what it does not expect: a name that is no hash does, and bytes that
\* are no text.  Nothing in the application calls it.
LoadAll ==
  LET there == {n \in Names : files[n] # Missing}
      unread == {n \in there : n \in Foreign \/ Loads(n) = "raised"}
      aways == {n \in there \cap Hashes : Loads(n) = "error"}
  IN \E reached \in SUBSET there :
       /\ unread = {} => reached = there
       /\ unread # {} => unread \cap reached = {}
       /\ Quarantine(aways \cap reached)
       /\ kept' = [h \in Hashes |-> IF h \in aways \cap reached THEN Missing ELSE kept[h]]
       /\ fatal' = IF unread # {} THEN fatal \cup {"load_all"} ELSE fatal
       /\ UNCHANGED <<held, saves>>

Discard(h) ==
  /\ files[h] # Missing
  /\ files' = [files EXCEPT ![h] = Missing]
  /\ kept' = [kept EXCEPT ![h] = Missing]
  /\ UNCHANGED <<held, fatal, saves>>

Forget(h) ==
  /\ held[h] # Missing /\ held' = [held EXCEPT ![h] = Missing]
  /\ UNCHANGED <<files, kept, fatal, saves>>

ResumeNext ==
  \/ \E n \in Names : Touch(n)
  \/ \E h \in Hashes :
       \/ Begin(h) \/ Save(h) \/ LoadOrNone(h) \/ Discard(h) \/ Forget(h)
       \/ \E i \in Counts : Turn(h, i)
  \/ LoadAll

ResumeSpec == ResumeInit /\ [][ResumeNext]_resumeVars

-----------------------------------------------------------------------------
\* What is adopted from a file, whatever was done to the file, passes the
\* checks of ResumeState and covers no more bytes than the torrent has, each
\* piece once.
HeldFitsTheTorrent ==
  \A h \in Hashes : held[h] # Missing =>
    /\ Sound(held[h]) /\ Matches(held[h], h)
    /\ CompletedBytes(held[h]) \in 0 .. Geometry[h].total

\* What was saved and left alone is what is loaded.
SavedIsLoaded ==
  \A h \in Hashes : kept[h] # Missing => Loads(h) = "state" /\ FromDict(files[h]) = kept[h]

\* "Corrupt state is never fatal", the module says of load_or_none.  A file of
\* bytes that are no text is: UnicodeDecodeError leaves read_text, load and
\* load_or_none, and the opening of the torrent fails.
CorruptIsNotFatal == "load_or_none" \notin fatal

\* "One bad file must not stop the other torrents from being restored", says
\* load_all.  A file of such bytes does, and one whose name is no hash.
OneBadFileCostsItself == "load_all" \notin fatal
=============================================================================
