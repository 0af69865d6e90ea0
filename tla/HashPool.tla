------------------------------ MODULE HashPool ------------------------------
(***************************************************************************)
(* Hashing off the event loop: PieceVerifier's pool of threads              *)
(* (storage/verify.py) under what StorageManager asks of it, which is the   *)
(* recheck of the pieces believed complete, batch by batch, the writes of   *)
(* pieces that arrive meanwhile, and the close at the end.                  *)
(*                                                                          *)
(* The loop submits, threads of the pool hash, reads and the shutdown run   *)
(* in threads of their own.  A pool that was shut takes no more work; what  *)
(* it has is still done.                                                    *)
(***************************************************************************)
EXTENDS Naturals, Sequences, FiniteSets, SequencesExt

CONSTANTS
  Pieces,   \* piece indices, numbers
  Workers,  \* DEFAULT_HASH_WORKERS
  Factor,   \* VERIFY_BATCH_FACTOR
  MaxPools, \* bound: pools that are made
  MaxBad    \* bound: pieces damaged on disk

PoolAssumption ==
  /\ IsFiniteSet(Pieces) /\ Pieces \subseteq Nat
  /\ {Workers, Factor, MaxPools} \subseteq Nat \ {0} /\ MaxBad \in Nat

VARIABLES
  disk,     \* what is on disk of each piece: "short", "bad" or "good"
  believed, \* StorageManager._completed
  check,    \* the recheck: [at, targets, batch, got, pool, valid, seen]
  writes,   \* the write of each piece: [at, data]
  inUse,    \* PieceVerifier._executor: 0 is None, else the number of the pool
  made,     \* pools made
  pools,    \* each pool: "open", "closing" (aclose waits for a thread) or "shut"
  jobs,     \* hashes submitted: [piece, by, data, pool, at]
  damaged   \* history: pieces damaged and not dropped since by a recheck;
            \* check.seen of them were read by this one when they were

poolVars == <<disk, believed, check, writes, inUse, made, pools, jobs, damaged>>

NoCheck == [at |-> "idle", targets |-> {}, batch |-> {}, got |-> <<>>, pool |-> 0, valid |-> {}, seen |-> {}]
NoWrite == [at |-> "idle", data |-> "good"]
BatchSize == Workers * Factor

HashInit ==
  /\ disk \in [Pieces -> {"short", "good"}]
  /\ believed = {i \in Pieces : disk[i] = "good"}
  /\ check = NoCheck /\ writes = [i \in Pieces |-> NoWrite]
  /\ inUse = 0 /\ made = 0 /\ pools = <<>> /\ jobs = {} /\ damaged = {}

-----------------------------------------------------------------------------
(* The pool.                                                               *)

\* _executor_or_create, and what it leaves behind.
Chosen == IF inUse = 0 THEN made + 1 ELSE inUse
MakePool ==
  /\ inUse' = Chosen
  /\ made' = IF inUse = 0 THEN made + 1 ELSE made
  /\ pools' = IF inUse = 0 THEN Append(pools, "open") ELSE pools
MayMake == inUse # 0 \/ made < MaxPools

Job(i, by, data, pool) == [piece |-> i, by |-> by, data |-> data, pool |-> pool, at |-> "queued"]
Finished(job) == [job EXCEPT !.at = "hashed"]
JobsOf(by) == {j \in jobs : j.by = by}

\* One of at most Workers threads takes a hash, which needs nobody else.
Hash(job) ==
  /\ job.at = "queued"
  /\ jobs' = (jobs \ {job}) \cup {Finished(job)}
  /\ UNCHANGED <<disk, believed, check, writes, inUse, made, pools, damaged>>

\* shutdown with cancel_futures=False: what the pool has stays in it.
Shut(p) == UNCHANGED jobs

Close ==
  /\ inUse # 0
  /\ inUse' = 0 /\ pools' = [pools EXCEPT ![inUse] = "closing"]
  /\ UNCHANGED <<disk, believed, check, writes, made, jobs, damaged>>

ClosedOff(p) ==
  /\ pools[p] = "closing"
  /\ pools' = [pools EXCEPT ![p] = "shut"]
  /\ Shut(p)
  /\ UNCHANGED <<disk, believed, check, writes, inUse, made, damaged>>

-----------------------------------------------------------------------------
(* The recheck.                                                            *)

\* The first pieces of a set, as many as a batch holds.
FirstOf(S) == {i \in S : Cardinality({k \in S : k < i}) < BatchSize}

Recheck ==
  /\ check.at = "idle" /\ believed # {}
  /\ check' = [NoCheck EXCEPT !.at = "reading", !.targets = believed, !.batch = FirstOf(believed)]
  /\ UNCHANGED <<disk, believed, writes, inUse, made, pools, jobs, damaged>>

\* Each piece of the batch is read in a thread.
ReadOne(i) ==
  /\ check.at = "reading" /\ i \in check.batch \ DOMAIN check.got
  /\ check' = [check EXCEPT !.got = [k \in DOMAIN @ \cup {i} |-> IF k = i THEN disk[i] ELSE @[k]],
                              !.seen = @ \cup ({i} \cap damaged)]
  /\ UNCHANGED <<disk, believed, writes, inUse, made, pools, jobs, damaged>>

\* A piece whose file is too short is not even hashed.
Hashable == {i \in DOMAIN check.got : check.got[i] # "short"}

\* verify_many: the pool is chosen now, the hashes are submitted one by one
\* when the tasks that gather makes get their turn.
ReadAll ==
  /\ check.at = "reading" /\ DOMAIN check.got = check.batch
  /\ IF Hashable = {}
     THEN check' = [check EXCEPT !.at = "judging"] /\ UNCHANGED <<inUse, made, pools>>
     ELSE /\ MayMake /\ MakePool
          /\ check' = [check EXCEPT !.at = "submitting", !.pool = Chosen]
  /\ UNCHANGED <<disk, believed, writes, jobs, damaged>>

\* A pool that was shut meanwhile raises, and the recheck ends with it: what
\* was believed stays believed.
SubmitHash(i) ==
  /\ check.at = "submitting"
  /\ i \in Hashable /\ \A j \in JobsOf("check") : j.piece # i
  /\ IF pools[check.pool] # "shut"
     THEN /\ jobs' = jobs \cup {Job(i, "check", check.got[i], check.pool)}
          /\ check' = IF Hashable = {j.piece : j \in JobsOf("check")} \cup {i}
                      THEN [check EXCEPT !.at = "judging"] ELSE check
     ELSE /\ jobs' = jobs \ JobsOf("check")
          /\ check' = NoCheck
  /\ UNCHANGED <<disk, believed, writes, inUse, made, pools, damaged>>

(* Faulty variant: pieces that were completed while it ran are dropped. *)
KeptOnly(valid) == valid

\* The pieces of the batch that passed: hashed, and found to match.
Passed == {j.piece : j \in {k \in JobsOf("check") : k.data = "good"}}

\* What is known after the last batch.
StillBelieved(valid) == valid \cup (believed \ check.targets)

\* The answers of a batch are in; the next one is read, or it was the last.
Judge ==
  LET valid == check.valid \cup Passed
      rest == {i \in check.targets : \A k \in check.batch : i > k}
  IN /\ check.at = "judging" /\ \A j \in JobsOf("check") : j.at = "hashed"
     /\ jobs' = jobs \ JobsOf("check")
     /\ IF rest # {}
        THEN /\ check' = [check EXCEPT !.at = "reading", !.batch = FirstOf(rest), !.got = <<>>, !.valid = valid]
             /\ UNCHANGED <<believed, damaged>>
        ELSE check' = NoCheck /\ believed' = StillBelieved(valid) /\ damaged' = damaged \ check.seen
     /\ UNCHANGED <<disk, writes, inUse, made, pools>>

-----------------------------------------------------------------------------
(* A piece arrives and is written.                                         *)

WriteBegin(i, data) ==
  /\ writes[i].at = "idle" /\ i \notin believed /\ MayMake
  /\ MakePool
  /\ writes' = [writes EXCEPT ![i] = [at |-> "hashing", data |-> data]]
  /\ jobs' = jobs \cup {Job(i, "write", data, Chosen)}
  /\ UNCHANGED <<disk, believed, check, damaged>>

\* A piece that does not match is refused before it touches the disk.
WriteHashed(job) ==
  LET i == job.piece IN
  /\ job.by = "write" /\ job.at = "hashed"
  /\ jobs' = jobs \ {job}
  /\ writes' = [writes EXCEPT ![i] = IF job.data = "good" THEN [@ EXCEPT !.at = "writing"] ELSE NoWrite]
  /\ UNCHANGED <<disk, believed, check, inUse, made, pools, damaged>>

WriteEnds(i) ==
  /\ writes[i].at = "writing"
  /\ disk' = [disk EXCEPT ![i] = "good"] /\ believed' = believed \cup {i}
  /\ writes' = [writes EXCEPT ![i] = NoWrite]
  /\ UNCHANGED <<check, inUse, made, pools, jobs, damaged>>

\* The files are touched outside the client: spoilt, or cut short.
Damage(i) ==
  /\ i \in believed /\ i \notin damaged /\ Cardinality(damaged) < MaxBad
  /\ \E what \in {"bad", "short"} : disk' = [disk EXCEPT ![i] = what]
  /\ damaged' = damaged \cup {i}
  /\ UNCHANGED <<believed, check, writes, inUse, made, pools, jobs>>

-----------------------------------------------------------------------------
Checks == \/ \E i \in check.batch : ReadOne(i) \/ SubmitHash(i)
          \/ ReadAll \/ Judge
Answers == \/ \E job \in jobs : Hash(job) \/ WriteHashed(job)
           \/ \E i \in Pieces : WriteEnds(i)
           \/ \E p \in DOMAIN pools : ClosedOff(p)

HashNext ==
  \/ Recheck \/ Checks \/ Answers \/ Close
  \/ \E i \in Pieces : Damage(i) \/ \E data \in {"good", "bad"} : WriteBegin(i, data)

HashSpec == HashInit /\ [][HashNext]_poolVars

-----------------------------------------------------------------------------
HashTypeOK ==
  /\ disk \in [Pieces -> {"short", "bad", "good"}]
  /\ believed \subseteq Pieces /\ damaged \subseteq Pieces
  /\ check.targets \subseteq Pieces /\ DOMAIN check.got \subseteq check.batch
  /\ \A i \in Pieces : writes[i].at \in {"idle", "hashing", "writing"}
  /\ inUse \in 0 .. made /\ Len(pools) = made /\ made <= MaxPools
  /\ \A j \in jobs : j.piece \in Pieces /\ j.pool \in 1 .. made

\* A piece believed complete is on disk and good, unless the files were
\* touched after the last recheck that ran to its end read it: a recheck that
\* ends believes nothing it has not read, hashed and found good.
BelievedIsOnDisk == \A i \in believed : disk[i] = "good" \/ i \in damaged

\* Progress made while a recheck runs is not undone by it: the piece that was
\* written is still believed complete when the recheck is over.
KeepsWritten == \A i \in believed \ believed' : i \in check.targets

\* Whoever waits for a hash has it in some pool, shut or not: a wait that a
\* close left without an answer would never end.
WaitIsServed ==
  /\ \A i \in Pieces : writes[i].at = "hashing" => \E j \in JobsOf("write") : j.piece = i
  /\ check.at = "judging" => Hashable = {j.piece : j \in JobsOf("check")}
=============================================================================
