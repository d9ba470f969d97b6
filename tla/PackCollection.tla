---------------------------- MODULE PackCollection ----------------------------
(***************************************************************************)
(* The pack collection of a repository (breezy/bzr/pack_repo.py) shared by *)
(* several processes.                                                      *)
(*                                                                         *)
(* A repository is the set of packs that its pack-names file lists.  A     *)
(* process adds or combines packs without any lock, and takes the names    *)
(* mutex only to merge its changes into pack-names; afterwards it moves    *)
(* the packs it has replaced to obsolete_packs.  Readers keep the list     *)
(* they read last and reload it when a pack they use is gone.              *)
(*                                                                         *)
(* A pack is the set of revisions it holds and a generation, which stands  *)
(* for everything else its name, the hash of its content, depends on.      *)
(***************************************************************************)
EXTENDS Naturals, FiniteSets

CONSTANTS
  Proc,      \* processes that have the repository open
  Rev,       \* revisions
  Gens,      \* generations 1..Gens of a pack (bounds the model only)
  MaxPacks,  \* packs a repository may have before autopack combines some
  Scenarios, \* what may happen in a behaviour: the processes whose user runs the
             \* pack command (packers), and whether processes may die and
             \* lock_names may time out (faulty)
  Collide,   \* repacking the same revisions may give the same name again
  None

Pack == [revs : (SUBSET Rev) \ {{}}, gen : 1..Gens]

Revs(S) == UNION {n.revs : n \in S}

ASSUME PackAssumption ==
  /\ Gens \in Nat
  /\ MaxPacks \in Nat \ {0}
  /\ Collide \in BOOLEAN
  /\ Scenarios \subseteq [packers : SUBSET Proc, faulty : BOOLEAN]
  /\ None \notin Proc

VARIABLES
  mode,      \* the scenario of this behaviour (constant)
  names,     \* the pack-names file
  packs,     \* packs whose files are in packs/ and indices/
  obsolete,  \* packs whose files are in obsolete_packs/
  mutex,     \* who has the write lock of the control files (lock_names)
  pc,        \* where each process is
  mem,       \* RepositoryPackCollection._names
  load,      \* RepositoryPackCollection._packs_at_load
  src,       \* the packs being combined, to be obsoleted afterwards
  clear,     \* _save_pack_names is called with clear_obsolete_packs
  merged,    \* disk_nodes computed by _diff_pack_names
  gone,      \* the packs _obsolete_packs has still to move away
  job,       \* what runs: commit_write_group or pack
  cur,       \* the revision being committed
  ret        \* how the last operation of the process ended

disk   == <<names, packs, obsolete>>
memory == <<mem, load>>
locals == <<src, clear, merged, gone, job, cur>>
vars   == <<mode, disk, mutex, pc, memory, locals, ret>>

-----------------------------------------------------------------------------
\* Helpers.

Goto(p, point) == pc' = [pc EXCEPT ![p] = point]

\* The local variables of the operation p was in are gone.
DropLocals(p) ==
  /\ src' = [src EXCEPT ![p] = {}]
  /\ clear' = [clear EXCEPT ![p] = FALSE]
  /\ merged' = [merged EXCEPT ![p] = {}]
  /\ gone' = [gone EXCEPT ![p] = {}]
  /\ job' = [job EXCEPT ![p] = "none"]
  /\ cur' = [cur EXCEPT ![p] = None]

\* The operation p is in ends with r.
Return(p, r) ==
  /\ Goto(p, "open")
  /\ ret' = [ret EXCEPT ![p] = r]
  /\ DropLocals(p)

\* Nothing on disk or in memory refers to n.
Fresh(n) ==
  /\ n \notin names \cup packs \cup obsolete
  /\ \A q \in Proc : n \notin mem[q] \cup load[q] \cup src[q] \cup merged[q] \cup gone[q]

\* The names NewPack.finish may give to a combined pack of the revisions R: the
\* md5 of the content, which another packer may have produced as well.
NewNames(R) == {n \in Pack : n.revs = R /\ (Fresh(n) \/ Collide)}

\* Mutant: the list in memory is written as it is.
OverwriteNames(p) == mem[p]

\* _diff_pack_names: the list on disk, without what p removed and with what p
\* added since it last read the list.
DiffPackNames(p) == (names \ (load[p] \ mem[p])) \cup (mem[p] \ load[p])

\* reload_pack_names: p merges its own changes into the list on disk.
ReloadPackNames(p) ==
  /\ mem' = [mem EXCEPT ![p] = DiffPackNames(p)]
  /\ load' = [load EXCEPT ![p] = names]

\* reload_pack_names reports a change.
ReloadChanges(p) == DiffPackNames(p) # mem[p]

\* Mutant: a missing pack is an error at once.
NeverReload(p, point) == Return(p, "NoSuchFile") /\ UNCHANGED memory

\* A pack p uses is not there (reload_or_raise, _restart_autopack,
\* _restart_pack_operations): reload and go back to point, unless the reload
\* brings nothing new.
RetryWithNewPacks(p, point) ==
  /\ ReloadPackNames(p)
  /\ IF ReloadChanges(p)
     THEN Goto(p, point) /\ UNCHANGED <<locals, ret>>
     ELSE Return(p, "NoSuchFile")

-----------------------------------------------------------------------------
\* Opening, reading and closing.

\* lock_read or lock_write of the repository, which refreshes the list.
Lock(p) ==
  /\ pc[p] = "idle"
  /\ ReloadPackNames(p)
  /\ Return(p, "ok")
  /\ UNCHANGED <<disk, mutex>>

\* unlock; the list stays in memory for the next lock, which merges it with the
\* list on disk: only what p itself added or removed matters from here on.
Unlock(p) ==
  /\ pc[p] = "open"
  /\ mem' = [mem EXCEPT ![p] = mem[p] \ load[p]]
  /\ load' = [load EXCEPT ![p] = load[p] \ mem[p]]
  /\ Goto(p, "idle")
  /\ UNCHANGED <<disk, mutex, locals, ret>>

\* get_raw_records from a pack that has been moved away.
ReadMissing(p) ==
  /\ pc[p] = "open"
  /\ ~(mem[p] \subseteq packs)
  /\ RetryWithNewPacks(p, "open")
  /\ UNCHANGED <<disk, mutex>>

-----------------------------------------------------------------------------
\* Adding and combining packs.

\* The pack of a write group that inserts r; its content is like no other.
NewPack(r) == {n \in Pack : n.revs = {r} /\ Fresh(n)}

\* _commit_write_group: finish and allocate the new pack of a write group.
CommitWriteGroup(p) ==
  /\ pc[p] = "open"
  /\ \E r \in Rev \ Revs(mem[p]) : \E n \in NewPack(r) :
       /\ packs' = packs \cup {n}
       /\ mem' = [mem EXCEPT ![p] = @ \cup {n}]
       /\ cur' = [cur EXCEPT ![p] = r]
  /\ job' = [job EXCEPT ![p] = "commit"]
  /\ Goto(p, "plan")
  /\ UNCHANGED <<names, obsolete, mutex, load, src, clear, merged, gone, ret>>

\* pack(), in a format that compresses while packing (_already_packed).
PackRepository(p) ==
  /\ p \in mode.packers
  /\ pc[p] = "open"
  /\ job' = [job EXCEPT ![p] = "pack"]
  /\ Goto(p, "plan")
  /\ UNCHANGED <<disk, mutex, memory, src, clear, merged, gone, cur, ret>>

\* The plans autopack or pack may make: autopack combines nothing or at least
\* two packs (plan_autopack_combinations); pack takes all, or those of a hint.
Plans(p) ==
  IF job[p] = "pack" THEN SUBSET mem[p]
  ELSE {S \in SUBSET mem[p] : Cardinality(S) # 1}

\* _do_autopack, _try_pack_operations: choose the packs to combine.  Below the
\* limit autopack does nothing and the commit only saves the names.
Plan(p) ==
  /\ pc[p] = "plan"
  /\ IF job[p] = "commit" /\ Cardinality(mem[p]) <= MaxPacks
     THEN /\ src' = [src EXCEPT ![p] = {}]
          /\ clear' = [clear EXCEPT ![p] = FALSE]
          /\ Goto(p, "lock")
     ELSE /\ \E S \in Plans(p) :
               /\ src' = [src EXCEPT ![p] = S]
               /\ Goto(p, IF S = {} THEN "lock" ELSE "copy")
          /\ clear' = [clear EXCEPT ![p] = TRUE]
  /\ UNCHANGED <<disk, mutex, memory, merged, gone, job, cur, ret>>

\* Packer.pack reads all the packs it combines.
CopyPacks(p) ==
  /\ pc[p] = "copy"
  /\ IF src[p] \subseteq packs
     THEN Goto(p, "finish") /\ UNCHANGED <<memory, locals, ret>>
     ELSE RetryWithNewPacks(p, "plan")
  /\ UNCHANGED <<disk, mutex>>

\* pack() ends; it may have been asked to clean up obsolete_packs.
CleanObsolete(p) == obsolete' \in {obsolete} \cup (IF job[p] = "pack" THEN {{}} ELSE {})

\* The packer leaves a single pack alone whose content it cannot improve.
FinishUnchanged(p) ==
  /\ pc[p] = "finish"
  /\ Cardinality(src[p]) = 1
  /\ CleanObsolete(p)
  /\ Return(p, "ok")
  /\ UNCHANGED <<names, packs, mutex, memory>>

\* Mutant: the packs that were combined stay in memory.
KeepSources(p, n) == mem[p] \cup {n}

\* allocate the new pack and _remove_pack_from_memory the old ones.
ReplaceSources(p, n) == (mem[p] \cup {n}) \ src[p]

\* Finish the combined pack and put it in place of its sources.  A name that
\* the collection has already is refused, after the file was moved into place.
FinishPack(p) ==
  /\ pc[p] = "finish"
  /\ \E n \in NewNames(Revs(src[p])) :
       /\ src[p] # {n}
       /\ packs' = packs \cup {n}
       /\ IF n \in mem[p]
          THEN Return(p, "AlreadyExists") /\ UNCHANGED mem
          ELSE /\ mem' = [mem EXCEPT ![p] = ReplaceSources(p, n)]
               /\ Goto(p, "lock")
               /\ UNCHANGED <<locals, ret>>
  /\ UNCHANGED <<names, obsolete, mutex, load>>

-----------------------------------------------------------------------------
\* _save_pack_names.

\* Mutant: the mutex is taken whoever has it.
TakeMutex(p) == TRUE

\* lock_names can succeed.
MutexFree(p) == mutex = None

\* lock_names().
LockNames(p) ==
  /\ pc[p] = "lock"
  /\ MutexFree(p)
  /\ mutex' = p
  /\ Goto(p, "diff")
  /\ UNCHANGED <<disk, memory, locals, ret>>

\* lock_names() times out: the operation fails and memory stays as it is.
LockNamesFails(p) ==
  /\ pc[p] = "lock"
  /\ mode.faulty
  /\ mutex # None
  /\ Return(p, "LockContention")
  /\ UNCHANGED <<disk, mutex, memory>>

\* Read pack-names and merge.
ReadNames(p) ==
  /\ pc[p] = "diff"
  /\ merged' = [merged EXCEPT ![p] = DiffPackNames(p)]
  /\ Goto(p, "put")
  /\ UNCHANGED <<disk, mutex, memory, src, clear, gone, job, cur, ret>>

\* Write pack-names.
PutNames(p) ==
  /\ pc[p] = "put"
  /\ names' = merged[p]
  /\ load' = [load EXCEPT ![p] = merged[p]]
  /\ Goto(p, IF clear[p] THEN "clear" ELSE "unlock")
  /\ UNCHANGED <<packs, obsolete, mutex, mem, locals, ret>>

\* Mutant: nothing is moved away.
MoveNothing(p) == {}

\* The packs to move to obsolete_packs; the ones found there already are not.
ToMove(p) == src[p] \ obsolete

\* _clear_obsolete_packs empties obsolete_packs except for the packs that are
\* about to be moved there.
ClearObsolete(p) ==
  /\ pc[p] = "clear"
  /\ obsolete' = obsolete \cap src[p]
  /\ gone' = [gone EXCEPT ![p] = ToMove(p)]
  /\ Goto(p, "unlock")
  /\ UNCHANGED <<names, packs, mutex, memory, src, clear, merged, job, cur, ret>>

\* Release the mutex and bring memory in line with what was written.
UnlockNames(p) ==
  /\ pc[p] = "unlock"
  /\ mutex' = None
  /\ mem' = [mem EXCEPT ![p] = merged[p]]
  /\ Goto(p, "obsolete")
  /\ UNCHANGED <<disk, load, locals, ret>>

\* _obsolete_packs moves one pack; a pack that is not there is skipped.
ObsoletePack(p) ==
  /\ pc[p] = "obsolete"
  /\ \E n \in gone[p] :
       /\ gone' = [gone EXCEPT ![p] = @ \ {n}]
       /\ packs' = packs \ {n}
       /\ obsolete' = IF n \in packs THEN obsolete \cup {n} ELSE obsolete
  /\ UNCHANGED <<names, mutex, pc, memory, src, clear, merged, job, cur, ret>>

\* The commit or pack is done.
Finish(p) ==
  /\ pc[p] = "obsolete"
  /\ gone[p] = {}
  /\ CleanObsolete(p)
  /\ Return(p, "ok")
  /\ UNCHANGED <<names, packs, mutex, memory>>

-----------------------------------------------------------------------------
\* The process dies; its memory is gone and a lock it has is broken.
Crash(p) ==
  /\ mode.faulty
  /\ mutex' = IF mutex = p THEN None ELSE mutex
  /\ mem' = [mem EXCEPT ![p] = {}]
  /\ load' = [load EXCEPT ![p] = {}]
  /\ DropLocals(p)
  /\ Goto(p, "idle")
  /\ ret' = [ret EXCEPT ![p] = "ok"]
  /\ UNCHANGED disk

Init ==
  /\ mode \in Scenarios
  /\ names = {}
  /\ packs = {}
  /\ obsolete = {}
  /\ mutex = None
  /\ pc = [p \in Proc |-> "idle"]
  /\ mem = [p \in Proc |-> {}]
  /\ load = [p \in Proc |-> {}]
  /\ src = [p \in Proc |-> {}]
  /\ clear = [p \in Proc |-> FALSE]
  /\ merged = [p \in Proc |-> {}]
  /\ gone = [p \in Proc |-> {}]
  /\ job = [p \in Proc |-> "none"]
  /\ cur = [p \in Proc |-> None]
  /\ ret = [p \in Proc |-> "ok"]

Step(p) ==
  \/ Lock(p) \/ Unlock(p) \/ ReadMissing(p)
  \/ CommitWriteGroup(p) \/ PackRepository(p) \/ Plan(p) \/ CopyPacks(p)
  \/ FinishUnchanged(p) \/ FinishPack(p)
  \/ LockNames(p) \/ LockNamesFails(p) \/ ReadNames(p) \/ PutNames(p)
  \/ ClearObsolete(p) \/ UnlockNames(p) \/ ObsoletePack(p) \/ Finish(p)
  \/ Crash(p)

Next == (\E p \in Proc : Step(p)) /\ UNCHANGED mode

Spec == Init /\ [][Next]_vars

-----------------------------------------------------------------------------
\* Properties.

Points == {"idle", "open", "plan", "copy", "finish", "lock", "diff", "put", "clear",
           "unlock", "obsolete"}

\* Every variable has its type (RepositoryPackCollection.__init__ and reset).
TypeOK ==
  /\ mode \in Scenarios
  /\ names \subseteq Pack
  /\ packs \subseteq Pack
  /\ obsolete \subseteq Pack
  /\ mutex \in Proc \cup {None}
  /\ pc \in [Proc -> Points]
  /\ mem \in [Proc -> SUBSET Pack]
  /\ load \in [Proc -> SUBSET Pack]
  /\ src \in [Proc -> SUBSET Pack]
  /\ clear \in [Proc -> BOOLEAN]
  /\ merged \in [Proc -> SUBSET Pack]
  /\ gone \in [Proc -> SUBSET Pack]
  /\ job \in [Proc -> {"none", "commit", "pack"}]
  /\ cur \in [Proc -> Rev \cup {None}]
  /\ ret \in [Proc -> {"ok", "NoSuchFile", "LockContention", "AlreadyExists"}]

\* Every pack that pack-names lists is in packs/, however writers, packers,
\* crashes and failed saves interleave (_save_pack_names, _obsolete_packs).
NamesBacked == names \subseteq packs

\* A revision that can be reached through pack-names stays reachable: no
\* concurrent save drops it and no packer moves its last pack away
\* (_diff_pack_names, _obsolete_packs).
ReachableStays == [][Revs(names \cap packs) \subseteq Revs(names' \cap packs')]_vars

\* A reader or packer whose packs were moved away by others finds what it needs
\* after a reload and never ends in a NoSuchFile error (reload_or_raise,
\* _restart_autopack).
MissingPackIsRetried == \A p \in Proc : ret[p] # "NoSuchFile"

\* When commit_write_group returns, its revision can be reached through the
\* list on disk, although others may have repacked it by then.
CommitIsPublished ==
  [][\A p \in Proc : Finish(p) /\ job[p] = "commit" => cur[p] \in Revs(names \cap packs)]_vars

\* Once every operation has ended, and unless one was interrupted, the packs
\* directory holds exactly what pack-names lists (doc/developers/packrepo.txt):
\* concurrent repacks leave no pack behind.
NothingLeftBehind ==
  ~mode.faulty /\ (\A p \in Proc : pc[p] \in {"idle", "open"}) => packs = names
=============================================================================
