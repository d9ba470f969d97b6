# A TLA+ model of how Breezy keeps history and working trees intact

Breezy keeps the history of a project in repositories that several processes,
often on several machines and over transports with few guarantees, share
without a server, and changes working trees file by file.  What keeps all this
intact is a moderate amount of control: a lock made of a directory, the nesting
of locks inside a process, the protocol by which packs are added, combined and
removed, the order in which a commit updates master, branch and tree, the
locks and the saving of the dirstate, the renames of a tree transform and their
undoing, and the retries of the smart client.  This directory models that
control, checks it with TLC and proves its main properties with TLAPS.

To run it: `tlc -config X.cfg M` for a run, `tlapm M.tla` for a module of
proofs.  `PROJECT.json` lists the runs, the lines each definition models, the
hazards, the findings and the theorems.

## 1. The system

| Component | State | Operations | Hard behaviour | What makes it correct |
|---|---|---|---|---|
| LockDir (`breezy/lockdir.py`) | the directory `held` with an `info` file, pending directories; in memory `_lock_held`, `nonce`, `_locked_via_token`, `_fake_read_lock` | `lock_write`, `wait_lock`, `unlock`, `lock_read`, `break_lock`, `force_break`, tokens | interleaving between any two transport calls, renames that lie, dead holders, lost info files | at most one holder; nobody loses a lock without a break; calls end |
| Nested locks (`bzr/lockable_files.py`, `bzr/branch.py`, `PackRepository`) | counts, modes, transactions, write group | `lock_read`, `lock_write`, `unlock`, write groups | a failure half way through a nested call; unlock with an open write group; broken locks | counts are what callers hold, but for what a failure leaves |
| Pack collection (`bzr/pack_repo.py`) | `pack-names`, `packs/`, `obsolete_packs/`; in memory `_names`, `_packs_at_load` | commit of a write group, autopack, pack, reload, clean-up | writers without a common lock, stale lists, deaths in the middle of a save | every listed pack exists; no revision is lost; vanished packs are found again |
| Autopack plan (`bzr/pack_repo.py`) | sizes of the packs | choice of the packs to combine | off-by-one at bucket borders | no exception; the limit is kept |
| Commit, update, pull, uncommit (`commit.py`, `uncommit.py`, `branch.py`, `bzr/branch.py`, `bzr/workingtree.py`) | `last-revision` of master and branches, parents of the trees | each updates master, branch and tree in turn | other clients between two updates, interruptions | nothing enters a bound branch before its master; no commit is lost |
| Tree transform (`transform.py`, `bzr/transform.py`) | tree, limbo, pending deletions, inventory | `apply`, rollback, `finalize` | a failure at any system call | all or nothing |
| DirState, OS locks (`bzr/dirstate.py`, `bzr/workingtree_4.py`, `crates/transport/src/fcntl-locks.rs`) | state file, dirstate in memory, fcntl locks, tables of open locks | lock, read, change, `save`, unlock | readers that save; locks lost by closing a descriptor; failing saves; deaths | writers exclude each other; the file is what was saved; a session has its locks until it is over |
| Smart client (`bzr/smart/client.py`, `medium.py`, `message.py`, `protocol.py`) | agreed protocol, current request | calls, retries, negotiation | resets and other errors at any moment, requests carried out late | what must not be repeated is not; the medium stays usable |
| Configuration stores (`config.py`) | dirty sections | `save_changes` | reload before the lock | no lost update |
| Suspended write groups, graph algorithms, merges, caches, formats, transports, foreign branches, commands | | | | |

How they interact.  A command locks a working tree, which locks its branch,
which locks its repository.  Tree, branch and repository have control files
(`LockableFiles`), each over a `LockDir`; a pack repository's write lock is
only a count in memory, and the `LockDir` of its control files is taken just
for the moment in which `pack-names` is rewritten (`lock_names`).  A repository
may be stacked on others, which it read-locks with itself.  A commit builds its
revision in a write group; committing the group adds a pack, may start
autopack, and saves `pack-names`; then the `last-revision` of the master, that
of the branch and the dirstate of the tree are updated, in this order.  Merge,
update and revert change the files by a tree transform, under the tree's lock.
Branches and repositories at other places are reached through the smart client.
Processes meet only on disk: in the lock directories, `pack-names`, the pack
files, `last-revision` and the dirstate.

The models compose by what they assume of each other: `PackCollection` takes
the names mutex, `BoundCommit` the master's lock and `DirState` the tree's lock
for the atomic lock that `LockDir` is shown to be as long as nobody breaks or
steals it; `PackCollection` takes from `AutopackPlan` that a plan is empty or
has at least two packs.

## 2. The modules

### LockDir

`LockDir.tla` models one lock used by the processes `Proc`, each with one
`LockDir` object.  Every call on the transport is one step, with the
assignments that follow it: `CreatePendingDir`, `PutInfo`, `RenamePending`,
`VerifyLock` are `_attempt_lock`; `HandleLockContention`, `Poll` and `GiveUp`
the contended path and `wait_lock`; `Unlock`, `RenameReleasing`,
`DeleteReleasing` are `unlock`; the `ForceBreak...` actions are `force_break`
and `force_break_corrupt`.  `Crash` may strike between any two steps, and with
`InfoLoss` it may leave the info file empty or corrupt.  With `MovesInto` a
rename onto an existing directory either fails or moves the pending directory
into it and reports success, the behaviour `_attempt_lock` reads the info back
for.  Variables are named after the attributes of the class; `user` is what the
caller thinks it has, `robbed` a history variable.  An attempt draws a nonce
that nothing refers to any more, which stands for a random one.

Left out: the creation of the lock's base directory by `create()` (it exists
initially), reuse of a pid by a new process, the content of the info file
besides nonce, host, user and pid, hooks and messages.

### LockNesting

`LockNesting.tla` models the objects of one process: a branch, its repository,
the repository below it.  A call is one step, an operator from the state of the
objects (a record) to the next state, so that `BranchLockWrite` is written as
the code is, by calling `RepoLockWrite` and then `FilesLockWrite` and undoing
the first when the second fails.  The `LockDir` of the branch is reduced to who
has it; others take, release and break it between calls.  `held` is a ghost:
the locks the caller has got and has to give back.  Callers are disciplined:
they unlock what they have locked, once.  Transactions are compared by
identity in the code and by number here.  A call is given the set of the steps
that fail in it: saving the configuration, aborting a write group and releasing
the `LockDir` in `unlock`, whose errors `only_raises` discards, and in the first
lock of a repository locking those below and reading `pack-names`, which come
after the count.  `faults`, a ghost, counts them, and the write groups that
`unlock` found open.

Left out: lock tokens and `leave_lock_in_place` (tokens are in `LockDir`),
`TransportLock`, the working tree above the branch (in `DirState`),
`CountedLock` (created by `LockableFiles` and never used).

### PackCollection

`PackCollection.tla` models the repository shared by processes.  A pack is the
set of its revisions and a generation that stands for the rest of its content.
`mem` and `load` are `_names` and `_packs_at_load`; `DiffPackNames` is the
three-way merge of `_diff_pack_names`.  `CommitWriteGroup` finishes and
allocates a pack; `Plan`, `CopyPacks`, `FinishPack` are autopack or pack;
`LockNames`, `ReadNames`, `PutNames`, `ClearObsolete`, `UnlockNames` are
`_save_pack_names`; `ObsoletePack` moves one pack away; `ReadMissing` and the
failing branch of `CopyPacks` are the reload after a pack has vanished.  `mode`
is the scenario of a behaviour: who runs the pack command, and whether
processes die and `lock_names` times out (`Crash`, `LockNamesFails`).
`lock_names` is an atomic mutex here: `LockDir` shows when it is one.
`MaxPacks` stands for the limit that `AutopackPlan` models, and `Plans` for its
result; that a plan is empty or has at least two packs is what `PlanSucceeds`
shows.

Left out: suspended and resumed write groups, the content of packs and indices
and the combined index over them.  A process that unlocks keeps its list; only
its own unsaved changes matter at the next lock, which merges them, so `Unlock`
drops the rest.  A process has one reader, so a reload that another reader of
the same process has made already (`reload_occurred`) does not occur.
`_clear_obsolete_packs` does not fail: it passes over files it cannot delete and
a directory that is not there, but any other error of `list_dir` would leave
`_packs_at_load` at the merged list and `_names` as it was, so that the next save
of the same object takes what others have added for deleted
(`pack_repo.py:1628-1638`).

### AutopackPlan

`AutopackPlan.tla` is `_do_autopack` and `plan_autopack_combinations`, one step
per iteration, over the numbers of revisions in the packs.  The exceptions the
code could raise (an index beyond the distribution, the assertion against a
plan for a single pack) are values of `err`.  Packs may hold no revision, may
arrive several at a time, and may share revisions, so that the combined pack is
smaller than the sum.  Packs are kept in the order in which the code sorts them,
largest first: a new one goes to its place (`WithPack`), and those without
revisions, which autopack leaves alone, come last (`NonEmpty`,
`WithoutRevisions`).  `grows`, chosen initially from `Scenarios`, says which
packs arrive and when; `AutopackPlanMC.tla` defines a mixed scenario and one of
commits of one revision each.

### BoundCommit

`BoundCommit.tla` models clients with a branch, bound to a common master or
not, and a working tree.  `master` and `tip` are `last-revision` files with
their numbers, `tree` the parents of the working trees; the revision graph is
kept with the ancestry and the left-hand history of each revision.  Each update
of a file is one step: `CommitBegin` and `CommitPrepare` are the checks of
`Commit._commit` before and under the master's lock, `CommitMaster`,
`CommitLocal` and `CommitTree` the updates of `_update_branches` and of the
tree; `UpdateBranch`/`UpdateTree` are `update`, `PullMaster`/`PullLocal`/
`PullTree` a pull, the `Uncommit...` actions `uncommit`.  `Interrupted` ends an
operation between two updates.  `mode` says whether interruptions happen, and
whether the master has `append_revisions_only`.  `work` is a ghost: the finished
commits that nobody has taken back.  Bases and pending merges follow
`set_parent_ids` (`Parents`): only heads are kept, and a tree without a basis
takes its first pending merge for it.

Left out: tags, hooks, push, pull with `--overwrite`, uncommit of several
revisions, the contents of trees (a merge has conflicts or not, by choice),
foreign branches.  The fetch into the repository is atomic here, as
`PackCollection` shows a commit of a write group to be.

### TreeTransform and AtomicTransform

`TreeTransform.tla` models `apply` with every rename, deletion and write as one
step that may fail.  An item is a file or a directory; a layout places each in
a directory or nowhere.  `old` and `new` are the layouts before and after,
`loc` is the disk, with the directories limbo and pending-deletion; `limbo` and
`past` are `_limbo_files` and `past_renames`.  `Create` makes a new item in
limbo, possibly inside a directory already made there if its name is free
(`LimboPlace`); `Check`
is the check of `apply` for duplicates, loops and missing parents; `TakeOut`
and `MoveIn` are one round of `_apply_removals` and `_apply_insertions`;
`Delete` is one round of `apply_deletions`, `ApplyInventory` the last step;
`Rollback` undoes one rename, `Finalize` deletes one item of limbo.  `Leads`
says that a path still leads to an item, as directories move with their
contents.

`AtomicTransform.tla` is what a transform promises to whoever locks the tree
next: files and inventory have both changed as wanted, or neither has; only if
clearing up fails as well may the files be anything.  `TransformIsAtomic`
(`Abstract!ASpec`) states that `TreeTransform` implements it: the abstract
`files` are what is visible in the tree once it is unlocked and the old layout
until then, so that `Unlock` is the atomic step and all else stutters.

Left out: the resolution of conflicts before `apply`, versioning and
executability, orphans, renames within limbo, links, previews, git transforms,
the `post_transform` hooks.

### DirState

`DirState.tla` models processes with one working tree object each, over one
dirstate file.  `os` is the lock the system has for a process, `reads` and
`writing` the tables `OPEN_READ_LOCKS` and `OPEN_WRITE_LOCKS`, `token` the lock
the `DirState` object thinks it has; `disk` is the file in two parts, since
`save` writes in place and `_read_header` and `_read_dirblocks` read separately.
`LockTree` and `LockWrite` are `_lock_self_write`; `ReadHeader`, `ReadBlocks`,
`Modify`, `HashChanged`, `Abort` what happens under a lock; `Close` and
`TemporaryWriteLock` begin `save` inside `unlock`, `WriteHeader` and
`WriteBlocks` write; `Unlock` and `UnlockTree` give the locks back.
`SaveFails` is an error before, between or after the writes: `save` gives back
only a temporary lock, `unlock` ends with the error and gives back none
(`workingtree_4.py:1273`), and the tree is still locked and its memory modified.
In that state ("failed") the tree may be unlocked again, which saves again, or
the error ends the process.  `UnlockTreeFails` is an error of `LockDir.unlock`,
which is discarded.  `Exit`, `Panic` and `Die` end a process, which a new one
follows, with empty tables and no locks of the system; the tree's lock of a
process that ended in a session stays until `BreakLock`.  Three variables are
ghosts: `saved`, the changes that were written to the end; `torn`, that a
process has ended with the file half written; `left`, the processes that have
left the tree's lock behind.  `mode.hash` says whether readers save new hashes
(`worth_saving_limit`), `mode.dies` and `mode.fails` what can go wrong.

Left out: the format of the file and the operations on its entries, several
dirstate objects of one process, strict locks, Windows.

### SmartClient

`SmartClient.tla` models a client that makes one call after the other over a
stream medium, and a server.  `Begin` is `call_and_read_response` up to
`get_request`; `Send`, `SendStream` and `SendReset` are `_send`; `ReadResponse`,
`ReadReset` and `ReadMarker` are `_call` and
`_call_determining_protocol_version`; `ReadBody` and `BodyReset` are what the
caller does with the response handler.  `SendFails`, `StreamFails` and
`ReadFails` are the errors that are no resets and that nobody handles: no
connection can be made, iterating the body stream fails, a system call fails
otherwise.  `Serve` is the server: it carries a request out once it has the
arguments, without waiting for a body stream (`_args_received`); `ServeLate`,
which is external, does so with one left over from a connection that is gone.
`kind` follows the classes of `request_handlers`: what is read,
idempotent, semi-idempotent, semi-idempotent on files, a stream, or mutating.

Left out: HTTP media, `hello` and `_remote_version_is_before`, encodings, the
`noretry` debug flag.  A request without a body stream, and the arguments of one
with a stream, are sent by one system call: if that is reset, the server does
not have them (`_send` says so in its comment).

## 3. The runs

Passing runs:

| Run | Instance | Shows |
|---|---|---|
| `lockdir_steal` | 3 processes on 2 machines, stealing on, moving rename | two live processes never both have the lock, a live holder keeps it, failed attempts clean up, `unlock` takes only its own lock |
| `lockdir_live` | 2 processes, one passes tokens, one breaks, both steal; lost info | who has the lock and was not robbed is backed by the directory of its nonce; every call ends; the lock of a dead process is taken over |
| `nested` | up to 3 nested locks per object, write groups, breaks, and up to 2 failures of each kind | counts agree with the callers but for a lock per failure that leaves one, the lock directory is left only when it cannot be released, the repository is locked while the branch is, no write group outlives its lock, repositories below are locked while needed but for a lock per write group found open |
| `pack_concurrent` | 2 processes, 2 revisions, 2 generations; both run pack, or processes die and saves fail | listed packs exist, no revision is lost, reloads succeed, commits are published; without faults nothing is left behind |
| `autopack` | packs of 0 to 11 revisions, up to 32 revisions and 8 packs, shared revisions; and 215 commits of one revision | the plan raises nothing, ends, and keeps the limit; after commits the packs are the powers of ten of the distribution |
| `bound_commit` | 2 clients; 3 commits undisturbed, 2 interrupted, 1 interrupted with pulls and rebinding; each with and without `append_revisions_only` | commits reach the master first; nobody but `uncommit` takes anything out of it; undisturbed, numbers are lengths of histories and no finished commit is lost |
| `transform` | 2 directories, a file and 2 names; every old and new layout, any missing file, failures anywhere | the transform implements the atomic one, destroys nothing it should keep, leaves nothing behind, can always undo, and ends |
| `dirstate` | 2 processes, 2 changes; readers save or not, processes die or not, saves and releases fail or not | writers exclude each other; a session has its locks until it is over, failed saves included, and the tree's lock is left only by a process that ended in a session or could not release it; if readers do not save and nobody ends with the file half written, the file and what is read of it are exactly what was saved |
| `smart_client` | 3 calls of any kind, a server of protocol 3, 2 or none | nothing is carried out twice that must not be, no consumed stream is resent, the agreed protocol is right, every answer and a first reset leave the medium usable, every call ends |

Runs that show a disagreement between the code and what the repository says of
it (the findings in `PROJECT.json` quote the lines):

| Run | What happens |
|---|---|
| `lockdir_steal_race` | Two processes steal the lock of the same dead one; the slower renames away the lock the faster has taken, and its holder, alive, has lost it. |
| `pack_collide` | Two packers produce a pack of the same name; one publishes it while the other, which has combined it further, moves it away. |
| `dirstate_collide` | A reader that saves new hashes has given up its lock by closing the old descriptor; it writes the state it read over a change that a write-locked process has saved meanwhile. |

### Behaviours of the code that limit the properties

Each is in the model; the properties name it as a condition.

- Lock broken and retaken between `confirm()` and the rename of `unlock`
  (`lockdir.py:354`): that `unlock` removes the new lock.  `UnlockTakesOwnLock`
  is checked without breakers.
- `break_lock` evaluates `lock_url` of `None` if the lock is released between
  its two peeks (`lockdir.py:399`); `LockCorrupt` leaves the handler of a
  contended attempt with its pending directory (`lockdir.py:240`; hence
  `~InfoLoss` in `FailedAttemptLeavesNoMess`).
- After `LockBroken` the `LockDir` still believes it holds the lock, and the
  next `lock_read` of the unlocked object fails (`lockdir.py:666`).
- `PackRepository.unlock` in an open write group raises before it unlocks the
  repositories below (`pack_repo.py:2059`), and locking them may fail after the
  repository has counted its own lock (`pack_repo.py:1988`, `2011`).  An error
  while `Branch.unlock` saves the configuration is discarded and leaves the
  branch locked (`bzr/branch.py:228`), and one while a `LockDir` is released
  leaves the directory (`lockdir.py:353`) although the control files are
  unlocked.  `FallbackFollows`, `CountsAgree` and `NoPhysicalLeak` say what each
  failure leaves behind, and that nothing else does.
- A master emptied by `uncommit` is in agreement with every tree
  (`commit.py:588`); the revision committed next gets number 1 whatever its
  history, which `Branch.check` (`branch.py:1272`) reports.  `uncommit --local`
  of the first revision meets the same case.  `RevnoIsLength` and
  `WorkReferenced` are about behaviours in which no branch is emptied.
- An update that ends between the branch and the tree loses the tip it has
  pivoted out (`bzr/workingtree.py:2069`), and an update that finds the tree up
  to date does not look at it (`builtins.py:2038`).  `WorkReferenced` is about
  operations that are not interrupted.
- When a rename cannot be undone, `finalize` deletes what is left in limbo,
  files of the user included (`transform.py:1111`); when a deletion fails, the
  files are in their new places and the inventory is the old one
  (`bzr/transform.py:1677`).  These are the outcomes "damaged" of
  `AtomicTransform`.
- A process that ends while it writes, or after a write that failed, leaves a
  torn dirstate; the checksum is not verified on reading (`dirstate.py:2507`).
  `Plain` excludes it.  When a save fails, `WorkingTree4.unlock` gives no lock
  back (`workingtree_4.py:1273`): the session goes on, and if its process ends
  the tree's lock stays; it stays too when its release fails.  `LocksGivenBack`
  says that nothing else leaves it.  A refused
  lock leaves its entry in `OPEN_WRITE_LOCKS` or `OPEN_READ_LOCKS`
  (`fcntl-locks.rs:68`): the process is refused ever after, and a later
  temporary write lock panics.
- After a reset of a request that was already repeated or within a body, and
  after any error that is no reset (no connection, a failing body stream), the
  medium keeps its request and every later call fails (`smart/medium.py:1221`).
  `MediumIsFree` says that it does so after no answer and no first reset.
- A semi-idempotent request that was repeated may be carried out the second
  time long after, between the requests of later calls; `AtMostOnce` is about
  the kinds that are not repeated.

### Bounds and why they are enough

- `LockDir`: a race needs a holder, a thief or breaker and the next holder, so
  three processes.  `K = 2` nonces each: a process never has more than one
  attempt under way, and the second one lets a new attempt begin while others
  still refer to the last; nonces are recycled, so the number of attempts is
  not bounded.
- `LockNesting`: three nested locks per object tell the last unlock from an
  inner one and leave one in between; each kind of failure happens up to twice
  (`MaxFaults`), so that what one leaves behind meets the next, of its own kind
  or another.  The theorems are for any number.
- `PackCollection`: two revisions and two generations give six packs, enough
  for packs of packs to be repacked while others work on the old ones.  With
  `Gens` used up a packer waits for ever, hence `CHECK_DEADLOCK FALSE`; names
  are free again when nothing refers to them.  The theorems do not depend on
  these bounds.
- `AutopackPlan`: limits change at every multiple of ten; the run crosses two
  tens with arbitrary arrivals and two hundreds with commits.  The theorems do
  not depend on these bounds.
- `BoundCommit`: three commits make two lines of history and their merge;
  interruptions are explored with two, which is a local line and a remote one.
  The theorems do not depend on these bounds.
- `TreeTransform`: two directories and a file swap places, replace each other
  and go into new, moved and deleted directories; a failed rename needs at
  least one to undo before it and one item left after it.
- `DirState`: two processes and two changes, one of each process, and
  `MaxReads = 2`, the second being the entry a refused lock leaves.  The
  theorems are for any number.
- `SmartClient`: one call negotiates, one is reset, one comes after.

Symmetry is used only in runs without liveness properties.  Deadlock is checked
for `LockNesting`, `BoundCommit` and `DirState`.  In `LockDir` all processes may
die; a transform and the calls of a client come to their end; elsewhere the
bounds stop growth.

### Fairness

- `FairSpec` of `LockDir`: a live process that is inside a call continues (weak
  fairness of `Continue`); `wait_lock` gives up once its deadline has passed,
  which time guarantees even though it may be between two polls (strong
  fairness of `GiveUp`).  Neither that a process calls anything nor that it
  unlocks is assumed.
- `AutopackPlan`, `TreeTransform`: weak fairness of the next step of sequential
  code, whose system calls return.
- `SmartClient`: the client continues, and a server that has a request on an
  open connection answers (weak fairness of `Client` and `Serve`).  A server
  that neither answers nor closes is not covered: the client has no timeout.
- `PackCollection`, `BoundCommit`, `DirState`, `LockNesting`: no liveness is
  claimed.  Autopack retries for as long as other processes take packs away,
  and nothing bounds this in the code.

## 4. The proofs

All of them are for any sets of processes, clients, revisions and changes and
for any settings, unless a condition is given.  The type invariant of every
module below is a theorem (`TypeCorrect`).  Every safety property and every
action property that a run checks is a theorem.

`LockDirProofs.tla`:

- `HolderIsBacked`: whoever has the lock and was not robbed is backed by the
  directory of its nonce.  Inductive invariant `BackedInv`: `TypeInv`, that the
  info file and `held` agree (`InfoOfHeld`), and what a process inside a call
  may have in memory (`CallState`).  The property alone is not inductive, as it
  says nothing of a process between `confirm` and its rename.
- `LockExcludes` (`MutualExclusion`), `HolderKeepsLock`
  (`LiveHolderKeepsLock`) and `UnlockTakesOwn` (`UnlockTakesOwnLock`), without
  tokens and breakers; locks of the dead may be stolen where at most two
  processes share a machine and user (`FewPerHost`; with three,
  `lockdir_steal_race` shows the two thieves).  `ExclusionInv` says of every
  process that its nonce is its own, that it has not been robbed, and that who
  is about to move a lock aside moves its own or that of the dead process it
  saw (`Undisturbed`): a dead holder has then one thief at most, and two holders
  would both be backed by the same directory.
- `NoMess` (`FailedAttemptLeavesNoMess`), with breaks, steals, tokens, deaths
  and moving renames, as long as no info file is lost.  `PendingInv`: the info
  file is readable, and each pending directory of a live process is that of the
  attempt it is in (`Pending`), also while the attempt breaks a dead lock
  (`ErrandInv`).

`LockNestingProofs.tla`: `CountsAlwaysAgree`, `NeverLeaked`,
`RepositoryAlwaysCovers`, `GroupStaysInLock`, `FallbackAlwaysFollows`.  The
calls are operators on the record of the objects, so there is one lemma per
operator that says what becomes of each field, and those of the branch use
those of the repository and the control files, as the methods call each other.
`LockInv` consists of
`Good` (mode, count and `LockDir` of each control files object agree; a write
group belongs to the present write lock; a write-locked branch has a
write-locked repository), `Accounted` (the counts are at least what the callers
hold, a locked branch being a caller of its repository, and above it by no more
than the failures), `Followed` (the repositories below) and `Released` (the lock
directory).  `CountsAgree` alone is not inductive: an unlock could meet control
files whose mode and count disagree.  That the locks below never go under zero
rests on `Stray`: a repository that is locked while those below are not has a
lock more than its callers know of, left by the failure, so that their last
unlock is never the last one.

`PackCollectionProofs.tla`, under `~Collide` (no two packers give the same
name; `pack_collide` shows that it is needed): `ListedPacksExist`,
`RetriesSucceed`, `NoRevisionLost`, `CommitsArePublished`, and
`PacksDirectoryTidy` for uninterrupted processes.

A pack that was finished and is not yet listed is known to its maker alone
(`AdditionsPrivate`), and so is in nobody else's list, sources or clean-up.
What a process combines leaves its own list and, with its next save,
`pack-names`, where nobody can put it back, since it is in nobody's additions
(`SourcesInv`, and `SaveInv` for the mutex).  What a save removes is contained
in what it adds (`ReplacedInv`), so no revision is lost; the revision of a
commit is first among the additions and then on the list (`CommitInv`).  A list
just read has only existing packs, so a reload after a vanished pack always
changes something.  For tidiness, `PacksAccounted` says that an unlisted file is
still some process's to list or to move away, and `NothingUnsaved` that a
process between two operations has none.  Five kinds of effect (`StepEffect`)
cover the eighteen actions.

`BoundCommitProofs.tla`: `CommitsGoToMasterFirst` (`MasterFirst`) and
`NothingIsTakenOut` (`MasterOnlyGrows`).  The inductive invariant `Sound`:
ancestries are closed and hold the left-hand histories (`GraphSound`); nothing
refers to a revision that does not exist (`Refs`); whoever works on the master
has locked it (`Locked`); and the revision a commit is about to put into the
master descends from what is there, and is what is there afterwards
(`Pending`).  A step of a client leaves the others alone, and the master as
well while another has locked it (`OnlyOf`, `OthersSound`), so that each action
has a lemma about its own client only.

`NumbersAreLengths` (`RevnoIsLength`) and `WorkIsNotLost` (`WorkReferenced`)
are about operations that are neither interrupted nor empty a branch
(`mode.calm`).  `CalmInv` adds that depths and ancestries are what the parents
say and that the graph has no cycle (`GraphCalm`), that the number an operation
is about to write is the length of the history it will be written for
(`Numbered`), and what tree, branch and operation have to do with each other at
each point (`AtTip`, `CommitCovers`, `TipCovers`, `UncommitSound`): a commit
leads to all its tree led to, and a tip that is pivoted out is remembered until
the tree has it for a parent.  `WorkKept` then says that every finished commit
is an ancestor of the master or of something a client refers to.  Only heads
are kept as parents of a tree (`set_parent_ids`); that they lead to all the rest
is `HeadsCover`, by well-foundedness of strict inclusion on the subsets of the
finite set of revisions.

`DirStateProofs.tla`: `WritersAreAlone`, `NothingUnsavedNothingLost`,
`MemoryStaysCurrent`, `LocksAreGivenBack`.  `Sound` says that a writer's lock
excludes all others (`OneWriter`), what a process has at each point of a session
(`Session`), that the locks of the system are those the processes think they
have, unless readers save (`SystemLock`), that the tree's lock belongs to a
session or was left behind (`TreeLocked`), and that what was read is what was
saved (`Contents`).  A save that failed leaves its session write-locked, so
nobody reads the half-written file before the next save has made it good or the
process has ended.

`SmartClientProofs.tla`: `NothingIsRepeated`, `ProtocolIsAgreed`,
`MediumIsGivenBack`.  `Sound` consists of `Control` (what the point the client
has reached says of the other variables), `Agreement` (which answers a server
gives to which protocol) and `Counted`: executions and requests left at servers
together never exceed the number of sends, which is two for a call
that was retried and one otherwise, and none for a protocol the server does not
understand.

`TreeTransformProofs.tla`, for any sets of items and names, any
tree, any wanted layout and failures anywhere: `FilesAreKept`
(`NothingLost`), `RollbackCanSucceed` (`UndoPossible`), `LimboIsCleared`
(`NothingLeft`), and `TransformRefines`, that `TreeTransform` implements
`AtomicTransform` (`TransformIsAtomic`).

The invariant `TransformInv` rests on the renames that are not undone
(`History`: `past`, or `past` reversed during the rollback).  They determine
where every item is (`Placed`): at its new place if it went in, in limbo or
pending-deletion if it only went out, and where it started otherwise.
`HistorySound` says that each rename goes from an item's old place to its home
outside the tree or from limbo to its new place, that nothing goes the same way
twice, that all go out before any comes in, and that when an item went out the
directories leading to it had not been touched (`Trail`).  Undoing takes the
last rename off, so every prefix of the history is a state of the rollback; the
trail of a rename then shows that its directory is back.  One conjunct per phase
says what else holds (`Building`, `Removing`, `Inserting`, `Renamings`,
`Undone`), and `Failures` which phases can have failed.  `finalize` destroys
nothing of the user's because no path in limbo leads to what is in place: by the
absence of loops in the new layout when all renames are done
(`NothingInLimbo`), and because the old layout has no place inside a new
directory when they are undone (`ExistingNotInLimbo`).  Paths need no induction:
`Leads` asks for a set of items closed under taking the parent, and each proof
exhibits one.  In the refinement only `Unlock` is a step of `AtomicTransform`;
`VisibleAtTheEnd` shows that it is the right one.

`AutopackPlanProofs.tla`, for any `Scenarios`: packs of any sizes, in any
number between two autopacks, with shared revisions or not, and no bound on the
revisions but the one a scenario names.

- `PlanNeverRaises` (`PlanSucceeds`) and `LimitIsKept` (`WithinLimit`), from
  `PlanInv`.  While the loops run, the buckets left hold at least what is still
  to come, `Sum(dist) >= Sum(left) + count + op`: there is a bucket for the next
  pack.  The packs kept, the buckets left and, once the chosen packs have filled
  a bucket, the pack they go into are together no more than the limit (`Slots`,
  `Room`); a kept pack that has not used up its first bucket yet takes one too
  many, which is why neither property is inductive.  When the loop ends, more
  packs than the limit were looked at, and those kept and the one to be made are
  at most the limit, so at least two are chosen; that a bucket which is partly filled is larger than every pack
  still to come makes it impossible to keep a pack after choosing some in it.
- `CommitsGiveDistribution` (`LayoutIsDistribution`).  The arithmetic is
  `CarryExists`: the distribution of n + 1 is that of n with some of its last
  buckets replaced by one that holds their sum and one more, as in carrying a
  digit.  `CommitInv` says how the loop follows it: the packs are those of the
  distribution, or one commit has come since (`Settled`); then the packs before
  the carry are kept, each with the bucket of its own size (`Keeping`), the
  others go into the one bucket left (`Filling`) and fill it exactly
  (`Complete`).

These are facts about sums, digits and insertion into a sequence for every
input, and the library's induction theorems, which take an operator as a
parameter, cannot be used.  Induction is stated over a set of numbers instead
(`SetInduction`, `StrongInduction`, from the least element of a well-founded
order) and applied to the set of the numbers for which a claim holds.  `Sum` is
the last of the partial sums, which are a function (`PartialSums`); `DigitSum`
and `Buckets` satisfy their equations because a function that does exists and
any two that do agree (`DigitRecursion`, with `FollowsExists` and
`FollowsUnique`).

Each inductive invariant was checked with TLC on the instances above first.

Only model-checked: all liveness (`CallsEnd`, `DeadLockIsStolen`,
`PlanTerminates`, `TransformEnds`, `CallEnds`), which needs `ENABLED`.

## 5. What is not modelled

Listed with reasons in `PROJECT.json`: suspended write groups, configuration
stores and graph algorithms (candidates, below); the server's dispatch of
requests, merges, storage formats, caches, transports, foreign branches and the
commands (data and I/O rather than control).  Most of the repository's lines
are of this second kind: the map covers the control of the parts above and
little of the rest.

## 6. Plan

Done: `LockDir`, `PackCollection`, `AutopackPlan`, `LockNesting`,
`BoundCommit`, `TreeTransform` with `AtomicTransform`, `DirState`,
`SmartClient`; proofs of the safety properties of all of them.

Worth doing next, in this order:

1. `LockExcludes` with more than two processes on a machine, weakened to what
   remains true there: the second thief is the only one that robs.
2. `ConfigStore`: two processes that save changes, and the update lost between
   reload and lock (`config.py:3196`).
3. `WriteGroups`: suspend and resume, composed with `PackCollection`'s disk.
4. Graph algorithms: `heads` and topological sorts against reference
   definitions.
