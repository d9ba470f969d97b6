----------------------------- MODULE BoundCommit -----------------------------
(***************************************************************************)
(* Checkouts bound to one master branch (breezy/commit.py, uncommit.py,    *)
(* branch.py, bzr/branch.py and bzr/workingtree.py).                       *)
(*                                                                         *)
(* Each client has a branch, which may be bound to the master, and a       *)
(* working tree.  An operation on them updates master, branch and tree one *)
(* after the other; between any two of these updates other clients work on *)
(* the master, and the operation may end by an exception, a lost           *)
(* connection or the death of the process.  The locks on a client's branch *)
(* and tree keep its operations apart; the lock on the master is the       *)
(* variable lock.                                                          *)
(***************************************************************************)
EXTENDS Integers, FiniteSets

CONSTANTS
  Client,  \* checkouts
  Rev,     \* revision ids
  Null,    \* NULL_REVISION, and nobody
  Modes    \* what is explored: one of them is chosen initially

ASSUME BoundAssumption ==
  /\ Modes \subseteq [calm : BOOLEAN, appendOnly : BOOLEAN, pulls : BOOLEAN, commits : Nat]
  /\ Null \notin Rev
  /\ Null \notin Client

VARIABLES
  mode,    \* calm: no operation is interrupted and nobody uncommits a first
           \* revision; appendOnly: append_revisions_only of the master;
           \* pulls: clients pull, bind and unbind; commits: their number
  made,    \* revisions that exist
  graph,   \* the parents and ancestry of each
  master,  \* last-revision of the master branch
  tip,     \* last-revision of each client's branch
  bound,   \* the branch is bound to the master
  tree,    \* parent ids of each working tree, and whether it has conflicts
  lock,    \* who has the write lock of the master
  pc,      \* the next update of the operation each client is in
  job,     \* the local variables of that operation
  work     \* ghost: revisions of finished commits that nobody has uncommitted

vars == <<mode, made, graph, master, tip, bound, tree, lock, pc, job, work>>

-----------------------------------------------------------------------------
\* The revision graph.

RevOrNull == Rev \cup {Null}

\* A last-revision file.
Info == [revno : Int, rev : RevOrNull]

NoRevision == [revno |-> 0, rev |-> Null]

Node == [left : RevOrNull, merged : SUBSET Rev, anc : SUBSET Rev, main : SUBSET Rev, depth : Nat]

NoNode == [left |-> Null, merged |-> {}, anc |-> {}, main |-> {}, depth |-> 0]

\* All ancestors of r, with r itself.
Anc(r) == IF r = Null THEN {} ELSE graph[r].anc

\* The left-hand history of r.
Main(r) == IF r = Null THEN {} ELSE graph[r].main

\* The length of the left-hand history of r.
Depth(r) == IF r = Null THEN 0 ELSE graph[r].depth

\* Graph.heads.
Heads(S) == {r \in S : \A q \in S \ {r} : r \notin Anc(q)}

\* The revision r with the parents of a tree.
NewNode(r, basis, merges) ==
  [left |-> basis, merged |-> merges, depth |-> Depth(basis) + 1,
   main |-> {r} \cup Main(basis),
   anc |-> {r} \cup Anc(basis) \cup UNION {Anc(q) : q \in merges}]

\* set_parent_ids and set_parent_trees: the first parent stays, of the others
\* only heads; without a first parent the next one takes its place.
Parents(first, others, conflicts) ==
  IF first # Null
  THEN {[basis |-> first, merges |-> Heads({first} \cup others) \ {first}, conflicts |-> conflicts]}
  ELSE IF others = {} THEN {[basis |-> Null, merges |-> {}, conflicts |-> conflicts]}
  ELSE {[basis |-> b, merges |-> Heads(others) \ {b}, conflicts |-> conflicts] : b \in others}

-----------------------------------------------------------------------------
\* Operations.

NoJob == [onMaster |-> FALSE, new |-> NoRevision, old |-> Null]

\* The operation of c goes on with its next update.
Goto(c, point) == pc' = [pc EXCEPT ![c] = point]

\* c is done, with success or with an error, and unlocks.
Return(c) ==
  /\ Goto(c, "idle")
  /\ job' = [job EXCEPT ![c] = NoJob]
  /\ lock' = IF lock = c THEN Null ELSE lock

\* Mutant: the master is locked for each update of it only.
NoLock(c, onMaster) == (onMaster => lock = Null) /\ UNCHANGED lock

\* master_branch.lock_write, when the operation is on the master as well.
LockMaster(c, onMaster) == IF onMaster THEN lock = Null /\ lock' = c ELSE UNCHANGED lock

\* set_last_revision_info of the master: with append_revisions_only, its last
\* revision has to be in the left-hand history of the new one.
MayBecome(new) == mode.appendOnly /\ master.rev # Null => master.rev \in Main(new.rev)

\* Commit._check_bound_branch: commit, or commit --local, begins.  Branch and
\* master are compared before the master is locked.
CommitBegin(c) ==
  /\ pc[c] = "idle"
  /\ ~tree[c].conflicts
  /\ \E local \in BOOLEAN :
       /\ local => bound[c]
       /\ LET onMaster == bound[c] /\ ~local
          IN  /\ onMaster => tip[c].rev = master.rev
              /\ job' = [job EXCEPT ![c] = [NoJob EXCEPT !.onMaster = onMaster]]
  /\ Goto(c, "commit")
  /\ UNCHANGED <<mode, made, graph, master, tip, bound, tree, lock, work>>

\* The branch a commit has to be up to date with.
Reference(c) == IF job[c].onMaster THEN master ELSE tip[c]

\* Mutant: the tree is not compared with the master once more.
AlwaysUpToDate(c) == TRUE

\* Commit._check_out_of_date_tree.
UpToDate(c) == Reference(c).rev \in {tree[c].basis, Null}

\* The lock on the master is taken, the tree is compared with it, and the
\* revision is built in the client's repository.
CommitPrepare(c) ==
  /\ pc[c] = "commit"
  /\ LockMaster(c, job[c].onMaster)
  /\ UpToDate(c)
  /\ Cardinality(made) < mode.commits
  /\ \E r \in Rev \ made :
       /\ made' = made \cup {r}
       /\ graph' = [graph EXCEPT ![r] = NewNode(r, tree[c].basis, tree[c].merges)]
       /\ job' = [job EXCEPT ![c].new = [revno |-> Reference(c).revno + 1, rev |-> r]]
  /\ Goto(c, IF job[c].onMaster THEN "commit master" ELSE "commit local")
  /\ UNCHANGED <<mode, master, tip, bound, tree, work>>

\* The commit ends by OutOfDateTree, LockContention, PointlessCommit or for want
\* of a message; the write group of the builder is aborted.
CommitRefused(c) ==
  /\ pc[c] = "commit"
  /\ Return(c)
  /\ UNCHANGED <<mode, made, graph, master, tip, bound, tree, work>>

\* import_last_revision_info_and_tags: the master comes first.
CommitMaster(c) ==
  /\ pc[c] = "commit master"
  /\ master' = job[c].new
  /\ Goto(c, "commit local")
  /\ UNCHANGED <<mode, made, graph, tip, bound, tree, lock, job, work>>

CommitLocal(c) ==
  /\ pc[c] = "commit local"
  /\ tip' = [tip EXCEPT ![c] = job[c].new]
  /\ Goto(c, "commit tree")
  /\ UNCHANGED <<mode, made, graph, master, bound, tree, lock, job, work>>

\* update_basis_by_delta.
CommitTree(c) ==
  /\ pc[c] = "commit tree"
  /\ \E t \in Parents(job[c].new.rev, {}, FALSE) : tree' = [tree EXCEPT ![c] = t]
  /\ work' = work \cup {job[c].new.rev}
  /\ Return(c)
  /\ UNCHANGED <<mode, made, graph, master, tip, bound>>

-----------------------------------------------------------------------------
\* Mutant: the tip that is pivoted out is not reported.
ForgetOldTip(c) == Null

\* BzrBranch.update: the tip that pulling from the master pivots out.
PivotedOut(c) == IF tip[c].rev \in Anc(master.rev) THEN Null ELSE tip[c].rev

\* cmd_update, first half: a bound branch is overwritten by a master that is
\* not empty.
UpdateBranch(c) ==
  /\ pc[c] = "idle"
  /\ IF bound[c] /\ master.rev # Null
     THEN /\ tip' = [tip EXCEPT ![c] = master]
          /\ job' = [job EXCEPT ![c].old = PivotedOut(c)]
     ELSE UNCHANGED <<tip, job>>
  /\ Goto(c, "update tree")
  /\ UNCHANGED <<mode, made, graph, master, bound, tree, lock, work>>

\* The tip of before, if there is one to be kept.
OldTip(c) == {job[c].old} \ {Null}

\* cmd_update, second half, and WorkingTree._update_tree.  A tree at the tip is
\* left alone.  Changes of the old tip that the tree does not have are merged
\* first, and conflicts end the update there.  A tree cannot go to
\* NULL_REVISION with pending merges.
UpdateTree(c) ==
  /\ pc[c] = "update tree"
  /\ LET t == tree[c]
     IN  \/ /\ \/ tip[c].rev = t.basis
               \/ tip[c].rev = Null /\ t.merges # {}
            /\ UNCHANGED tree
         \/ /\ tip[c].rev # t.basis
            /\ job[c].old \notin {Null, t.basis}
            /\ \E n \in Parents(t.basis, t.merges \cup OldTip(c), TRUE) :
                 tree' = [tree EXCEPT ![c] = n]
         \/ /\ tip[c].rev # t.basis
            /\ tip[c].rev = Null => t.merges = {}
            /\ \E conflicts \in BOOLEAN :
                 \E n \in Parents(tip[c].rev, t.merges \cup OldTip(c), t.conflicts \/ conflicts) :
                   tree' = [tree EXCEPT ![c] = n]
  /\ Return(c)
  /\ UNCHANGED <<mode, made, graph, master, tip, bound, work>>

\* The user resolves the conflicts of a tree.
Resolve(c) ==
  /\ pc[c] = "idle"
  /\ tree[c].conflicts
  /\ tree' = [tree EXCEPT ![c].conflicts = FALSE]
  /\ UNCHANGED <<mode, made, graph, master, tip, bound, lock, pc, job, work>>

-----------------------------------------------------------------------------
\* _check_if_descendant_or_diverged finds no divergence.
Related(from, to) ==
  from.rev = Null \/ to.rev = Null \/ from.rev \in Anc(to.rev) \/ to.rev \in Anc(from.rev)

\* Mutant: the number is counted on from that of "to".
NextRevno(from, to) ==
  IF from.rev = Null \/ from.rev \in Anc(to.rev) THEN to
  ELSE [revno |-> to.revno + 1, rev |-> from.rev]

\* _update_revisions without overwrite: what pulling "from" makes of "to".
Pulled(from, to) == IF from.rev = Null \/ from.rev \in Anc(to.rev) THEN to ELSE from

\* Branch.pull from another client's branch: a bound branch pulls into its
\* master first.
PullMaster(c, d) ==
  /\ pc[c] = "idle"
  /\ mode.pulls
  /\ LockMaster(c, bound[c])
  /\ IF bound[c]
     THEN /\ Related(tip[d], master)
          /\ MayBecome(Pulled(tip[d], master))
          /\ master' = Pulled(tip[d], master)
     ELSE UNCHANGED master
  /\ job' = [job EXCEPT ![c] = [NoJob EXCEPT !.onMaster = bound[c], !.new = tip[d]]]
  /\ Goto(c, "pull local")
  /\ UNCHANGED <<mode, made, graph, tip, bound, tree, work>>

\* Then into itself; WorkingTree.pull is done if the tip is what it was.
PullLocal(c) ==
  /\ pc[c] = "pull local"
  /\ IF Related(job[c].new, tip[c]) /\ Pulled(job[c].new, tip[c]) # tip[c]
     THEN /\ tip' = [tip EXCEPT ![c] = Pulled(job[c].new, tip[c])]
          /\ Goto(c, "pull tree")
          /\ UNCHANGED <<lock, job>>
     ELSE Return(c) /\ UNCHANGED tip
  /\ UNCHANGED <<mode, made, graph, master, bound, tree, work>>

\* WorkingTree.pull merges into the tree.
PullTree(c) ==
  /\ pc[c] = "pull tree"
  /\ \E conflicts \in BOOLEAN :
       \E n \in Parents(tip[c].rev, tree[c].merges, tree[c].conflicts \/ conflicts) :
         tree' = [tree EXCEPT ![c] = n]
  /\ Return(c)
  /\ UNCHANGED <<mode, made, graph, master, tip, bound, work>>

-----------------------------------------------------------------------------
\* uncommit of the last revision; a bound branch must agree with its master,
\* which is locked first.
UncommitBegin(c) ==
  /\ pc[c] = "idle"
  /\ tip[c].rev # Null
  /\ mode.calm => graph[tip[c].rev].left # Null
  /\ \E local \in BOOLEAN :
       /\ local => bound[c]
       /\ LET onMaster == bound[c] /\ ~local
          IN  /\ LockMaster(c, onMaster)
              /\ onMaster => tip[c].rev = master.rev
              /\ job' = [job EXCEPT ![c] =
                   [onMaster |-> onMaster, old |-> tip[c].rev,
                    new |-> [revno |-> tip[c].revno - 1, rev |-> graph[tip[c].rev].left]]]
              /\ Goto(c, IF onMaster THEN "uncommit master" ELSE "uncommit local")
  /\ UNCHANGED <<mode, made, graph, master, tip, bound, tree, work>>

UncommitMaster(c) ==
  /\ pc[c] = "uncommit master"
  /\ IF MayBecome(job[c].new)
     THEN /\ master' = job[c].new
          /\ work' = work \ {job[c].old}
          /\ Goto(c, "uncommit local")
          /\ UNCHANGED <<lock, job>>
     ELSE Return(c) /\ UNCHANGED <<master, work>>
  /\ UNCHANGED <<mode, made, graph, tip, bound, tree>>

UncommitLocal(c) ==
  /\ pc[c] = "uncommit local"
  /\ tip' = [tip EXCEPT ![c] = job[c].new]
  /\ work' = work \ {job[c].old}
  /\ Goto(c, "uncommit tree")
  /\ UNCHANGED <<mode, made, graph, master, bound, tree, lock, job>>

\* What a revision merged becomes a pending merge of the tree again.
MergedBy(r) == graph[r].merged

UncommitTree(c) ==
  /\ pc[c] = "uncommit tree"
  /\ \E n \in Parents(job[c].new.rev, tree[c].merges \cup MergedBy(job[c].old), tree[c].conflicts) :
       tree' = [tree EXCEPT ![c] = n]
  /\ Return(c)
  /\ UNCHANGED <<mode, made, graph, master, tip, bound, work>>

\* bind and unbind.
Bind(c) ==
  /\ pc[c] = "idle"
  /\ mode.pulls
  /\ bound' = [bound EXCEPT ![c] = ~@]
  /\ UNCHANGED <<mode, made, graph, master, tip, tree, lock, pc, job, work>>

\* An operation ends between two updates by an exception or a lost connection,
\* which unlock the master, or by the death of the process, after which a user
\* breaks the lock.
Interrupted(c) ==
  /\ ~mode.calm
  /\ pc[c] # "idle"
  /\ Return(c)
  /\ UNCHANGED <<mode, made, graph, master, tip, bound, tree, work>>

Init ==
  /\ mode \in Modes
  /\ made = {}
  /\ graph = [r \in Rev |-> NoNode]
  /\ master = NoRevision
  /\ tip = [c \in Client |-> NoRevision]
  /\ bound = [c \in Client |-> TRUE]
  /\ tree = [c \in Client |-> [basis |-> Null, merges |-> {}, conflicts |-> FALSE]]
  /\ lock = Null
  /\ pc = [c \in Client |-> "idle"]
  /\ job = [c \in Client |-> NoJob]
  /\ work = {}

Step(c) ==
  \/ CommitBegin(c) \/ CommitPrepare(c) \/ CommitRefused(c)
  \/ CommitMaster(c) \/ CommitLocal(c) \/ CommitTree(c)
  \/ UpdateBranch(c) \/ UpdateTree(c) \/ Resolve(c)
  \/ (\E d \in Client \ {c} : PullMaster(c, d)) \/ PullLocal(c) \/ PullTree(c)
  \/ UncommitBegin(c) \/ UncommitMaster(c) \/ UncommitLocal(c) \/ UncommitTree(c)
  \/ Bind(c) \/ Interrupted(c)

Next == \E c \in Client : Step(c)

Spec == Init /\ [][Next]_vars

-----------------------------------------------------------------------------
\* Properties.

Points == {"idle", "commit", "commit master", "commit local", "commit tree", "update tree",
           "pull local", "pull tree", "uncommit master", "uncommit local", "uncommit tree"}

\* Every variable has its type (the last-revision files, the tree's parents).
TypeOK ==
  /\ mode \in Modes
  /\ made \subseteq Rev
  /\ graph \in [Rev -> Node]
  /\ master \in Info
  /\ tip \in [Client -> Info]
  /\ bound \in [Client -> BOOLEAN]
  /\ tree \in [Client -> [basis : RevOrNull, merges : SUBSET Rev, conflicts : BOOLEAN]]
  /\ lock \in Client \cup {Null}
  /\ pc \in [Client -> Points]
  /\ job \in [Client -> [onMaster : BOOLEAN, new : Info, old : RevOrNull]]
  /\ work \subseteq Rev

\* A revision enters the branch of a bound client only while it is in the
\* master ("commits must succeed on the master branch before they will be
\* applied to the local branch"), whatever other clients do meanwhile
\* (Commit._update_branches).
MasterFirst ==
  [][\A c \in Client :
       CommitLocal(c) /\ job[c].onMaster => job[c].new.rev \in Anc(master.rev)]_vars

\* Only uncommit takes revisions out of the master, and not even uncommit if
\* the master has append_revisions_only: a commit or a pull never replaces what
\* another client has put there since it looked
\* (Commit._check_out_of_date_tree under the master's lock, _update_revisions).
MasterOnlyGrows ==
  [][mode.appendOnly \/ (\A c \in Client : ~UncommitMaster(c)) =>
       Anc(master.rev) \subseteq (IF master'.rev = Null THEN {} ELSE graph'[master'.rev].anc)]_vars

\* While operations are not interrupted and no branch is emptied again, the
\* number in a last-revision file is the length of the history it ends ("revno
\* does not match len(mainline)", Branch.check).
RevnoIsLength ==
  mode.calm =>
    /\ master.revno = Depth(master.rev)
    /\ \A c \in Client : tip[c].revno = Depth(tip[c].rev)

\* Everything the last-revision files and the trees lead to.
Referenced ==
  Anc(master.rev) \cup
  UNION {Anc(tip[c].rev) \cup Anc(tree[c].basis) \cup Anc(job[c].old)
           \cup UNION {Anc(m) : m \in tree[c].merges} : c \in Client}

\* While operations are not interrupted and no branch is emptied, no finished
\* commit becomes unreferenced but by uncommit: update keeps what it pivots out
\* as a pending merge, and uncommit what the revision had merged
\* (WorkingTree._update_tree, uncommit).
WorkReferenced == mode.calm => work \subseteq Referenced
=============================================================================
