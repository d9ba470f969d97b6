-------------------------- MODULE BoundCommitProofs --------------------------
(***************************************************************************)
(* Proofs about BoundCommit for any sets of clients, revisions and modes.  *)
(*                                                                         *)
(* A step of a client changes its own branch, tree and operation, and the  *)
(* master only while no other client has locked it.  The lemmas on the     *)
(* actions therefore speak of one client, and OthersSound of the rest.     *)
(***************************************************************************)
EXTENDS BoundCommit, FiniteSetTheorems, TLAPS

Job == [onMaster : BOOLEAN, new : Info, old : RevOrNull]

Tree == [basis : RevOrNull, merges : SUBSET Rev, conflicts : BOOLEAN]

\* Ancestries are closed, and contain the left-hand histories.
GraphSound ==
  \A r \in made :
    /\ r \in graph[r].anc
    /\ graph[r].anc \subseteq made
    /\ \A q \in graph[r].anc : graph[q].anc \subseteq graph[r].anc
    /\ graph[r].main \subseteq graph[r].anc
    /\ graph[r].left \in made \cup {Null}
    /\ graph[r].merged \subseteq made

\* Nothing refers to a revision that does not exist.
Refs(c) ==
  /\ tip[c].rev \in made \cup {Null}
  /\ tree[c].basis \in made \cup {Null}
  /\ tree[c].merges \subseteq made
  /\ job[c].new.rev \in made \cup {Null}
  /\ job[c].old \in made \cup {Null}

\* Who works on the master has locked it.
Locked(c) ==
  /\ pc[c] \in {"commit master", "uncommit master"} => job[c].onMaster
  /\ pc[c] \notin {"idle", "commit", "update tree"} /\ job[c].onMaster => lock = c

\* What an operation is about to do, and how it stands to the master.
Pending(c) ==
  /\ pc[c] \in {"commit master", "commit local", "commit tree"} => job[c].new.rev \in made
  /\ pc[c] = "commit master" => Anc(master.rev) \subseteq Anc(job[c].new.rev)
  /\ pc[c] = "commit local" /\ job[c].onMaster => master.rev = job[c].new.rev
  /\ pc[c] \in {"uncommit master", "uncommit local", "uncommit tree"} => job[c].old \in made

Local(c) == Refs(c) /\ Locked(c) /\ Pending(c)

\* The inductive invariant.
Sound ==
  /\ TypeOK
  /\ GraphSound
  /\ master.rev \in made \cup {Null}
  /\ \A c \in Client : Local(c)

\* What a step of c leaves alone.
OnlyOf(c) ==
  /\ made \subseteq made'
  /\ \A r \in made : graph'[r] = graph[r]
  /\ \A d \in Client \ {c} :
       /\ tip'[d] = tip[d] /\ tree'[d] = tree[d] /\ pc'[d] = pc[d] /\ job'[d] = job[d]
       /\ lock = d => lock' = d /\ master' = master

-----------------------------------------------------------------------------
\* Types of the parts.

\* The branches, trees and operations of a client have their types.
LEMMA PartTypes ==
  ASSUME TypeOK, NEW c \in Client
  PROVE  /\ tip[c] \in Info /\ master \in Info
         /\ tree[c] \in Tree /\ job[c] \in Job /\ bound[c] \in BOOLEAN
         /\ tree \in [Client -> Tree] /\ job \in [Client -> Job]
         /\ pc[c] \in Points
  BY DEF TypeOK, Tree, Job

\* An empty last-revision file and the variables of no operation are well typed.
LEMMA NothingYet == NoRevision \in Info /\ NoJob \in Job /\ NoJob.new.rev = Null /\ NoJob.old = Null
<1>1. NoRevision \in Info /\ NoRevision.rev = Null
  BY DEF NoRevision, Info, RevOrNull
<1> QED
  BY <1>1 DEF NoJob, Job, RevOrNull

\* set_parent_ids makes parents of what it is given.
LEMMA ParentsSound ==
  ASSUME NEW S \in SUBSET Rev, NEW first \in S \cup {Null}, NEW others \in SUBSET S,
         NEW conflicts \in BOOLEAN, NEW n \in Parents(first, others, conflicts)
  PROVE  n \in Tree /\ n.basis \in S \cup {Null} /\ n.merges \subseteq S
<1>1. \A T : Heads(T) \subseteq T
  BY DEF Heads
<1>2. CASE first # Null
  <2>1. n = [basis |-> first, merges |-> Heads({first} \cup others) \ {first}, conflicts |-> conflicts]
    BY <1>2 DEF Parents
  <2>2. Heads({first} \cup others) \ {first} \subseteq S
    BY <1>1
  <2> QED
    BY <2>1, <2>2 DEF Tree, RevOrNull
<1>3. CASE first = Null /\ others = {}
  BY <1>3 DEF Parents, Tree, RevOrNull
<1>4. CASE first = Null /\ others # {}
  <2>1. PICK b \in others : n = [basis |-> b, merges |-> Heads(others) \ {b}, conflicts |-> conflicts]
    BY <1>4 DEF Parents
  <2>2. Heads(others) \ {b} \subseteq S
    BY <1>1
  <2> QED
    BY <2>1, <2>2 DEF Tree, RevOrNull
<1> QED
  BY <1>2, <1>3, <1>4

\* The end of an operation (Return).
LEMMA ReturnSound ==
  ASSUME TypeOK, NEW c \in Client, Return(c)
  PROVE  /\ pc' \in [Client -> Points] /\ job' \in [Client -> Job] /\ lock' \in Client \cup {Null}
         /\ pc'[c] = "idle" /\ job'[c].new.rev = Null /\ job'[c].old = Null
         /\ \A d \in Client \ {c} : pc'[d] = pc[d] /\ job'[d] = job[d] /\ (lock = d => lock' = d)
<1>1. pc' = [pc EXCEPT ![c] = "idle"] /\ job' = [job EXCEPT ![c] = NoJob]
  BY DEF Return, Goto
<1>2. "idle" \in Points
  BY DEF Points
<1>3. pc \in [Client -> Points] /\ job \in [Client -> Job] /\ lock \in Client \cup {Null}
  BY PartTypes DEF TypeOK, Job
<1>4. lock' = IF lock = c THEN Null ELSE lock
  BY DEF Return
<1> QED
  BY <1>1, <1>2, <1>3, <1>4, NothingYet

\* A client's step does not touch what another one relies on.
LEMMA OthersSound ==
  ASSUME Sound, NEW c \in Client, OnlyOf(c), NEW d \in Client, d # c
  PROVE  Local(d)'
<1>1. Local(d)
  BY DEF Sound
<1>2. /\ tip'[d] = tip[d] /\ tree'[d] = tree[d] /\ pc'[d] = pc[d] /\ job'[d] = job[d]
      /\ lock = d => lock' = d /\ master' = master
      /\ made \subseteq made' /\ \A r \in made : graph'[r] = graph[r]
  BY DEF OnlyOf
<1>3. Refs(d)' /\ Locked(d)'
  BY <1>1, <1>2 DEF Local, Refs, Locked
<1>4. Pending(d)'
  <2>1. pc[d] = "commit master" => Anc(master.rev)' \subseteq Anc(job[d].new.rev)'
    <3> SUFFICES ASSUME pc[d] = "commit master"
                 PROVE  Anc(master.rev)' \subseteq Anc(job[d].new.rev)'
      OBVIOUS
    <3>1. master' = master
      BY <1>1, <1>2 DEF Local, Locked
    <3>2. master.rev \in made \cup {Null} /\ job[d].new.rev \in made
      BY <1>1 DEF Sound, Local, Pending
    <3>3. Anc(master.rev)' = Anc(master.rev) /\ Anc(job[d].new.rev)' = Anc(job[d].new.rev)
      BY <1>2, <3>1, <3>2 DEF Anc
    <3> QED
      BY <1>1, <3>3 DEF Local, Pending
  <2>2. pc[d] = "commit local" /\ job[d].onMaster => master' = master
    BY <1>1, <1>2 DEF Local, Locked
  <2> QED
    BY <1>1, <1>2, <2>1, <2>2 DEF Local, Pending
<1> QED
  BY <1>3, <1>4 DEF Local
\* A step of c keeps the invariant, as far as it is about c.
Kept(c) ==
  /\ TypeOK'
  /\ GraphSound'
  /\ master'.rev \in made' \cup {Null}
  /\ OnlyOf(c)
  /\ Local(c)'

-----------------------------------------------------------------------------
\* Ends of operations.

\* An operation that ends and changes nothing more.
LEMMA EndKept ==
  ASSUME Sound, NEW c \in Client, Return(c),
         UNCHANGED <<mode, made, graph, master, tip, bound, tree, work>>
  PROVE  Kept(c)
<1>1. TypeOK'
  BY ReturnSound DEF Sound, TypeOK, Job
<1>2. OnlyOf(c)
  BY ReturnSound DEF Sound, OnlyOf
<1>3. Local(c)'
  BY ReturnSound DEF Sound, Local, Refs, Locked, Pending
<1> QED
  BY <1>1, <1>2, <1>3 DEF Kept, Sound, GraphSound

\* An operation that ends by giving the tree new parents.
LEMMA TreeKept ==
  ASSUME Sound, NEW c \in Client, Return(c),
         NEW first \in made \cup {Null}, NEW others \in SUBSET made, NEW conflicts \in BOOLEAN,
         NEW n \in Parents(first, others, conflicts), tree' = [tree EXCEPT ![c] = n],
         UNCHANGED <<mode, made, graph, master, tip, bound>>, work' \subseteq Rev
  PROVE  Kept(c)
<1>1. made \in SUBSET Rev /\ TypeOK
  BY DEF Sound, TypeOK
<1>2. n \in Tree /\ n.basis \in made \cup {Null} /\ n.merges \subseteq made
  BY <1>1, ParentsSound
<1>3. tree' \in [Client -> Tree] /\ tree'[c] = n /\ \A d \in Client \ {c} : tree'[d] = tree[d]
  BY <1>1, <1>2, PartTypes
<1>4. TypeOK'
  BY <1>1, <1>3, ReturnSound DEF TypeOK, Job, Tree
<1>5. OnlyOf(c)
  BY <1>1, <1>3, ReturnSound DEF OnlyOf
<1>6. Local(c)'
  BY <1>1, <1>2, <1>3, ReturnSound DEF Sound, Local, Refs, Locked, Pending
<1> QED
  BY <1>4, <1>5, <1>6 DEF Kept, Sound, GraphSound

-----------------------------------------------------------------------------
\* Commit.

\* A commit has not locked the master yet (_check_bound_branch).
LEMMA CommitBeginKept == ASSUME Sound, NEW c \in Client, CommitBegin(c) PROVE Kept(c)
<1>1. TypeOK /\ UNCHANGED <<mode, made, graph, master, tip, bound, tree, lock, work>>
  BY DEF CommitBegin, Sound
<1>2. PICK b \in BOOLEAN : job' = [job EXCEPT ![c] = [NoJob EXCEPT !.onMaster = b]]
  <2>1. PICK local \in BOOLEAN :
          job' = [job EXCEPT ![c] = [NoJob EXCEPT !.onMaster = bound[c] /\ ~local]]
    BY DEF CommitBegin
  <2>2. (bound[c] /\ ~local) \in BOOLEAN
    BY <1>1, PartTypes
  <2> QED
    BY <2>1, <2>2
<1>3. pc' = [pc EXCEPT ![c] = "commit"] /\ "commit" \in Points
  BY DEF CommitBegin, Goto, Points
<1>4. /\ [NoJob EXCEPT !.onMaster = b] \in Job
      /\ [NoJob EXCEPT !.onMaster = b].new.rev = Null
      /\ [NoJob EXCEPT !.onMaster = b].old = Null
  BY NothingYet DEF Job
<1>5. /\ pc' \in [Client -> Points] /\ job' \in [Client -> Job]
      /\ pc'[c] = "commit" /\ job'[c].new.rev = Null /\ job'[c].old = Null
      /\ \A d \in Client \ {c} : pc'[d] = pc[d] /\ job'[d] = job[d]
  <2>1. pc \in [Client -> Points] /\ job \in [Client -> Job]
    BY <1>1 DEF TypeOK, Job
  <2> QED
    BY <1>2, <1>3, <1>4, <2>1
<1>6. TypeOK'
  BY <1>1, <1>5 DEF TypeOK, Job
<1>7. OnlyOf(c)
  BY <1>1, <1>5 DEF OnlyOf
<1>8. Local(c)'
  BY <1>1, <1>5 DEF Sound, Local, Refs, Locked, Pending
<1> QED
  BY <1>1, <1>6, <1>7, <1>8 DEF Kept, Sound, GraphSound

\* The parents and ancestors of a new revision exist, and its ancestry is closed.
LEMMA NewNodeSound ==
  ASSUME Sound, NEW c \in Client, NEW r \in Rev \ made,
         graph' = [graph EXCEPT ![r] = NewNode(r, tree[c].basis, tree[c].merges)],
         made' = made \cup {r}
  PROVE  /\ graph' \in [Rev -> Node]
         /\ \A q \in made : graph'[q] = graph[q]
         /\ GraphSound'
         /\ Anc(tree[c].basis) \subseteq graph'[r].anc
<1> DEFINE b == tree[c].basis
           m == tree[c].merges
           n == NewNode(r, b, m)
<1>1. TypeOK /\ b \in made \cup {Null} /\ m \subseteq made /\ made \subseteq Rev /\ Null \notin Rev
  BY BoundAssumption DEF Sound, Local, Refs, TypeOK
<1>2. \A q \in made : graph[q] \in Node
  BY <1>1 DEF TypeOK
<1>3. /\ Anc(b) \subseteq made /\ Main(b) \subseteq Anc(b) /\ Depth(b) \in Nat
      /\ \A q \in Anc(b) : graph[q].anc \subseteq Anc(b)
  BY <1>1, <1>2 DEF Sound, GraphSound, Anc, Main, Depth, Node
<1>4. \A p \in m : Anc(p) \subseteq made /\ \A q \in Anc(p) : graph[q].anc \subseteq Anc(p)
  BY <1>1 DEF Sound, GraphSound, Anc
<1>5. /\ n.left = b /\ n.merged = m /\ n.main = {r} \cup Main(b) /\ n.depth = Depth(b) + 1
      /\ n.anc = {r} \cup Anc(b) \cup UNION {Anc(q) : q \in m}
  BY DEF NewNode
<1>6. n.anc \ {r} \subseteq made /\ \A q \in n.anc \ {r} : graph[q].anc \subseteq n.anc
  BY <1>3, <1>4, <1>5
<1>7. n \in Node
  <2>1. b \in RevOrNull /\ m \in SUBSET Rev /\ n.anc \in SUBSET Rev /\ n.main \in SUBSET Rev /\ n.depth \in Nat
    BY <1>1, <1>3, <1>5, <1>6 DEF RevOrNull
  <2> QED
    BY <1>5, <2>1 DEF Node, NewNode
<1>8. graph' \in [Rev -> Node] /\ graph'[r] = n /\ \A q \in made : graph'[q] = graph[q]
  <2>1. graph \in [Rev -> Node] /\ graph' = [graph EXCEPT ![r] = n]
    BY <1>1 DEF TypeOK
  <2> HIDE DEF n
  <2> QED
    BY <1>1, <1>7, <2>1
<1>9. GraphSound'
  <2> SUFFICES ASSUME NEW p \in made \cup {r}
               PROVE  /\ p \in graph'[p].anc
                      /\ graph'[p].anc \subseteq made \cup {r}
                      /\ \A q \in graph'[p].anc : graph'[q].anc \subseteq graph'[p].anc
                      /\ graph'[p].main \subseteq graph'[p].anc
                      /\ graph'[p].left \in made \cup {r} \cup {Null}
                      /\ graph'[p].merged \subseteq made \cup {r}
    BY DEF GraphSound
  <2>1. CASE p \in made
    <3>1. graph'[p] = graph[p] /\ \A q \in graph[p].anc : graph'[q] = graph[q]
      BY <1>8, <2>1 DEF Sound, GraphSound
    <3> QED
      BY <2>1, <3>1 DEF Sound, GraphSound
  <2>2. CASE p = r
    <3>1. \A q \in n.anc \ {r} : graph'[q] = graph[q]
      BY <1>6, <1>8
    <3>2. \A q \in n.anc : graph'[q].anc \subseteq n.anc
      BY <1>6, <1>8, <3>1
    <3> HIDE DEF n
    <3> QED
      BY <1>1, <1>3, <1>5, <1>6, <1>8, <2>2, <3>2
  <2> QED
    BY <2>1, <2>2
<1> QED
  BY <1>5, <1>8, <1>9
\* CommitPrepare locks the master and compares the tree with it; from then on
\* the master is an ancestor of the new revision (Commit._check_out_of_date_tree).
LEMMA CommitPrepareKept == ASSUME Sound, NEW c \in Client, CommitPrepare(c) PROVE Kept(c)
<1>1. /\ TypeOK /\ UNCHANGED <<mode, master, tip, bound, tree, work>>
      /\ LockMaster(c, job[c].onMaster) /\ UpToDate(c) /\ pc[c] = "commit"
      /\ pc' = [pc EXCEPT ![c] = IF job[c].onMaster THEN "commit master" ELSE "commit local"]
  BY DEF CommitPrepare, Sound, Goto
<1>2. PICK r \in Rev \ made :
        /\ made' = made \cup {r}
        /\ graph' = [graph EXCEPT ![r] = NewNode(r, tree[c].basis, tree[c].merges)]
        /\ job' = [job EXCEPT ![c].new = [revno |-> Reference(c).revno + 1, rev |-> r]]
  BY DEF CommitPrepare
<1>3. /\ graph' \in [Rev -> Node] /\ GraphSound' /\ \A q \in made : graph'[q] = graph[q]
      /\ Anc(tree[c].basis) \subseteq graph'[r].anc
  BY <1>2, NewNodeSound
<1> DEFINE i == [revno |-> Reference(c).revno + 1, rev |-> r]
<1>4. i \in Info /\ i.rev = r
  <2>1. Reference(c) \in Info
    BY <1>1, PartTypes DEF Reference
  <2>2. Reference(c).revno + 1 \in Int
    BY <2>1 DEF Info
  <2> QED
    BY <2>2 DEF Info, RevOrNull
<1>5. job[c] \in Job /\ job' = [job EXCEPT ![c] = [job[c] EXCEPT !.new = i]]
  BY <1>1, <1>2, PartTypes
<1>6. /\ [job[c] EXCEPT !.new = i] \in Job
      /\ [job[c] EXCEPT !.new = i].onMaster = job[c].onMaster
      /\ [job[c] EXCEPT !.new = i].new = i
      /\ [job[c] EXCEPT !.new = i].old = job[c].old
  <2> HIDE DEF i
  <2> QED
    BY <1>4, <1>5 DEF Job
<1>7. /\ job' \in [Client -> Job] /\ job'[c].onMaster = job[c].onMaster
      /\ job'[c].new.rev = r /\ job'[c].old = job[c].old
      /\ \A d \in Client \ {c} : job'[d] = job[d]
  <2>1. job \in [Client -> Job]
    BY <1>1, PartTypes
  <2> HIDE DEF i
  <2> QED
    BY <1>4, <1>5, <1>6, <2>1
<1>8. /\ pc' \in [Client -> Points] /\ \A d \in Client \ {c} : pc'[d] = pc[d]
      /\ job[c].onMaster => pc'[c] = "commit master"
      /\ ~job[c].onMaster => pc'[c] = "commit local"
  BY <1>1 DEF TypeOK, Points
<1>9. /\ lock' \in Client \cup {Null}
      /\ job[c].onMaster => lock = Null /\ lock' = c
      /\ ~job[c].onMaster => lock' = lock
  BY <1>1 DEF LockMaster, TypeOK
<1>10. made' \subseteq Rev
  BY <1>1, <1>2 DEF TypeOK
<1>11. TypeOK'
  BY <1>1, <1>3, <1>7, <1>8, <1>9, <1>10 DEF TypeOK, Job
<1>n. /\ UNCHANGED <<master, tip, tree>> /\ r \in made' /\ made \subseteq made'
      /\ job'[c].onMaster <=> job[c].onMaster
      /\ \A d \in Client : d # Null
  BY <1>1, <1>2, <1>7, BoundAssumption
<1>12. OnlyOf(c)
  BY <1>n, <1>3, <1>7, <1>8, <1>9 DEF OnlyOf
<1>13. Refs(c)' /\ Locked(c)'
  BY <1>n, <1>7, <1>8, <1>9 DEF Sound, Local, Refs, Locked
<1>14. Pending(c)'
  <2>1. job[c].onMaster => Anc(master.rev) \subseteq graph'[r].anc
    BY <1>1, <1>3 DEF UpToDate, Reference, Anc
  <2>2. Anc(master.rev)' = Anc(master.rev)
    BY <1>1, <1>3 DEF Sound, Anc
  <2>3. Anc(job[c].new.rev)' = graph'[r].anc
    BY <1>7, BoundAssumption DEF Anc
  <2> QED
    BY <1>n, <1>7, <1>8, <2>1, <2>2, <2>3 DEF Pending
<1> QED
  BY <1>1, <1>2, <1>3, <1>11, <1>12, <1>13, <1>14 DEF Kept, Sound, Local

\* The master gets the new revision while its lock is held.
LEMMA CommitMasterKept == ASSUME Sound, NEW c \in Client, CommitMaster(c) PROVE Kept(c)
<1>1. /\ TypeOK /\ pc[c] = "commit master" /\ master' = job[c].new
      /\ pc' = [pc EXCEPT ![c] = "commit local"]
      /\ UNCHANGED <<mode, made, graph, tip, bound, tree, lock, job, work>>
  BY DEF CommitMaster, Sound, Goto
<1>2. lock = c /\ job[c].new.rev \in made
  BY <1>1 DEF Sound, Local, Locked, Pending
<1>3. /\ pc' \in [Client -> Points] /\ pc'[c] = "commit local"
      /\ \A d \in Client \ {c} : pc'[d] = pc[d]
  BY <1>1 DEF TypeOK, Points
<1>4. master' \in Info
  BY <1>1, PartTypes DEF Job
<1>5. TypeOK'
  BY <1>1, <1>3, <1>4 DEF TypeOK
<1>6. OnlyOf(c)
  BY <1>1, <1>2, <1>3 DEF OnlyOf
<1>7. Local(c)'
  BY <1>1, <1>2, <1>3 DEF Sound, Local, Refs, Locked, Pending
<1> QED
  BY <1>1, <1>2, <1>5, <1>6, <1>7 DEF Kept, Sound, GraphSound

\* set_last_revision_info of the client's branch: CommitLocal, UncommitLocal.
LEMMA TipKept ==
  ASSUME Sound, NEW c \in Client, NEW point \in {"commit tree", "uncommit tree"},
         tip' = [tip EXCEPT ![c] = job[c].new], pc' = [pc EXCEPT ![c] = point],
         UNCHANGED <<mode, made, graph, master, bound, tree, lock, job>>, work' \subseteq work,
         point = "commit tree" => pc[c] = "commit local",
         point = "uncommit tree" => pc[c] = "uncommit local"
  PROVE  Kept(c)
<1>1. TypeOK /\ job[c].new \in Info /\ job[c].new.rev \in made \cup {Null}
  BY PartTypes DEF Sound, Local, Refs, Job
<1>2. /\ pc' \in [Client -> Points] /\ pc'[c] = point
      /\ \A d \in Client \ {c} : pc'[d] = pc[d]
  BY <1>1 DEF TypeOK, Points
<1>3. /\ tip' \in [Client -> Info] /\ tip'[c] = job[c].new
      /\ \A d \in Client \ {c} : tip'[d] = tip[d]
  BY <1>1 DEF TypeOK
<1>4. TypeOK'
  BY <1>1, <1>2, <1>3 DEF TypeOK
<1>5. OnlyOf(c)
  BY <1>2, <1>3 DEF OnlyOf
<1>6. Local(c)'
  BY <1>1, <1>2, <1>3 DEF Sound, Local, Refs, Locked, Pending
<1> QED
  BY <1>4, <1>5, <1>6 DEF Kept, Sound, GraphSound

\* The new revision becomes the parent of the tree.
LEMMA CommitTreeKept == ASSUME Sound, NEW c \in Client, CommitTree(c) PROVE Kept(c)
<1>1. PICK n \in Parents(job[c].new.rev, {}, FALSE) : tree' = [tree EXCEPT ![c] = n]
  BY DEF CommitTree
<1>2. job[c].new.rev \in made /\ work' \subseteq Rev
  BY DEF CommitTree, Sound, Local, Pending, TypeOK
<1> QED
  BY <1>1, <1>2, TreeKept DEF CommitTree

-----------------------------------------------------------------------------
\* Update and the user's part.

\* The branch becomes the master's, and the old tip is remembered (Branch.update).
LEMMA UpdateBranchKept == ASSUME Sound, NEW c \in Client, UpdateBranch(c) PROVE Kept(c)
<1>1. /\ TypeOK /\ pc' = [pc EXCEPT ![c] = "update tree"] /\ "update tree" \in Points
      /\ UNCHANGED <<mode, made, graph, master, bound, tree, lock, work>>
  BY DEF UpdateBranch, Sound, Goto, Points
<1>2. PICK o \in made \cup {Null} :
        \/ UNCHANGED <<tip, job>>
        \/ tip' = [tip EXCEPT ![c] = master] /\ job' = [job EXCEPT ![c] = [job[c] EXCEPT !.old = o]]
  <2>1. PivotedOut(c) \in made \cup {Null}
    BY DEF PivotedOut, Sound, Local, Refs
  <2> QED
    BY <2>1 DEF UpdateBranch
<1>3. /\ job[c] \in Job /\ [job[c] EXCEPT !.old = o] \in Job
      /\ [job[c] EXCEPT !.old = o].new = job[c].new /\ [job[c] EXCEPT !.old = o].old = o
  <2>1. job[c] \in Job /\ o \in RevOrNull
    BY <1>1, PartTypes DEF TypeOK, RevOrNull
  <2> QED
    BY <2>1 DEF Job
<1>4. /\ job' \in [Client -> Job] /\ tip' \in [Client -> Info] /\ pc' \in [Client -> Points]
      /\ pc'[c] = "update tree" /\ job'[c].new.rev = job[c].new.rev /\ job'[c].old \in {o, job[c].old}
      /\ tip'[c] \in {tip[c], master}
      /\ \A d \in Client \ {c} : pc'[d] = pc[d] /\ job'[d] = job[d] /\ tip'[d] = tip[d]
  <2>1. /\ pc \in [Client -> Points] /\ job \in [Client -> Job] /\ tip \in [Client -> Info]
        /\ master \in Info
    BY <1>1, PartTypes DEF TypeOK
  <2> QED
    BY <1>1, <1>2, <1>3, <2>1
<1>5. TypeOK'
  BY <1>1, <1>4 DEF TypeOK, Job
<1>6. OnlyOf(c)
  BY <1>1, <1>4 DEF OnlyOf
<1>7. Local(c)'
  BY <1>1, <1>2, <1>4 DEF Sound, Local, Refs, Locked, Pending
<1> QED
  BY <1>1, <1>5, <1>6, <1>7 DEF Kept, Sound, GraphSound

\* The tree gets the new tip and the old one as parents (_update_tree).
LEMMA UpdateTreeKept == ASSUME Sound, NEW c \in Client, UpdateTree(c) PROVE Kept(c)
<1>1. /\ TypeOK /\ Return(c) /\ UNCHANGED <<mode, made, graph, master, tip, bound, work>>
      /\ work' \subseteq Rev
  BY DEF UpdateTree, Sound, TypeOK
<1>2. /\ tip[c].rev \in made \cup {Null} /\ tree[c].basis \in made \cup {Null}
      /\ tree[c].merges \cup OldTip(c) \in SUBSET made /\ tree[c].conflicts \in BOOLEAN
  BY <1>1, PartTypes DEF Sound, Local, Refs, OldTip, Tree
<1>3. \/ tree' = tree
      \/ \E first \in made \cup {Null}, conflicts \in BOOLEAN :
           \E n \in Parents(first, tree[c].merges \cup OldTip(c), conflicts) :
             tree' = [tree EXCEPT ![c] = n]
  <2>1. CASE \E n \in Parents(tree[c].basis, tree[c].merges \cup OldTip(c), TRUE) :
               tree' = [tree EXCEPT ![c] = n]
    BY <1>2, <2>1
  <2>2. CASE \E conflicts \in BOOLEAN :
               \E n \in Parents(tip[c].rev, tree[c].merges \cup OldTip(c), tree[c].conflicts \/ conflicts) :
                 tree' = [tree EXCEPT ![c] = n]
    <3>1. \A conflicts \in BOOLEAN : (tree[c].conflicts \/ conflicts) \in BOOLEAN
      OBVIOUS
    <3> QED
      BY <1>2, <2>2, <3>1
  <2> QED
    BY <2>1, <2>2 DEF UpdateTree
<1> QED
  BY <1>1, <1>2, <1>3, TreeKept, EndKept

\* Resolving conflicts leaves the parents alone.
LEMMA ResolveKept == ASSUME Sound, NEW c \in Client, Resolve(c) PROVE Kept(c)
<1>1. /\ TypeOK /\ tree' = [tree EXCEPT ![c] = [tree[c] EXCEPT !.conflicts = FALSE]]
      /\ UNCHANGED <<mode, made, graph, master, tip, bound, lock, pc, job, work>>
  BY DEF Resolve, Sound
<1>2. /\ tree[c] \in Tree /\ [tree[c] EXCEPT !.conflicts = FALSE] \in Tree
      /\ [tree[c] EXCEPT !.conflicts = FALSE].basis = tree[c].basis
      /\ [tree[c] EXCEPT !.conflicts = FALSE].merges = tree[c].merges
  BY <1>1, PartTypes DEF Tree
<1>3. /\ tree' \in [Client -> Tree] /\ tree'[c].basis = tree[c].basis /\ tree'[c].merges = tree[c].merges
      /\ \A d \in Client \ {c} : tree'[d] = tree[d]
  BY <1>1, <1>2, PartTypes
<1>4. TypeOK'
  BY <1>1, <1>3 DEF TypeOK, Tree
<1>5. OnlyOf(c)
  BY <1>1, <1>3 DEF OnlyOf
<1>6. Local(c)'
  BY <1>1, <1>3 DEF Sound, Local, Refs, Locked, Pending, Anc
<1> QED
  BY <1>1, <1>4, <1>5, <1>6 DEF Kept, Sound, GraphSound

\* Binding and unbinding.
LEMMA BindKept == ASSUME Sound, NEW c \in Client, Bind(c) PROVE Kept(c)
<1>1. TypeOK /\ UNCHANGED <<mode, made, graph, master, tip, tree, lock, pc, job, work>>
  BY DEF Bind, Sound
<1>2. bound' \in [Client -> BOOLEAN]
  BY Zenon DEF Bind, Sound, TypeOK
<1>3. TypeOK'
  BY <1>1, <1>2 DEF TypeOK
<1>4. OnlyOf(c)
  BY <1>1 DEF OnlyOf
<1>5. Local(c)'
  BY <1>1 DEF Sound, Local, Refs, Locked, Pending, Anc
<1> QED
  BY <1>1, <1>3, <1>4, <1>5 DEF Kept, Sound, GraphSound
-----------------------------------------------------------------------------
\* Pull and uncommit.

\* LockMaster gives the lock to c if it is free, and takes it from nobody.
LEMMA LockMasterSound ==
  ASSUME Sound, NEW c \in Client, NEW b \in BOOLEAN, LockMaster(c, b)
  PROVE  /\ lock' \in Client \cup {Null}
         /\ b => lock' = c
         /\ \A d \in Client \ {c} : lock = d => lock' = d /\ ~b
<1>1. \A d \in Client : d # Null
  BY BoundAssumption
<1>2. (b /\ lock = Null /\ lock' = c) \/ (~b /\ lock' = lock)
  BY DEF LockMaster
<1>3. lock \in Client \cup {Null}
  BY DEF Sound, TypeOK
<1> QED
  BY <1>1, <1>2, <1>3

\* An operation that has locked what it needs, and goes on with its next update.
LEMMA StartKept ==
  ASSUME Sound, NEW c \in Client,
         NEW point \in {"pull local", "uncommit master", "uncommit local"}, NEW j \in Job,
         LockMaster(c, j.onMaster),
         pc' = [pc EXCEPT ![c] = point], job' = [job EXCEPT ![c] = j],
         j.new.rev \in made \cup {Null}, j.old \in made \cup {Null},
         point # "pull local" => j.old \in made,
         point = "uncommit master" => j.onMaster,
         UNCHANGED <<mode, made, graph, tip, bound, tree, work>>,
         master' \in Info, master'.rev \in made \cup {Null}, j.onMaster \/ master' = master
  PROVE  Kept(c)
<1>1. j.onMaster \in BOOLEAN /\ TypeOK /\ point \in Points
  BY DEF Job, Sound, Points
<1>2. /\ pc' \in [Client -> Points] /\ pc'[c] = point /\ job' \in [Client -> Job] /\ job'[c] = j
      /\ \A d \in Client \ {c} : pc'[d] = pc[d] /\ job'[d] = job[d]
  <2>1. pc \in [Client -> Points] /\ job \in [Client -> Job]
    BY <1>1, PartTypes DEF TypeOK
  <2> QED
    BY <1>1, <2>1
<1>3. /\ lock' \in Client \cup {Null}
      /\ j.onMaster => lock' = c
      /\ \A d \in Client \ {c} : lock = d => lock' = d /\ ~j.onMaster
  BY <1>1, LockMasterSound
<1>4. TypeOK'
  BY <1>1, <1>2, <1>3 DEF TypeOK, Job
<1>5. OnlyOf(c)
  BY <1>2, <1>3 DEF OnlyOf
<1>6. Local(c)'
  BY <1>2, <1>3 DEF Sound, Local, Refs, Locked, Pending
<1> QED
  BY <1>4, <1>5, <1>6 DEF Kept, Sound, GraphSound

\* Pulling into the master, under its lock.
LEMMA PullMasterKept ==
  ASSUME Sound, NEW c \in Client, NEW d \in Client, PullMaster(c, d)
  PROVE  Kept(c)
<1>1. TypeOK /\ bound[c] \in BOOLEAN /\ tip[d] \in Info /\ master \in Info
  BY PartTypes DEF Sound
<1> DEFINE j == [NoJob EXCEPT !.onMaster = bound[c], !.new = tip[d]]
<1>2. j \in Job /\ (j.onMaster <=> bound[c]) /\ j.new = tip[d] /\ j.old = Null
  BY <1>1, NothingYet DEF Job
<1>3. /\ LockMaster(c, bound[c]) /\ pc' = [pc EXCEPT ![c] = "pull local"]
      /\ job' = [job EXCEPT ![c] = j]
      /\ UNCHANGED <<mode, made, graph, tip, bound, tree, work>>
      /\ bound[c] \/ master' = master
  BY DEF PullMaster, Goto
<1>4. master' \in {master, tip[d]}
  BY DEF PullMaster, Pulled
<1>5. tip[d].rev \in made \cup {Null} /\ master.rev \in made \cup {Null}
  BY DEF Sound, Local, Refs
<1>6. LockMaster(c, j.onMaster)
  BY <1>2, <1>3 DEF LockMaster
<1> HIDE DEF j
<1> QED
  BY <1>1, <1>2, <1>3, <1>4, <1>5, <1>6, StartKept

\* Pulling into the branch.
LEMMA PullLocalKept == ASSUME Sound, NEW c \in Client, PullLocal(c) PROVE Kept(c)
<1>1. /\ TypeOK /\ pc[c] = "pull local"
      /\ UNCHANGED <<mode, made, graph, master, bound, tree, work>>
  BY DEF PullLocal, Sound
<1>2. CASE Return(c) /\ UNCHANGED tip
  BY <1>1, <1>2, EndKept
<1>3. CASE /\ tip' = [tip EXCEPT ![c] = Pulled(job[c].new, tip[c])]
           /\ pc' = [pc EXCEPT ![c] = "pull tree"]
           /\ UNCHANGED <<lock, job>>
  <2>1. /\ Pulled(job[c].new, tip[c]) \in Info
        /\ Pulled(job[c].new, tip[c]).rev \in made \cup {Null}
    BY <1>1, PartTypes DEF Pulled, Sound, Local, Refs, Job
  <2>2. /\ pc' \in [Client -> Points] /\ pc'[c] = "pull tree" /\ tip' \in [Client -> Info]
        /\ tip'[c].rev \in made \cup {Null}
        /\ \A d \in Client \ {c} : pc'[d] = pc[d] /\ tip'[d] = tip[d]
    BY <1>1, <1>3, <2>1 DEF TypeOK, Points
  <2>3. TypeOK'
    BY <1>1, <1>3, <2>2 DEF TypeOK
  <2>4. OnlyOf(c)
    BY <1>1, <1>3, <2>2 DEF OnlyOf
  <2>5. Local(c)'
    BY <1>1, <1>3, <2>2 DEF Sound, Local, Refs, Locked, Pending
  <2> QED
    BY <1>1, <2>3, <2>4, <2>5 DEF Kept, Sound, GraphSound
<1> QED
  BY <1>2, <1>3 DEF PullLocal, Goto

\* The tree follows its branch.
LEMMA PullTreeKept == ASSUME Sound, NEW c \in Client, PullTree(c) PROVE Kept(c)
<1>1. /\ Return(c) /\ UNCHANGED <<mode, made, graph, master, tip, bound>> /\ work' \subseteq Rev
      /\ TypeOK
  BY DEF PullTree, Sound, TypeOK
<1>2. tip[c].rev \in made \cup {Null} /\ tree[c].merges \in SUBSET made /\ tree[c].conflicts \in BOOLEAN
  BY <1>1, PartTypes DEF Sound, Local, Refs, Tree
<1>3. PICK conflicts \in BOOLEAN :
        \E n \in Parents(tip[c].rev, tree[c].merges, tree[c].conflicts \/ conflicts) :
          tree' = [tree EXCEPT ![c] = n]
  BY DEF PullTree
<1>4. (tree[c].conflicts \/ conflicts) \in BOOLEAN
  OBVIOUS
<1> QED
  BY <1>1, <1>2, <1>3, <1>4, TreeKept

\* An uncommit locks the master first if it is on the master.
LEMMA UncommitBeginKept == ASSUME Sound, NEW c \in Client, UncommitBegin(c) PROVE Kept(c)
<1>1. /\ TypeOK /\ tip[c] \in Info /\ master \in Info /\ bound[c] \in BOOLEAN
      /\ tip[c].rev # Null /\ tip[c].rev \in made /\ master.rev \in made \cup {Null}
      /\ UNCHANGED <<mode, made, graph, master, tip, bound, tree, work>>
  BY PartTypes DEF UncommitBegin, Sound, Local, Refs
<1>2. PICK local \in BOOLEAN :
        /\ LockMaster(c, bound[c] /\ ~local)
        /\ job' = [job EXCEPT ![c] =
                   [onMaster |-> bound[c] /\ ~local, old |-> tip[c].rev,
                    new |-> [revno |-> tip[c].revno - 1, rev |-> graph[tip[c].rev].left]]]
        /\ pc' = [pc EXCEPT ![c] = IF bound[c] /\ ~local THEN "uncommit master" ELSE "uncommit local"]
  BY DEF UncommitBegin, Goto
<1> DEFINE b == bound[c] /\ ~local
           i == [revno |-> tip[c].revno - 1, rev |-> graph[tip[c].rev].left]
           j == [onMaster |-> b, old |-> tip[c].rev, new |-> i]
<1>3. b \in BOOLEAN
  OBVIOUS
<1>4. i \in Info /\ i.rev \in made \cup {Null}
  <2>1. tip[c].revno - 1 \in Int
    BY <1>1 DEF Info
  <2>2. graph[tip[c].rev].left \in made \cup {Null} /\ made \subseteq Rev
    BY <1>1 DEF Sound, GraphSound, TypeOK
  <2> QED
    BY <2>1, <2>2 DEF Info, RevOrNull
<1>5. j \in Job /\ (j.onMaster <=> b) /\ j.old = tip[c].rev /\ j.new = i
  <2>1. tip[c].rev \in RevOrNull
    BY <1>1 DEF Info
  <2> HIDE DEF b, i
  <2> QED
    BY <1>3, <1>4, <2>1 DEF Job
<1>6. LockMaster(c, j.onMaster)
  BY <1>2, <1>5 DEF LockMaster
<1>7. /\ job' = [job EXCEPT ![c] = j]
      /\ pc' = [pc EXCEPT ![c] = IF b THEN "uncommit master" ELSE "uncommit local"]
  BY <1>2
<1> HIDE DEF b, i, j
<1>8. CASE b
  BY <1>1, <1>4, <1>5, <1>6, <1>7, <1>8, StartKept
<1>9. CASE ~b
  BY <1>1, <1>4, <1>5, <1>6, <1>7, <1>9, StartKept
<1> QED
  BY <1>8, <1>9

\* An uncommit changes the master under its lock, or is refused.
LEMMA UncommitMasterKept == ASSUME Sound, NEW c \in Client, UncommitMaster(c) PROVE Kept(c)
<1>1. TypeOK /\ pc[c] = "uncommit master" /\ UNCHANGED <<mode, made, graph, tip, bound, tree>>
  BY DEF UncommitMaster, Sound
<1>2. CASE Return(c) /\ UNCHANGED <<master, work>>
  BY <1>1, <1>2, EndKept
<1>3. CASE /\ master' = job[c].new /\ work' = work \ {job[c].old}
           /\ pc' = [pc EXCEPT ![c] = "uncommit local"] /\ UNCHANGED <<lock, job>>
  <2>1. lock = c /\ job[c].new.rev \in made \cup {Null} /\ job[c].new \in Info
    BY <1>1, PartTypes DEF Sound, Local, Locked, Refs, Job
  <2>2. /\ pc' \in [Client -> Points] /\ pc'[c] = "uncommit local"
        /\ \A d \in Client \ {c} : pc'[d] = pc[d]
    BY <1>1, <1>3 DEF TypeOK, Points
  <2>3. TypeOK'
    BY <1>1, <1>3, <2>1, <2>2 DEF TypeOK
  <2>4. OnlyOf(c)
    BY <1>1, <1>3, <2>1, <2>2 DEF OnlyOf
  <2>5. Local(c)'
    BY <1>1, <1>3, <2>1, <2>2 DEF Sound, Local, Refs, Locked, Pending
  <2> QED
    BY <1>1, <1>3, <2>1, <2>3, <2>4, <2>5 DEF Kept, Sound, GraphSound
<1> QED
  BY <1>2, <1>3 DEF UncommitMaster, Goto

\* What the revision had merged is pending again.
LEMMA UncommitTreeKept == ASSUME Sound, NEW c \in Client, UncommitTree(c) PROVE Kept(c)
<1>1. /\ Return(c) /\ UNCHANGED <<mode, made, graph, master, tip, bound>> /\ work' \subseteq Rev
      /\ TypeOK
  BY DEF UncommitTree, Sound, TypeOK
<1>2. /\ job[c].new.rev \in made \cup {Null} /\ tree[c].conflicts \in BOOLEAN
      /\ tree[c].merges \cup MergedBy(job[c].old) \in SUBSET made
  BY <1>1, PartTypes DEF UncommitTree, Sound, GraphSound, Local, Refs, Pending, MergedBy, Tree
<1> QED
  BY <1>1, <1>2, TreeKept DEF UncommitTree

-----------------------------------------------------------------------------
\* Theorems.

\* Every step of a client keeps the invariant, as far as it is about the client.
LEMMA StepKept == ASSUME Sound, NEW c \in Client, Step(c) PROVE Kept(c)
<1>1. CASE CommitRefused(c) \/ Interrupted(c)
  BY <1>1, EndKept DEF CommitRefused, Interrupted
<1>2. CASE CommitLocal(c)
  BY <1>2, TipKept DEF CommitLocal, Goto
<1>3. CASE UncommitLocal(c)
  BY <1>3, TipKept DEF UncommitLocal, Goto
<1> QED
  BY <1>1, <1>2, <1>3, CommitBeginKept, CommitPrepareKept, CommitMasterKept, CommitTreeKept,
     UpdateBranchKept, UpdateTreeKept, ResolveKept, BindKept, PullMasterKept, PullLocalKept,
     PullTreeKept, UncommitBeginKept, UncommitMasterKept, UncommitTreeKept DEF Step

\* The invariant holds initially.
LEMMA InitSound == Init => Sound
<1> SUFFICES ASSUME Init PROVE Sound
  OBVIOUS
<1>1. NoNode \in Node
  BY DEF NoNode, Node, RevOrNull
<1>2. [basis |-> Null, merges |-> {}, conflicts |-> FALSE] \in Tree
  BY DEF Tree, RevOrNull
<1>3. graph \in [Rev -> Node] /\ tree \in [Client -> Tree] /\ job \in [Client -> Job]
  BY <1>1, <1>2, NothingYet DEF Init
<1>4. TypeOK
  BY <1>3, NothingYet DEF Init, TypeOK, Tree, Job, Points
<1>5. \A c \in Client : Local(c)
  BY NothingYet DEF Init, Local, Refs, Locked, Pending, NoRevision
<1> QED
  BY <1>4, <1>5 DEF Init, Sound, GraphSound, NoRevision

\* Every step keeps the invariant.
LEMMA NextSound == Sound /\ [Next]_vars => Sound'
<1> SUFFICES ASSUME Sound, [Next]_vars PROVE Sound'
  OBVIOUS
<1>1. CASE UNCHANGED vars
  <2>1. TypeOK'
    BY <1>1 DEF vars, Sound, TypeOK
  <2>2. \A c \in Client : Local(c)'
    BY <1>1 DEF vars, Sound, Local, Refs, Locked, Pending, Anc
  <2> QED
    BY <1>1, <2>1, <2>2 DEF vars, Sound, GraphSound
<1>2. CASE Next
  <2>1. PICK c \in Client : Step(c)
    BY <1>2 DEF Next
  <2>2. Kept(c)
    BY <2>1, StepKept
  <2>3. \A d \in Client : Local(d)'
    BY <2>2, OthersSound DEF Kept
  <2> QED
    BY <2>2, <2>3 DEF Kept, Sound
<1> QED
  BY <1>1, <1>2

\* The invariant holds in every behaviour.
LEMMA AlwaysSound == Spec => []Sound
  BY InitSound, NextSound, PTL DEF Spec

\* Every variable keeps its type.
THEOREM TypeCorrect == Spec => []TypeOK
<1>1. Sound => TypeOK
  BY DEF Sound
<1> QED
  BY <1>1, AlwaysSound, PTL

\* For any number of clients and interruptions a commit reaches the branch of a
\* bound client only while the master has it (Commit._update_branches).
THEOREM CommitsGoToMasterFirst == Spec => MasterFirst
<1>1. Sound => \A c \in Client :
        CommitLocal(c) /\ job[c].onMaster => job[c].new.rev \in Anc(master.rev)
  <2> SUFFICES ASSUME Sound, NEW c \in Client, CommitLocal(c), job[c].onMaster
               PROVE  job[c].new.rev \in Anc(master.rev)
    OBVIOUS
  <2>1. job[c].new.rev \in made /\ master.rev = job[c].new.rev
    BY DEF CommitLocal, Sound, Local, Pending
  <2>2. job[c].new.rev # Null
    BY <2>1, BoundAssumption DEF Sound, TypeOK
  <2> QED
    BY <2>1, <2>2 DEF Sound, GraphSound, Anc
<1>2. Sound /\ [Next]_vars =>
        [\A c \in Client : CommitLocal(c) /\ job[c].onMaster => job[c].new.rev \in Anc(master.rev)]_vars
  BY <1>1
<1> QED
  BY <1>2, AlwaysSound, PTL DEF Spec, MasterFirst

\* Every step that is not an uncommit, and with append_revisions_only every
\* step, leaves in the master what is in it.
LEMMA StepGrows ==
  ASSUME Sound, NEW c \in Client, Step(c), mode.appendOnly \/ ~UncommitMaster(c)
  PROVE  Anc(master.rev) \subseteq (IF master'.rev = Null THEN {} ELSE graph'[master'.rev].anc)
<1>1. OnlyOf(c) /\ master.rev \in made \cup {Null}
  BY StepKept DEF Kept, Sound
<1>2. Null \notin made
  BY BoundAssumption DEF Sound, TypeOK
<1>3. CASE master' = master
  BY <1>1, <1>2, <1>3 DEF OnlyOf, Anc
<1>4. CASE CommitMaster(c)
  <2>1. /\ master' = job[c].new /\ job[c].new.rev \in made /\ UNCHANGED graph
        /\ Anc(master.rev) \subseteq Anc(job[c].new.rev)
    BY <1>4 DEF CommitMaster, Sound, Local, Pending
  <2> QED
    BY <1>2, <2>1 DEF Anc
<1>5. ASSUME NEW d \in Client, PullMaster(c, d), master' # master
      PROVE  Anc(master.rev) \subseteq (IF master'.rev = Null THEN {} ELSE graph'[master'.rev].anc)
  <2>1. /\ Related(tip[d], master) /\ master' = Pulled(tip[d], master) /\ UNCHANGED graph
        /\ tip[d].rev \in made \cup {Null}
    BY <1>5 DEF PullMaster, Sound, Local, Refs
  <2>2. /\ master' = tip[d] /\ tip[d].rev # Null
        /\ master.rev = Null \/ master.rev \in Anc(tip[d].rev)
    BY <1>5, <2>1 DEF Pulled, Related
  <2> QED
    BY <1>1, <2>1, <2>2 DEF Sound, GraphSound, Anc
<1>6. CASE UncommitMaster(c) /\ master' # master
  <2>1. mode.appendOnly
    BY <1>6
  <2>2. /\ master' = job[c].new /\ UNCHANGED graph
        /\ master.rev # Null => master.rev \in Main(job[c].new.rev)
        /\ job[c].new.rev \in made \cup {Null}
    BY <1>6, <2>1 DEF UncommitMaster, MayBecome, Sound, Local, Refs
  <2> QED
    BY <1>1, <2>2 DEF Sound, GraphSound, Anc, Main
<1>7. \/ master' = master \/ CommitMaster(c) \/ UncommitMaster(c)
      \/ \E d \in Client : PullMaster(c, d)
  BY DEF Step, CommitBegin, CommitPrepare, CommitRefused, CommitLocal, CommitTree, UpdateBranch,
         UpdateTree, Resolve, PullLocal, PullTree, UncommitBegin, UncommitLocal, UncommitTree,
         Bind, Interrupted
<1> QED
  BY <1>3, <1>4, <1>5, <1>6, <1>7

\* For any number of clients a commit or a pull takes nothing out of the master,
\* and with append_revisions_only nothing does
\* (Commit._check_out_of_date_tree, _update_revisions, set_last_revision_info).
THEOREM NothingIsTakenOut == Spec => MasterOnlyGrows
<1> DEFINE A == mode.appendOnly \/ (\A c \in Client : ~UncommitMaster(c)) =>
                  Anc(master.rev) \subseteq (IF master'.rev = Null THEN {} ELSE graph'[master'.rev].anc)
<1>1. Sound /\ [Next]_vars => [A]_vars
  BY StepGrows DEF Next
<1> QED
  BY <1>1, AlwaysSound, PTL DEF Spec, MasterOnlyGrows

-----------------------------------------------------------------------------
\* Calm operations: numbers and references.  The definitions speak of a graph
\* g and of the parts p, i, t, j and m (program point, last-revision, tree,
\* operation and master) of one client, so that they can be used before and
\* after a step.

Ancestors(g, r) == IF r = Null THEN {} ELSE g[r].anc

Length(g, r) == IF r = Null THEN 0 ELSE g[r].depth

\* The number of a last-revision file is the length of its history.
Numbered(g, i) == i.revno = Length(g, i.rev)

\* Depths count left-hand parents, ancestries are what the parents say, and
\* no revision is its own proper ancestor.
GraphCalm(g, M) ==
  \A r \in M :
    /\ g[r].depth = Length(g, g[r].left) + 1
    /\ g[r].anc = {r} \cup Ancestors(g, g[r].left) \cup UNION {Ancestors(g, q) : q \in g[r].merged}
    /\ \A q \in g[r].anc : r \in g[q].anc => q = r

Committing == {"commit master", "commit local", "commit tree"}
Uncommitting == {"uncommit master", "uncommit local", "uncommit tree"}

\* Between operations, and until its branch is changed, a tree is at its tip.
AtTip(p, i, t) ==
  p \in {"idle", "commit", "commit master", "commit local", "pull local",
         "uncommit master", "uncommit local"} => t.basis = i.rev

\* The new revision leads to all that the tree led to.
CommitCovers(g, p, i, t, j, m) ==
  /\ p \in Committing => /\ Ancestors(g, t.basis) \subseteq Ancestors(g, j.new.rev)
                         /\ \A q \in t.merges : Ancestors(g, q) \subseteq Ancestors(g, j.new.rev)
  /\ p = "commit tree" => i.rev = j.new.rev
  /\ p = "commit" /\ j.onMaster /\ m.rev = Null => i.rev = Null

\* The new tip, or the one that is remembered, leads to what the tree is at.
TipCovers(g, p, i, t, j) ==
  /\ p = "update tree" =>
       /\ j.old \in {Null, t.basis}
       /\ j.old = Null => t.basis \in Ancestors(g, i.rev) \cup {i.rev, Null}
       /\ i.rev = Null => t.basis = Null
  /\ p = "pull tree" => i.rev # Null /\ t.basis \in Ancestors(g, i.rev) \cup {Null}

\* What is uncommitted is what the tree is at.
UncommitSound(g, p, i, t, j, m) ==
  /\ p \in Uncommitting => /\ t.basis = j.old
                           /\ j.new.rev = g[j.old].left
                           /\ j.new.rev # Null
  /\ p = "uncommit master" => m.rev = j.old
  /\ p = "uncommit tree" => i.rev = j.new.rev
  /\ p \notin Uncommitting \cup {"update tree"} => j.old = Null

Calm(g, p, i, t, j, m) ==
  /\ Numbered(g, i) /\ Numbered(g, j.new)
  /\ AtTip(p, i, t) /\ CommitCovers(g, p, i, t, j, m)
  /\ TipCovers(g, p, i, t, j) /\ UncommitSound(g, p, i, t, j, m)

\* What a client leads to; a revision it is about to forget does not count.
Leads(g, p, i, t, j) ==
  (Ancestors(g, i.rev) \cup Ancestors(g, t.basis) \cup Ancestors(g, j.old)
     \cup UNION {Ancestors(g, q) : q \in t.merges})
  \ (IF p = "uncommit tree" THEN {j.old} ELSE {})

LeadsTo(c) == Leads(graph, pc[c], tip[c], tree[c], job[c])

\* Finished work is in the master, or some client leads to it.
WorkKept == \A r \in work : r \in Ancestors(graph, master.rev) \/ \E c \in Client : r \in LeadsTo(c)

\* The inductive invariant of calm operations.
CalmSound ==
  /\ IsFiniteSet(made)
  /\ GraphCalm(graph, made)
  /\ Numbered(graph, master)
  /\ \A c \in Client : Calm(graph, pc[c], tip[c], tree[c], job[c], master)
  /\ WorkKept

CalmInv == mode.calm => CalmSound

\* Every revision of a set is an ancestor of one of its heads: ancestries in a
\* finite graph do not grow for ever (Graph.heads).
LEMMA HeadsCover ==
  ASSUME Sound, GraphCalm(graph, made), IsFiniteSet(made), NEW S \in SUBSET made, NEW r \in S
  PROVE  \E h \in Heads(S) : Anc(r) \subseteq Anc(h)
<1>0. Null \notin made /\ \A q \in made : Anc(q) = graph[q].anc
  BY BoundAssumption DEF Sound, TypeOK, Anc
<1> DEFINE T == {q \in S : r \in Anc(q)}
           U == {made \ Anc(q) : q \in T}
           R == StrictSubsetOrdering(made)
<1>1. r \in T
  BY <1>0 DEF Sound, GraphSound
<1>2. U \subseteq FiniteSubsetsOf(made)
  <2> SUFFICES ASSUME NEW q \in T PROVE made \ Anc(q) \in FiniteSubsetsOf(made)
    OBVIOUS
  <2>1. made \ Anc(q) \in SUBSET made
    OBVIOUS
  <2>2. IsFiniteSet(made \ Anc(q))
    BY <2>1, FS_Subset
  <2> QED
    BY <2>1, <2>2 DEF FiniteSubsetsOf
<1>3. PICK x \in U : \A y \in U : <<y, x>> \notin R
  <2>1. IsWellFoundedOn(R, FiniteSubsetsOf(made))
    BY FS_StrictSubsetOrderingWellFounded
  <2>2. U # {}
    BY <1>1
  <2> HIDE DEF U, R
  <2> QED
    BY <1>2, <2>1, <2>2, WFMin
<1>4. PICK h \in T : x = made \ Anc(h)
  BY <1>3
<1>5. h \in Heads(S)
  <2> SUFFICES ASSUME NEW p \in S \ {h}, h \in Anc(p) PROVE FALSE
    BY <1>4 DEF Heads
  <2>1. h \in made /\ p \in made /\ r \in made
    BY <1>4
  <2>2. Anc(h) \subseteq Anc(p) /\ Anc(p) \subseteq made /\ p \in Anc(p) /\ p \notin Anc(h)
    BY <1>0, <2>1 DEF Sound, GraphSound, GraphCalm
  <2>3. p \in T
    BY <1>4, <2>2
  <2>4. made \ Anc(p) \in U
    BY <2>3
  <2>5. <<made \ Anc(p), made \ Anc(h)>> \in R
    <3>1. made \ Anc(p) \subseteq made \ Anc(h) /\ made \ Anc(p) # made \ Anc(h)
      BY <2>1, <2>2
    <3>2. made \ Anc(p) \in FiniteSubsetsOf(made) /\ made \ Anc(h) \in FiniteSubsetsOf(made)
      BY <1>2, <1>4, <2>4
    <3> HIDE DEF U, T
    <3> QED
      BY <3>1, <3>2 DEF StrictSubsetOrdering
  <2> QED
    BY <1>3, <1>4, <2>4, <2>5
<1>6. Anc(r) \subseteq Anc(h)
  BY <1>0, <1>4 DEF Sound, GraphSound
<1> QED
  BY <1>5, <1>6

\* set_parent_ids loses nothing it is given, and with a first parent the tree is
\* at that.
LEMMA ParentsCover ==
  ASSUME Sound, GraphCalm(graph, made), IsFiniteSet(made), NEW first \in made \cup {Null},
         NEW others \in SUBSET made, NEW conflicts \in BOOLEAN, NEW n \in Parents(first, others, conflicts)
  PROVE  /\ first # Null => n.basis = first
         /\ Anc(first) \subseteq Anc(n.basis)
         /\ \A m \in others : Anc(m) \subseteq Anc(n.basis) \cup UNION {Anc(q) : q \in n.merges}
<1>0. Null \notin made
  BY BoundAssumption DEF Sound, TypeOK
<1>1. CASE first # Null
  <2>1. n = [basis |-> first, merges |-> Heads({first} \cup others) \ {first}, conflicts |-> conflicts]
    BY <1>1 DEF Parents
  <2>2. {first} \cup others \in SUBSET made
    BY <1>1
  <2>3. \A m \in others : \E h \in Heads({first} \cup others) : Anc(m) \subseteq Anc(h)
    BY <2>2, HeadsCover
  <2>4. n.basis = first /\ n.merges = Heads({first} \cup others) \ {first}
    BY <2>1
  <2>5. ASSUME NEW m \in others PROVE Anc(m) \subseteq Anc(n.basis) \cup UNION {Anc(q) : q \in n.merges}
    <3>1. PICK h \in Heads({first} \cup others) : Anc(m) \subseteq Anc(h)
      BY <2>3
    <3>2. h = first \/ h \in n.merges
      BY <2>4
    <3>3. Anc(h) \subseteq Anc(n.basis) \cup UNION {Anc(q) : q \in n.merges}
      BY <2>4, <3>2
    <3> QED
      BY <3>1, <3>3
  <2> QED
    BY <2>4, <2>5
<1>2. CASE first = Null
  <2>1. Anc(first) = {}
    BY <1>2 DEF Anc
  <2>2. CASE others = {}
    BY <1>2, <2>1, <2>2
  <2>3. CASE others # {}
    <3>1. PICK b \in others : n = [basis |-> b, merges |-> Heads(others) \ {b}, conflicts |-> conflicts]
      BY <1>2, <2>3 DEF Parents
    <3>2. \A m \in others : \E h \in Heads(others) : Anc(m) \subseteq Anc(h)
      BY HeadsCover
    <3> QED
      BY <1>2, <2>1, <3>1, <3>2
  <2> QED
    BY <2>2, <2>3
<1> QED
  BY <1>1, <1>2

\* The two ways to speak of the graph are one.
LEMMA SameGraph == \A r : Ancestors(graph, r) = Anc(r) /\ Length(graph, r) = Depth(r)
  BY DEF Ancestors, Length, Anc, Depth

\* A graph that grows changes nothing for who refers to what was there.
LEMMA SameCalm ==
  ASSUME NEW g, NEW h, NEW M, \A r \in M : h[r] = g[r],
         NEW p, NEW i, NEW t, NEW j, NEW m,
         i.rev \in M \cup {Null}, t.basis \in M \cup {Null}, t.merges \subseteq M,
         j.new.rev \in M \cup {Null}, j.old \in M \cup {Null},
         p \in Uncommitting => j.old \in M
  PROVE  /\ Calm(g, p, i, t, j, m) => Calm(h, p, i, t, j, m)
         /\ Leads(h, p, i, t, j) = Leads(g, p, i, t, j)
<1>1. \A r \in M \cup {Null} : Ancestors(h, r) = Ancestors(g, r) /\ Length(h, r) = Length(g, r)
  BY DEF Ancestors, Length
<1>2. Leads(h, p, i, t, j) = Leads(g, p, i, t, j)
  <2>1. UNION {Ancestors(h, q) : q \in t.merges} = UNION {Ancestors(g, q) : q \in t.merges}
    BY <1>1
  <2> QED
    BY <1>1, <2>1 DEF Leads
<1>3. ASSUME Calm(g, p, i, t, j, m) PROVE Calm(h, p, i, t, j, m)
  <2>1. Numbered(h, i) /\ Numbered(h, j.new)
    BY <1>1, <1>3 DEF Calm, Numbered
  <2>2. CommitCovers(h, p, i, t, j, m)
    <3>1. /\ Ancestors(h, t.basis) = Ancestors(g, t.basis)
          /\ Ancestors(h, j.new.rev) = Ancestors(g, j.new.rev)
      BY <1>1
    <3>2. \A q \in t.merges : Ancestors(h, q) = Ancestors(g, q)
      BY <1>1
    <3>3. CommitCovers(g, p, i, t, j, m)
      BY <1>3 DEF Calm
    <3> QED
      BY <3>1, <3>2, <3>3 DEF CommitCovers
  <2>3. TipCovers(h, p, i, t, j)
    BY <1>1, <1>3 DEF Calm, TipCovers
  <2>4. UncommitSound(h, p, i, t, j, m)
    BY <1>3 DEF Calm, UncommitSound
  <2> QED
    BY <1>3, <2>1, <2>2, <2>3, <2>4 DEF Calm
<1> QED
  BY <1>2, <1>3

\* A step of c in calm operations, as far as it is about c and the master.
CalmStep(c) ==
  /\ IsFiniteSet(made') /\ GraphCalm(graph', made')
  /\ Numbered(graph', master')
  /\ master.rev # Null => master'.rev # Null
  /\ Calm(graph', pc'[c], tip'[c], tree'[c], job'[c], master')
  /\ \A r \in work' : r \notin work \/ r \in Ancestors(graph, master.rev) \/ r \in LeadsTo(c)
       => \/ r \in Ancestors(graph', master'.rev)
          \/ r \in Leads(graph', pc'[c], tip'[c], tree'[c], job'[c])

\* What another client relies on outlives a step of c.
LEMMA OthersCalm ==
  ASSUME Sound, CalmSound, NEW c \in Client, OnlyOf(c), master.rev # Null => master'.rev # Null,
         NEW d \in Client, d # c
  PROVE  /\ Calm(graph', pc'[d], tip'[d], tree'[d], job'[d], master')
         /\ Leads(graph', pc'[d], tip'[d], tree'[d], job'[d]) = LeadsTo(d)
<1>1. Local(d) /\ Calm(graph, pc[d], tip[d], tree[d], job[d], master)
  BY DEF Sound, CalmSound
<1>2. /\ tip'[d] = tip[d] /\ tree'[d] = tree[d] /\ pc'[d] = pc[d] /\ job'[d] = job[d]
      /\ lock = d => master' = master
      /\ \A r \in made : graph'[r] = graph[r]
  BY DEF OnlyOf
<1>3. pc[d] \in Uncommitting => job[d].old \in made
  BY <1>1 DEF Local, Pending, Uncommitting
<1>4. Calm(graph, pc[d], tip[d], tree[d], job[d], master')
  <2>1. pc[d] = "uncommit master" => master' = master
    BY <1>1, <1>2 DEF Local, Locked
  <2>2. UncommitSound(graph, pc[d], tip[d], tree[d], job[d], master')
    BY <1>1, <2>1 DEF Calm, UncommitSound
  <2>3. CommitCovers(graph, pc[d], tip[d], tree[d], job[d], master')
    BY <1>1 DEF Calm, CommitCovers
  <2> QED
    BY <1>1, <2>2, <2>3 DEF Calm
<1>5. /\ Calm(graph', pc[d], tip[d], tree[d], job[d], master')
      /\ Leads(graph', pc[d], tip[d], tree[d], job[d]) = Leads(graph, pc[d], tip[d], tree[d], job[d])
  <2>1. /\ tip[d].rev \in made \cup {Null} /\ tree[d].basis \in made \cup {Null}
        /\ tree[d].merges \subseteq made
        /\ job[d].new.rev \in made \cup {Null} /\ job[d].old \in made \cup {Null}
    BY <1>1 DEF Local, Refs
  <2> DEFINE G == graph'
             m == master'
             p == pc[d]
             i == tip[d]
             t == tree[d]
             j == job[d]
  <2>2. \A r \in made : G[r] = graph[r]
    BY <1>2
  <2>3. /\ i.rev \in made \cup {Null} /\ t.basis \in made \cup {Null} /\ t.merges \subseteq made
        /\ j.new.rev \in made \cup {Null} /\ j.old \in made \cup {Null}
        /\ p \in Uncommitting => j.old \in made
        /\ Calm(graph, p, i, t, j, m)
    BY <1>3, <1>4, <2>1
  <2> HIDE DEF G, m, p, i, t, j
  <2>4. Calm(G, p, i, t, j, m) /\ Leads(G, p, i, t, j) = Leads(graph, p, i, t, j)
    BY <2>2, <2>3, SameCalm
  <2> QED
    BY <2>4 DEF G, m, p, i, t, j
<1> QED
  BY <1>2, <1>5 DEF LeadsTo

\* The steps of c, taken one by one, keep the invariant of all.
LEMMA StepCalm ==
  ASSUME Sound, CalmSound, NEW c \in Client, Kept(c), CalmStep(c)
  PROVE  CalmSound'
<1>1. OnlyOf(c) /\ (master.rev # Null => master'.rev # Null)
  BY DEF Kept, CalmStep
<1>2. \A d \in Client : Calm(graph', pc'[d], tip'[d], tree'[d], job'[d], master')
  BY <1>1, OthersCalm DEF CalmStep
<1>3. ASSUME NEW r \in work'
      PROVE  \/ r \in Ancestors(graph', master'.rev)
             \/ \E d \in Client : r \in Leads(graph', pc'[d], tip'[d], tree'[d], job'[d])
  <2>1. CASE r \notin work \/ r \in Ancestors(graph, master.rev) \/ r \in LeadsTo(c)
    BY <1>3, <2>1 DEF CalmStep
  <2>2. CASE r \in work /\ r \notin Ancestors(graph, master.rev) /\ r \notin LeadsTo(c)
    <3>1. PICK d \in Client : r \in LeadsTo(d)
      BY <2>2 DEF CalmSound, WorkKept
    <3>2. d # c
      BY <2>2, <3>1
    <3> QED
      BY <1>1, <3>1, <3>2, OthersCalm
  <2> QED
    BY <2>1, <2>2
<1>4. WorkKept'
  BY <1>3 DEF WorkKept, LeadsTo
<1> QED
  BY <1>2, <1>4 DEF CalmSound, CalmStep

\* A step that leaves graph and master alone.
LEMMA QuietStep ==
  ASSUME Sound, CalmSound, NEW c \in Client, UNCHANGED <<made, graph, master>>,
         Calm(graph, pc'[c], tip'[c], tree'[c], job'[c], master),
         \A r \in work' : r \notin work \/ r \in LeadsTo(c)
           => \/ r \in Ancestors(graph, master.rev)
              \/ r \in Leads(graph, pc'[c], tip'[c], tree'[c], job'[c])
  PROVE  CalmStep(c)
<1>1. graph' = graph /\ made' = made /\ master' = master
  OBVIOUS
<1> QED
  BY <1>1 DEF CalmStep, CalmSound

\* The end of an operation leaves nothing in memory.
LEMMA ReturnCalm ==
  ASSUME Sound, NEW c \in Client, Return(c)
  PROVE  pc'[c] = "idle" /\ job'[c] = NoJob /\ NoJob.old = Null /\ NoJob.new = NoRevision
         /\ Numbered(graph, NoRevision)
<1>1. pc \in [Client -> Points] /\ job \in [Client -> Job]
  BY PartTypes DEF Sound, TypeOK
<1> QED
  BY <1>1 DEF Return, Goto, NoJob, NoRevision, Numbered, Length

\* What the invariant says of one client, part by part.
LEMMA CalmParts ==
  ASSUME Sound, CalmSound, NEW c \in Client
  PROVE  /\ Numbered(graph, tip[c]) /\ Numbered(graph, job[c].new) /\ Numbered(graph, master)
         /\ AtTip(pc[c], tip[c], tree[c])
         /\ CommitCovers(graph, pc[c], tip[c], tree[c], job[c], master)
         /\ TipCovers(graph, pc[c], tip[c], tree[c], job[c])
         /\ UncommitSound(graph, pc[c], tip[c], tree[c], job[c], master)
         /\ GraphCalm(graph, made) /\ IsFiniteSet(made)
  BY DEF CalmSound, Calm

\* What it is to be led to by a client.
LEMMA InLeads ==
  ASSUME NEW g, NEW p, NEW i, NEW t, NEW j, NEW r
  PROVE  r \in Leads(g, p, i, t, j) <=>
           /\ p = "uncommit tree" => r # j.old
           /\ \/ r \in Ancestors(g, i.rev) \/ r \in Ancestors(g, t.basis) \/ r \in Ancestors(g, j.old)
              \/ \E q \in t.merges : r \in Ancestors(g, q)
<1>1. r \in UNION {Ancestors(g, q) : q \in t.merges} <=> \E q \in t.merges : r \in Ancestors(g, q)
  OBVIOUS
<1> QED
  BY <1>1 DEF Leads

\* A client leads to a revision through its tip, its tree or what it remembers.
LEMMA LeadsThrough ==
  ASSUME NEW c \in Client, NEW r \in LeadsTo(c)
  PROVE  /\ pc[c] = "uncommit tree" => r # job[c].old
         /\ \/ r \in Ancestors(graph, tip[c].rev) \/ r \in Ancestors(graph, tree[c].basis)
            \/ r \in Ancestors(graph, job[c].old) \/ \E q \in tree[c].merges : r \in Ancestors(graph, q)
<1>1. r \in UNION {Ancestors(graph, q) : q \in tree[c].merges} =>
        \E q \in tree[c].merges : r \in Ancestors(graph, q)
  OBVIOUS
<1> QED
  BY <1>1 DEF LeadsTo, Leads

\* A step that leaves the parents of the tree alone, where the tree leads to
\* the tip and to what was remembered if they are changed.
LEMMA OpCalm ==
  ASSUME Sound, CalmSound, NEW c \in Client, UNCHANGED <<made, graph, master>>,
         Calm(graph, pc'[c], tip'[c], tree'[c], job'[c], master),
         tree'[c].basis = tree[c].basis, tree'[c].merges = tree[c].merges,
         tip[c].rev \in {tree[c].basis, tip'[c].rev},
         job[c].old \in {Null, tree[c].basis, job'[c].old},
         work' \subseteq work, pc'[c] = "uncommit tree" => job'[c].old \notin work'
  PROVE  CalmStep(c)
<1>1. ASSUME NEW r \in work', r \in LeadsTo(c)
      PROVE  r \in Leads(graph, pc'[c], tip'[c], tree'[c], job'[c])
  <2>1. \/ r \in Ancestors(graph, tip[c].rev) \/ r \in Ancestors(graph, tree[c].basis)
        \/ r \in Ancestors(graph, job[c].old) \/ \E q \in tree[c].merges : r \in Ancestors(graph, q)
    BY <1>1, LeadsThrough
  <2>2. Ancestors(graph, Null) = {}
    BY DEF Ancestors
  <2>3. \/ r \in Ancestors(graph, tip'[c].rev) \/ r \in Ancestors(graph, tree'[c].basis)
        \/ r \in Ancestors(graph, job'[c].old) \/ \E q \in tree'[c].merges : r \in Ancestors(graph, q)
    BY <2>1, <2>2
  <2>4. pc'[c] = "uncommit tree" => r # job'[c].old
    OBVIOUS
  <2> QED
    BY <2>3, <2>4, InLeads
<1> QED
  BY <1>1, QuietStep

\* An operation ends, and the tree is at its tip.
LEMMA EndCalm ==
  ASSUME Sound, CalmSound, NEW c \in Client, Return(c), UNCHANGED <<made, graph, master, tip, tree, work>>,
         tree[c].basis = tip[c].rev, job[c].old \in {Null, tree[c].basis}
  PROVE  CalmStep(c)
<1>1. /\ pc'[c] = "idle" /\ job'[c].old = Null /\ Numbered(graph, job'[c].new)
      /\ tip'[c] = tip[c] /\ tree'[c] = tree[c]
  BY ReturnCalm
<1>2. Calm(graph, pc'[c], tip'[c], tree'[c], job'[c], master)
  BY <1>1, CalmParts DEF Calm, AtTip, CommitCovers, TipCovers, UncommitSound, Committing, Uncommitting
<1> QED
  BY <1>1, <1>2, OpCalm

\* An operation ends by giving the tree the tip as its first parent, and parents
\* that lead to all that the client led to.
LEMMA TreeCalm ==
  ASSUME Sound, CalmSound, NEW c \in Client, Return(c), UNCHANGED <<made, graph, master, tip>>,
         NEW others \in SUBSET made, NEW conflicts \in BOOLEAN, tip[c].rev = Null => others = {},
         NEW n \in Parents(tip[c].rev, others, conflicts), tree' = [tree EXCEPT ![c] = n],
         \A r \in work' : r \notin work \/ r \in LeadsTo(c) =>
           r \in Ancestors(graph, tip[c].rev) \/ \E q \in others : r \in Ancestors(graph, q)
  PROVE  CalmStep(c)
<1>1. /\ pc'[c] = "idle" /\ job'[c].old = Null /\ Numbered(graph, job'[c].new) /\ tip'[c] = tip[c]
  BY ReturnCalm
<1>2. tree'[c] = n
  BY PartTypes DEF Sound
<1>3. tip[c].rev \in made \cup {Null} /\ GraphCalm(graph, made) /\ IsFiniteSet(made)
  BY CalmParts DEF Sound, Local, Refs
<1>4. /\ tip[c].rev # Null => n.basis = tip[c].rev
      /\ \A m \in others : Anc(m) \subseteq Anc(n.basis) \cup UNION {Anc(q) : q \in n.merges}
  BY <1>3, ParentsCover
<1>5. n.basis = tip[c].rev
  BY <1>4 DEF Parents
<1>6. Calm(graph, pc'[c], tip'[c], tree'[c], job'[c], master)
  BY <1>1, <1>2, <1>5, CalmParts DEF Calm, AtTip, CommitCovers, TipCovers, UncommitSound, Committing, Uncommitting
<1>7. ASSUME NEW r \in work', r \notin work \/ r \in LeadsTo(c)
      PROVE  r \in Leads(graph, pc'[c], tip'[c], tree'[c], job'[c])
  <2>1. r \in Ancestors(graph, tip[c].rev) \/ \E q \in others : r \in Ancestors(graph, q)
    BY <1>7
  <2>2. r \in Anc(tip[c].rev) \/ r \in Anc(n.basis) \/ \E q \in n.merges : r \in Anc(q)
    BY <1>4, <2>1, SameGraph
  <2>3. \/ r \in Ancestors(graph, tip'[c].rev) \/ r \in Ancestors(graph, tree'[c].basis)
        \/ \E q \in tree'[c].merges : r \in Ancestors(graph, q)
    BY <1>1, <1>2, <2>2, SameGraph
  <2> QED
    BY <1>1, <2>3, InLeads
<1> QED
  BY <1>6, <1>7, QuietStep

-----------------------------------------------------------------------------
\* The steps of calm operations.

\* A commit that begins on the master is at the tip of the master.
LEMMA CommitBeginCalm == ASSUME Sound, CalmSound, NEW c \in Client, CommitBegin(c) PROVE CalmStep(c)
<1>1. PICK b : job' = [job EXCEPT ![c] = [NoJob EXCEPT !.onMaster = b]] /\ (b => tip[c].rev = master.rev)
  BY DEF CommitBegin
<1>2. /\ pc[c] = "idle" /\ pc' = [pc EXCEPT ![c] = "commit"]
      /\ UNCHANGED <<made, graph, master, tip, tree, work>>
  BY DEF CommitBegin, Goto
<1>3. /\ [NoJob EXCEPT !.onMaster = b].onMaster = b /\ [NoJob EXCEPT !.onMaster = b].new = NoRevision
      /\ [NoJob EXCEPT !.onMaster = b].old = Null
  BY DEF NoJob
<1>4. pc'[c] = "commit" /\ job'[c].onMaster = b /\ job'[c].new = NoRevision /\ job'[c].old = Null
  <2>1. pc \in [Client -> Points] /\ job \in [Client -> Job]
    BY PartTypes DEF Sound, TypeOK
  <2> QED
    BY <1>1, <1>2, <1>3, <2>1
<1>5. Numbered(graph, NoRevision)
  BY DEF Numbered, NoRevision, Length
<1>6. tip'[c] = tip[c] /\ tree'[c] = tree[c] /\ tree[c].basis = tip[c].rev /\ job[c].old = Null
  BY <1>2, CalmParts DEF AtTip, UncommitSound, Uncommitting
<1>7. Calm(graph, pc'[c], tip'[c], tree'[c], job'[c], master)
  BY <1>1, <1>4, <1>5, <1>6, CalmParts
  DEF Calm, AtTip, CommitCovers, TipCovers, UncommitSound, Committing, Uncommitting
<1> QED
  BY <1>2, <1>4, <1>6, <1>7, OpCalm

\* A commit that is refused leaves the tree at its tip.
LEMMA CommitRefusedCalm == ASSUME Sound, CalmSound, NEW c \in Client, CommitRefused(c) PROVE CalmStep(c)
<1>1. Return(c) /\ UNCHANGED <<made, graph, master, tip, tree, work>> /\ pc[c] = "commit"
  BY DEF CommitRefused
<1>2. tree[c].basis = tip[c].rev /\ job[c].old = Null
  BY <1>1, CalmParts DEF AtTip, UncommitSound, Uncommitting
<1> QED
  BY <1>1, <1>2, EndCalm

\* A step that changes the master, the rest of the client's state staying as it is.
LEMMA MasterCalm ==
  ASSUME Sound, CalmSound, NEW c \in Client, UNCHANGED <<made, graph, tip, tree, job>>,
         Numbered(graph, master'), master'.rev # Null, work' \subseteq work,
         pc[c] # "uncommit tree", pc'[c] # "uncommit tree",
         Calm(graph, pc'[c], tip[c], tree[c], job[c], master'),
         \A r \in work' : r \in Ancestors(graph, master.rev) =>
           r \in Ancestors(graph, master'.rev) \/ r \in Ancestors(graph, tree[c].basis)
  PROVE  CalmStep(c)
<1>1. /\ graph' = graph /\ made' = made /\ tip'[c] = tip[c] /\ tree'[c] = tree[c] /\ job'[c] = job[c]
  OBVIOUS
<1>2. \A r : r \in Leads(graph, pc'[c], tip[c], tree[c], job[c]) <=> r \in LeadsTo(c)
  BY DEF Leads, LeadsTo
<1>3. \A r : r \in Ancestors(graph, tree[c].basis) => r \in LeadsTo(c)
  BY DEF Leads, LeadsTo
<1>4. \A r \in work' : r \notin work \/ r \in Ancestors(graph, master.rev) \/ r \in LeadsTo(c)
       => \/ r \in Ancestors(graph, master'.rev)
          \/ r \in Leads(graph, pc'[c], tip[c], tree[c], job[c])
  BY <1>2, <1>3
<1> QED
  BY <1>1, <1>4, CalmParts DEF CalmStep

\* The master gets a revision that leads to all it led to.
LEMMA CommitMasterCalm == ASSUME Sound, CalmSound, NEW c \in Client, CommitMaster(c) PROVE CalmStep(c)
<1>1. /\ pc[c] = "commit master" /\ pc' = [pc EXCEPT ![c] = "commit local"] /\ master' = job[c].new
      /\ UNCHANGED <<made, graph, tip, tree, job, work>>
  BY DEF CommitMaster, Goto
<1>2. pc'[c] = "commit local"
  BY <1>1 DEF Sound, TypeOK
<1>3. job[c].new.rev \in made /\ Null \notin made /\ Anc(master.rev) \subseteq Anc(job[c].new.rev)
  BY <1>1, BoundAssumption DEF Sound, Local, Pending, TypeOK
<1>4. Calm(graph, "commit local", tip[c], tree[c], job[c], master')
  BY <1>1, CalmParts
  DEF Calm, AtTip, CommitCovers, TipCovers, UncommitSound, Committing, Uncommitting
<1>5. Ancestors(graph, master.rev) \subseteq Ancestors(graph, master'.rev)
  BY <1>1, <1>3, SameGraph
<1>6. Numbered(graph, master') /\ master'.rev # Null
  BY <1>1, <1>3, CalmParts
<1> QED
  BY <1>1, <1>2, <1>4, <1>5, <1>6, MasterCalm

\* The branch gets the revision; the tree still leads to the old tip.
LEMMA CommitLocalCalm == ASSUME Sound, CalmSound, NEW c \in Client, CommitLocal(c) PROVE CalmStep(c)
<1>1. /\ pc[c] = "commit local" /\ pc' = [pc EXCEPT ![c] = "commit tree"]
      /\ tip' = [tip EXCEPT ![c] = job[c].new]
      /\ UNCHANGED <<made, graph, master, tree, job, work>>
  BY DEF CommitLocal, Goto
<1>2. pc'[c] = "commit tree" /\ tip'[c] = job[c].new /\ tree'[c] = tree[c] /\ job'[c] = job[c]
  BY <1>1 DEF Sound, TypeOK
<1>3. tree[c].basis = tip[c].rev
  BY <1>1, CalmParts DEF AtTip
<1>4. Calm(graph, "commit tree", job[c].new, tree[c], job[c], master)
  BY <1>1, CalmParts
  DEF Calm, AtTip, CommitCovers, TipCovers, UncommitSound, Committing, Uncommitting
<1> QED
  BY <1>1, <1>2, <1>3, <1>4, OpCalm

\* The tree gets the revision, which leads to all its parents.
LEMMA CommitTreeCalm == ASSUME Sound, CalmSound, NEW c \in Client, CommitTree(c) PROVE CalmStep(c)
<1>1. PICK n \in Parents(job[c].new.rev, {}, FALSE) : tree' = [tree EXCEPT ![c] = n]
  BY DEF CommitTree
<1>2. /\ pc[c] = "commit tree" /\ Return(c) /\ work' = work \cup {job[c].new.rev}
      /\ UNCHANGED <<made, graph, master, tip>>
  BY DEF CommitTree
<1>3. /\ job[c].new.rev = tip[c].rev /\ job[c].old = Null
      /\ Ancestors(graph, tree[c].basis) \subseteq Ancestors(graph, job[c].new.rev)
      /\ \A q \in tree[c].merges : Ancestors(graph, q) \subseteq Ancestors(graph, job[c].new.rev)
  BY <1>2, CalmParts DEF CommitCovers, UncommitSound, Committing, Uncommitting
<1>4. job[c].new.rev \in Ancestors(graph, job[c].new.rev) /\ Ancestors(graph, Null) = {}
  BY <1>2, BoundAssumption DEF Sound, Local, Pending, TypeOK, GraphSound, Ancestors
<1>5. ASSUME NEW r \in work', r \notin work \/ r \in LeadsTo(c)
      PROVE  r \in Ancestors(graph, tip[c].rev) \/ \E q \in {} : r \in Ancestors(graph, q)
  <2>1. CASE r \notin work
    BY <1>2, <1>3, <1>4, <2>1
  <2>2. CASE r \in LeadsTo(c)
    <3>1. \/ r \in Ancestors(graph, tip[c].rev) \/ r \in Ancestors(graph, tree[c].basis)
          \/ r \in Ancestors(graph, job[c].old) \/ \E q \in tree[c].merges : r \in Ancestors(graph, q)
      BY <2>2, LeadsThrough
    <3> QED
      BY <1>3, <1>4, <3>1
  <2> QED
    BY <1>5, <2>1, <2>2
<1> QED
  BY <1>1, <1>2, <1>3, <1>5, TreeCalm

\* The branch becomes the master's; the tree still leads to the tip that is
\* pivoted out, and it is remembered if the master does not lead to it.
LEMMA UpdateBranchCalm == ASSUME Sound, CalmSound, NEW c \in Client, UpdateBranch(c) PROVE CalmStep(c)
<1>1. /\ pc[c] = "idle" /\ pc' = [pc EXCEPT ![c] = "update tree"]
      /\ UNCHANGED <<made, graph, master, tree, work>>
  BY DEF UpdateBranch, Goto
<1>2. pc'[c] = "update tree" /\ tree'[c] = tree[c]
  BY <1>1 DEF Sound, TypeOK
<1>3. tree[c].basis = tip[c].rev /\ job[c].old = Null
  BY <1>1, CalmParts DEF AtTip, UncommitSound, Uncommitting
<1>4. CASE UNCHANGED <<tip, job>>
  <2>1. Calm(graph, "update tree", tip[c], tree[c], job[c], master)
    BY <1>3, CalmParts
    DEF Calm, AtTip, CommitCovers, TipCovers, UncommitSound, Committing, Uncommitting
  <2> QED
    BY <1>1, <1>2, <1>3, <1>4, <2>1, OpCalm
<1>5. CASE /\ master.rev # Null /\ tip' = [tip EXCEPT ![c] = master]
           /\ job' = [job EXCEPT ![c].old = PivotedOut(c)]
  <2>1. job[c] \in Job /\ job \in [Client -> Job] /\ tip \in [Client -> Info]
    BY PartTypes DEF Sound, TypeOK
  <2>2. tip'[c] = master /\ job'[c].new = job[c].new /\ job'[c].old = PivotedOut(c)
    BY <1>5, <2>1 DEF Job
  <2>3. /\ PivotedOut(c) \in {Null, tip[c].rev}
        /\ PivotedOut(c) = Null => tip[c].rev \in Ancestors(graph, master.rev) \cup {Null}
    BY SameGraph DEF PivotedOut
  <2>4. Calm(graph, pc'[c], tip'[c], tree'[c], job'[c], master)
    <3>1. TipCovers(graph, "update tree", master, tree[c], job'[c])
      BY <1>3, <1>5, <2>2, <2>3 DEF TipCovers
    <3>2. Numbered(graph, master) /\ Numbered(graph, job'[c].new)
      BY <2>2, CalmParts
    <3>3. /\ AtTip("update tree", master, tree[c])
          /\ CommitCovers(graph, "update tree", master, tree[c], job'[c], master)
          /\ UncommitSound(graph, "update tree", master, tree[c], job'[c], master)
      BY DEF AtTip, CommitCovers, UncommitSound, Committing, Uncommitting
    <3> QED
      BY <1>2, <2>2, <3>1, <3>2, <3>3 DEF Calm
  <2> QED
    BY <1>1, <1>2, <1>3, <2>2, <2>4, OpCalm
<1> QED
  BY <1>4, <1>5 DEF UpdateBranch

\* The tree goes to the new tip, and the old one becomes a parent if the new one
\* does not lead to it.
LEMMA UpdateTreeCalm == ASSUME Sound, CalmSound, NEW c \in Client, UpdateTree(c) PROVE CalmStep(c)
<1>1. pc[c] = "update tree" /\ Return(c) /\ UNCHANGED <<made, graph, master, tip, work>>
  BY DEF UpdateTree
<1>2. /\ job[c].old \in {Null, tree[c].basis}
      /\ job[c].old = Null => tree[c].basis \in Ancestors(graph, tip[c].rev) \cup {tip[c].rev, Null}
      /\ tip[c].rev = Null => tree[c].basis = Null
  BY <1>1, CalmParts DEF TipCovers
<1>3. /\ tip[c].rev \in made \cup {Null} /\ Null \notin made
      /\ tree[c].merges \cup OldTip(c) \in SUBSET made /\ tree[c].conflicts \in BOOLEAN
  BY PartTypes, BoundAssumption DEF Sound, Local, Refs, OldTip, Tree, TypeOK
<1>4. CASE tree' = tree /\ (tip[c].rev = tree[c].basis \/ tip[c].rev = Null)
  BY <1>1, <1>2, <1>4, EndCalm
<1>5. CASE /\ tip[c].rev = Null => tree[c].merges = {}
           /\ \E conflicts \in BOOLEAN :
                \E n \in Parents(tip[c].rev, tree[c].merges \cup OldTip(c), tree[c].conflicts \/ conflicts) :
                  tree' = [tree EXCEPT ![c] = n]
  <2>1. PICK conflicts \in BOOLEAN :
          \E n \in Parents(tip[c].rev, tree[c].merges \cup OldTip(c), tree[c].conflicts \/ conflicts) :
            tree' = [tree EXCEPT ![c] = n]
    BY <1>5
  <2>2. PICK n \in Parents(tip[c].rev, tree[c].merges \cup OldTip(c), tree[c].conflicts \/ conflicts) :
          tree' = [tree EXCEPT ![c] = n]
    BY <2>1
  <2>3. (tree[c].conflicts \/ conflicts) \in BOOLEAN
    OBVIOUS
  <2>4. tip[c].rev = Null => tree[c].merges \cup OldTip(c) = {}
    BY <1>2, <1>5 DEF OldTip
  <2>5. ASSUME NEW r \in work', r \notin work \/ r \in LeadsTo(c)
        PROVE  \/ r \in Ancestors(graph, tip[c].rev)
               \/ \E q \in tree[c].merges \cup OldTip(c) : r \in Ancestors(graph, q)
    <3>1. \/ r \in Ancestors(graph, tip[c].rev) \/ r \in Ancestors(graph, tree[c].basis)
          \/ r \in Ancestors(graph, job[c].old) \/ \E q \in tree[c].merges : r \in Ancestors(graph, q)
      BY <1>1, <2>5, LeadsThrough
    <3>2. Ancestors(graph, Null) = {} /\ (job[c].old # Null => job[c].old \in OldTip(c))
      BY DEF Ancestors, OldTip
    <3>3. job[c].old = Null => Ancestors(graph, tree[c].basis) \subseteq Ancestors(graph, tip[c].rev)
      BY <1>2, <1>3, <3>2 DEF Sound, GraphSound, Ancestors
    <3>4. job[c].old # Null => job[c].old = tree[c].basis
      BY <1>2
    <3> QED
      BY <3>1, <3>2, <3>3, <3>4
  <2> QED
    BY <1>1, <1>3, <2>2, <2>3, <2>4, <2>5, TreeCalm
<1> QED
  BY <1>2, <1>4, <1>5 DEF UpdateTree

\* Resolving conflicts and binding change neither parents nor tips.
LEMMA ResolveCalm == ASSUME Sound, CalmSound, NEW c \in Client, Resolve(c) PROVE CalmStep(c)
<1>1. /\ tree' = [tree EXCEPT ![c] = [tree[c] EXCEPT !.conflicts = FALSE]]
      /\ UNCHANGED <<made, graph, master, tip, pc, job, work>> /\ pc[c] = "idle"
  BY DEF Resolve, Sound
<1>2. tree[c] \in Tree /\ tree \in [Client -> Tree]
  BY PartTypes DEF Sound
<1>3. tree'[c].basis = tree[c].basis /\ tree'[c].merges = tree[c].merges
  BY <1>1, <1>2 DEF Tree
<1>4. Calm(graph, pc[c], tip[c], tree'[c], job[c], master)
  BY <1>1, <1>3, CalmParts
  DEF Calm, AtTip, CommitCovers, TipCovers, UncommitSound, Committing, Uncommitting
<1> QED
  BY <1>1, <1>3, <1>4, OpCalm

LEMMA BindCalm == ASSUME Sound, CalmSound, NEW c \in Client, Bind(c) PROVE CalmStep(c)
<1>1. UNCHANGED <<made, graph, master, tip, tree, pc, job, work>> /\ pc[c] = "idle"
  BY DEF Bind
<1>2. Calm(graph, pc[c], tip[c], tree[c], job[c], master)
  BY DEF CalmSound
<1> QED
  BY <1>1, <1>2, OpCalm

\* Pulling into the master leads on to all the master led to.
LEMMA PullMasterCalm ==
  ASSUME Sound, CalmSound, NEW c \in Client, NEW d \in Client, PullMaster(c, d)
  PROVE  CalmStep(c)
<1>1. /\ pc[c] = "idle" /\ pc' = [pc EXCEPT ![c] = "pull local"]
      /\ job' = [job EXCEPT ![c] = [NoJob EXCEPT !.onMaster = bound[c], !.new = tip[d]]]
      /\ UNCHANGED <<made, graph, tip, tree, work>>
  BY DEF PullMaster, Goto
<1>2. pc'[c] = "pull local" /\ job'[c].new = tip[d] /\ job'[c].old = Null
  <2>1. pc \in [Client -> Points] /\ job \in [Client -> Job]
    BY PartTypes DEF Sound, TypeOK
  <2> QED
    BY <1>1, <2>1 DEF NoJob
<1>3. tip'[c] = tip[c] /\ tree'[c] = tree[c] /\ tree[c].basis = tip[c].rev /\ job[c].old = Null
  BY <1>1, CalmParts DEF AtTip, UncommitSound, Uncommitting
<1>4. \/ master' = master
      \/ /\ master' = tip[d] /\ tip[d].rev # Null
         /\ master.rev = Null \/ master.rev \in Anc(tip[d].rev)
  BY DEF PullMaster, Pulled, Related
<1>5. /\ Numbered(graph, master') /\ (master.rev # Null => master'.rev # Null)
      /\ Numbered(graph, tip[c]) /\ Numbered(graph, tip[d])
  BY <1>4, CalmParts
<1>6. Ancestors(graph, master.rev) \subseteq Ancestors(graph, master'.rev)
  <2>1. tip[d].rev \in made \cup {Null}
    BY DEF Sound, Local, Refs
  <2> QED
    BY <1>4, <2>1, SameGraph DEF Sound, GraphSound, Anc, Ancestors
<1>7. Calm(graph, pc'[c], tip'[c], tree'[c], job'[c], master')
  <2>1. /\ AtTip("pull local", tip[c], tree[c])
        /\ CommitCovers(graph, "pull local", tip[c], tree[c], job'[c], master')
        /\ TipCovers(graph, "pull local", tip[c], tree[c], job'[c])
        /\ UncommitSound(graph, "pull local", tip[c], tree[c], job'[c], master')
    BY <1>2, <1>3 DEF AtTip, CommitCovers, TipCovers, UncommitSound, Committing, Uncommitting
  <2> QED
    BY <1>2, <1>3, <1>5, <2>1 DEF Calm
<1>8. ASSUME NEW r \in LeadsTo(c) PROVE r \in Leads(graph, pc'[c], tip'[c], tree'[c], job'[c])
  <2>1. \/ r \in Ancestors(graph, tip[c].rev) \/ r \in Ancestors(graph, tree[c].basis)
        \/ r \in Ancestors(graph, job[c].old) \/ \E q \in tree[c].merges : r \in Ancestors(graph, q)
    BY LeadsThrough
  <2>2. pc'[c] # "uncommit tree" /\ job'[c].old = job[c].old
    BY <1>2, <1>3
  <2> QED
    BY <1>3, <2>1, <2>2, InLeads
<1>9. graph' = graph /\ made' = made /\ work' = work
  BY <1>1
<1> QED
  BY <1>5, <1>6, <1>7, <1>8, <1>9, CalmParts DEF CalmStep

\* The branch goes on to what was pulled; the tree still leads to the old tip.
LEMMA PullLocalCalm == ASSUME Sound, CalmSound, NEW c \in Client, PullLocal(c) PROVE CalmStep(c)
<1>1. pc[c] = "pull local" /\ UNCHANGED <<made, graph, master, tree, work>>
  BY DEF PullLocal
<1>2. tree'[c] = tree[c] /\ tree[c].basis = tip[c].rev /\ job[c].old = Null
  BY <1>1, CalmParts DEF AtTip, UncommitSound, Uncommitting
<1>3. CASE Return(c) /\ UNCHANGED tip
  BY <1>1, <1>2, <1>3, EndCalm
<1>4. CASE /\ Related(job[c].new, tip[c]) /\ Pulled(job[c].new, tip[c]) # tip[c]
           /\ tip' = [tip EXCEPT ![c] = Pulled(job[c].new, tip[c])]
           /\ pc' = [pc EXCEPT ![c] = "pull tree"] /\ UNCHANGED job
  <2>1. /\ tip' = [tip EXCEPT ![c] = job[c].new] /\ job[c].new.rev # Null
        /\ tip[c].rev \in Ancestors(graph, job[c].new.rev) \cup {Null}
    BY <1>4, SameGraph DEF Related, Pulled
  <2>2. tip'[c] = job[c].new /\ pc'[c] = "pull tree" /\ job'[c] = job[c]
    BY <1>4, <2>1 DEF Sound, TypeOK
  <2>3. Calm(graph, "pull tree", job[c].new, tree[c], job[c], master)
    <3>1. /\ AtTip("pull tree", job[c].new, tree[c])
          /\ CommitCovers(graph, "pull tree", job[c].new, tree[c], job[c], master)
          /\ TipCovers(graph, "pull tree", job[c].new, tree[c], job[c])
          /\ UncommitSound(graph, "pull tree", job[c].new, tree[c], job[c], master)
      BY <1>2, <2>1 DEF AtTip, CommitCovers, TipCovers, UncommitSound, Committing, Uncommitting
    <3> QED
      BY <3>1, CalmParts DEF Calm
  <2> QED
    BY <1>1, <1>2, <2>2, <2>3, OpCalm
<1> QED
  BY <1>3, <1>4 DEF PullLocal, Goto

\* The tree follows its branch, which leads to what the tree was at.
LEMMA PullTreeCalm == ASSUME Sound, CalmSound, NEW c \in Client, PullTree(c) PROVE CalmStep(c)
<1>1. pc[c] = "pull tree" /\ Return(c) /\ UNCHANGED <<made, graph, master, tip, work>>
  BY DEF PullTree
<1>2. PICK conflicts \in BOOLEAN :
        \E n \in Parents(tip[c].rev, tree[c].merges, tree[c].conflicts \/ conflicts) :
          tree' = [tree EXCEPT ![c] = n]
  BY DEF PullTree
<1>3. PICK n \in Parents(tip[c].rev, tree[c].merges, tree[c].conflicts \/ conflicts) :
        tree' = [tree EXCEPT ![c] = n]
  BY <1>2
<1>4. (tree[c].conflicts \/ conflicts) \in BOOLEAN
  OBVIOUS
<1>5. /\ tip[c].rev # Null /\ job[c].old = Null
      /\ tree[c].basis \in Ancestors(graph, tip[c].rev) \cup {Null}
      /\ tree[c].merges \in SUBSET made /\ tip[c].rev \in made \cup {Null}
  BY <1>1, CalmParts DEF TipCovers, UncommitSound, Uncommitting, Sound, Local, Refs
<1>6. /\ Ancestors(graph, tree[c].basis) \subseteq Ancestors(graph, tip[c].rev)
      /\ Ancestors(graph, Null) = {}
  BY <1>5 DEF Sound, GraphSound, Ancestors
<1>7. ASSUME NEW r \in work', r \notin work \/ r \in LeadsTo(c)
      PROVE  r \in Ancestors(graph, tip[c].rev) \/ \E q \in tree[c].merges : r \in Ancestors(graph, q)
  <2>1. \/ r \in Ancestors(graph, tip[c].rev) \/ r \in Ancestors(graph, tree[c].basis)
        \/ r \in Ancestors(graph, job[c].old) \/ \E q \in tree[c].merges : r \in Ancestors(graph, q)
    BY <1>1, <1>7, LeadsThrough
  <2> QED
    BY <1>5, <1>6, <2>1
<1> QED
  BY <1>1, <1>3, <1>4, <1>5, <1>7, TreeCalm

\* Uncommitting counts back what committing counted.
LEMMA OneLess == \A x \in Nat : (x + 1) - 1 = x
  OBVIOUS

\* The revision before the last has the number before the last.
LEMMA UncommitBeginCalm ==
  ASSUME Sound, CalmSound, mode.calm, NEW c \in Client, UncommitBegin(c)
  PROVE  CalmStep(c)
<1> DEFINE r == tip[c].rev
           i == [revno |-> tip[c].revno - 1, rev |-> graph[r].left]
<1>1. /\ pc[c] = "idle" /\ r # Null /\ graph[r].left # Null
      /\ UNCHANGED <<made, graph, master, tip, tree, work>>
  BY DEF UncommitBegin
<1>2. PICK b \in BOOLEAN, p \in {"uncommit master", "uncommit local"} :
        /\ p = "uncommit master" => r = master.rev
        /\ pc' = [pc EXCEPT ![c] = p]
        /\ job' = [job EXCEPT ![c] = [onMaster |-> b, old |-> r, new |-> i]]
  <2>1. PICK local \in BOOLEAN :
          /\ bound[c] /\ ~local => r = master.rev
          /\ job' = [job EXCEPT ![c] = [onMaster |-> bound[c] /\ ~local, old |-> r, new |-> i]]
          /\ pc' = [pc EXCEPT ![c] = IF bound[c] /\ ~local THEN "uncommit master" ELSE "uncommit local"]
    BY DEF UncommitBegin, Goto
  <2> DEFINE b == bound[c] /\ ~local
             p == IF b THEN "uncommit master" ELSE "uncommit local"
  <2>2. /\ pc' = [pc EXCEPT ![c] = p]
        /\ job' = [job EXCEPT ![c] = [onMaster |-> b, old |-> r, new |-> i]]
        /\ p = "uncommit master" => r = master.rev
        /\ p \in {"uncommit master", "uncommit local"} /\ b \in BOOLEAN
    BY <2>1
  <2> HIDE DEF r, i, b, p
  <2> QED
    BY <2>2, Zenon
<1>3. pc'[c] = p /\ job'[c].old = r /\ job'[c].new = i
  <2>1. pc \in [Client -> Points] /\ job \in [Client -> Job]
    BY PartTypes DEF Sound, TypeOK
  <2> HIDE DEF r, i
  <2> QED
    BY <1>2, <2>1
<1>4. tip'[c] = tip[c] /\ tree'[c] = tree[c] /\ tree[c].basis = r /\ job[c].old = Null
  BY <1>1, CalmParts DEF AtTip, UncommitSound, Uncommitting
<1>5. Numbered(graph, i)
  <2>1. r \in made /\ graph[r].left \in made /\ made \subseteq Rev /\ graph \in [Rev -> Node]
    BY <1>1 DEF Sound, Local, Refs, GraphSound, TypeOK
  <2>2. graph[graph[r].left].depth \in Nat
    BY <2>1 DEF Node
  <2>3. graph[r].depth = graph[graph[r].left].depth + 1
    BY <1>1, <2>1, CalmParts DEF GraphCalm, Length
  <2>4. tip[c].revno = graph[r].depth
    BY <1>1, CalmParts DEF Numbered, Length
  <2>5. tip[c].revno - 1 = graph[graph[r].left].depth
    <3> HIDE DEF r
    <3> QED
      BY <2>2, <2>3, <2>4, OneLess
  <2> QED
    BY <1>1, <2>5 DEF Numbered, Length
<1>6. i.rev = graph[r].left
  OBVIOUS
<1>7. Calm(graph, p, tip[c], tree[c], job'[c], master)
  <2> HIDE DEF i
  <2>1. Numbered(graph, tip[c]) /\ Numbered(graph, job'[c].new)
    BY <1>3, <1>5, CalmParts
  <2>2. AtTip(p, tip[c], tree[c])
    BY <1>4 DEF AtTip
  <2>3. CommitCovers(graph, p, tip[c], tree[c], job'[c], master) /\ TipCovers(graph, p, tip[c], tree[c], job'[c])
    BY <1>2 DEF CommitCovers, TipCovers, Committing
  <2>4. UncommitSound(graph, p, tip[c], tree[c], job'[c], master)
    BY <1>1, <1>2, <1>3, <1>4, <1>6 DEF UncommitSound, Uncommitting
  <2> QED
    BY <2>1, <2>2, <2>3, <2>4 DEF Calm
<1> QED
  BY <1>1, <1>2, <1>3, <1>4, <1>7, OpCalm

\* The master loses what is uncommitted; the tree still leads to the rest.
LEMMA UncommitMasterCalm == ASSUME Sound, CalmSound, NEW c \in Client, UncommitMaster(c) PROVE CalmStep(c)
<1>1. pc[c] = "uncommit master" /\ UNCHANGED <<made, graph, tip, tree>>
  BY DEF UncommitMaster
<1>2. /\ tree[c].basis = job[c].old /\ tree[c].basis = tip[c].rev /\ master.rev = job[c].old
      /\ job[c].new.rev # Null
  BY <1>1, CalmParts DEF AtTip, UncommitSound, Uncommitting
<1>3. CASE Return(c) /\ UNCHANGED <<master, work>>
  BY <1>1, <1>2, <1>3, EndCalm
<1>4. CASE /\ master' = job[c].new /\ work' = work \ {job[c].old}
           /\ pc' = [pc EXCEPT ![c] = "uncommit local"] /\ UNCHANGED job
  <2>1. pc'[c] = "uncommit local" /\ work' \subseteq work
    BY <1>4 DEF Sound, TypeOK
  <2>2. Numbered(graph, master') /\ master'.rev # Null
    BY <1>2, <1>4, CalmParts
  <2>3. Calm(graph, "uncommit local", tip[c], tree[c], job[c], master')
    <3>1. /\ AtTip("uncommit local", tip[c], tree[c])
          /\ CommitCovers(graph, "uncommit local", tip[c], tree[c], job[c], master')
          /\ TipCovers(graph, "uncommit local", tip[c], tree[c], job[c])
          /\ UncommitSound(graph, "uncommit local", tip[c], tree[c], job[c], master')
      BY <1>1, <1>2, CalmParts DEF AtTip, CommitCovers, TipCovers, UncommitSound, Committing, Uncommitting
    <3> QED
      BY <3>1, CalmParts DEF Calm
  <2> QED
    BY <1>1, <1>2, <1>4, <2>1, <2>2, <2>3, MasterCalm
<1> QED
  BY <1>3, <1>4 DEF UncommitMaster, Goto

\* The branch loses it as well.
LEMMA UncommitLocalCalm == ASSUME Sound, CalmSound, NEW c \in Client, UncommitLocal(c) PROVE CalmStep(c)
<1>1. /\ pc[c] = "uncommit local" /\ pc' = [pc EXCEPT ![c] = "uncommit tree"]
      /\ tip' = [tip EXCEPT ![c] = job[c].new] /\ work' = work \ {job[c].old}
      /\ UNCHANGED <<made, graph, master, tree, job>>
  BY DEF UncommitLocal, Goto
<1>2. pc'[c] = "uncommit tree" /\ tip'[c] = job[c].new /\ tree'[c] = tree[c] /\ job'[c] = job[c]
  BY <1>1 DEF Sound, TypeOK
<1>3. tree[c].basis = tip[c].rev /\ tree[c].basis = job[c].old
  BY <1>1, CalmParts DEF AtTip, UncommitSound, Uncommitting
<1>4. Calm(graph, "uncommit tree", job[c].new, tree[c], job[c], master)
  <2>1. /\ AtTip("uncommit tree", job[c].new, tree[c])
        /\ CommitCovers(graph, "uncommit tree", job[c].new, tree[c], job[c], master)
        /\ TipCovers(graph, "uncommit tree", job[c].new, tree[c], job[c])
        /\ UncommitSound(graph, "uncommit tree", job[c].new, tree[c], job[c], master)
    BY <1>1, CalmParts DEF AtTip, CommitCovers, TipCovers, UncommitSound, Committing, Uncommitting
  <2> QED
    BY <2>1, CalmParts DEF Calm
<1>5. work' \subseteq work /\ job[c].old \notin work'
  BY <1>1
<1> QED
  BY <1>1, <1>2, <1>3, <1>4, <1>5, OpCalm

\* What the revision had merged is pending again: it and the revision before
\* lead to all that the revision led to but itself.
LEMMA UncommitTreeCalm == ASSUME Sound, CalmSound, NEW c \in Client, UncommitTree(c) PROVE CalmStep(c)
<1> DEFINE others == tree[c].merges \cup MergedBy(job[c].old)
<1>1. pc[c] = "uncommit tree" /\ Return(c) /\ UNCHANGED <<made, graph, master, tip, work>>
  BY DEF UncommitTree
<1>2. /\ tree[c].basis = job[c].old /\ job[c].new.rev = graph[job[c].old].left
      /\ job[c].new.rev # Null /\ tip[c].rev = job[c].new.rev
  BY <1>1, CalmParts DEF UncommitSound, Uncommitting
<1>3. PICK n \in Parents(job[c].new.rev, others, tree[c].conflicts) : tree' = [tree EXCEPT ![c] = n]
  BY DEF UncommitTree
<1>4. job[c].old \in made /\ Null \notin made /\ tree[c].merges \subseteq made /\ tree[c].conflicts \in BOOLEAN
  BY <1>1, PartTypes, BoundAssumption DEF Sound, Local, Refs, Pending, Tree, TypeOK
<1>5. others \in SUBSET made
  BY <1>4 DEF Sound, GraphSound, MergedBy
<1>6. Ancestors(graph, job[c].old) = {job[c].old} \cup Ancestors(graph, tip[c].rev)
                                       \cup UNION {Ancestors(graph, q) : q \in MergedBy(job[c].old)}
  BY <1>2, <1>4, CalmParts DEF GraphCalm, MergedBy, Ancestors
<1>7. ASSUME NEW r \in work', r \notin work \/ r \in LeadsTo(c)
      PROVE  r \in Ancestors(graph, tip[c].rev) \/ \E q \in others : r \in Ancestors(graph, q)
  <2>1. /\ r # job[c].old
        /\ \/ r \in Ancestors(graph, tip[c].rev) \/ r \in Ancestors(graph, tree[c].basis)
           \/ r \in Ancestors(graph, job[c].old) \/ \E q \in tree[c].merges : r \in Ancestors(graph, q)
    BY <1>1, <1>7, LeadsThrough
  <2>2. CASE r \in Ancestors(graph, job[c].old)
    BY <1>6, <2>1, <2>2
  <2> QED
    BY <1>2, <2>1, <2>2
<1> HIDE DEF others
<1> QED
  BY <1>1, <1>2, <1>3, <1>4, <1>5, <1>7, TreeCalm

\* A new revision has the length of its first parent's history and one more,
\* leads to all its parents lead to, and to nothing that leads to it.
LEMMA NewNodeCalm ==
  ASSUME Sound, CalmSound, NEW c \in Client, NEW r \in Rev \ made,
         graph' = [graph EXCEPT ![r] = NewNode(r, tree[c].basis, tree[c].merges)],
         made' = made \cup {r}
  PROVE  /\ IsFiniteSet(made') /\ GraphCalm(graph', made')
         /\ \A q \in made \cup {Null} :
              Ancestors(graph', q) = Ancestors(graph, q) /\ Length(graph', q) = Length(graph, q)
         /\ graph'[r].depth = Length(graph, tree[c].basis) + 1
         /\ Ancestors(graph, tree[c].basis) \subseteq graph'[r].anc
         /\ \A q \in tree[c].merges : Ancestors(graph, q) \subseteq graph'[r].anc
<1> DEFINE b == tree[c].basis
           m == tree[c].merges
           n == NewNode(r, b, m)
<1>1. /\ b \in made \cup {Null} /\ m \subseteq made /\ made \subseteq Rev /\ Null \notin Rev
      /\ graph \in [Rev -> Node]
  BY BoundAssumption DEF Sound, Local, Refs, TypeOK
<1>2. \A q \in made : graph'[q] = graph[q]
  BY <1>1
<1>3. graph'[r] = n
  BY <1>1
<1>4. \A q \in made \cup {Null} :
        Ancestors(graph', q) = Ancestors(graph, q) /\ Length(graph', q) = Length(graph, q)
  BY <1>2 DEF Ancestors, Length
<1>5. /\ n.left = b /\ n.merged = m /\ n.depth = Length(graph, b) + 1
      /\ n.anc = {r} \cup Ancestors(graph, b) \cup UNION {Ancestors(graph, q) : q \in m}
  BY SameGraph DEF NewNode
<1>6. IsFiniteSet(made')
  BY FS_AddElement, CalmParts
<1>7. ASSUME NEW p \in made
      PROVE  /\ graph'[p].depth = Length(graph', graph'[p].left) + 1
             /\ graph'[p].anc = {p} \cup Ancestors(graph', graph'[p].left)
                                  \cup UNION {Ancestors(graph', q) : q \in graph'[p].merged}
             /\ \A q \in graph'[p].anc : p \in graph'[q].anc => q = p
  <2>1. /\ graph[p].anc \subseteq made /\ graph[p].left \in made \cup {Null} /\ graph[p].merged \subseteq made
    BY DEF Sound, GraphSound
  <2>2. /\ graph[p].depth = Length(graph, graph[p].left) + 1
        /\ graph[p].anc = {p} \cup Ancestors(graph, graph[p].left)
                            \cup UNION {Ancestors(graph, q) : q \in graph[p].merged}
        /\ \A q \in graph[p].anc : p \in graph[q].anc => q = p
    BY CalmParts DEF GraphCalm
  <2>3. UNION {Ancestors(graph', q) : q \in graph[p].merged} = UNION {Ancestors(graph, q) : q \in graph[p].merged}
    BY <1>4, <2>1
  <2>4. graph'[p] = graph[p] /\ \A q \in graph[p].anc : graph'[q] = graph[q]
    BY <1>2, <2>1
  <2>5. /\ Length(graph', graph[p].left) = Length(graph, graph[p].left)
        /\ Ancestors(graph', graph[p].left) = Ancestors(graph, graph[p].left)
    BY <1>4, <2>1
  <2> QED
    BY <2>2, <2>3, <2>4, <2>5
<1>8. /\ graph'[r].depth = Length(graph', graph'[r].left) + 1
      /\ graph'[r].anc = {r} \cup Ancestors(graph', graph'[r].left)
                           \cup UNION {Ancestors(graph', q) : q \in graph'[r].merged}
      /\ \A q \in graph'[r].anc : r \in graph'[q].anc => q = r
  <2>1. UNION {Ancestors(graph', q) : q \in m} = UNION {Ancestors(graph, q) : q \in m}
    BY <1>1, <1>4
  <2>2. Length(graph', b) = Length(graph, b) /\ Ancestors(graph', b) = Ancestors(graph, b)
    BY <1>1, <1>4
  <2>3. Ancestors(graph, b) \subseteq made /\ \A q \in m : Ancestors(graph, q) \subseteq made
    BY <1>1 DEF Sound, GraphSound, Ancestors
  <2>4. \A q \in n.anc : q = r \/ q \in made
    BY <1>5, <2>3
  <2>5. \A q \in made : r \notin graph'[q].anc
    BY <1>2 DEF Sound, GraphSound
  <2> HIDE DEF n, b, m
  <2> QED
    BY <1>3, <1>5, <2>1, <2>2, <2>4, <2>5
<1>9. GraphCalm(graph', made')
  <2> SUFFICES ASSUME NEW p \in made'
               PROVE  /\ graph'[p].depth = Length(graph', graph'[p].left) + 1
                      /\ graph'[p].anc = {p} \cup Ancestors(graph', graph'[p].left)
                                           \cup UNION {Ancestors(graph', q) : q \in graph'[p].merged}
                      /\ \A q \in graph'[p].anc : p \in graph'[q].anc => q = p
    BY DEF GraphCalm
  <2>1. CASE p \in made
    BY <1>7, <2>1
  <2>2. CASE p = r
    BY <1>8, <2>2, Zenon
  <2> QED
    BY <2>1, <2>2
<1>10. Ancestors(graph, b) \subseteq n.anc /\ \A q \in m : Ancestors(graph, q) \subseteq n.anc
  BY <1>5
<1> HIDE DEF n
<1> QED
  BY <1>3, <1>4, <1>5, <1>6, <1>9, <1>10

\* The new revision is numbered after the branch the tree is up to date with,
\* which is at the first parent of the tree.
LEMMA CommitPrepareCalm == ASSUME Sound, CalmSound, NEW c \in Client, CommitPrepare(c) PROVE CalmStep(c)
<1>1. /\ UNCHANGED <<master, tip, tree, work>> /\ UpToDate(c) /\ pc[c] = "commit"
      /\ pc' = [pc EXCEPT ![c] = IF job[c].onMaster THEN "commit master" ELSE "commit local"]
  BY DEF CommitPrepare, Goto
<1>2. PICK r \in Rev \ made :
        /\ made' = made \cup {r}
        /\ graph' = [graph EXCEPT ![r] = NewNode(r, tree[c].basis, tree[c].merges)]
        /\ job' = [job EXCEPT ![c].new = [revno |-> Reference(c).revno + 1, rev |-> r]]
  BY DEF CommitPrepare
<1>3. /\ IsFiniteSet(made') /\ GraphCalm(graph', made')
      /\ \A q \in made \cup {Null} :
           Ancestors(graph', q) = Ancestors(graph, q) /\ Length(graph', q) = Length(graph, q)
      /\ graph'[r].depth = Length(graph, tree[c].basis) + 1
      /\ Ancestors(graph, tree[c].basis) \subseteq graph'[r].anc
      /\ \A q \in tree[c].merges : Ancestors(graph, q) \subseteq graph'[r].anc
  BY <1>2, NewNodeCalm
<1>4. /\ tree[c].basis = tip[c].rev /\ job[c].old = Null
      /\ job[c].onMaster /\ master.rev = Null => tip[c].rev = Null
  BY <1>1, CalmParts DEF AtTip, CommitCovers, UncommitSound, Uncommitting
<1>5. Reference(c).rev = tree[c].basis /\ Numbered(graph, Reference(c))
  BY <1>1, <1>4, CalmParts DEF UpToDate, Reference
<1>6. /\ tip[c].rev \in made \cup {Null} /\ tree[c].basis \in made \cup {Null} /\ tree[c].merges \subseteq made
      /\ master.rev \in made \cup {Null} /\ r # Null
  BY BoundAssumption DEF Sound, Local, Refs
<1>7. PICK p \in {"commit master", "commit local"} : pc'[c] = p
  BY <1>1 DEF Sound, TypeOK
<1>8. job'[c].new.rev = r /\ job'[c].new.revno = Reference(c).revno + 1 /\ job'[c].old = Null
  <2>1. job[c] \in Job /\ job \in [Client -> Job]
    BY PartTypes DEF Sound
  <2> QED
    BY <1>2, <1>4, <2>1 DEF Job
<1>9. tip'[c] = tip[c] /\ tree'[c] = tree[c] /\ master' = master /\ work' = work
  BY <1>1
<1>10. Numbered(graph', master') /\ Numbered(graph', tip'[c])
  BY <1>3, <1>6, <1>9, CalmParts DEF Numbered
<1>11. Numbered(graph', job'[c].new)
  <2>1. Reference(c).revno = Length(graph, tree[c].basis)
    BY <1>5 DEF Numbered
  <2>2. Length(graph', r) = graph'[r].depth
    BY <1>6 DEF Length
  <2> QED
    BY <1>3, <1>8, <2>1, <2>2 DEF Numbered
<1>12. Calm(graph', pc'[c], tip'[c], tree'[c], job'[c], master')
  <2>1. AtTip(p, tip[c], tree[c])
    BY <1>4 DEF AtTip
  <2>2. CommitCovers(graph', p, tip[c], tree[c], job'[c], master)
    <3>1. Ancestors(graph', r) = graph'[r].anc
      BY <1>6 DEF Ancestors
    <3>2. /\ Ancestors(graph', tree[c].basis) \subseteq Ancestors(graph', r)
          /\ \A q \in tree[c].merges : Ancestors(graph', q) \subseteq Ancestors(graph', r)
      BY <1>3, <1>6, <3>1
    <3> QED
      BY <1>7, <1>8, <3>2 DEF CommitCovers
  <2>3. TipCovers(graph', p, tip[c], tree[c], job'[c]) /\ UncommitSound(graph', p, tip[c], tree[c], job'[c], master)
    BY <1>7, <1>8 DEF TipCovers, UncommitSound, Uncommitting
  <2> QED
    BY <1>7, <1>9, <1>10, <1>11, <2>1, <2>2, <2>3 DEF Calm
<1>13. ASSUME NEW x \in LeadsTo(c) PROVE x \in Leads(graph', pc'[c], tip'[c], tree'[c], job'[c])
  <2>1. \/ x \in Ancestors(graph, tip[c].rev) \/ x \in Ancestors(graph, tree[c].basis)
        \/ x \in Ancestors(graph, job[c].old) \/ \E q \in tree[c].merges : x \in Ancestors(graph, q)
    BY LeadsThrough
  <2>2. \/ x \in Ancestors(graph', tip[c].rev) \/ x \in Ancestors(graph', tree[c].basis)
        \/ x \in Ancestors(graph', job'[c].old) \/ \E q \in tree[c].merges : x \in Ancestors(graph', q)
    BY <1>3, <1>4, <1>6, <1>8, <2>1
  <2>3. pc'[c] # "uncommit tree"
    BY <1>7
  <2> QED
    BY <1>9, <2>2, <2>3, InLeads
<1>14. Ancestors(graph', master'.rev) = Ancestors(graph, master.rev)
  BY <1>3, <1>6, <1>9
<1> QED
  BY <1>3, <1>9, <1>10, <1>12, <1>13, <1>14 DEF CalmStep

\* Every step of calm operations keeps the invariant of numbers and references.
LEMMA CalmNext ==
  ASSUME Sound, CalmSound, mode.calm, NEW c \in Client, Step(c), Kept(c)
  PROVE  CalmSound'
<1>1. CASE CommitBegin(c)
  BY <1>1, CommitBeginCalm, StepCalm
<1>2. CASE CommitPrepare(c)
  BY <1>2, CommitPrepareCalm, StepCalm
<1>3. CASE CommitRefused(c)
  BY <1>3, CommitRefusedCalm, StepCalm
<1>4. CASE CommitMaster(c)
  BY <1>4, CommitMasterCalm, StepCalm
<1>5. CASE CommitLocal(c)
  BY <1>5, CommitLocalCalm, StepCalm
<1>6. CASE CommitTree(c)
  BY <1>6, CommitTreeCalm, StepCalm
<1>7. CASE UpdateBranch(c)
  BY <1>7, UpdateBranchCalm, StepCalm
<1>8. CASE UpdateTree(c)
  BY <1>8, UpdateTreeCalm, StepCalm
<1>9. CASE Resolve(c)
  BY <1>9, ResolveCalm, StepCalm
<1>10. ASSUME NEW d \in Client, PullMaster(c, d) PROVE CalmSound'
  BY <1>10, PullMasterCalm, StepCalm
<1>11. CASE PullLocal(c)
  BY <1>11, PullLocalCalm, StepCalm
<1>12. CASE PullTree(c)
  BY <1>12, PullTreeCalm, StepCalm
<1>13. CASE UncommitBegin(c)
  BY <1>13, UncommitBeginCalm, StepCalm
<1>14. CASE UncommitMaster(c)
  BY <1>14, UncommitMasterCalm, StepCalm
<1>15. CASE UncommitLocal(c)
  BY <1>15, UncommitLocalCalm, StepCalm
<1>16. CASE UncommitTree(c)
  BY <1>16, UncommitTreeCalm, StepCalm
<1>17. CASE Bind(c)
  BY <1>17, BindCalm, StepCalm
<1>18. ~Interrupted(c)
  BY DEF Interrupted
<1> QED
  BY <1>1, <1>2, <1>3, <1>4, <1>5, <1>6, <1>7, <1>8, <1>9, <1>10, <1>11, <1>12, <1>13, <1>14, <1>15,
     <1>16, <1>17, <1>18 DEF Step

\* Nothing is there in the beginning.
LEMMA InitCalm == Init => CalmInv
<1> SUFFICES ASSUME Init PROVE CalmSound
  BY DEF CalmInv
<1>1. /\ master = NoRevision /\ made = {} /\ work = {}
      /\ \A c \in Client : /\ pc[c] = "idle" /\ tip[c] = NoRevision /\ job[c].new = NoRevision
                           /\ job[c].old = Null /\ tree[c].basis = Null
  BY DEF Init, NoJob
<1>2. Numbered(graph, NoRevision) /\ NoRevision.rev = Null
  BY DEF Numbered, NoRevision, Length
<1>3. ASSUME NEW c \in Client PROVE Calm(graph, pc[c], tip[c], tree[c], job[c], master)
  BY <1>1, <1>2
  DEF Calm, AtTip, CommitCovers, TipCovers, UncommitSound, Committing, Uncommitting
<1>4. IsFiniteSet({})
  BY FS_EmptySet
<1> QED
  BY <1>1, <1>2, <1>3, <1>4 DEF CalmSound, GraphCalm, WorkKept

\* Every step keeps the invariant of calm operations: the mode does not change.
LEMMA NextCalm == Sound /\ CalmInv /\ [Next]_vars => CalmInv'
<1> SUFFICES ASSUME Sound, CalmInv, [Next]_vars, mode'.calm PROVE CalmSound'
  BY DEF CalmInv
<1>1. CASE UNCHANGED vars
  <2>1. UNCHANGED <<mode, made, graph, master, tip, tree, pc, job, work>>
    BY <1>1 DEF vars
  <2>2. CalmSound
    BY <2>1 DEF CalmInv
  <2>3. /\ IsFiniteSet(made') /\ GraphCalm(graph', made') /\ Numbered(graph', master')
        /\ \A c \in Client : Calm(graph', pc'[c], tip'[c], tree'[c], job'[c], master')
    BY <2>1, <2>2 DEF CalmSound
  <2>4. WorkKept'
    BY <2>1, <2>2 DEF CalmSound, WorkKept, LeadsTo
  <2> QED
    BY <2>3, <2>4 DEF CalmSound
<1>2. CASE Next
  <2>1. PICK c \in Client : Step(c)
    BY <1>2 DEF Next
  <2>2. mode' = mode
    BY <2>1 DEF Step, CommitBegin, CommitPrepare, CommitRefused, CommitMaster, CommitLocal, CommitTree,
       UpdateBranch, UpdateTree, Resolve, PullMaster, PullLocal, PullTree, UncommitBegin,
       UncommitMaster, UncommitLocal, UncommitTree, Bind, Interrupted
  <2>3. mode.calm /\ CalmSound /\ Kept(c)
    BY <2>1, <2>2, StepKept DEF CalmInv
  <2> QED
    BY <2>1, <2>3, CalmNext
<1> QED
  BY <1>1, <1>2

\* The invariant of calm operations holds in every behaviour.
LEMMA AlwaysCalm == Spec => []CalmInv
  BY InitCalm, NextCalm, AlwaysSound, PTL DEF Spec

\* For any number of clients, commits, pulls, updates and uncommits the number
\* in every last-revision file is the length of the history it ends, so long as
\* operations are not interrupted and no branch is emptied (Branch.check;
\* Commit._check_out_of_date_tree, uncommit).
THEOREM NumbersAreLengths == Spec => []RevnoIsLength
<1>1. CalmInv => RevnoIsLength
  BY SameGraph DEF CalmInv, CalmSound, Calm, Numbered, RevnoIsLength
<1> QED
  BY <1>1, AlwaysCalm, PTL

\* Nor does a finished commit that nobody has uncommitted get lost: a branch or
\* a tree leads to it (WorkingTree._update_tree, set_parent_ids, uncommit).
THEOREM WorkIsNotLost == Spec => []WorkReferenced
<1>1. CalmInv => WorkReferenced
  <2> SUFFICES ASSUME CalmSound, NEW r \in work PROVE r \in Referenced
    BY DEF CalmInv, WorkReferenced
  <2>1. CASE r \in Ancestors(graph, master.rev)
    BY <2>1, SameGraph DEF Referenced
  <2>2. ASSUME NEW c \in Client, r \in LeadsTo(c) PROVE r \in Referenced
    <3>1. \/ r \in Anc(tip[c].rev) \/ r \in Anc(tree[c].basis) \/ r \in Anc(job[c].old)
          \/ \E q \in tree[c].merges : r \in Anc(q)
      BY <2>2, LeadsThrough, SameGraph
    <3>2. r \in Anc(tip[c].rev) \cup Anc(tree[c].basis) \cup Anc(job[c].old)
                 \cup UNION {Anc(m) : m \in tree[c].merges}
      BY <3>1
    <3> QED
      BY <3>2 DEF Referenced
  <2> QED
    BY <2>1, <2>2 DEF CalmSound, WorkKept
<1> QED
  BY <1>1, AlwaysCalm, PTL
=============================================================================
