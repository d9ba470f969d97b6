-------------------------- MODULE LockNestingProofs --------------------------
(***************************************************************************)
(* Proofs about LockNesting for any number of nested locks.                *)
(*                                                                         *)
(* The calls are operators on the record of the objects.  Each comes with  *)
(* a lemma that says what becomes of the fields, without EXCEPT; the       *)
(* lemmas of the branch rest on those of the repository, as the code does, *)
(* and the invariant on all of them.                                       *)
(***************************************************************************)
EXTENDS LockNesting, TLAPS

\* Mode, count and LockDir of a LockableFiles agree.
Files(c) ==
  \/ c.mode = "none" /\ c.count = 0 /\ ~c.fake
  \/ c.mode = "r" /\ c.count >= 1 /\ c.fake /\ ~c.real
  \/ c.mode = "w" /\ c.count >= 1 /\ c.real /\ ~c.fake

\* The other files.
Twin(f) == IF f = "branch" THEN "repo" ELSE "branch"

\* A call on the files f leaves everything else alone, but disk and res.
Keeps(s, t, f) ==
  /\ t \in Objects
  /\ t[Twin(f)] = s[Twin(f)]
  /\ t.wcount = s.wcount /\ t.txn = s.txn /\ t.group = s.group /\ t.fallback = s.fallback

\* A field of the files f is assigned, and nothing else.
Assigned(s, t, f) == Keeps(s, t, f) /\ t.disk = s.disk /\ t.res = s.res

\* The files c are in this state.
Has(c, m, count, real, fake) ==
  /\ c \in ControlFiles
  /\ c.mode = m /\ c.count = count /\ c.real = real /\ c.fake = fake

\* The fields of t.
Is(t, branch, repo, wcount, txn, group, fallback, disk, res) ==
  /\ t \in Objects
  /\ t.branch = branch /\ t.repo = repo /\ t.wcount = wcount /\ t.txn = txn
  /\ t.group = group /\ t.fallback = fallback /\ t.disk = disk /\ t.res = res

-----------------------------------------------------------------------------
\* Assignments to fields.

\* The type of every field.
LEMMA FieldTypes ==
  ASSUME NEW s \in Objects
  PROVE  /\ s.wcount \in Nat /\ s.fallback \in Nat
         /\ s.branch \in ControlFiles /\ s.repo \in ControlFiles
         /\ s.branch.count \in Nat /\ s.repo.count \in Nat
         /\ s.branch.mode \in Modes /\ s.repo.mode \in Modes
         /\ s.txn \in 0..2 /\ s.group \in 0..2
         /\ s.disk \in {"free", "us", "other"} /\ s.res \in Results
  BY DEF Objects, ControlFiles

\* A call that only fails, or only succeeds, assigns res.
LEMMA SetRes ==
  ASSUME NEW s \in Objects, NEW res \in Results
  PROVE  Is([s EXCEPT !.res = res],
            s.branch, s.repo, s.wcount, s.txn, s.group, s.fallback, s.disk, res)
  BY DEF Objects, Is

\* The write lock count and the transaction of the repository.
LEMMA SetWrite ==
  ASSUME NEW s \in Objects, NEW res \in Results, NEW w \in Nat, NEW x \in 0..2
  PROVE  Is([s EXCEPT !.wcount = w, !.txn = x, !.res = res],
            s.branch, s.repo, w, x, s.group, s.fallback, s.disk, res)
  BY DEF Objects, Is

\* The write lock count alone.
LEMMA SetWriteCount ==
  ASSUME NEW s \in Objects, NEW res \in Results, NEW w \in Nat
  PROVE  Is([s EXCEPT !.wcount = w, !.res = res],
            s.branch, s.repo, w, s.txn, s.group, s.fallback, s.disk, res)
  BY DEF Objects, Is

\* The locks on the repositories below.
LEMMA SetFallback ==
  ASSUME NEW s \in Objects, NEW n \in Nat
  PROVE  Is([s EXCEPT !.fallback = n],
            s.branch, s.repo, s.wcount, s.txn, s.group, n, s.disk, s.res)
  BY DEF Objects, Is

\* The write group.
LEMMA SetGroup ==
  ASSUME NEW s \in Objects, NEW res \in Results, NEW g \in 0..2
  PROVE  Is([s EXCEPT !.group = g, !.res = res],
            s.branch, s.repo, s.wcount, s.txn, g, s.fallback, s.disk, res)
  BY DEF Objects, Is

\* The write group with the lock it was in.
LEMMA SetGroupWrite ==
  ASSUME NEW s \in Objects, NEW res \in Results, NEW g \in 0..2, NEW w \in Nat, NEW x \in 0..2
  PROVE  Is([s EXCEPT !.group = g, !.wcount = w, !.txn = x, !.res = res],
            s.branch, s.repo, w, x, g, s.fallback, s.disk, res)
  BY DEF Objects, Is

\* The lock directory of the branch.
LEMMA SetDisk ==
  ASSUME NEW s \in Objects, NEW d \in {"free", "us", "other"}
  PROVE  Is([s EXCEPT !.disk = d],
            s.branch, s.repo, s.wcount, s.txn, s.group, s.fallback, d, s.res)
  BY DEF Objects, Is

\* Fields of the files f.
LEMMA SetFiles ==
  ASSUME NEW s \in Objects, NEW f \in {"branch", "repo"}, NEW c \in ControlFiles
  PROVE  Assigned(s, [s EXCEPT ![f] = c], f) /\ [s EXCEPT ![f] = c][f] = c
<1>1. CASE f = "branch"
  BY <1>1 DEF Objects, Assigned, Keeps, Twin
<1>2. CASE f = "repo"
  BY <1>2 DEF Objects, Assigned, Keeps, Twin
<1> QED
  BY <1>1, <1>2

\* The type of every field of the files f.
LEMMA FileTypes ==
  ASSUME NEW s \in Objects, NEW f \in {"branch", "repo"}
  PROVE  s[f] \in ControlFiles /\ s[f].count \in Nat /\ s[f].mode \in Modes
         /\ s[f].real \in BOOLEAN /\ s[f].fake \in BOOLEAN
  BY DEF Objects, ControlFiles

\* One of the fields of the files f is assigned.
LEMMA SetMode ==
  ASSUME NEW s \in Objects, NEW f \in {"branch", "repo"}, NEW m \in Modes,
         NEW t, t = [s EXCEPT ![f].mode = m]
  PROVE  Assigned(s, t, f) /\ Has(t[f], m, s[f].count, s[f].real, s[f].fake)
<1>1. Has([s[f] EXCEPT !.mode = m], m, s[f].count, s[f].real, s[f].fake)
  BY FileTypes DEF ControlFiles, Has
<1> QED
  BY <1>1, SetFiles DEF Has

\* _lock_count.
LEMMA SetCount ==
  ASSUME NEW s \in Objects, NEW f \in {"branch", "repo"}, NEW n \in Nat,
         NEW t, t = [s EXCEPT ![f].count = n]
  PROVE  Assigned(s, t, f) /\ Has(t[f], s[f].mode, n, s[f].real, s[f].fake)
<1>1. Has([s[f] EXCEPT !.count = n], s[f].mode, n, s[f].real, s[f].fake)
  BY FileTypes DEF ControlFiles, Has
<1> QED
  BY <1>1, SetFiles DEF Has

\* _transaction.
LEMMA SetTxn ==
  ASSUME NEW s \in Objects, NEW f \in {"branch", "repo"}, NEW x \in BOOLEAN,
         NEW t, t = [s EXCEPT ![f].txn = x]
  PROVE  Assigned(s, t, f) /\ Has(t[f], s[f].mode, s[f].count, s[f].real, s[f].fake)
<1>1. Has([s[f] EXCEPT !.txn = x], s[f].mode, s[f].count, s[f].real, s[f].fake)
  BY FileTypes DEF ControlFiles, Has
<1> QED
  BY <1>1, SetFiles DEF Has

\* _lock_held of the LockDir.
LEMMA SetReal ==
  ASSUME NEW s \in Objects, NEW f \in {"branch", "repo"}, NEW x \in BOOLEAN,
         NEW t, t = [s EXCEPT ![f].real = x]
  PROVE  Assigned(s, t, f) /\ Has(t[f], s[f].mode, s[f].count, x, s[f].fake)
<1>1. Has([s[f] EXCEPT !.real = x], s[f].mode, s[f].count, x, s[f].fake)
  BY FileTypes DEF ControlFiles, Has
<1> QED
  BY <1>1, SetFiles DEF Has

\* _fake_read_lock of the LockDir.
LEMMA SetFake ==
  ASSUME NEW s \in Objects, NEW f \in {"branch", "repo"}, NEW x \in BOOLEAN,
         NEW t, t = [s EXCEPT ![f].fake = x]
  PROVE  Assigned(s, t, f) /\ Has(t[f], s[f].mode, s[f].count, s[f].real, x)
<1>1. Has([s[f] EXCEPT !.fake = x], s[f].mode, s[f].count, s[f].real, x)
  BY FileTypes DEF ControlFiles, Has
<1> QED
  BY <1>1, SetFiles DEF Has

-----------------------------------------------------------------------------
\* LockableFiles.

\* LockableFiles.lock_read: one lock more, or nothing when the LockDir is held.
LEMMA FilesLockReadEffect ==
  ASSUME NEW s \in Objects, NEW f \in {"branch", "repo"}, Files(s[f]),
         NEW t, t = FilesLockRead(s, f)
  PROVE  /\ Keeps(s, t, f) /\ t.disk = s.disk
         /\ Files(t[f]) /\ t[f].real = s[f].real
         /\ \/ /\ t.res = "ok" /\ t[f].count = s[f].count + 1
               /\ t[f].mode = IF s[f].mode = "none" THEN "r" ELSE s[f].mode
            \/ t.res = "LockContention" /\ s[f].real /\ t[f] = s[f]
<1>0. s[f] \in ControlFiles /\ s[f].count \in Nat /\ s[f].mode \in Modes
      /\ s[f].real \in BOOLEAN /\ s[f].fake \in BOOLEAN
  BY FileTypes
<1>1. CASE s[f].mode # "none"
  <2> DEFINE u == [s EXCEPT ![f].count = s[f].count + 1]
  <2>1. t = [u EXCEPT !.res = "ok"]
    BY <1>1 DEF FilesLockRead
  <2>2. Assigned(s, u, f) /\ Has(u[f], s[f].mode, s[f].count + 1, s[f].real, s[f].fake)
    <3>1. s[f].count + 1 \in Nat
      BY <1>0
    <3> QED
      BY <3>1, SetCount, Zenon
  <2>3. Is(t, u.branch, u.repo, u.wcount, u.txn, u.group, u.fallback, u.disk, "ok")
    BY <2>1, <2>2, SetRes DEF Results, Assigned, Keeps
  <2> HIDE DEF u
  <2> QED
    BY <1>0, <1>1, <2>2, <2>3 DEF Has, Files, Is, Assigned, Keeps, Twin
<1>2. CASE s[f].mode = "none" /\ (s[f].real \/ s[f].fake)
  <2>1. t = [s EXCEPT !.res = "LockContention"]
    BY <1>2 DEF FilesLockRead
  <2>2. Is(t, s.branch, s.repo, s.wcount, s.txn, s.group, s.fallback, s.disk, "LockContention")
    BY <2>1, SetRes DEF Results
  <2> QED
    BY <1>2, <2>2 DEF Is, Keeps, Files, Twin
<1>3. CASE s[f].mode = "none" /\ ~(s[f].real \/ s[f].fake)
  <2> DEFINE a == [s EXCEPT ![f].mode = "r"]
             b == [a EXCEPT ![f].count = 1]
             c == [b EXCEPT ![f].txn = TRUE]
             d == [c EXCEPT ![f].fake = TRUE]
  <2>1. t = [d EXCEPT !.res = "ok"]
    BY <1>3 DEF FilesLockRead
  <2>a. Assigned(s, a, f) /\ Has(a[f], "r", s[f].count, s[f].real, s[f].fake)
    BY SetMode DEF Modes
  <2> HIDE DEF a
  <2>b. Assigned(a, b, f) /\ Has(b[f], a[f].mode, 1, a[f].real, a[f].fake)
    <3>1. a \in Objects /\ 1 \in Nat
      BY <2>a DEF Assigned, Keeps
    <3> QED
      BY <3>1, SetCount, Zenon
  <2> HIDE DEF b
  <2>c. Assigned(b, c, f) /\ Has(c[f], b[f].mode, b[f].count, b[f].real, b[f].fake)
    <3>1. b \in Objects /\ TRUE \in BOOLEAN
      BY <2>b DEF Assigned, Keeps
    <3> QED
      BY <3>1, SetTxn, Zenon
  <2> HIDE DEF c
  <2>d. Assigned(c, d, f) /\ Has(d[f], c[f].mode, c[f].count, c[f].real, TRUE)
    <3>1. c \in Objects /\ TRUE \in BOOLEAN
      BY <2>c DEF Assigned, Keeps
    <3> QED
      BY <3>1, SetFake, Zenon
  <2> HIDE DEF d
  <2>2. Is(t, d.branch, d.repo, d.wcount, d.txn, d.group, d.fallback, d.disk, "ok")
    BY <2>1, <2>d, SetRes DEF Results, Assigned, Keeps
  <2>3. Has(d[f], "r", 1, s[f].real, TRUE) /\ Assigned(s, d, f)
    BY <2>a, <2>b, <2>c, <2>d DEF Has, Assigned, Keeps
  <2> QED
    BY <1>0, <1>3, <2>2, <2>3 DEF Has, Files, Is, Assigned, Keeps, Twin
<1> QED
  BY <1>1, <1>2, <1>3

\* LockableFiles.lock_write of the branch.
LEMMA FilesLockWriteEffect ==
  ASSUME NEW s \in Objects, Files(s.branch), NEW t, t = FilesLockWrite(s, "branch")
  PROVE  /\ Keeps(s, t, "branch") /\ Files(t.branch)
         /\ \/ /\ t.res = "ok" /\ t.branch.count = s.branch.count + 1 /\ t.branch.mode = "w"
               /\ \/ s.branch.mode = "w" /\ t.disk = s.disk
                  \/ s.branch.mode = "none" /\ t.disk = "us"
            \/ t.res # "ok" /\ t.branch = s.branch /\ t.disk = s.disk
<1> DEFINE f == "branch"
<1>f. f \in {"branch", "repo"}
  OBVIOUS
<1>0. s[f] \in ControlFiles /\ s[f].count \in Nat /\ s[f].mode \in Modes
      /\ s[f].real \in BOOLEAN /\ s[f].fake \in BOOLEAN
  BY FileTypes
<1>1. CASE s[f].mode = "w"
  <2> DEFINE u == [s EXCEPT ![f].count = s[f].count + 1]
  <2>1. t = [u EXCEPT !.res = "ok"]
    BY <1>1 DEF FilesLockWrite
  <2>2. Assigned(s, u, f) /\ Has(u[f], s[f].mode, s[f].count + 1, s[f].real, s[f].fake)
    <3>1. s[f].count + 1 \in Nat
      BY <1>0
    <3> QED
      BY <1>f, <3>1, SetCount, Zenon
  <2>3. Is(t, u.branch, u.repo, u.wcount, u.txn, u.group, u.fallback, u.disk, "ok")
    BY <2>1, <2>2, SetRes DEF Results, Assigned, Keeps
  <2> HIDE DEF u
  <2> QED
    BY <1>0, <1>1, <2>2, <2>3 DEF Has, Files, Is, Assigned, Keeps, Twin
<1>2. CASE s[f].mode # "w" /\ (s[f].mode = "r" \/ s.disk # "free")
  <2>1. PICK e \in {"ReadOnlyError", "LockContention"} : t = [s EXCEPT !.res = e]
    BY <1>2 DEF FilesLockWrite
  <2>2. Is(t, s.branch, s.repo, s.wcount, s.txn, s.group, s.fallback, s.disk, e)
    <3>1. e \in Results
      BY DEF Results
    <3> QED
      BY <2>1, <3>1, SetRes
  <2> QED
    BY <2>2 DEF Is, Keeps, Twin
<1>3. CASE s[f].mode \notin {"w", "r"} /\ s.disk = "free"
  <2> DEFINE a == [s EXCEPT ![f].mode = "w"]
             b == [a EXCEPT ![f].count = 1]
             c == [b EXCEPT ![f].txn = TRUE]
             d == [c EXCEPT ![f].real = TRUE]
             e == [d EXCEPT !.disk = "us"]
  <2>1. t = [e EXCEPT !.res = "ok"]
    BY <1>3 DEF FilesLockWrite
  <2>a. Assigned(s, a, f) /\ Has(a[f], "w", s[f].count, s[f].real, s[f].fake)
    BY SetMode DEF Modes
  <2> HIDE DEF a
  <2>b. Assigned(a, b, f) /\ Has(b[f], a[f].mode, 1, a[f].real, a[f].fake)
    <3>1. a \in Objects /\ 1 \in Nat
      BY <2>a DEF Assigned, Keeps
    <3> QED
      BY <1>f, <3>1, SetCount, Zenon
  <2> HIDE DEF b
  <2>c. Assigned(b, c, f) /\ Has(c[f], b[f].mode, b[f].count, b[f].real, b[f].fake)
    <3>1. b \in Objects /\ TRUE \in BOOLEAN
      BY <2>b DEF Assigned, Keeps
    <3> QED
      BY <1>f, <3>1, SetTxn, Zenon
  <2> HIDE DEF c
  <2>d. Assigned(c, d, f) /\ Has(d[f], c[f].mode, c[f].count, TRUE, c[f].fake)
    <3>1. c \in Objects /\ TRUE \in BOOLEAN
      BY <2>c DEF Assigned, Keeps
    <3> QED
      BY <1>f, <3>1, SetReal, Zenon
  <2> HIDE DEF d
  <2>e. Is(e, d.branch, d.repo, d.wcount, d.txn, d.group, d.fallback, "us", d.res)
    BY <2>d, SetDisk DEF Assigned, Keeps
  <2> HIDE DEF e
  <2>2. Is(t, e.branch, e.repo, e.wcount, e.txn, e.group, e.fallback, e.disk, "ok")
    <3>1. e \in Objects /\ "ok" \in Results
      BY <2>e DEF Is, Results
    <3> QED
      BY <2>1, <3>1, SetRes, Zenon
  <2>3. Has(d[f], "w", 1, TRUE, s[f].fake) /\ Assigned(s, d, f)
    BY <2>a, <2>b, <2>c, <2>d DEF Has, Assigned, Keeps
  <2> QED
    BY <1>0, <1>3, <2>e, <2>2, <2>3 DEF Has, Files, Is, Assigned, Keeps, Twin, Modes
<1> QED
  BY <1>1, <1>2, <1>3

\* LockDir.unlock: the lock of the process on the disk is given back, unless
\* that fails.
LEMMA RealUnlockEffect ==
  ASSUME NEW s \in Objects, NEW f \in {"branch", "repo"}, Files(s[f]), s[f].count >= 1,
         NEW F, NEW t, t = RealUnlock(s, f, F)
  PROVE  /\ Keeps(s, t, f) /\ ~t[f].fake /\ t[f] \in ControlFiles
         /\ \/ t.res = "ok" /\ s[f].mode = "r" /\ t.disk = s.disk /\ ~t[f].real
            \/ t.res = "ok" /\ s[f].mode = "w" /\ t.disk = "free"
            \/ t.res = "LockBroken" /\ s[f].mode = "w" /\ t.disk = s.disk /\ s.disk # "us"
            \/ t.res = "ok" /\ s[f].mode = "w" /\ t.disk = s.disk /\ "release" \in F /\ t[f].real
<1>0. s[f] \in ControlFiles /\ s[f].count \in Nat /\ s[f].mode \in Modes
      /\ s[f].real \in BOOLEAN /\ s[f].fake \in BOOLEAN
  BY FileTypes
<1>1. CASE s[f].fake
  <2> DEFINE u == [s EXCEPT ![f].fake = FALSE]
  <2>1. t = [u EXCEPT !.res = "ok"]
    BY <1>1 DEF RealUnlock
  <2>2. Assigned(s, u, f) /\ Has(u[f], s[f].mode, s[f].count, s[f].real, FALSE)
    <3>1. FALSE \in BOOLEAN
      OBVIOUS
    <3> QED
      BY <3>1, SetFake, Zenon
  <2> HIDE DEF u
  <2>3. Is(t, u.branch, u.repo, u.wcount, u.txn, u.group, u.fallback, u.disk, "ok")
    BY <2>1, <2>2, SetRes DEF Results, Assigned, Keeps
  <2> QED
    BY <1>0, <1>1, <2>2, <2>3 DEF Has, Files, Is, Assigned, Keeps, Twin
<1>r. CASE ~s[f].fake /\ "release" \in F
  <2>1. s[f].mode = "w" /\ s[f].real
    BY <1>0, <1>r DEF Files
  <2>2. t = [s EXCEPT !.res = "ok"]
    BY <1>r, <2>1 DEF RealUnlock
  <2>3. Is(t, s.branch, s.repo, s.wcount, s.txn, s.group, s.fallback, s.disk, "ok")
    BY <2>2, SetRes DEF Results
  <2> QED
    BY <1>0, <1>r, <2>1, <2>3 DEF Is, Keeps, Twin
<1>2. CASE ~s[f].fake /\ "release" \notin F /\ s.disk # "us"
  <2>1. s[f].mode = "w" /\ s[f].real
    BY <1>0, <1>2 DEF Files
  <2>2. t = [s EXCEPT !.res = "LockBroken"]
    BY <1>2, <2>1 DEF RealUnlock
  <2>3. Is(t, s.branch, s.repo, s.wcount, s.txn, s.group, s.fallback, s.disk, "LockBroken")
    BY <2>2, SetRes DEF Results
  <2> QED
    BY <1>0, <1>2, <2>1, <2>3 DEF Is, Keeps, Twin
<1>3. CASE ~s[f].fake /\ "release" \notin F /\ s.disk = "us"
  <2>1. s[f].mode = "w" /\ s[f].real
    BY <1>0, <1>3 DEF Files
  <2> DEFINE u == [s EXCEPT ![f].real = FALSE]
             v == [u EXCEPT !.disk = "free"]
  <2>2. t = [v EXCEPT !.res = "ok"]
    BY <1>3, <2>1 DEF RealUnlock
  <2>3. Assigned(s, u, f) /\ Has(u[f], s[f].mode, s[f].count, FALSE, s[f].fake)
    <3>1. FALSE \in BOOLEAN
      OBVIOUS
    <3> QED
      BY <3>1, SetReal, Zenon
  <2> HIDE DEF u
  <2>4. Is(v, u.branch, u.repo, u.wcount, u.txn, u.group, u.fallback, "free", u.res)
    BY <2>3, SetDisk DEF Assigned, Keeps
  <2> HIDE DEF v
  <2>5. Is(t, v.branch, v.repo, v.wcount, v.txn, v.group, v.fallback, v.disk, "ok")
    <3>1. v \in Objects /\ "ok" \in Results
      BY <2>4 DEF Is, Results
    <3> QED
      BY <2>2, <3>1, SetRes, Zenon
  <2> QED
    BY <1>0, <1>3, <2>1, <2>3, <2>4, <2>5 DEF Has, Is, Assigned, Keeps, Twin
<1> QED
  BY <1>1, <1>r, <1>2, <1>3

\* LockableFiles.unlock of locked files.
LEMMA FilesUnlockEffect ==
  ASSUME NEW s \in Objects, NEW f \in {"branch", "repo"}, Files(s[f]), s[f].count >= 1,
         NEW F, NEW t, t = FilesUnlock(s, f, F)
  PROVE  /\ Keeps(s, t, f) /\ Files(t[f]) /\ t[f].count = s[f].count - 1
         /\ s[f].mode = "r" => t.res = "ok" /\ t.disk = s.disk /\ ~t[f].real
         /\ t[f].count > 0 => t[f].mode = s[f].mode /\ t.disk = s.disk
         /\ t[f].count = 0 /\ t.disk = "us" =>
              s.disk = "us" /\ (s[f].mode = "r" \/ ("release" \in F /\ t[f].real))
<1>0. s[f] \in ControlFiles /\ s[f].count \in Nat /\ s[f].mode \in Modes
      /\ s[f].real \in BOOLEAN /\ s[f].fake \in BOOLEAN /\ s[f].mode # "none"
  BY FileTypes DEF Files
<1>1. CASE s[f].count > 1
  <2> DEFINE u == [s EXCEPT ![f].count = s[f].count - 1]
  <2>1. t = [u EXCEPT !.res = "ok"]
    BY <1>0, <1>1 DEF FilesUnlock
  <2>2. Assigned(s, u, f) /\ Has(u[f], s[f].mode, s[f].count - 1, s[f].real, s[f].fake)
    <3>1. s[f].count - 1 \in Nat
      BY <1>0, <1>1
    <3> QED
      BY <3>1, SetCount, Zenon
  <2> HIDE DEF u
  <2>3. Is(t, u.branch, u.repo, u.wcount, u.txn, u.group, u.fallback, u.disk, "ok")
    BY <2>1, <2>2, SetRes DEF Results, Assigned, Keeps
  <2>4. t[f] = u[f] /\ Keeps(s, t, f) /\ t.disk = s.disk /\ t.res = "ok"
    BY <2>2, <2>3 DEF Is, Assigned, Keeps, Twin
  <2> QED
    BY <1>0, <1>1, <2>2, <2>4 DEF Has, Files
<1>2. CASE s[f].count = 1
  <2> DEFINE r == RealUnlock(s, f, F)
             a == [r EXCEPT ![f].mode = "none"]
             b == [a EXCEPT ![f].count = 0]
             c == [b EXCEPT ![f].txn = FALSE]
  <2>1. t = c
    BY <1>0, <1>2 DEF FilesUnlock
  <2>r. /\ Keeps(s, r, f) /\ ~r[f].fake /\ r[f] \in ControlFiles
        /\ \/ r.res = "ok" /\ s[f].mode = "r" /\ r.disk = s.disk /\ ~r[f].real
           \/ r.res = "ok" /\ s[f].mode = "w" /\ r.disk = "free"
           \/ r.res = "LockBroken" /\ s[f].mode = "w" /\ r.disk = s.disk /\ s.disk # "us"
           \/ r.res = "ok" /\ s[f].mode = "w" /\ r.disk = s.disk /\ "release" \in F /\ r[f].real
    BY RealUnlockEffect
  <2> HIDE DEF r
  <2>a. Assigned(r, a, f) /\ Has(a[f], "none", r[f].count, r[f].real, r[f].fake)
    <3>1. r \in Objects /\ "none" \in Modes
      BY <2>r DEF Keeps, Modes
    <3> QED
      BY <3>1, SetMode, Zenon
  <2> HIDE DEF a
  <2>b. Assigned(a, b, f) /\ Has(b[f], a[f].mode, 0, a[f].real, a[f].fake)
    <3>1. a \in Objects /\ 0 \in Nat
      BY <2>a DEF Assigned, Keeps
    <3> QED
      BY <3>1, SetCount, Zenon
  <2> HIDE DEF b
  <2>c. Assigned(b, c, f) /\ Has(c[f], b[f].mode, b[f].count, b[f].real, b[f].fake)
    <3>1. b \in Objects /\ FALSE \in BOOLEAN
      BY <2>b DEF Assigned, Keeps
    <3> QED
      BY <3>1, SetTxn, Zenon
  <2> HIDE DEF c
  <2>2. Assigned(r, t, f) /\ Has(t[f], "none", 0, r[f].real, r[f].fake)
    BY <2>1, <2>a, <2>b, <2>c DEF Has, Assigned, Keeps
  <2>3. Keeps(s, t, f) /\ t.disk = r.disk /\ t.res = r.res
    BY <2>r, <2>2 DEF Assigned, Keeps
  <2> QED
    BY <1>0, <1>2, <2>r, <2>2, <2>3 DEF Has, Files
<1> QED
  BY <1>0, <1>1, <1>2

-----------------------------------------------------------------------------
\* PackRepository.

\* The locks on the repository, of either kind.
Locks(s) == s.wcount + s.repo.count

\* The repository's own part of the invariant: it is locked for writing or for
\* reading, the control files only for reading; a write group belongs to the
\* present write lock.
RepoGood(s) ==
  /\ s \in Objects
  /\ Files(s.repo) /\ ~s.repo.real
  /\ s.wcount > 0 => s.repo.count = 0
  /\ s.group # 0 => s.wcount > 0 /\ s.group = s.txn

\* How a call in which the steps F fail moves the locks on the repositories
\* below: up with the first lock, down with the last, unless locking them
\* fails or unlock finds a write group.
Moves(s, t, F) ==
  /\ Locks(s) > 0 /\ Locks(t) > 0 => t.fallback = s.fallback
  /\ Locks(s) = 0 /\ Locks(t) > 0 =>
       t.fallback = IF "below" \in F THEN s.fallback ELSE s.fallback + 1
  /\ Locks(s) > 0 /\ Locks(t) = 0 =>
       \/ t.fallback = s.fallback - 1
       \/ s.group # 0 /\ t.group = 0 /\ t.fallback = s.fallback
  /\ Locks(s) = 0 /\ Locks(t) = 0 => t.fallback = s.fallback

\* The steps that may fail in a lock.
LockFaults == {{}, {"below"}, {"refresh"}}

\* A call on the repository leaves the branch and its LockDir alone.
Beside(s, t) == t.branch = s.branch /\ t.disk = s.disk

\* The repository is locked when it has a lock of either kind.
LEMMA LockedIsCounted ==
  ASSUME NEW s \in Objects
  PROVE  /\ Locks(s) \in Nat
         /\ RepoLocked(s) <=> Locks(s) > 0
  BY FieldTypes DEF Locks, RepoLocked, FilesLocked

\* The first lock of the repository, locked being whether it was locked before.
LEMMA LockFallbackEffect ==
  ASSUME NEW s \in Objects, s.res = "ok", NEW locked, NEW F \in LockFaults,
         NEW t, t = LockFallback(s, locked, F)
  PROVE  /\ locked => t = s
         /\ ~locked => Is(t, s.branch, s.repo, s.wcount, s.txn, s.group,
                          IF "below" \in F THEN s.fallback ELSE s.fallback + 1, s.disk,
                          IF F = {} THEN "ok" ELSE "TransportError")
<1>1. CASE locked
  BY <1>1 DEF LockFallback
<1>2. CASE ~locked
  <2> DEFINE n == IF "below" \in F THEN s.fallback ELSE s.fallback + 1
             res == IF F = {} THEN "ok" ELSE "TransportError"
  <2>1. t = [s EXCEPT !.fallback = n, !.res = res]
    BY <1>2 DEF LockFallback
  <2>2. n \in Nat /\ res \in Results
    BY FieldTypes DEF Results
  <2> HIDE DEF n, res
  <2>3. Is(t, s.branch, s.repo, s.wcount, s.txn, s.group, n, s.disk, res)
    BY <2>1, <2>2 DEF Objects, Is
  <2> QED
    BY <1>2, <2>3 DEF n, res
<1> QED
  BY <1>1, <1>2

\* PackRepository.lock_write: a lock more, also when it fails after counting.
LEMMA RepoLockWriteEffect ==
  ASSUME NEW s, RepoGood(s), NEW F \in LockFaults, NEW t, t = RepoLockWrite(s, F)
  PROVE  /\ RepoGood(t) /\ Beside(s, t) /\ t.group = s.group /\ Moves(s, t, F)
         /\ \/ /\ t.res = "ok" /\ t.wcount = s.wcount + 1 /\ t.repo.count = s.repo.count
               /\ Locks(s) = 0 => F = {}
            \/ t.res = "ReadOnlyError" /\ t.wcount = s.wcount /\ t.repo.count = s.repo.count
            \/ /\ t.res = "TransportError" /\ t.wcount = s.wcount + 1 /\ t.repo.count = s.repo.count
               /\ Locks(s) = 0 /\ F # {}
<1>0. /\ s \in Objects /\ s.wcount \in Nat /\ s.repo.count \in Nat /\ s.fallback \in Nat
      /\ RepoLocked(s) <=> Locks(s) > 0
  BY FieldTypes, LockedIsCounted DEF RepoGood
<1>1. CASE s.wcount = 0 /\ RepoLocked(s)
  <2>1. t = [s EXCEPT !.res = "ReadOnlyError"]
    BY <1>1 DEF RepoLockWrite
  <2>2. Is(t, s.branch, s.repo, s.wcount, s.txn, s.group, s.fallback, s.disk, "ReadOnlyError")
    BY <1>0, <2>1, SetRes DEF Results
  <2> QED
    BY <2>2 DEF Is, RepoGood, Beside, Locks, Moves
<1>2. CASE ~(s.wcount = 0 /\ RepoLocked(s))
  <2> DEFINE x == IF s.wcount = 0 THEN (IF s.group = 1 THEN 2 ELSE 1) ELSE s.txn
             u == [s EXCEPT !.wcount = s.wcount + 1, !.txn = x, !.res = "ok"]
  <2>1. t = LockFallback(u, RepoLocked(s), F)
    BY <1>2 DEF RepoLockWrite
  <2>2. Is(u, s.branch, s.repo, s.wcount + 1, x, s.group, s.fallback, s.disk, "ok")
    <3>1. s.wcount + 1 \in Nat /\ x \in 0..2 /\ "ok" \in Results
      BY <1>0, FieldTypes DEF Results
    <3> QED
      BY <1>0, <3>1, SetWrite, Zenon
  <2>3. s.wcount > 0 => x = s.txn
    BY <1>0
  <2>4. s.repo.count = 0
    BY <1>0, <1>2 DEF Locks, RepoGood
  <2> HIDE DEF u, x
  <2>5. /\ RepoLocked(s) => t = u
        /\ ~RepoLocked(s) => Is(t, u.branch, u.repo, u.wcount, u.txn, u.group,
                                IF "below" \in F THEN u.fallback ELSE u.fallback + 1, u.disk,
                                IF F = {} THEN "ok" ELSE "TransportError")
    <3>1. u \in Objects /\ u.res = "ok"
      BY <2>2 DEF Is
    <3> QED
      BY <2>1, <3>1, LockFallbackEffect, Zenon
  <2>6. CASE RepoLocked(s)
    <3>1. t = u /\ s.wcount > 0
      BY <1>0, <1>2, <2>5, <2>6
    <3> QED
      BY <1>0, <2>2, <2>3, <2>4, <2>6, <3>1 DEF Is, RepoGood, Beside, Locks, Moves
  <2>7. CASE ~RepoLocked(s)
    <3>1. s.wcount = 0 /\ s.group = 0 /\ Locks(s) = 0
      BY <1>0, <2>4, <2>7 DEF RepoGood, Locks
    <3>2. Is(t, s.branch, s.repo, 1, x, 0,
             IF "below" \in F THEN s.fallback ELSE s.fallback + 1, s.disk,
             IF F = {} THEN "ok" ELSE "TransportError")
      BY <1>0, <2>2, <2>5, <2>7, <3>1 DEF Is
    <3>3. Locks(t) = 1
      BY <2>4, <3>2 DEF Is, Locks
    <3>4. RepoGood(t) /\ Beside(s, t) /\ t.group = s.group
      BY <2>4, <3>1, <3>2 DEF Is, RepoGood, Beside
    <3>5. Moves(s, t, F)
      BY <3>1, <3>2, <3>3 DEF Is, Moves
    <3> QED
      BY <2>4, <3>1, <3>2, <3>4, <3>5 DEF Is
  <2> QED
    BY <2>6, <2>7
<1> QED
  BY <1>1, <1>2

\* PackRepository.lock_read, likewise.
LEMMA RepoLockReadEffect ==
  ASSUME NEW s, RepoGood(s), NEW F \in LockFaults, NEW t, t = RepoLockRead(s, F)
  PROVE  /\ RepoGood(t) /\ Beside(s, t) /\ t.group = s.group /\ Moves(s, t, F)
         /\ IF s.wcount > 0
            THEN t.wcount = s.wcount + 1 /\ t.repo.count = s.repo.count
            ELSE t.wcount = s.wcount /\ t.repo.count = s.repo.count + 1
         /\ \/ t.res = "ok" /\ (Locks(s) = 0 => F = {})
            \/ t.res = "TransportError" /\ Locks(s) = 0 /\ F # {}
<1>0. /\ s \in Objects /\ s.wcount \in Nat /\ s.repo.count \in Nat /\ s.fallback \in Nat
      /\ RepoLocked(s) <=> Locks(s) > 0
      /\ Locks(s) \in Nat
  BY FieldTypes, LockedIsCounted DEF RepoGood
<1> DEFINE u == IF s.wcount > 0 THEN [s EXCEPT !.wcount = s.wcount + 1, !.res = "ok"]
                ELSE FilesLockRead(s, "repo")
<1>1. /\ u \in Objects /\ u.res = "ok" /\ Beside(s, u)
      /\ u.txn = s.txn /\ u.group = s.group /\ u.fallback = s.fallback
      /\ Files(u.repo) /\ ~u.repo.real
      /\ IF s.wcount > 0
         THEN u.wcount = s.wcount + 1 /\ u.repo.count = s.repo.count
         ELSE u.wcount = s.wcount /\ u.repo.count = s.repo.count + 1
  <2>1. CASE s.wcount > 0
    <3>1. s.wcount + 1 \in Nat /\ "ok" \in Results
      BY <1>0 DEF Results
    <3>2. Is([s EXCEPT !.wcount = s.wcount + 1, !.res = "ok"],
             s.branch, s.repo, s.wcount + 1, s.txn, s.group, s.fallback, s.disk, "ok")
      BY <1>0, <3>1, SetWriteCount, Zenon
    <3>3. u = [s EXCEPT !.wcount = s.wcount + 1, !.res = "ok"]
      BY <2>1
    <3> HIDE DEF u
    <3>4. Is(u, s.branch, s.repo, s.wcount + 1, s.txn, s.group, s.fallback, s.disk, "ok")
      BY <3>2, <3>3
    <3> QED
      BY <1>0, <2>1, <3>4 DEF Is, Beside, RepoGood
  <2>2. CASE ~(s.wcount > 0)
    <3>1. u = FilesLockRead(s, "repo")
      BY <2>2
    <3> HIDE DEF u
    <3>2. /\ Keeps(s, u, "repo") /\ u.disk = s.disk
          /\ Files(u["repo"]) /\ u["repo"].real = s["repo"].real
          /\ \/ /\ u.res = "ok" /\ u["repo"].count = s["repo"].count + 1
                /\ u["repo"].mode = IF s["repo"].mode = "none" THEN "r" ELSE s["repo"].mode
             \/ u.res = "LockContention" /\ s["repo"].real /\ u["repo"] = s["repo"]
      <4>1. Files(s["repo"]) /\ "repo" \in {"branch", "repo"}
        BY DEF RepoGood
      <4> QED
        BY <1>0, <3>1, <4>1, FilesLockReadEffect, Zenon
    <3> QED
      BY <1>0, <2>2, <3>2 DEF Keeps, Twin, Beside, RepoGood
  <2> QED
    BY <2>1, <2>2
<1>2. t = LockFallback(u, RepoLocked(s), F)
  BY <1>1 DEF RepoLockRead
<1> HIDE DEF u
<1>3. /\ RepoLocked(s) => t = u
      /\ ~RepoLocked(s) => Is(t, u.branch, u.repo, u.wcount, u.txn, u.group,
                              IF "below" \in F THEN u.fallback ELSE u.fallback + 1, u.disk,
                              IF F = {} THEN "ok" ELSE "TransportError")
  BY <1>1, <1>2, LockFallbackEffect, Zenon
<1>4. CASE RepoLocked(s)
  <2>1. t = u
    BY <1>3, <1>4
  <2> QED
    BY <1>0, <1>1, <1>4, <2>1 DEF RepoGood, Beside, Locks, Moves
<1>5. CASE ~RepoLocked(s)
  <2>1. Is(t, u.branch, u.repo, u.wcount, u.txn, u.group,
           IF "below" \in F THEN u.fallback ELSE u.fallback + 1, u.disk,
           IF F = {} THEN "ok" ELSE "TransportError")
    BY <1>3, <1>5
  <2>2. Locks(s) = 0 /\ s.wcount = 0 /\ s.repo.count = 0 /\ s.group = 0
    BY <1>0, <1>5 DEF RepoGood, Locks
  <2>3. t.wcount = 0 /\ t.repo.count = 1 /\ Locks(t) = 1 /\ t.group = 0
    BY <1>1, <2>1, <2>2 DEF Is, Locks
  <2>4. RepoGood(t) /\ Beside(s, t)
    BY <1>1, <2>1, <2>2, <2>3 DEF Is, RepoGood, Beside
  <2>5. Moves(s, t, F)
    BY <1>1, <2>1, <2>2, <2>3 DEF Is, Moves
  <2> QED
    BY <2>1, <2>2, <2>3, <2>4, <2>5 DEF Is
<1> QED
  BY <1>4, <1>5

\* The last unlock unlocks the repositories below.
LEMMA UnlockFallbackEffect ==
  ASSUME NEW s \in Objects, Locks(s) > 0 \/ s.fallback >= 1, NEW t, t = UnlockFallback(s)
  PROVE  Is(t, s.branch, s.repo, s.wcount, s.txn, s.group,
            IF Locks(s) > 0 THEN s.fallback ELSE s.fallback - 1, s.disk, s.res)
<1>1. CASE RepoLocked(s)
  <2>1. t = s /\ Locks(s) > 0
    BY <1>1, LockedIsCounted DEF UnlockFallback
  <2> QED
    BY <2>1 DEF Is
<1>2. CASE ~RepoLocked(s)
  <2>1. t = [s EXCEPT !.fallback = s.fallback - 1] /\ ~(Locks(s) > 0)
    BY <1>2, LockedIsCounted DEF UnlockFallback
  <2>2. s.fallback - 1 \in Nat
    BY <2>1, FieldTypes
  <2>3. Is(t, s.branch, s.repo, s.wcount, s.txn, s.group, s.fallback - 1, s.disk, s.res)
    BY <2>1, <2>2, SetFallback, Zenon
  <2> QED
    BY <2>1, <2>3 DEF Is
<1> QED
  BY <1>1, <1>2

\* PackRepository.unlock of a locked repository; the last lock of it is one
\* with which the repositories below were locked.
LEMMA RepoUnlockEffect ==
  ASSUME NEW s, RepoGood(s), Locks(s) >= 1, Locks(s) >= 2 \/ s.fallback >= 1,
         NEW F, NEW t, t = RepoUnlock(s, F)
  PROVE  /\ RepoGood(t) /\ Beside(s, t) /\ Moves(s, t, F)
         /\ \/ IF s.wcount > 0
               THEN t.wcount = s.wcount - 1 /\ t.repo.count = s.repo.count
               ELSE t.wcount = s.wcount /\ t.repo.count = s.repo.count - 1
            \/ "abort" \in F /\ t.wcount = s.wcount /\ t.repo.count = s.repo.count
<1>0. /\ s \in Objects /\ s.wcount \in Nat /\ s.repo.count \in Nat /\ s.fallback \in Nat
      /\ Locks(s) > 0 /\ Locks(s) \in Nat
  BY FieldTypes, LockedIsCounted DEF RepoGood
<1>1. CASE s.wcount = 1 /\ s.group # 0
  <2>1. CASE "abort" \notin F
    <3>1. t = [s EXCEPT !.group = 0, !.wcount = 0, !.txn = 0, !.res = "BzrError"]
      BY <1>1, <2>1 DEF RepoUnlock, AbortInUnlock
    <3>2. 0 \in 0..2 /\ 0 \in Nat /\ "BzrError" \in Results
      BY DEF Results
    <3>3. Is([s EXCEPT !.group = 0, !.wcount = 0, !.txn = 0, !.res = "BzrError"],
             s.branch, s.repo, 0, 0, 0, s.fallback, s.disk, "BzrError")
      BY <1>0, <3>2, SetGroupWrite, Zenon
    <3>4. Is(t, s.branch, s.repo, 0, 0, 0, s.fallback, s.disk, "BzrError")
      BY <3>1, <3>3
    <3> QED
      BY <1>0, <1>1, <3>4 DEF Is, RepoGood, Beside, Locks, Moves
  <2>2. CASE "abort" \in F
    <3>1. t = [s EXCEPT !.group = 0, !.res = "BzrError"]
      BY <1>1, <2>2 DEF RepoUnlock
    <3>2. 0 \in 0..2 /\ "BzrError" \in Results
      BY DEF Results
    <3>3. Is([s EXCEPT !.group = 0, !.res = "BzrError"],
             s.branch, s.repo, s.wcount, s.txn, 0, s.fallback, s.disk, "BzrError")
      BY <1>0, <3>2, SetGroup, Zenon
    <3>4. Is(t, s.branch, s.repo, s.wcount, s.txn, 0, s.fallback, s.disk, "BzrError")
      BY <3>1, <3>3
    <3> QED
      BY <1>0, <1>1, <2>2, <3>4 DEF Is, RepoGood, Beside, Locks, Moves
  <2> QED
    BY <2>1, <2>2
<1>2. CASE ~(s.wcount = 1 /\ s.group # 0) /\ s.wcount > 0
  <2> DEFINE x == IF s.wcount = 1 THEN 0 ELSE s.txn
             u == [s EXCEPT !.wcount = s.wcount - 1, !.txn = x, !.res = "ok"]
  <2>1. t = UnlockFallback(u)
    BY <1>2 DEF RepoUnlock
  <2>2. Is(u, s.branch, s.repo, s.wcount - 1, x, s.group, s.fallback, s.disk, "ok")
    <3>1. s.wcount - 1 \in Nat /\ x \in 0..2 /\ "ok" \in Results
      BY <1>0, <1>2, FieldTypes DEF Results
    <3> QED
      BY <1>0, <3>1, SetWrite, Zenon
  <2>3. s.wcount # 1 => x = s.txn
    OBVIOUS
  <2> HIDE DEF u, x
  <2>4. Locks(u) = s.wcount - 1 /\ s.repo.count = 0 /\ Locks(s) = s.wcount
    BY <1>0, <1>2, <2>2 DEF Is, Locks, RepoGood
  <2>5. Is(t, u.branch, u.repo, u.wcount, u.txn, u.group,
           IF Locks(u) > 0 THEN u.fallback ELSE u.fallback - 1, u.disk, u.res)
    <3>1. u \in Objects /\ (Locks(u) > 0 \/ u.fallback >= 1)
      BY <1>0, <2>2, <2>4 DEF Is
    <3> QED
      BY <2>1, <3>1, UnlockFallbackEffect, Zenon
  <2>6. Locks(t) = s.wcount - 1
    BY <1>0, <2>2, <2>4, <2>5 DEF Is, Locks
  <2>7. Moves(s, t, F)
    BY <1>0, <1>2, <2>2, <2>4, <2>5, <2>6 DEF Is, Moves
  <2> QED
    BY <1>0, <1>2, <2>2, <2>3, <2>4, <2>5, <2>7 DEF Is, RepoGood, Beside
<1>3. CASE ~(s.wcount > 0)
  <2> DEFINE u == FilesUnlock(s, "repo", F)
  <2>1. t = IF u.res = "ok" THEN UnlockFallback(u) ELSE u
    BY <1>0, <1>3 DEF RepoUnlock
  <2>2. Files(s["repo"]) /\ s["repo"].count >= 1 /\ "repo" \in {"branch", "repo"} /\ s["repo"].mode = "r"
    BY <1>0, <1>3 DEF RepoGood, Files, Locks
  <2>3. /\ Keeps(s, u, "repo") /\ Files(u["repo"]) /\ u["repo"].count = s["repo"].count - 1
        /\ u.res = "ok" /\ u.disk = s.disk /\ ~u["repo"].real
    BY <1>0, <2>2, FilesUnlockEffect
  <2> HIDE DEF u
  <2>4. /\ u.branch = s.branch /\ u.wcount = 0 /\ u.txn = s.txn /\ u.group = s.group /\ s.group = 0
        /\ u.fallback = s.fallback
    BY <1>0, <1>3, <2>3 DEF Keeps, Twin, RepoGood
  <2>5. Locks(u) = s.repo.count - 1 /\ Locks(s) = s.repo.count
    BY <1>0, <1>3, <2>3, <2>4 DEF Locks
  <2>6. Is(t, u.branch, u.repo, u.wcount, u.txn, u.group,
           IF Locks(u) > 0 THEN u.fallback ELSE u.fallback - 1, u.disk, u.res)
    <3>1. u \in Objects /\ (Locks(u) > 0 \/ u.fallback >= 1) /\ t = UnlockFallback(u)
      BY <1>0, <2>1, <2>3, <2>4, <2>5 DEF Keeps
    <3> QED
      BY <3>1, UnlockFallbackEffect, Zenon
  <2>7. Locks(t) = s.repo.count - 1
    BY <1>0, <2>3, <2>4, <2>6 DEF Is, Locks
  <2>8. Moves(s, t, F)
    BY <1>0, <2>4, <2>5, <2>6, <2>7 DEF Is, Moves
  <2> QED
    BY <1>0, <1>3, <2>3, <2>4, <2>6, <2>8 DEF Is, RepoGood, Beside
<1> QED
  BY <1>1, <1>2, <1>3

-----------------------------------------------------------------------------
\* Branch.

\* The objects without the ghosts: the repository as above, the files of the
\* branch consistent, no lock directory that their LockDir does not know of,
\* and the repository locked for writing with the branch.
Good(s) ==
  /\ RepoGood(s)
  /\ Files(s.branch)
  /\ s.disk = "us" => s.branch.real
  /\ s.branch.mode = "w" => s.wcount > 0

\* The repository of t is that of s.
SameRepo(s, t) ==
  Locks(t) = Locks(s) /\ t.wcount = s.wcount /\ t.group = s.group /\ t.fallback = s.fallback

\* What a call on the branch's control files leaves of the repository.
LEMMA KeepsRepo ==
  ASSUME NEW s, RepoGood(s), NEW t, Keeps(s, t, "branch")
  PROVE  RepoGood(t) /\ SameRepo(s, t)
  BY DEF Keeps, Twin, RepoGood, Locks, SameRepo

\* How a call ends is not part of what is good.
LEMMA SetResGood ==
  ASSUME NEW s, RepoGood(s), NEW res \in Results, NEW t, t = [s EXCEPT !.res = res]
  PROVE  RepoGood(t) /\ Beside(s, t) /\ SameRepo(s, t) /\ t.res = res
<1>1. Is(t, s.branch, s.repo, s.wcount, s.txn, s.group, s.fallback, s.disk, res)
  BY SetRes DEF RepoGood
<1> QED
  BY <1>1 DEF Is, RepoGood, Beside, Locks, SameRepo

\* A call that leaves the repository alone moves nothing below.
LEMMA SameMoves ==
  ASSUME NEW s \in Objects, NEW t, NEW F, SameRepo(s, t)
  PROVE  Moves(s, t, F)
  BY LockedIsCounted DEF SameRepo, Moves

\* The repository is given back when the branch cannot be locked.
LEMMA UndoRepoLockEffect ==
  ASSUME NEW s, NEW u, RepoGood(u), Locks(u) >= 1, Locks(u) >= 2 \/ u.fallback >= 1,
         u.res # "ok", NEW t, t = UndoRepoLock(s, u, TRUE)
  PROVE  RepoGood(t) /\ Beside(u, t) /\ Locks(t) = Locks(u) - 1 /\ t.res = u.res /\ Moves(u, t, {})
<1> DEFINE r == RepoUnlock(u, {})
<1>1. t = [r EXCEPT !.res = u.res]
  BY DEF UndoRepoLock
<1>2. /\ RepoGood(r) /\ Beside(u, r) /\ Moves(u, r, {})
      /\ IF u.wcount > 0
         THEN r.wcount = u.wcount - 1 /\ r.repo.count = u.repo.count
         ELSE r.wcount = u.wcount /\ r.repo.count = u.repo.count - 1
  BY RepoUnlockEffect
<1> HIDE DEF r
<1>3. u.wcount \in Nat /\ u.repo.count \in Nat /\ u.res \in Results
  BY FieldTypes DEF RepoGood
<1>4. RepoGood(t) /\ Beside(r, t) /\ SameRepo(r, t) /\ t.res = u.res
  <2>1. RepoGood(r) /\ u.res \in Results
    BY <1>2, <1>3
  <2>2. RepoGood(t) /\ Beside(r, t) /\ SameRepo(r, t)
    BY <1>1, <2>1, SetResGood, Zenon
  <2>3. t.res = u.res
    <3>1. r \in Objects
      BY <2>1 DEF RepoGood
    <3> QED
      BY <1>1, <3>1 DEF Objects
  <2> QED
    BY <2>2, <2>3
<1>5. Locks(r) = Locks(u) - 1
  BY <1>2, <1>3 DEF Locks
<1>6. Moves(u, t, {})
  BY <1>2, <1>4 DEF Moves, SameRepo
<1> QED
  BY <1>2, <1>4, <1>5, <1>6 DEF Beside, SameRepo

\* A lock taken on the repository and given back moves nothing.
LEMMA UndoneMoves ==
  ASSUME NEW s, RepoGood(s), NEW u, NEW v, NEW t, NEW F, Moves(s, u, F), Locks(u) = Locks(s) + 1,
         Locks(s) = 0 => F = {}, u.group = s.group, SameRepo(u, v), Moves(v, t, {}),
         Locks(t) = Locks(v) - 1
  PROVE  Moves(s, t, F)
<1>0. s.wcount \in Nat /\ s.repo.count \in Nat /\ s.fallback \in Nat /\ Locks(s) \in Nat
  BY FieldTypes, LockedIsCounted DEF RepoGood
<1>1. Locks(v) = Locks(s) + 1 /\ Locks(t) = Locks(s) /\ v.fallback = u.fallback
  BY <1>0 DEF SameRepo
<1>2. CASE Locks(s) > 0
  BY <1>0, <1>1, <1>2 DEF Moves
<1>3. CASE Locks(s) = 0
  <2>1. v.group = 0
    BY <1>0, <1>3 DEF SameRepo, RepoGood, Locks
  <2>2. u.fallback = s.fallback + 1
    BY <1>3, <1>1 DEF Moves
  <2>3. t.fallback = v.fallback - 1
    BY <1>1, <1>3, <2>1 DEF Moves
  <2> QED
    BY <1>0, <1>1, <1>3, <2>2, <2>3 DEF Moves
<1> QED
  BY <1>0, <1>2, <1>3

\* What locking the branch does: all or nothing, but for the lock of the
\* repository when that fails.
Locked(s, t, F) ==
  /\ Good(t) /\ Moves(s, t, F)
  /\ t.disk = "us" => t.branch.mode = "w" \/ (s.disk = "us" /\ t.branch.mode = s.branch.mode)
  /\ \/ /\ t.res = "ok" /\ t.branch.count = s.branch.count + 1
        /\ IF s.branch.count = 0
           THEN Locks(t) = Locks(s) + 1 /\ (Locks(s) = 0 => F = {})
           ELSE Locks(t) = Locks(s)
     \/ t.res # "ok" /\ t.branch.count = s.branch.count /\ Locks(t) = Locks(s)
     \/ /\ t.res # "ok" /\ t.branch.count = s.branch.count /\ s.branch.count = 0
        /\ Locks(s) = 0 /\ Locks(t) = 1 /\ F # {}

\* Branch.lock_write.
LEMMA BranchLockWriteEffect ==
  ASSUME NEW s, Good(s), NEW F \in LockFaults, NEW t, t = BranchLockWrite(s, F)
  PROVE  Locked(s, t, F)
<1>0. /\ RepoGood(s) /\ s \in Objects /\ Files(s.branch) /\ s.branch.count \in Nat
      /\ s.wcount \in Nat /\ s.repo.count \in Nat /\ s.branch.mode \in Modes
      /\ s.fallback \in Nat /\ Locks(s) \in Nat
  BY FieldTypes, LockedIsCounted DEF Good, RepoGood
<1>1. CASE s.branch.count = 0
  <2> DEFINE u == RepoLockWrite(s, F)
             v == FilesLockWrite(u, "branch")
  <2>1. s.branch.mode = "none" /\ ~FilesLocked(s, "branch")
    BY <1>0, <1>1 DEF Files, FilesLocked
  <2>2. t = IF u.res # "ok" THEN u ELSE UndoRepoLock(s, v, TRUE)
    BY <2>1 DEF BranchLockWrite
  <2>3. /\ RepoGood(u) /\ Beside(s, u) /\ u.group = s.group /\ Moves(s, u, F)
        /\ \/ /\ u.res = "ok" /\ u.wcount = s.wcount + 1 /\ u.repo.count = s.repo.count
              /\ Locks(s) = 0 => F = {}
           \/ u.res = "ReadOnlyError" /\ u.wcount = s.wcount /\ u.repo.count = s.repo.count
           \/ /\ u.res = "TransportError" /\ u.wcount = s.wcount + 1 /\ u.repo.count = s.repo.count
              /\ Locks(s) = 0 /\ F # {}
    BY <1>0, RepoLockWriteEffect
  <2> HIDE DEF u
  <2>4. CASE u.res # "ok"
    <3>1. t = u
      BY <2>2, <2>4
    <3>2. Good(t)
      BY <2>1, <2>3, <3>1 DEF Good, Beside
    <3> QED
      BY <1>0, <1>1, <2>1, <2>3, <2>4, <3>1, <3>2 DEF Locked, Beside, Locks
  <2>5. CASE u.res = "ok"
    <3>1. Locks(u) = Locks(s) + 1 /\ u.wcount > 0 /\ (Locks(s) = 0 => F = {})
      BY <1>0, <2>3, <2>5 DEF Locks
    <3>2. u \in Objects /\ Files(u.branch) /\ u.branch = s.branch /\ u.disk = s.disk
      BY <1>0, <2>3 DEF RepoGood, Beside
    <3>3. /\ Keeps(u, v, "branch") /\ Files(v.branch)
          /\ \/ /\ v.res = "ok" /\ v.branch.count = u.branch.count + 1 /\ v.branch.mode = "w"
                /\ \/ u.branch.mode = "w" /\ v.disk = u.disk
                   \/ u.branch.mode = "none" /\ v.disk = "us"
             \/ v.res # "ok" /\ v.branch = u.branch /\ v.disk = u.disk
      BY <3>2, FilesLockWriteEffect
    <3> HIDE DEF v
    <3>4. RepoGood(v) /\ SameRepo(u, v)
      BY <2>3, <3>3, KeepsRepo
    <3>5. CASE v.res = "ok"
      <4>1. t = v
        BY <2>2, <2>5, <3>5 DEF UndoRepoLock
      <4>2. Good(t)
        BY <3>1, <3>3, <3>4, <3>5, <4>1 DEF Good, Files, SameRepo
      <4>3. Moves(s, t, F)
        BY <2>3, <3>4, <4>1 DEF Moves, SameRepo
      <4> QED
        BY <1>1, <3>1, <3>2, <3>3, <3>4, <3>5, <4>1, <4>2, <4>3 DEF Locked, SameRepo
    <3>6. CASE v.res # "ok"
      <4>1. t = UndoRepoLock(s, v, TRUE)
        BY <2>2, <2>5
      <4>2. Locks(v) >= 1 /\ (Locks(v) >= 2 \/ v.fallback >= 1)
        BY <1>0, <2>3, <3>1, <3>4 DEF SameRepo, Moves
      <4>3. RepoGood(t) /\ Beside(v, t) /\ Locks(t) = Locks(v) - 1 /\ t.res = v.res /\ Moves(v, t, {})
        BY <3>4, <3>6, <4>1, <4>2, UndoRepoLockEffect, Zenon
      <4>4. Good(t)
        BY <2>1, <3>2, <3>3, <3>6, <4>3 DEF Good, Beside
      <4>5. Moves(s, t, F)
        BY <1>0, <2>3, <3>1, <3>4, <4>3, UndoneMoves
      <4>6. Locks(t) = Locks(s)
        BY <1>0, <3>1, <3>4, <4>3 DEF SameRepo
      <4> QED
        BY <3>2, <3>3, <3>6, <4>3, <4>4, <4>5, <4>6 DEF Locked, Beside
    <3> QED
      BY <3>5, <3>6
  <2> QED
    BY <2>4, <2>5
<1>2. CASE s.branch.count # 0
  <2> DEFINE u == [s EXCEPT !.res = "ok"]
             v == FilesLockWrite(u, "branch")
  <2>1. FilesLocked(s, "branch")
    BY <1>0, <1>2 DEF FilesLocked
  <2>2. RepoGood(u) /\ Beside(s, u) /\ SameRepo(s, u) /\ u.res = "ok"
    BY <1>0, SetResGood DEF Results
  <2>3. t = v
    BY <2>1, <2>2 DEF BranchLockWrite, UndoRepoLock
  <2> HIDE DEF u
  <2>4. u \in Objects /\ Files(u.branch) /\ u.branch = s.branch /\ u.disk = s.disk
    BY <1>0, <2>2 DEF RepoGood, Beside
  <2>5. /\ Keeps(u, v, "branch") /\ Files(v.branch)
        /\ \/ /\ v.res = "ok" /\ v.branch.count = u.branch.count + 1 /\ v.branch.mode = "w"
              /\ \/ u.branch.mode = "w" /\ v.disk = u.disk
                 \/ u.branch.mode = "none" /\ v.disk = "us"
           \/ v.res # "ok" /\ v.branch = u.branch /\ v.disk = u.disk
    BY <2>4, FilesLockWriteEffect
  <2> HIDE DEF v
  <2>6. RepoGood(v) /\ SameRepo(u, v)
    BY <2>2, <2>5, KeepsRepo
  <2>7. s.branch.mode # "none"
    BY <1>0, <1>2 DEF Files
  <2>8. Good(v)
    BY <2>2, <2>4, <2>5, <2>6, <2>7 DEF Good, Files, SameRepo
  <2>9. SameRepo(s, v)
    BY <2>2, <2>6 DEF SameRepo
  <2>10. Moves(s, v, F)
    BY <1>0, <2>9, SameMoves
  <2> QED
    BY <1>2, <2>3, <2>4, <2>5, <2>8, <2>9, <2>10 DEF Locked, SameRepo
<1> QED
  BY <1>1, <1>2

\* Branch.lock_read.
LEMMA BranchLockReadEffect ==
  ASSUME NEW s, Good(s), NEW F \in LockFaults, NEW t, t = BranchLockRead(s, F)
  PROVE  Locked(s, t, F)
<1>0. /\ RepoGood(s) /\ s \in Objects /\ Files(s.branch) /\ s.branch.count \in Nat
      /\ s.wcount \in Nat /\ s.repo.count \in Nat /\ s.branch.mode \in Modes
      /\ s.fallback \in Nat /\ Locks(s) \in Nat
  BY FieldTypes, LockedIsCounted DEF Good, RepoGood
<1>1. CASE s.branch.count = 0
  <2> DEFINE u == RepoLockRead(s, F)
             v == FilesLockRead(u, "branch")
  <2>1. s.branch.mode = "none" /\ ~FilesLocked(s, "branch")
    BY <1>0, <1>1 DEF Files, FilesLocked
  <2>2. /\ RepoGood(u) /\ Beside(s, u) /\ u.group = s.group /\ Moves(s, u, F)
        /\ IF s.wcount > 0
           THEN u.wcount = s.wcount + 1 /\ u.repo.count = s.repo.count
           ELSE u.wcount = s.wcount /\ u.repo.count = s.repo.count + 1
        /\ \/ u.res = "ok" /\ (Locks(s) = 0 => F = {})
           \/ u.res = "TransportError" /\ Locks(s) = 0 /\ F # {}
    BY <1>0, RepoLockReadEffect
  <2>3. t = IF u.res # "ok" THEN u ELSE UndoRepoLock(s, v, TRUE)
    BY <2>1 DEF BranchLockRead
  <2> HIDE DEF u
  <2>4. Locks(u) = Locks(s) + 1
    BY <1>0, <2>2 DEF Locks
  <2>5. u \in Objects /\ Files(u.branch) /\ u.branch = s.branch /\ u.disk = s.disk
    BY <1>0, <2>2 DEF RepoGood, Beside
  <2>6. CASE u.res # "ok"
    <3>1. t = u
      BY <2>3, <2>6
    <3>2. Good(t)
      BY <2>1, <2>2, <2>5, <3>1 DEF Good
    <3> QED
      BY <1>0, <1>1, <2>1, <2>2, <2>4, <2>5, <2>6, <3>1, <3>2 DEF Locked
  <2>7. CASE u.res = "ok"
    <3>1. Locks(s) = 0 => F = {}
      BY <2>2, <2>7
    <3>2. /\ Keeps(u, v, "branch") /\ v.disk = u.disk /\ Files(v.branch) /\ v.branch.real = u.branch.real
          /\ \/ /\ v.res = "ok" /\ v.branch.count = u.branch.count + 1
                /\ v.branch.mode = IF u.branch.mode = "none" THEN "r" ELSE u.branch.mode
             \/ v.res = "LockContention" /\ v.branch = u.branch
      BY <2>5, FilesLockReadEffect
    <3> HIDE DEF v
    <3>3. RepoGood(v) /\ SameRepo(u, v)
      BY <2>2, <3>2, KeepsRepo
    <3>4. CASE v.res = "ok"
      <4>1. t = v
        BY <2>3, <2>7, <3>4 DEF UndoRepoLock
      <4>2. Good(v) /\ v.disk # "us"
        BY <2>1, <2>5, <3>2, <3>3, <3>4 DEF Good, Files
      <4>3. Moves(s, v, F)
        BY <2>2, <3>3 DEF Moves, SameRepo
      <4> QED
        BY <1>1, <2>4, <2>5, <3>1, <3>2, <3>3, <3>4, <4>1, <4>2, <4>3 DEF Locked, SameRepo
    <3>5. CASE v.res # "ok"
      <4>1. t = UndoRepoLock(s, v, TRUE)
        BY <2>3, <2>7
      <4>2. Locks(v) >= 1 /\ (Locks(v) >= 2 \/ v.fallback >= 1)
        BY <1>0, <2>2, <2>4, <3>1, <3>3 DEF SameRepo, Moves
      <4>3. RepoGood(t) /\ Beside(v, t) /\ Locks(t) = Locks(v) - 1 /\ t.res = v.res /\ Moves(v, t, {})
        BY <3>3, <3>5, <4>1, <4>2, UndoRepoLockEffect, Zenon
      <4>4. Good(t)
        BY <2>1, <2>5, <3>2, <3>5, <4>3 DEF Good, Beside
      <4>5. Moves(s, t, F)
        BY <1>0, <2>2, <2>4, <3>1, <3>3, <4>3, UndoneMoves
      <4>6. Locks(t) = Locks(s)
        BY <1>0, <2>4, <3>3, <4>3 DEF SameRepo
      <4> QED
        BY <2>5, <3>2, <3>5, <4>3, <4>4, <4>5, <4>6 DEF Locked, Beside
    <3> QED
      BY <3>4, <3>5
  <2> QED
    BY <2>6, <2>7
<1>2. CASE s.branch.count # 0
  <2> DEFINE u == [s EXCEPT !.res = "ok"]
             v == FilesLockRead(u, "branch")
  <2>1. FilesLocked(s, "branch")
    BY <1>0, <1>2 DEF FilesLocked
  <2>2. RepoGood(u) /\ Beside(s, u) /\ SameRepo(s, u) /\ u.res = "ok"
    BY <1>0, SetResGood DEF Results
  <2>3. t = v
    BY <2>1, <2>2 DEF BranchLockRead, UndoRepoLock
  <2> HIDE DEF u
  <2>4. u \in Objects /\ Files(u.branch) /\ u.branch = s.branch /\ u.disk = s.disk
    BY <1>0, <2>2 DEF RepoGood, Beside
  <2>5. /\ Keeps(u, v, "branch") /\ v.disk = u.disk /\ Files(v.branch) /\ v.branch.real = u.branch.real
        /\ \/ /\ v.res = "ok" /\ v.branch.count = u.branch.count + 1
              /\ v.branch.mode = IF u.branch.mode = "none" THEN "r" ELSE u.branch.mode
           \/ v.res = "LockContention" /\ v.branch = u.branch
    BY <2>4, FilesLockReadEffect
  <2> HIDE DEF v
  <2>6. RepoGood(v) /\ SameRepo(u, v)
    BY <2>2, <2>5, KeepsRepo
  <2>7. s.branch.mode # "none"
    BY <1>0, <1>2 DEF Files
  <2>8. Good(v)
    BY <2>2, <2>4, <2>5, <2>6, <2>7 DEF Good, SameRepo
  <2>9. SameRepo(s, v)
    BY <2>2, <2>6 DEF SameRepo
  <2>10. Moves(s, v, F)
    BY <1>0, <2>9, SameMoves
  <2> QED
    BY <1>2, <2>3, <2>4, <2>5, <2>7, <2>8, <2>9, <2>10 DEF Locked, SameRepo
<1> QED
  BY <1>1, <1>2

\* Branch.unlock of a locked branch: a lock fewer of the branch, and of the
\* repository when it was the last, unless saving or aborting fails.
LEMMA BranchUnlockEffect ==
  ASSUME NEW s, Good(s), s.branch.count >= 1, Locks(s) >= 1, Locks(s) >= 2 \/ s.fallback >= 1,
         NEW F, NEW t, t = BranchUnlock(s, F)
  PROVE  /\ Good(t) /\ Moves(s, t, F)
         /\ t.disk = "us" => s.disk = "us" /\ (t.branch.mode = s.branch.mode \/ "release" \in F)
         /\ \/ t.branch.count = s.branch.count - 1
            \/ "save" \in F /\ t.branch.count = s.branch.count
         /\ \/ Locks(t) = IF t.branch.count = 0 THEN Locks(s) - 1 ELSE Locks(s)
            \/ "abort" \in F /\ Locks(t) = Locks(s)
<1>0. /\ RepoGood(s) /\ s \in Objects /\ Files(s.branch) /\ s.branch.count \in Nat
      /\ s.wcount \in Nat /\ s.repo.count \in Nat /\ s.branch.mode \in Modes
      /\ s.branch.mode # "none"
  BY FieldTypes DEF Good, RepoGood, Files
<1>1. CASE s.branch.count = 1 /\ "save" \in F
  <2>1. t = [s EXCEPT !.res = "ok"]
    BY <1>1 DEF BranchUnlock
  <2>2. RepoGood(t) /\ Beside(s, t) /\ SameRepo(s, t)
    BY <1>0, <2>1, SetResGood DEF Results
  <2>3. Moves(s, t, F)
    BY <1>0, <2>2, SameMoves
  <2> QED
    BY <1>1, <2>2, <2>3 DEF Good, Beside, SameRepo
<1>2. CASE ~(s.branch.count = 1 /\ "save" \in F)
  <2> DEFINE u == FilesUnlock(s, "branch", F)
             r == RepoUnlock(u, F)
  <2>1. t = IF FilesLocked(u, "branch") THEN u ELSE [r EXCEPT !.res = u.res]
    BY <1>2 DEF BranchUnlock
  <2>2. /\ Keeps(s, u, "branch") /\ Files(u.branch) /\ u.branch.count = s.branch.count - 1
        /\ u.branch.count > 0 => u.branch.mode = s.branch.mode /\ u.disk = s.disk
        /\ u.branch.count = 0 /\ u.disk = "us" =>
             s.disk = "us" /\ (s.branch.mode = "r" \/ ("release" \in F /\ u.branch.real))
    BY <1>0, FilesUnlockEffect
  <2> HIDE DEF u
  <2>3. RepoGood(u) /\ SameRepo(s, u)
    BY <1>0, <2>2, KeepsRepo
  <2>4. CASE u.branch.count > 0
    <3>1. t = u
      BY <1>0, <2>1, <2>2, <2>4 DEF FilesLocked
    <3>2. Good(u)
      BY <1>0, <2>2, <2>3, <2>4 DEF Good, Files, SameRepo
    <3>3. Moves(s, u, F)
      BY <1>0, <2>3, SameMoves
    <3> QED
      BY <2>2, <2>3, <2>4, <3>1, <3>2, <3>3 DEF SameRepo
  <2>5. CASE ~(u.branch.count > 0)
    <3>1. /\ u.branch.count = 0 /\ u.branch.mode = "none"
          /\ u.disk = "us" => s.disk = "us" /\ "release" \in F /\ u.branch.real
      BY <1>0, <2>2, <2>5 DEF Files, Good
    <3>2. t = [r EXCEPT !.res = u.res]
      BY <2>1, <3>1 DEF FilesLocked
    <3>3. /\ RepoGood(r) /\ Beside(u, r) /\ Moves(u, r, F)
          /\ \/ IF u.wcount > 0
                THEN r.wcount = u.wcount - 1 /\ r.repo.count = u.repo.count
                ELSE r.wcount = u.wcount /\ r.repo.count = u.repo.count - 1
             \/ "abort" \in F /\ r.wcount = u.wcount /\ r.repo.count = u.repo.count
      <4>1. Locks(u) >= 1 /\ (Locks(u) >= 2 \/ u.fallback >= 1)
        BY <2>3 DEF SameRepo
      <4> QED
        BY <2>3, <4>1, RepoUnlockEffect, Zenon
    <3> HIDE DEF r
    <3>4. u.wcount \in Nat /\ u.repo.count \in Nat /\ u.res \in Results
      BY <2>3, FieldTypes DEF RepoGood
    <3>5. RepoGood(t) /\ Beside(r, t) /\ SameRepo(r, t)
      BY <3>2, <3>3, <3>4, SetResGood, Zenon
    <3>6. t.branch = u.branch /\ t.disk = u.disk
      BY <3>3, <3>5 DEF Beside
    <3>7. Good(t)
      BY <2>2, <3>1, <3>5, <3>6 DEF Good
    <3>8. Locks(r) = Locks(u) - 1 \/ ("abort" \in F /\ Locks(r) = Locks(u))
      BY <3>3, <3>4 DEF Locks
    <3>9. Moves(s, t, F)
      BY <2>3, <3>3, <3>5 DEF Moves, SameRepo
    <3> QED
      BY <2>2, <2>3, <3>1, <3>5, <3>6, <3>7, <3>8, <3>9 DEF SameRepo
  <2> QED
    BY <2>4, <2>5
<1> QED
  BY <1>1, <1>2

-----------------------------------------------------------------------------
\* The inductive invariant.

\* The repository owes a lock to a locked branch.
Owed(s) == IF s.branch.count > 0 THEN 1 ELSE 0

\* A repository that is locked when those below are not was left so by a lock
\* that failed there: that lock is nobody's.
Stray(s) == IF Locks(s) > 0 /\ s.fallback = 0 THEN 1 ELSE 0

\* The objects are locked at least as often as their callers know, and more
\* often by no more than what has failed.
Accounted(s, h, f) ==
  /\ s.branch.count >= h["branch"]
  /\ s.branch.count <= h["branch"] + f["save"]
  /\ Locks(s) >= h["repo"] + Owed(s) + Stray(s)
  /\ Locks(s) <= h["repo"] + Owed(s) + f["abort"] + f["below"] + f["refresh"]

\* The repositories below follow, but for locks left behind in write groups.
Followed(s, f) ==
  /\ s.fallback <= (IF Locks(s) > 0 THEN 1 ELSE 0) + f["group"]
  /\ f["below"] = 0 /\ Locks(s) > 0 => s.fallback >= 1

\* The lock directory outlives the write lock only if its release failed.
Released(s, f) == s.disk = "us" => s.branch.mode = "w" \/ f["release"] > 0

LockInv ==
  TypeOK /\ Good(st) /\ Accounted(st, held, faults) /\ Followed(st, faults) /\ Released(st, faults)

\* The numbers the invariant is about.
LEMMA InvTypes ==
  ASSUME LockInv
  PROVE  /\ st \in Objects /\ RepoGood(st) /\ Good(st)
         /\ st.branch.count \in Nat /\ st.wcount \in Nat /\ st.repo.count \in Nat
         /\ st.fallback \in Nat
         /\ Locks(st) \in Nat /\ st.branch.mode \in Modes
         /\ held \in [{"branch", "repo"} -> 0..MaxHeld]
         /\ held["branch"] \in Nat /\ held["repo"] \in Nat
         /\ MaxHeld \in Nat /\ MaxFaults \in Nat
         /\ faults \in [Kinds -> 0..MaxFaults]
         /\ faults["save"] \in Nat /\ faults["abort"] \in Nat /\ faults["release"] \in Nat
         /\ faults["below"] \in Nat /\ faults["refresh"] \in Nat /\ faults["group"] \in Nat
<1>1. st \in Objects /\ RepoGood(st) /\ Good(st)
      /\ held \in [{"branch", "repo"} -> 0..MaxHeld] /\ faults \in [Kinds -> 0..MaxFaults]
  BY DEF LockInv, TypeOK, Good
<1>2. MaxHeld \in Nat /\ MaxFaults \in Nat
  BY NestingAssumption
<1>3. \A k \in Kinds : faults[k] \in Nat
  BY <1>1, <1>2
<1> QED
  BY <1>1, <1>2, <1>3, FieldTypes, LockedIsCounted DEF Kinds

\* The failures of a call are counted.
LEMMA FaultsCounted ==
  ASSUME LockInv, NEW t, NEW F \in SUBSET Kinds, Call(t, F)
  PROVE  /\ st' = t
         /\ faults' \in [Kinds -> 0..MaxFaults]
         /\ \A k \in Kinds : faults'[k] = IF k \in F THEN faults[k] + 1 ELSE faults[k]
<1>1. faults \in [Kinds -> 0..MaxFaults] /\ MaxFaults \in Nat
  BY InvTypes
<1>2. faults' = [k \in Kinds |-> IF k \in F THEN faults[k] + 1 ELSE faults[k]]
      /\ st' = t /\ \A k \in F : faults[k] < MaxFaults
  BY DEF Call
<1>3. \A k \in Kinds : (IF k \in F THEN faults[k] + 1 ELSE faults[k]) \in 0..MaxFaults
  BY <1>1, <1>2
<1> QED
  BY <1>2, <1>3

\* How a call that moves the locks below keeps them following, the write group
\* that unlock found open counted.
LEMMA FollowedStep ==
  ASSUME LockInv, NEW t, t \in Objects, NEW F \in SUBSET Kinds, Call(t, F),
         Moves(st, t, F),
         Locks(t) >= Locks(st) \/ (st.group # 0 /\ t.group = 0 => "group" \in F)
  PROVE  Followed(t, faults')
<1>0. /\ Followed(st, faults) /\ st.fallback \in Nat /\ Locks(st) \in Nat
      /\ faults["group"] \in Nat /\ faults["below"] \in Nat
  BY InvTypes DEF LockInv
<1>1. /\ faults'["group"] = IF "group" \in F THEN faults["group"] + 1 ELSE faults["group"]
      /\ faults'["below"] = IF "below" \in F THEN faults["below"] + 1 ELSE faults["below"]
  BY FaultsCounted DEF Kinds
<1>2. Locks(t) \in Nat
  BY LockedIsCounted
<1>3. CASE Locks(t) > 0
  BY <1>0, <1>1, <1>3 DEF Moves, Followed
<1>4. CASE Locks(t) = 0
  BY <1>0, <1>1, <1>4 DEF Moves, Followed
<1> QED
  BY <1>2, <1>3, <1>4

\* Branch.lock_read and lock_write.
LEMMA LockBranchStep ==
  ASSUME LockInv, NEW F \in LockFaults, held["branch"] < MaxHeld,
         NEW t, t = BranchLockRead(st, F) \/ t = BranchLockWrite(st, F),
         Call(t, F), Counted("branch", t)
  PROVE  LockInv'
<1>0. /\ Good(st) /\ st.branch.count \in Nat /\ Locks(st) \in Nat /\ st.fallback \in Nat
      /\ held \in [{"branch", "repo"} -> 0..MaxHeld]
      /\ held["branch"] \in Nat /\ held["repo"] \in Nat /\ MaxHeld \in Nat
      /\ faults["save"] \in Nat /\ faults["abort"] \in Nat /\ faults["release"] \in Nat
      /\ faults["below"] \in Nat /\ faults["refresh"] \in Nat
  BY InvTypes
<1>1. Locked(st, t, F)
  BY <1>0, BranchLockReadEffect, BranchLockWriteEffect
<1>2. F \in SUBSET Kinds /\ (F # {} => "below" \in F \/ "refresh" \in F)
      /\ "save" \notin F /\ "abort" \notin F /\ "release" \notin F
  BY DEF LockFaults, Kinds
<1>3. /\ st' = t /\ faults' \in [Kinds -> 0..MaxFaults]
      /\ \A k \in Kinds : faults'[k] = IF k \in F THEN faults[k] + 1 ELSE faults[k]
  BY <1>2, FaultsCounted
<1>4. held' = [held EXCEPT !["branch"] = IF t.res = "ok" THEN held["branch"] + 1 ELSE held["branch"]]
  BY DEF Counted
<1>5. t \in Objects /\ t.branch.count \in Nat /\ Locks(t) \in Nat /\ t.fallback \in Nat
  BY <1>1, FieldTypes, LockedIsCounted DEF Locked, Good, RepoGood
<1>6. TypeOK'
  BY <1>0, <1>3, <1>4, <1>5 DEF TypeOK
<1>7. /\ faults'["save"] = faults["save"] /\ faults'["abort"] = faults["abort"]
      /\ faults'["release"] = faults["release"]
      /\ faults'["below"] = IF "below" \in F THEN faults["below"] + 1 ELSE faults["below"]
      /\ faults'["refresh"] = IF "refresh" \in F THEN faults["refresh"] + 1 ELSE faults["refresh"]
  BY <1>2, <1>3 DEF Kinds
<1>8. Accounted(t, held', faults')
  <2>1. /\ held'["branch"] = IF t.res = "ok" THEN held["branch"] + 1 ELSE held["branch"]
        /\ held'["repo"] = held["repo"]
    BY <1>0, <1>4
  <2>2. Accounted(st, held, faults)
    BY DEF LockInv
  <2>3. CASE t.res = "ok"
    <3>1. Stray(t) <= Stray(st)
      <4>1. CASE st.branch.count = 0 /\ Locks(st) = 0
        BY <1>0, <1>1, <1>5, <2>3, <4>1 DEF Locked, Moves, Stray
      <4>2. CASE ~(st.branch.count = 0 /\ Locks(st) = 0)
        <5>1. Locks(st) > 0
          BY <1>0, <2>2, <4>2 DEF Accounted, Owed, Stray
        <5> QED
          BY <1>0, <1>1, <1>5, <5>1 DEF Moves, Locked, Stray
      <4> QED
        BY <4>1, <4>2
    <3>2. Stray(t) \in {0, 1} /\ Stray(st) \in {0, 1}
      BY DEF Stray
    <3> QED
      BY <1>0, <1>1, <1>5, <1>7, <2>1, <2>2, <2>3, <3>1, <3>2 DEF Accounted, Owed, Locked
  <2>4. CASE t.res # "ok" /\ Locks(t) = Locks(st)
    <3>1. t.branch.count = st.branch.count /\ t.fallback = st.fallback
      BY <1>0, <1>1, <2>4 DEF Locked, Moves
    <3>2. Stray(t) = Stray(st) /\ Owed(t) = Owed(st) /\ Stray(st) \in Nat /\ Owed(st) \in Nat
      BY <2>4, <3>1 DEF Stray, Owed
    <3> QED
      BY <1>0, <1>7, <2>1, <2>2, <2>4, <3>1, <3>2 DEF Accounted
  <2>5. CASE t.res # "ok" /\ Locks(t) # Locks(st)
    <3>1. t.branch.count = 0 /\ st.branch.count = 0 /\ Locks(st) = 0 /\ Locks(t) = 1 /\ F # {}
      BY <1>1, <2>5 DEF Locked
    <3>2. Stray(t) <= 1 /\ Stray(t) >= 0 /\ Stray(t) \in Nat /\ Owed(t) = 0 /\ Owed(st) = 0 /\ Stray(st) = 0
      BY <3>1 DEF Stray, Owed
    <3>3. held["repo"] = 0 /\ held["branch"] = 0
      BY <1>0, <2>2, <3>1, <3>2 DEF Accounted
    <3> QED
      BY <1>0, <1>2, <1>7, <2>1, <2>2, <2>5, <3>1, <3>2, <3>3 DEF Accounted
  <2> QED
    BY <2>3, <2>4, <2>5
<1>9. Followed(t, faults')
  <2>1. Locks(t) >= Locks(st)
    BY <1>0, <1>1 DEF Locked
  <2> QED
    BY <1>1, <1>2, <1>5, <2>1, FollowedStep DEF Locked
<1>10. Released(t, faults')
  BY <1>1, <1>7 DEF LockInv, Released, Locked
<1> QED
  BY <1>1, <1>3, <1>6, <1>8, <1>9, <1>10 DEF LockInv, Locked

\* PackRepository.lock_read and lock_write.
LEMMA LockRepoStep ==
  ASSUME LockInv, NEW F \in LockFaults, held["repo"] < MaxHeld,
         NEW t, t = RepoLockRead(st, F) \/ t = RepoLockWrite(st, F),
         Call(t, F), Counted("repo", t)
  PROVE  LockInv'
<1>0. /\ Good(st) /\ RepoGood(st) /\ st.branch.count \in Nat /\ Locks(st) \in Nat
      /\ st.wcount \in Nat /\ st.repo.count \in Nat /\ st.fallback \in Nat
      /\ held \in [{"branch", "repo"} -> 0..MaxHeld]
      /\ held["branch"] \in Nat /\ held["repo"] \in Nat /\ MaxHeld \in Nat
      /\ faults["save"] \in Nat /\ faults["abort"] \in Nat /\ faults["release"] \in Nat
      /\ faults["below"] \in Nat /\ faults["refresh"] \in Nat
  BY InvTypes
<1>1. /\ RepoGood(t) /\ Beside(st, t) /\ Moves(st, t, F) /\ t.wcount >= st.wcount
      /\ \/ t.res = "ok" /\ Locks(t) = Locks(st) + 1 /\ (Locks(st) = 0 => F = {})
         \/ t.res # "ok" /\ Locks(t) = Locks(st)
         \/ t.res # "ok" /\ Locks(st) = 0 /\ Locks(t) = 1 /\ F # {}
  <2>1. CASE t = RepoLockRead(st, F)
    <3>1. /\ RepoGood(t) /\ Beside(st, t) /\ Moves(st, t, F)
          /\ IF st.wcount > 0
             THEN t.wcount = st.wcount + 1 /\ t.repo.count = st.repo.count
             ELSE t.wcount = st.wcount /\ t.repo.count = st.repo.count + 1
          /\ \/ t.res = "ok" /\ (Locks(st) = 0 => F = {})
             \/ t.res = "TransportError" /\ Locks(st) = 0 /\ F # {}
      BY <1>0, <2>1, RepoLockReadEffect
    <3>2. Locks(t) = Locks(st) + 1 /\ t.wcount >= st.wcount
      BY <1>0, <3>1 DEF Locks
    <3> QED
      BY <3>1, <3>2
  <2>2. CASE t = RepoLockWrite(st, F)
    <3>1. /\ RepoGood(t) /\ Beside(st, t) /\ Moves(st, t, F)
          /\ \/ /\ t.res = "ok" /\ t.wcount = st.wcount + 1 /\ t.repo.count = st.repo.count
                /\ Locks(st) = 0 => F = {}
             \/ t.res = "ReadOnlyError" /\ t.wcount = st.wcount /\ t.repo.count = st.repo.count
             \/ /\ t.res = "TransportError" /\ t.wcount = st.wcount + 1 /\ t.repo.count = st.repo.count
                /\ Locks(st) = 0 /\ F # {}
      BY <1>0, <2>2, RepoLockWriteEffect
    <3> QED
      BY <1>0, <3>1 DEF Locks
  <2> QED
    BY <2>1, <2>2
<1>2. F \in SUBSET Kinds /\ (F # {} => "below" \in F \/ "refresh" \in F)
      /\ "save" \notin F /\ "abort" \notin F /\ "release" \notin F
  BY DEF LockFaults, Kinds
<1>3. /\ st' = t /\ faults' \in [Kinds -> 0..MaxFaults]
      /\ \A k \in Kinds : faults'[k] = IF k \in F THEN faults[k] + 1 ELSE faults[k]
  BY <1>2, FaultsCounted
<1>4. held' = [held EXCEPT !["repo"] = IF t.res = "ok" THEN held["repo"] + 1 ELSE held["repo"]]
  BY DEF Counted
<1>5. t \in Objects /\ t.wcount \in Nat /\ Locks(t) \in Nat /\ t.fallback \in Nat
      /\ t.branch = st.branch /\ t.disk = st.disk
  BY <1>1, FieldTypes, LockedIsCounted DEF RepoGood, Beside
<1>6. TypeOK'
  BY <1>0, <1>3, <1>4, <1>5 DEF TypeOK
<1>7. /\ faults'["save"] = faults["save"] /\ faults'["abort"] = faults["abort"]
      /\ faults'["release"] = faults["release"]
      /\ faults'["below"] = IF "below" \in F THEN faults["below"] + 1 ELSE faults["below"]
      /\ faults'["refresh"] = IF "refresh" \in F THEN faults["refresh"] + 1 ELSE faults["refresh"]
  BY <1>2, <1>3 DEF Kinds
<1>8. Accounted(t, held', faults')
  <2>1. /\ held'["repo"] = IF t.res = "ok" THEN held["repo"] + 1 ELSE held["repo"]
        /\ held'["branch"] = held["branch"]
    BY <1>0, <1>4
  <2>2. Accounted(st, held, faults) /\ Owed(t) = Owed(st) /\ Owed(st) \in Nat
    BY <1>5 DEF LockInv, Owed
  <2>3. Stray(t) \in Nat /\ Stray(st) \in Nat /\ Stray(t) <= 1
    BY DEF Stray
  <2>4. CASE t.res = "ok"
    <3>1. Stray(t) <= Stray(st)
      BY <1>0, <1>1, <1>5, <2>4 DEF Moves, Stray
    <3> QED
      BY <1>0, <1>1, <1>5, <1>7, <2>1, <2>2, <2>3, <2>4, <3>1 DEF Accounted
  <2>5. CASE t.res # "ok" /\ Locks(t) = Locks(st)
    <3>1. Stray(t) = Stray(st)
      BY <1>0, <1>1, <2>5 DEF Moves, Stray
    <3> QED
      BY <1>0, <1>5, <1>7, <2>1, <2>2, <2>3, <2>5, <3>1 DEF Accounted
  <2>6. CASE t.res # "ok" /\ Locks(t) # Locks(st)
    <3>1. Locks(st) = 0 /\ Locks(t) = 1 /\ F # {}
      BY <1>1, <2>6
    <3>2. held["repo"] = 0 /\ Owed(st) = 0
      BY <1>0, <2>2, <2>3, <3>1 DEF Accounted
    <3> QED
      BY <1>0, <1>2, <1>5, <1>7, <2>1, <2>2, <2>3, <2>6, <3>1, <3>2 DEF Accounted
  <2> QED
    BY <2>4, <2>5, <2>6
<1>9. Followed(t, faults')
  <2>1. Locks(t) >= Locks(st)
    BY <1>0, <1>1
  <2> QED
    BY <1>1, <1>2, <1>5, <2>1, FollowedStep
<1>10. Released(t, faults')
  BY <1>5, <1>7 DEF LockInv, Released
<1>11. Good(t)
  BY <1>0, <1>1, <1>5 DEF Good
<1> QED
  BY <1>3, <1>6, <1>8, <1>9, <1>10, <1>11 DEF LockInv

\* The last lock that a caller knows of is one with which the repositories
\* below were locked.
LEMMA LastIsCovered ==
  ASSUME LockInv, held["repo"] + Owed(st) >= 1
  PROVE  Locks(st) >= 1 /\ (Locks(st) >= 2 \/ st.fallback >= 1)
<1>1. Locks(st) \in Nat /\ st.fallback \in Nat /\ held["repo"] \in Nat
  BY InvTypes
<1>2. Owed(st) \in Nat /\ Stray(st) \in Nat /\ Locks(st) >= held["repo"] + Owed(st) + Stray(st)
  BY DEF LockInv, Accounted, Owed, Stray
<1> QED
  BY <1>1, <1>2 DEF Stray

\* An unlock that leads to t, F failing in it, is counted with the write group
\* it found open.
LEMMA UnlockFaults ==
  ASSUME LockInv, NEW F \in SUBSET {"save", "release", "abort"}, NEW t,
         Call(t, F \cup Abandoned(t))
  PROVE  /\ st' = t /\ faults' \in [Kinds -> 0..MaxFaults]
         /\ F \cup Abandoned(t) \in SUBSET Kinds
         /\ st.group # 0 /\ t.group = 0 => "group" \in F \cup Abandoned(t)
         /\ "below" \in F \cup Abandoned(t) <=> "below" \in F
         /\ faults'["save"] = IF "save" \in F THEN faults["save"] + 1 ELSE faults["save"]
         /\ faults'["abort"] = IF "abort" \in F THEN faults["abort"] + 1 ELSE faults["abort"]
         /\ faults'["release"] = IF "release" \in F THEN faults["release"] + 1 ELSE faults["release"]
         /\ faults'["below"] = faults["below"] /\ faults'["refresh"] = faults["refresh"]
<1> DEFINE G == F \cup Abandoned(t)
<1>1. G \in SUBSET Kinds /\ (st.group # 0 /\ t.group = 0 => "group" \in G)
  BY DEF Abandoned, Kinds
<1>2. /\ ("save" \in G <=> "save" \in F) /\ ("abort" \in G <=> "abort" \in F)
      /\ ("release" \in G <=> "release" \in F) /\ ("below" \in G <=> "below" \in F)
      /\ "below" \notin G /\ "refresh" \notin G
  BY DEF Abandoned
<1>3. Call(t, G)
  OBVIOUS
<1> HIDE DEF G
<1>4. /\ st' = t /\ faults' \in [Kinds -> 0..MaxFaults]
      /\ \A k \in Kinds : faults'[k] = IF k \in G THEN faults[k] + 1 ELSE faults[k]
  BY <1>1, <1>3, FaultsCounted
<1>5. /\ faults'["save"] = IF "save" \in F THEN faults["save"] + 1 ELSE faults["save"]
      /\ faults'["abort"] = IF "abort" \in F THEN faults["abort"] + 1 ELSE faults["abort"]
      /\ faults'["release"] = IF "release" \in F THEN faults["release"] + 1 ELSE faults["release"]
      /\ faults'["below"] = faults["below"] /\ faults'["refresh"] = faults["refresh"]
  BY <1>2, <1>4 DEF Kinds
<1> QED
  BY <1>1, <1>2, <1>4, <1>5 DEF G

\* Branch.unlock: the branch is locked, for its caller has a lock on it, and
\* so is the repository.
LEMMA UnlockBranchStep ==
  ASSUME LockInv, UnlockBranch
  PROVE  LockInv'
<1>0. /\ Good(st) /\ st.branch.count \in Nat /\ Locks(st) \in Nat /\ st.fallback \in Nat
      /\ held \in [{"branch", "repo"} -> 0..MaxHeld]
      /\ held["branch"] \in Nat /\ held["repo"] \in Nat /\ MaxHeld \in Nat
      /\ faults["save"] \in Nat /\ faults["abort"] \in Nat /\ faults["release"] \in Nat
      /\ faults["below"] \in Nat /\ faults["refresh"] \in Nat
  BY InvTypes
<1>1. PICK F \in SUBSET {"save", "release", "abort"} :
        Call(BranchUnlock(st, F), F \cup Abandoned(BranchUnlock(st, F)))
  BY DEF UnlockBranch
<1> DEFINE t == BranchUnlock(st, F)
<1>2. held["branch"] > 0 /\ held' = [held EXCEPT !["branch"] = held["branch"] - 1]
  BY DEF UnlockBranch
<1>3. Accounted(st, held, faults) /\ Owed(st) = 1
  BY <1>0, <1>2 DEF LockInv, Accounted, Owed
<1>4. st.branch.count >= 1 /\ Locks(st) >= 1 /\ (Locks(st) >= 2 \/ st.fallback >= 1)
  BY <1>0, <1>2, <1>3, LastIsCovered DEF Accounted
<1>5. /\ Good(t) /\ Moves(st, t, F)
      /\ t.disk = "us" => st.disk = "us" /\ (t.branch.mode = st.branch.mode \/ "release" \in F)
      /\ \/ t.branch.count = st.branch.count - 1
         \/ "save" \in F /\ t.branch.count = st.branch.count
      /\ \/ Locks(t) = IF t.branch.count = 0 THEN Locks(st) - 1 ELSE Locks(st)
         \/ "abort" \in F /\ Locks(t) = Locks(st)
  BY <1>0, <1>4, BranchUnlockEffect
<1>6. /\ st' = t /\ faults' \in [Kinds -> 0..MaxFaults]
      /\ F \cup Abandoned(t) \in SUBSET Kinds
      /\ st.group # 0 /\ t.group = 0 => "group" \in F \cup Abandoned(t)
      /\ "below" \in F \cup Abandoned(t) <=> "below" \in F
      /\ faults'["save"] = IF "save" \in F THEN faults["save"] + 1 ELSE faults["save"]
      /\ faults'["abort"] = IF "abort" \in F THEN faults["abort"] + 1 ELSE faults["abort"]
      /\ faults'["release"] = IF "release" \in F THEN faults["release"] + 1 ELSE faults["release"]
      /\ faults'["below"] = faults["below"] /\ faults'["refresh"] = faults["refresh"]
  BY <1>1, UnlockFaults, Zenon
<1>c. Call(t, F \cup Abandoned(t))
  BY <1>1
<1> HIDE DEF t
<1>7. t \in Objects /\ t.branch.count \in Nat /\ Locks(t) \in Nat /\ t.fallback \in Nat
  BY <1>5, FieldTypes, LockedIsCounted DEF Good, RepoGood
<1>8. TypeOK'
  BY <1>0, <1>2, <1>6, <1>7 DEF TypeOK
<1>9. Accounted(t, held', faults')
  <2>1. held'["branch"] = held["branch"] - 1 /\ held'["repo"] = held["repo"]
    BY <1>0, <1>2
  <2>2. Stray(t) \in Nat /\ Stray(st) \in Nat /\ Stray(t) <= Stray(st)
    BY <1>0, <1>4, <1>5, <1>7 DEF Moves, Stray
  <2>3. CASE t.branch.count = 0
    <3>1. Owed(t) = 0
      BY <2>3 DEF Owed
    <3> QED
      BY <1>0, <1>3, <1>5, <1>6, <1>7, <2>1, <2>2, <2>3, <3>1 DEF Accounted
  <2>4. CASE t.branch.count # 0
    <3>1. Owed(t) = 1
      BY <1>7, <2>4 DEF Owed
    <3> QED
      BY <1>0, <1>3, <1>5, <1>6, <1>7, <2>1, <2>2, <2>4, <3>1 DEF Accounted
  <2> QED
    BY <2>3, <2>4
<1>10. Followed(t, faults')
  <2>1. Moves(st, t, F \cup Abandoned(t))
    BY <1>5, <1>6 DEF Moves
  <2> QED
    BY <1>c, <1>6, <1>7, <2>1, FollowedStep
<1>11. Released(t, faults')
  BY <1>0, <1>5, <1>6 DEF LockInv, Released
<1> QED
  BY <1>5, <1>6, <1>8, <1>9, <1>10, <1>11 DEF LockInv

\* PackRepository.unlock: under a branch locked for writing it is not the last
\* write lock that goes.
LEMMA UnlockRepoStep ==
  ASSUME LockInv, UnlockRepo
  PROVE  LockInv'
<1>0. /\ Good(st) /\ RepoGood(st) /\ st.branch.count \in Nat /\ Locks(st) \in Nat
      /\ st.wcount \in Nat /\ st.repo.count \in Nat /\ st.fallback \in Nat
      /\ held \in [{"branch", "repo"} -> 0..MaxHeld]
      /\ held["branch"] \in Nat /\ held["repo"] \in Nat /\ MaxHeld \in Nat
      /\ faults["save"] \in Nat /\ faults["abort"] \in Nat /\ faults["release"] \in Nat
      /\ faults["below"] \in Nat /\ faults["refresh"] \in Nat
  BY InvTypes
<1>1. PICK F \in SUBSET {"abort"} :
        Call(RepoUnlock(st, F), F \cup Abandoned(RepoUnlock(st, F)))
  BY DEF UnlockRepo
<1> DEFINE t == RepoUnlock(st, F)
<1>2. held["repo"] > 0 /\ held' = [held EXCEPT !["repo"] = held["repo"] - 1]
  BY DEF UnlockRepo
<1>3. Accounted(st, held, faults) /\ Owed(st) \in Nat /\ Stray(st) \in Nat
      /\ (st.branch.count > 0 => Owed(st) = 1)
  BY DEF LockInv, Owed, Stray
<1>4. Locks(st) >= 1 /\ (Locks(st) >= 2 \/ st.fallback >= 1) /\ (st.branch.count > 0 => Locks(st) >= 2)
  <2>1. held["repo"] + Owed(st) >= 1
    BY <1>0, <1>2, <1>3
  <2> QED
    BY <1>0, <1>2, <1>3, <2>1, LastIsCovered DEF Accounted
<1>5. /\ RepoGood(t) /\ Beside(st, t) /\ Moves(st, t, F)
      /\ \/ IF st.wcount > 0
            THEN t.wcount = st.wcount - 1 /\ t.repo.count = st.repo.count
            ELSE t.wcount = st.wcount /\ t.repo.count = st.repo.count - 1
         \/ "abort" \in F /\ t.wcount = st.wcount /\ t.repo.count = st.repo.count
  BY <1>0, <1>4, RepoUnlockEffect
<1>6. /\ st' = t /\ faults' \in [Kinds -> 0..MaxFaults]
      /\ F \cup Abandoned(t) \in SUBSET Kinds
      /\ st.group # 0 /\ t.group = 0 => "group" \in F \cup Abandoned(t)
      /\ "below" \in F \cup Abandoned(t) <=> "below" \in F
      /\ faults'["save"] = IF "save" \in F THEN faults["save"] + 1 ELSE faults["save"]
      /\ faults'["abort"] = IF "abort" \in F THEN faults["abort"] + 1 ELSE faults["abort"]
      /\ faults'["release"] = IF "release" \in F THEN faults["release"] + 1 ELSE faults["release"]
      /\ faults'["below"] = faults["below"] /\ faults'["refresh"] = faults["refresh"]
  <2>1. F \in SUBSET {"save", "release", "abort"}
    OBVIOUS
  <2> QED
    BY <1>1, <2>1, UnlockFaults, Zenon
<1>c. Call(t, F \cup Abandoned(t)) /\ "save" \notin F /\ "release" \notin F
  BY <1>1
<1> HIDE DEF t
<1>7. t \in Objects /\ t.wcount \in Nat /\ Locks(t) \in Nat /\ t.fallback \in Nat
      /\ t.branch = st.branch /\ t.disk = st.disk
  BY <1>5, FieldTypes, LockedIsCounted DEF RepoGood, Beside
<1>8. TypeOK'
  BY <1>0, <1>2, <1>6, <1>7 DEF TypeOK
<1>9. Locks(t) = Locks(st) - 1 \/ ("abort" \in F /\ Locks(t) = Locks(st))
  BY <1>0, <1>5 DEF Locks
<1>10. Accounted(t, held', faults')
  <2>1. held'["repo"] = held["repo"] - 1 /\ held'["branch"] = held["branch"]
    BY <1>0, <1>2
  <2>2. Stray(t) \in Nat /\ Stray(t) <= Stray(st)
    BY <1>0, <1>4, <1>5, <1>7 DEF Moves, Stray
  <2>3. Owed(t) = Owed(st)
    BY <1>7 DEF Owed
  <2> QED
    BY <1>0, <1>c, <1>3, <1>6, <1>7, <1>9, <2>1, <2>2, <2>3 DEF Accounted
<1>11. Followed(t, faults')
  <2>1. Moves(st, t, F \cup Abandoned(t))
    BY <1>5, <1>6 DEF Moves
  <2> QED
    BY <1>c, <1>6, <1>7, <2>1, FollowedStep
<1>12. Good(t)
  <2>1. ASSUME st.branch.mode = "w"
        PROVE  t.wcount > 0
    <3>1. st.wcount > 0 /\ st.branch.count > 0
      BY <1>0, <2>1 DEF Good, Files
    <3>2. st.repo.count = 0
      BY <1>0, <3>1 DEF RepoGood
    <3>3. st.wcount >= 2
      BY <1>0, <1>4, <3>1, <3>2 DEF Locks
    <3> QED
      BY <1>0, <1>5, <3>3
  <2> QED
    BY <1>0, <1>5, <1>7, <2>1 DEF Good
<1>13. Released(t, faults')
  BY <1>c, <1>6, <1>7 DEF LockInv, Released
<1> QED
  BY <1>6, <1>8, <1>10, <1>11, <1>12, <1>13 DEF LockInv

\* Repository.start_write_group, commit_write_group and abort_write_group.
LEMMA UseGroupStep ==
  ASSUME LockInv, UseGroup
  PROVE  LockInv'
<1>0. /\ Good(st) /\ RepoGood(st) /\ st \in Objects
      /\ st.wcount \in Nat /\ st.repo.count \in Nat
  BY InvTypes
<1>1. held' = held /\ faults' = faults /\ (st' = StartGroup(st) \/ st' = EndGroup(st))
  BY DEF UseGroup
<1>2. PICK g \in 0..2, res \in Results :
        /\ Is(st', st.branch, st.repo, st.wcount, st.txn, g, st.fallback, st.disk, res)
        /\ g # 0 => st.wcount > 0 /\ g = st.txn
  <2> DEFINE Effect(t) == \E g \in 0..2, res \in Results :
                            /\ Is(t, st.branch, st.repo, st.wcount, st.txn, g, st.fallback, st.disk, res)
                            /\ g # 0 => st.wcount > 0 /\ g = st.txn
  <2>1. {"ok", "BzrError"} \subseteq Results /\ st.txn \in 0..2 /\ st.group \in 0..2 /\ 0 \in 0..2
    BY <1>0, FieldTypes DEF Results
  <2>2. Effect([st EXCEPT !.res = "BzrError"])
    <3>1. Is([st EXCEPT !.res = "BzrError"],
             st.branch, st.repo, st.wcount, st.txn, st.group, st.fallback, st.disk, "BzrError")
      BY <1>0, <2>1, SetRes
    <3>2. st.group # 0 => st.wcount > 0 /\ st.group = st.txn
      BY <1>0 DEF RepoGood
    <3>3. st.group \in 0..2 /\ "BzrError" \in Results
      BY <2>1
    <3> QED
      BY <3>1, <3>2, <3>3, Zenon
  <2>3. ASSUME st.wcount # 0
        PROVE  Effect([st EXCEPT !.group = st.txn, !.res = "ok"])
    <3>1. Is([st EXCEPT !.group = st.txn, !.res = "ok"],
             st.branch, st.repo, st.wcount, st.txn, st.txn, st.fallback, st.disk, "ok")
      BY <1>0, <2>1, SetGroup
    <3>2. st.wcount > 0
      BY <1>0, <2>3
    <3>3. st.txn \in 0..2 /\ "ok" \in Results
      BY <2>1
    <3> QED
      BY <3>1, <3>2, <3>3, Zenon
  <2>4. Effect([st EXCEPT !.group = 0, !.res = "ok"])
    <3>1. Is([st EXCEPT !.group = 0, !.res = "ok"],
             st.branch, st.repo, st.wcount, st.txn, 0, st.fallback, st.disk, "ok")
      BY <1>0, <2>1, SetGroup
    <3>2. 0 \in 0..2 /\ "ok" \in Results
      BY <2>1
    <3> QED
      BY <3>1, <3>2, Zenon
  <2>5. \/ st' = [st EXCEPT !.res = "BzrError"]
        \/ st.wcount # 0 /\ st' = [st EXCEPT !.group = st.txn, !.res = "ok"]
        \/ st' = [st EXCEPT !.group = 0, !.res = "ok"]
    BY <1>1 DEF StartGroup, EndGroup
  <2> HIDE DEF Effect
  <2>6. Effect(st')
    BY <2>2, <2>3, <2>4, <2>5
  <2> QED
    BY <2>6 DEF Effect
<1>3. Good(st') /\ Locks(st') = Locks(st) /\ st'.branch = st.branch /\ st'.fallback = st.fallback
      /\ st'.disk = st.disk
  BY <1>0, <1>2 DEF Is, Good, RepoGood, Locks
<1>4. st' \in Objects
  BY <1>2 DEF Is
<1>5. TypeOK'
  BY <1>1, <1>4 DEF LockInv, TypeOK
<1>6. Accounted(st', held', faults')
  BY <1>1, <1>3 DEF LockInv, Accounted, Owed, Stray
<1>7. Followed(st', faults') /\ Released(st', faults')
  BY <1>1, <1>3 DEF LockInv, Followed, Released
<1> QED
  BY <1>3, <1>5, <1>6, <1>7 DEF LockInv

\* Another process takes or releases the lock directory, or a user breaks it:
\* the objects do not notice.
LEMMA DiskStep ==
  ASSUME LockInv, Other \/ Break
  PROVE  LockInv'
<1>0. Good(st) /\ RepoGood(st) /\ st \in Objects
  BY InvTypes
<1>1. PICK d \in {"free", "other"} : st' = [st EXCEPT !.disk = d]
  BY DEF Other, Break
<1>2. held' = held /\ faults' = faults
  BY DEF Other, Break
<1>3. Is(st', st.branch, st.repo, st.wcount, st.txn, st.group, st.fallback, d, st.res)
  BY <1>0, <1>1, SetDisk
<1>4. Good(st') /\ Locks(st') = Locks(st) /\ st'.branch = st.branch /\ st'.fallback = st.fallback
      /\ st'.disk # "us"
  BY <1>0, <1>3 DEF Is, Good, RepoGood, Locks
<1>5. TypeOK'
  BY <1>2, <1>3 DEF LockInv, TypeOK, Is
<1>6. Accounted(st', held', faults')
  BY <1>2, <1>4 DEF LockInv, Accounted, Owed, Stray
<1>7. Followed(st', faults') /\ Released(st', faults')
  BY <1>2, <1>4 DEF LockInv, Followed, Released
<1> QED
  BY <1>4, <1>5, <1>6, <1>7 DEF LockInv

\* Nothing is locked at first.
LEMMA InitInv == Init => LockInv
<1> SUFFICES ASSUME Init PROVE LockInv
  OBVIOUS
<1>1. Unlocked \in ControlFiles
  BY DEF Unlocked, ControlFiles, Modes
<1>2. st = [branch |-> Unlocked, repo |-> Unlocked, wcount |-> 0, txn |-> 0, group |-> 0,
            fallback |-> 0, disk |-> "free", res |-> "ok"]
  BY DEF Init
<1>3. st \in Objects
  BY <1>1, <1>2 DEF Objects, Results
<1>4. Files(Unlocked) /\ ~Unlocked.real /\ Unlocked.count = 0 /\ Unlocked.mode = "none"
  BY DEF Files, Unlocked
<1>5. st.branch = Unlocked /\ st.repo = Unlocked /\ st.wcount = 0 /\ st.group = 0
      /\ st.fallback = 0 /\ st.disk = "free"
  BY <1>2
<1>6. held["branch"] = 0 /\ held["repo"] = 0 /\ held \in [{"branch", "repo"} -> 0..MaxHeld]
  BY NestingAssumption DEF Init
<1>f. faults = [k \in Kinds |-> 0] /\ faults \in [Kinds -> 0..MaxFaults]
  BY NestingAssumption DEF Init
<1>7. TypeOK
  BY <1>3, <1>6, <1>f DEF TypeOK
<1>8. Good(st)
  BY <1>3, <1>4, <1>5 DEF Good, RepoGood, Locks
<1>9. Accounted(st, held, faults) /\ Followed(st, faults) /\ Released(st, faults)
  BY <1>4, <1>5, <1>6, <1>f DEF Accounted, Owed, Stray, Locks, Followed, Released, Kinds
<1> QED
  BY <1>7, <1>8, <1>9 DEF LockInv

\* Every call keeps the invariant.
LEMMA NextInv == LockInv /\ [Next]_vars => LockInv'
<1> SUFFICES ASSUME LockInv, [Next]_vars PROVE LockInv'
  OBVIOUS
<1>1. ASSUME NEW o \in {"branch", "repo"}, LockRead(o)
      PROVE  LockInv'
  <2> DEFINE t(F) == IF o = "branch" THEN BranchLockRead(st, F) ELSE RepoLockRead(st, F)
  <2>1. held[o] < MaxHeld /\ \E F \in LockFaults : Call(t(F), F) /\ Counted(o, t(F))
    BY <1>1 DEF LockRead, LockFaults
  <2>2. PICK F \in LockFaults : Call(t(F), F) /\ Counted(o, t(F))
    BY <2>1
  <2>3. CASE o = "branch"
    <3>1. t(F) = BranchLockRead(st, F)
      BY <2>3
    <3> HIDE DEF t
    <3> QED
      BY <2>1, <2>2, <2>3, <3>1, LockBranchStep
  <2>4. CASE o = "repo"
    <3>1. t(F) = RepoLockRead(st, F)
      BY <2>4
    <3> HIDE DEF t
    <3> QED
      BY <2>1, <2>2, <2>4, <3>1, LockRepoStep
  <2> QED
    BY <2>3, <2>4
<1>2. ASSUME NEW o \in {"branch", "repo"}, LockWrite(o)
      PROVE  LockInv'
  <2> DEFINE t(F) == IF o = "branch" THEN BranchLockWrite(st, F) ELSE RepoLockWrite(st, F)
  <2>1. held[o] < MaxHeld /\ \E F \in LockFaults : Call(t(F), F) /\ Counted(o, t(F))
    BY <1>2 DEF LockWrite, LockFaults
  <2>2. PICK F \in LockFaults : Call(t(F), F) /\ Counted(o, t(F))
    BY <2>1
  <2>3. CASE o = "branch"
    <3>1. t(F) = BranchLockWrite(st, F)
      BY <2>3
    <3> HIDE DEF t
    <3> QED
      BY <2>1, <2>2, <2>3, <3>1, LockBranchStep
  <2>4. CASE o = "repo"
    <3>1. t(F) = RepoLockWrite(st, F)
      BY <2>4
    <3> HIDE DEF t
    <3> QED
      BY <2>1, <2>2, <2>4, <3>1, LockRepoStep
  <2> QED
    BY <2>3, <2>4
<1>3. CASE UnlockBranch
  BY <1>3, UnlockBranchStep
<1>4. CASE UnlockRepo
  BY <1>4, UnlockRepoStep
<1>5. CASE UseGroup
  BY <1>5, UseGroupStep
<1>6. CASE Other \/ Break
  BY <1>6, DiskStep
<1>7. CASE UNCHANGED vars
  BY <1>7 DEF vars, LockInv, TypeOK, Good, RepoGood, Files, Locks, Accounted, Owed, Stray,
               Followed, Released
<1> QED
  BY <1>1, <1>2, <1>3, <1>4, <1>5, <1>6, <1>7 DEF Next

\* The invariant holds in every reachable state.
LEMMA InvHolds == Spec => []LockInv
  BY InitInv, NextInv, PTL DEF Spec

-----------------------------------------------------------------------------
\* Results.

\* However often locks are taken, refused, broken and given back, no count of
\* the branch, its repository or the repositories below goes below zero
\* (LockableFiles.unlock, PackRepository.unlock).
THEOREM TypeCorrect == Spec => []TypeOK
<1>1. LockInv => TypeOK
  BY DEF LockInv
<1> QED
  BY <1>1, InvHolds, PTL

\* For any nesting, and whatever fails, no object is locked less often than its
\* callers believe, and more often only by the locks that failures leave behind:
\* a failing save in Branch.unlock, a failing abort in PackRepository.unlock,
\* and a first lock of the repository that fails after it has been counted
\* (Branch.lock_write, lock_read, PackRepository.lock_write, lock_read).
THEOREM CountsAlwaysAgree == Spec => []CountsAgree
<1>1. LockInv => CountsAgree
  <2> SUFFICES ASSUME LockInv PROVE CountsAgree
    OBVIOUS
  <2>1. /\ st.branch.count \in Nat /\ Locks(st) \in Nat
        /\ held["branch"] \in Nat /\ held["repo"] \in Nat
        /\ faults["save"] \in Nat /\ faults["abort"] \in Nat
        /\ faults["below"] \in Nat /\ faults["refresh"] \in Nat
    BY InvTypes
  <2>2. Accounted(st, held, faults) /\ Stray(st) \in Nat /\ Owed(st) \in Nat
    BY DEF LockInv, Stray, Owed
  <2>3. st.branch.count \in held["branch"] .. held["branch"] + faults["save"]
    BY <2>1, <2>2 DEF Accounted
  <2>4. Locks(st) \in held["repo"] + Owed(st)
                   .. held["repo"] + Owed(st) + faults["abort"] + faults["below"] + faults["refresh"]
    BY <2>1, <2>2 DEF Accounted
  <2> QED
    BY <2>3, <2>4 DEF CountsAgree, Owed, Locks
<1> QED
  BY <1>1, InvHolds, PTL

\* The process has the lock directory of the branch without a write lock on the
\* control files only after releasing it has failed, and the LockDir still
\* knows: nothing else that fails, and nothing that others do, leaves it behind
\* (LockableFiles.lock_write and unlock, LockDir.unlock).
THEOREM NeverLeaked == Spec => []NoPhysicalLeak
<1>1. LockInv => NoPhysicalLeak
  BY DEF LockInv, Good, Released, NoPhysicalLeak
<1> QED
  BY <1>1, InvHolds, PTL

\* A locked branch has a locked repository, locked for writing under a branch
\* that is, in whatever order the two are unlocked (Branch.lock_write and
\* unlock, PackRepository.unlock).
THEOREM RepositoryAlwaysCovers == Spec => []RepositoryCoversBranch
<1>1. LockInv => RepositoryCoversBranch
  <2> SUFFICES ASSUME LockInv PROVE RepositoryCoversBranch
    OBVIOUS
  <2>1. /\ st \in Objects /\ Good(st) /\ st.branch.count \in Nat /\ Locks(st) \in Nat
        /\ held["repo"] \in Nat /\ (RepoLocked(st) <=> Locks(st) > 0)
    BY InvTypes, LockedIsCounted
  <2>2. Locks(st) >= held["repo"] + Owed(st) + Stray(st) /\ Stray(st) \in Nat
    BY DEF LockInv, Accounted, Stray
  <2>3. st.branch.mode # "none" => st.branch.count >= 1
    BY <2>1 DEF Good, Files
  <2>4. st.branch.mode # "none" => RepoLocked(st)
    BY <2>1, <2>2, <2>3 DEF Owed
  <2>5. st.branch.mode = "w" => st.wcount > 0
    BY <2>1 DEF Good
  <2> QED
    BY <2>4, <2>5 DEF RepositoryCoversBranch
<1> QED
  BY <1>1, InvHolds, PTL

\* A write group never outlives the write lock it was started in, also when
\* its abort fails in unlock (Repository.start_write_group,
\* PackRepository.unlock).
THEOREM GroupStaysInLock == Spec => []GroupInItsLock
<1>1. LockInv => GroupInItsLock
  BY DEF LockInv, Good, RepoGood, GroupInItsLock
<1> QED
  BY <1>1, InvHolds, PTL

\* The repositories below are locked while the repository is, unless locking
\* them failed, and once, but for a lock left behind by each write group that
\* unlock found open (PackRepository.lock_read, lock_write and unlock).
THEOREM FallbackAlwaysFollows == Spec => []FallbackFollows
<1>1. LockInv => FallbackFollows
  <2> SUFFICES ASSUME LockInv PROVE FallbackFollows
    OBVIOUS
  <2>1. Followed(st, faults) /\ (RepoLocked(st) <=> Locks(st) > 0) /\ st.fallback \in Nat
    BY InvTypes, LockedIsCounted DEF LockInv
  <2>2. CASE RepoLocked(st)
    BY <2>1, <2>2 DEF Followed, FallbackFollows
  <2>3. CASE ~RepoLocked(st)
    BY <2>1, <2>3 DEF Followed, FallbackFollows
  <2> QED
    BY <2>2, <2>3
<1> QED
  BY <1>1, InvHolds, PTL
=============================================================================
