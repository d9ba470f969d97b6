----------------------------- MODULE AutopackPlan -----------------------------
(***************************************************************************)
(* Which packs autopack combines (RepositoryPackCollection._do_autopack    *)
(* and plan_autopack_combinations in breezy/bzr/pack_repo.py).             *)
(*                                                                         *)
(* A repository is the sequence of the numbers of revisions in its packs,  *)
(* largest first.  It may have as many packs as the decimal digits of its  *)
(* number of revisions add up to; one more makes autopack combine some of  *)
(* them.  The loop that chooses which is modelled iteration by iteration,  *)
(* with the exceptions it could raise.                                     *)
(***************************************************************************)
EXTENDS Naturals, Sequences, FiniteSets, SequencesExt

CONSTANT
  Scenarios  \* how repositories grow: for each, the numbers of revisions a new
             \* pack may have (arrivals), whether autopack runs after every new
             \* pack (serial), whether packs may share revisions (dups), and
             \* bounds on all revisions (maxRevs) and packs (maxPacks)

ASSUME PlanAssumption ==
  Scenarios \subseteq [arrivals : SUBSET Nat, serial : BOOLEAN, dups : BOOLEAN,
                       maxRevs : Nat, maxPacks : Nat]

VARIABLES
  grows,   \* the scenario of this behaviour (constant)
  sizes,   \* revisions in each pack of the repository
  pc,      \* "ready", "loop", "use" (the inner loop), "execute"
  left,    \* existing_packs: packs still to be looked at
  dist,    \* pack_distribution: what is left of it
  count,   \* next_pack_rev_count in the inner loop
  op,      \* pack_operations[-1][0]
  chosen,  \* the packs of all pack_operations
  kept,    \* packs that stay as they are
  limit,   \* _max_pack_count when autopack ran last
  err      \* the exception autopack ended with

vars == <<grows, sizes, pc, left, dist, count, op, chosen, kept, limit, err>>

-----------------------------------------------------------------------------
Sum(s) == FoldLeft(LAMBDA a, b : a + b, 0, s)

\* The packs of s, largest first, and one of n revisions in its place
\* (existing_packs.sort(reverse=True)).
WithPack(s, n) == InsertAt(s, Cardinality({i \in DOMAIN s : s[i] >= n}) + 1, n)

\* The packs of s that hold revisions, and the others, which come last.
Filled(s) == Cardinality({i \in DOMAIN s : s[i] > 0})
NonEmpty(s) == SubSeq(s, 1, Filled(s))
WithoutRevisions(s) == SubSeq(s, Filled(s) + 1, Len(s))

DigitSum[n \in Nat] == IF n = 0 THEN 0 ELSE DigitSum[n \div 10] + (n % 10)

\* _max_pack_count.
MaxPackCount(total) == IF total = 0 THEN 1 ELSE DigitSum[total]

TenTimes(s) == [i \in DOMAIN s |-> 10 * s[i]]

\* One bucket of size 1 for each unit of the last digit, the larger ones before.
Buckets[n \in Nat] ==
  IF n = 0 THEN <<>> ELSE TenTimes(Buckets[n \div 10]) \o [i \in 1..(n % 10) |-> 1]

\* pack_distribution: as many packs of each power of ten as the digits say.
PackDistribution(total) == IF total = 0 THEN <<0>> ELSE Buckets[total]

\* Autopack is due: there are more packs than allowed.
Due == MaxPackCount(Sum(sizes)) < Len(sizes)

-----------------------------------------------------------------------------
\* A write group adds a pack.
Arrive ==
  /\ pc = "ready"
  /\ grows.serial => ~Due
  /\ Len(sizes) < grows.maxPacks
  /\ \E n \in grows.arrivals :
       /\ Sum(sizes) + n <= grows.maxRevs
       /\ sizes' = WithPack(sizes, n)
  /\ limit' = grows.maxPacks + 1
  /\ UNCHANGED <<grows, pc, left, dist, count, op, chosen, kept, err>>

\* Mutant: one pack too many is accepted.
AcceptsOneMore(existing, distribution) == Len(existing) <= Len(distribution) + 1

\* plan_autopack_combinations has nothing to do.
AcceptsAll(existing, distribution) == Len(existing) <= Len(distribution)

\* _do_autopack up to the loop; packs without revisions are left alone.
Autopack ==
  /\ pc = "ready"
  /\ Due
  /\ limit' = MaxPackCount(Sum(sizes))
  /\ LET existing == NonEmpty(sizes)
         distribution == PackDistribution(Sum(sizes))
     IN  IF AcceptsAll(existing, distribution)
         THEN UNCHANGED <<pc, left, dist>>
         ELSE pc' = "loop" /\ left' = existing /\ dist' = distribution
  /\ op' = 0
  /\ chosen' = <<>>
  /\ kept' = <<>>
  /\ UNCHANGED <<grows, sizes, count, err>>

\* The plan fails with exception e.
Raise(e) ==
  /\ err' = e
  /\ pc' = "failed"
  /\ UNCHANGED <<grows, sizes, left, dist, count, op, chosen, kept, limit>>

\* Mutant: only a pack larger than the bucket is kept.
KeepsLarger(n) == n > Head(dist)

\* The pack is packed better than the distribution asks for.
Keeps(n) == n >= Head(dist)

\* One iteration of the outer loop: the next pack is kept, or its revisions go
\* into the bucket at the head of the distribution.
NextPack ==
  /\ pc = "loop"
  /\ left # <<>>
  /\ IF dist = <<>> THEN Raise("IndexError")
     ELSE /\ left' = Tail(left)
          /\ IF Keeps(Head(left))
             THEN /\ pc' = "use"
                  /\ count' = Head(left)
                  /\ kept' = Append(kept, Head(left))
                  /\ UNCHANGED <<dist, op, chosen>>
             ELSE /\ chosen' = Append(chosen, Head(left))
                  /\ IF op + Head(left) >= Head(dist)
                     THEN op' = 0 /\ dist' = Tail(dist)
                     ELSE op' = op + Head(left) /\ UNCHANGED dist
                  /\ UNCHANGED <<pc, count, kept>>
          /\ UNCHANGED <<grows, sizes, limit, err>>

\* Mutant: a bucket that is used in part is lost.
LosesBucket == Tail(dist)

\* The distribution after count revisions are taken from its first bucket.
UsesBucket ==
  IF count >= Head(dist) THEN Tail(dist) ELSE <<Head(dist) - count>> \o Tail(dist)

\* Mutant: the inner loop does not count down.
ForgetsToCount == count

\* What is left of the pack for further buckets.
Remainder == IF count >= Head(dist) THEN count - Head(dist) ELSE 0

\* One iteration of the inner loop: a kept pack uses up its revisions.
UseBucket ==
  /\ pc = "use"
  /\ count > 0
  /\ IF dist = <<>> THEN Raise("IndexError")
     ELSE /\ dist' = UsesBucket
          /\ count' = Remainder
          /\ UNCHANGED <<grows, sizes, pc, left, op, chosen, kept, limit, err>>

\* The inner loop ends.
Used ==
  /\ pc = "use"
  /\ count = 0
  /\ pc' = "loop"
  /\ UNCHANGED <<grows, sizes, left, dist, count, op, chosen, kept, limit, err>>

\* The outer loop ends: all the chosen packs go into one.
PlanEnds ==
  /\ pc = "loop"
  /\ left = <<>>
  /\ IF Len(chosen) = 1 THEN Raise("AssertionError")
     ELSE pc' = "execute" /\ UNCHANGED <<grows, sizes, left, dist, count, op, chosen, kept, limit, err>>

\* The packs after the chosen ones were replaced by one with merged revisions.
Replaced(merged) == WithPack(kept, merged) \o WithoutRevisions(sizes)

\* _execute_pack_operations; revisions that several packs share are kept once.
Execute ==
  /\ pc = "execute"
  /\ \E merged \in (IF grows.dups /\ chosen # <<>> THEN Head(chosen) ELSE Sum(chosen))..Sum(chosen) :
       sizes' = IF chosen = <<>> THEN sizes ELSE Replaced(merged)
  /\ pc' = "ready"
  /\ left' = <<>> /\ dist' = <<>> /\ count' = 0 /\ op' = 0 /\ chosen' = <<>> /\ kept' = <<>>
  /\ UNCHANGED <<grows, limit, err>>

Init ==
  /\ grows \in Scenarios
  /\ sizes = <<>>
  /\ pc = "ready"
  /\ left = <<>>
  /\ dist = <<>>
  /\ count = 0
  /\ op = 0
  /\ chosen = <<>>
  /\ kept = <<>>
  /\ limit = grows.maxPacks + 1
  /\ err = "none"

Loop == NextPack \/ UseBucket \/ Used \/ PlanEnds \/ Execute

Next == Arrive \/ Autopack \/ Loop

\* The loop runs to its end once it is entered.
Spec == Init /\ [][Next]_vars /\ WF_vars(Loop)

-----------------------------------------------------------------------------
\* Properties.

\* plan_autopack_combinations raises neither the AssertionError of a plan that
\* moves a single pack nor an IndexError because the distribution is used up
\* before the packs are.
PlanSucceeds == err = "none"

\* The loops of plan_autopack_combinations terminate.
PlanTerminates == pc = "loop" ~> pc = "ready"

\* When autopack is done, the packs that hold revisions are no more than the
\* limit it worked for (_max_pack_count).
WithinLimit == pc = "ready" => Len(NonEmpty(sizes)) <= limit

\* A repository that grows by commits of one revision that no other pack has,
\* with an autopack whenever it is due, has exactly the packs of the distribution
\* after each of them (_do_autopack).
LayoutIsDistribution ==
  grows.serial /\ grows.arrivals = {1} /\ ~grows.dups =>
    (pc = "ready" /\ ~Due /\ sizes # <<>> => sizes = PackDistribution(Sum(sizes)))
=============================================================================
