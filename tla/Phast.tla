-------------------------------- MODULE Phast --------------------------------
(***************************************************************************)
(* The PHAST memory dependence predictor (cpu/o3/phast.cc).  One table per *)
(* history length; an entry maps a tag, folded from the load's address and *)
(* that many branches, to a distance in the store queue, with a confidence *)
(* counter.  A load is predicted at dispatch and the prediction judged at  *)
(* commit; other loads use and train the same entries in between.          *)
(*                                                                         *)
(* A table is one of its sets, since sets do not interact.  The tag of a   *)
(* load in each table is any tag, so that every collision is possible; 0   *)
(* is also the tag of an unused way.  Of a branch history only the length  *)
(* matters.                                                                *)
(***************************************************************************)
EXTENDS Integers, Sequences, FiniteSetsExt

CONSTANTS HistorySizes,    \* historySizes, a function from path indices
          Associativity, MaxCounterValue, MaxBranchHistory,
          Distances,       \* store queue distances, none of them 0
          Tags             \* the values of phast_tag_bits bits, 0 included

\* What the theorems assume of the constants.
PhastConstants ==
    /\ Associativity \in Nat \ {0} /\ MaxCounterValue \in Nat \ {0}
    /\ 0 \in Tags /\ 0 \notin Distances

Paths == DOMAIN HistorySizes
Ways == 1..Associativity

VARIABLES cache,           \* per path: its ways
          lruCounter,      \* per path
          maxBranches,
          loads,           \* path and tag in memDepInfo of the predicted
                           \* loads in flight, oldest first
          trained          \* history variable: the distance last trained
                           \* per path and tag, 0 if none

vars == <<cache, lruCounter, maxBranches, loads, trained>>

Unused == [tag |-> 0, distance |-> 0, lru |-> 0, counter |-> 0]

Init ==
    /\ cache = [p \in Paths |-> [w \in Ways |-> Unused]]
    /\ lruCounter = [p \in Paths |-> 0]
    /\ maxBranches = 0
    /\ loads = <<>>
    /\ trained = [p \in Paths |-> [t \in Tags |-> 0]]

-----------------------------------------------------------------------------
(* SimplBlockCache: what an operation makes of a set of ways at lruCounter *)
(* n.                                                                      *)

\* The first way with the tag, 0 if there is none.
FindEntry(ways, tag) ==
    LET hits == {w \in Ways : ways[w].tag = tag}
    IN  IF hits = {} THEN 0 ELSE Min(hits)

GetLRUEntry(ways) ==
    Min({w \in Ways : \A v \in Ways : ways[w].lru <= ways[v].lru})

Predicts(ways, tag) ==
    LET w == FindEntry(ways, tag)
    IN  w # 0 /\ ways[w].counter # 0 /\ ways[w].distance # 0

Update(ways, n, tag, distance) ==
    LET w == FindEntry(ways, tag)
    IN  [ways EXCEPT ![IF w = 0 THEN GetLRUEntry(ways) ELSE w] =
            [tag |-> tag, distance |-> distance, lru |-> n,
             counter |-> MaxCounterValue]]

\* The judgement of a prediction does nothing to an entry that is gone or
\* that has lost all confidence.
Judged(ways, tag) ==
    LET w == FindEntry(ways, tag) IN w # 0 /\ ways[w].counter # 0

UpdateCommit(ways, n, tag, wrong) ==
    LET w == FindEntry(ways, tag)
    IN  IF ~Judged(ways, tag) THEN ways
        ELSE [ways EXCEPT ![w].counter = IF wrong THEN @ - 1
                                         ELSE MaxCounterValue,
                          ![w].lru = n]

-----------------------------------------------------------------------------
(* PHAST. *)

\* checkInst lowers the limit when the history is shorter than it needs.
Limit(size) ==
    IF HistorySizes[maxBranches] <= size THEN maxBranches
    ELSE Max({p \in Paths : \A q \in 0..p : HistorySizes[q] <= size})

\* The load's tag in each table is given by tags.  The shortest path with a
\* prediction wins.
CheckInst(tags, size) ==
    /\ size > 0
    /\ maxBranches' = Limit(size)
    /\ \E hits \in {{p \in 0..maxBranches' : Predicts(cache[p], tags[p])}} :
          IF hits = {} THEN UNCHANGED <<cache, lruCounter, loads>>
          ELSE \E p \in {Min(hits)} :
                  /\ cache' = [cache EXCEPT
                        ![p][FindEntry(cache[p], tags[p])].lru = lruCounter[p]]
                  /\ lruCounter' = [lruCounter EXCEPT ![p] = @ + 1]
                  /\ loads' = Append(loads, [path |-> p, tag |-> tags[p]])
    /\ UNCHANGED trained

\* The oldest predicted load commits; wrong if its address and that of the
\* store do not overlap.
Commit(wrong) ==
    /\ loads # <<>>
    /\ \E l \in {Head(loads)} :
          /\ cache' = [cache EXCEPT ![l.path] =
                          UpdateCommit(@, lruCounter[l.path], l.tag, wrong)]
          /\ lruCounter' = [lruCounter EXCEPT ![l.path] =
                               IF Judged(cache[l.path], l.tag) THEN @ + 1
                               ELSE @]
    /\ loads' = Tail(loads)
    /\ UNCHANGED <<maxBranches, trained>>

\* Predicted loads after the k-th are on a squashed path; or the store that
\* was named has executed or left, and the load is not marked predicted.
Squash(k) ==
    /\ k < Len(loads)
    /\ loads' = SubSeq(loads, 1, k)
    /\ UNCHANGED <<cache, lruCounter, maxBranches, trained>>

Train(p, tag, distance) ==
    /\ maxBranches' = Max({maxBranches, p})
    /\ trained' = [trained EXCEPT ![p][tag] = distance]

\* A squashed load that violated memory order retires: everything older has
\* committed.  Loads that were fetched again may have been predicted meanwhile.
Violation(p, tag, distance) ==
    /\ cache' = [cache EXCEPT ![p] = Update(@, lruCounter[p], tag, distance)]
    /\ lruCounter' = [lruCounter EXCEPT ![p] = @ + 1]
    /\ Train(p, tag, distance)
    /\ UNCHANGED loads

\* If it had been predicted, it is the oldest of them, and that prediction is
\* judged wrong first.
ViolationPredicted(p, tag, distance) ==
    /\ loads # <<>>
    /\ \E l \in {Head(loads)} :
          \E judged \in {[cache EXCEPT ![l.path] =
                             UpdateCommit(@, lruCounter[l.path], l.tag, TRUE)]},
             n \in {[lruCounter EXCEPT ![l.path] =
                        IF Judged(cache[l.path], l.tag) THEN @ + 1 ELSE @]} :
                /\ cache' = [judged EXCEPT ![p] = Update(@, n[p], tag, distance)]
                /\ lruCounter' = [n EXCEPT ![p] = @ + 1]
    /\ Train(p, tag, distance)
    /\ loads' = Tail(loads)

\* It is not reported, because another one was in the same cycle, or the
\* history has no branch older than the store: nothing is judged or trained.
ViolationUnused ==
    /\ loads # <<>>
    /\ loads' = Tail(loads)
    /\ UNCHANGED <<cache, lruCounter, maxBranches, trained>>

\* PHAST::clear, when a drained CPU is taken over.  lruCounter stays.
Clear ==
    /\ loads = <<>>
    /\ cache' = [p \in Paths |-> [w \in Ways |-> Unused]]
    /\ maxBranches' = 0
    /\ trained' = [p \in Paths |-> [t \in Tags |-> 0]]
    /\ UNCHANGED <<lruCounter, loads>>

Next ==
    \/ \E tags \in [Paths -> Tags], size \in 0..MaxBranchHistory :
          CheckInst(tags, size)
    \/ \E wrong \in BOOLEAN : Commit(wrong)
    \/ \E k \in 0..Len(loads) : Squash(k)
    \/ \E p \in Paths, tag \in Tags, d \in Distances : Violation(p, tag, d)
    \/ \E p \in Paths, tag \in Tags, d \in Distances :
          ViolationPredicted(p, tag, d)
    \/ ViolationUnused
    \/ Clear

Spec == Init /\ [][Next]_vars

-----------------------------------------------------------------------------
(* Properties. *)

\* Every entry in use is the one its tag finds, although unused ways have the
\* real tag 0: none is shadowed by another (findEntry, update).
Reachable(ways) ==
    \A w \in Ways : ways[w].distance # 0 => FindEntry(ways, ways[w].tag) = w
EntriesReachable == \A p \in Paths : Reachable(cache[p])

\* A table predicts the distance of the last violation with that tag, whatever
\* was evicted, touched or judged since: predictions in flight outlive the
\* training and the eviction of their entry (predict, update, updateCommit).
PredictsLastViolation ==
    \A p \in Paths : \A t \in Tags :
        Predicts(cache[p], t)
            => cache[p][FindEntry(cache[p], t)].distance = trained[p][t]

\* An entry that does not predict starts to only because a violation trains
\* it, never because an older prediction of it is judged late (updateCommit).
SilentUntilTrained ==
    [][\A p \in Paths : \A t \in Tags :
          ~Predicts(cache[p], t) /\ Predicts(cache'[p], t)
              => \E d \in Distances : \/ Violation(p, t, d)
                                      \/ ViolationPredicted(p, t, d)]_vars

\* After a violation the table predicts its distance, whichever way the entry
\* went to and whatever it evicted (update).
TrainingTakesEffect ==
    [][\A p \in Paths : \A t \in Tags : \A d \in Distances :
          Violation(p, t, d) \/ ViolationPredicted(p, t, d)
              => /\ Predicts(cache'[p], t)
                 /\ cache'[p][FindEntry(cache'[p], t)].distance = d]_vars
=============================================================================
