----------------------------- MODULE PhastProofs -----------------------------
(* The tables of PHAST say what the last violation taught them, for any      *)
(* number of paths, ways, tags and distances.                                *)
EXTENDS Phast, WellFoundedInduction, TLAPS

Entry == [tag : Tags, distance : Distances \cup {0}, lru : Nat, counter : Nat]
Table == [Ways -> Entry]

-----------------------------------------------------------------------------
(* A set of ways. *)

LEMMA LeastExists ==
    ASSUME NEW S \in SUBSET Nat, S # {}
    PROVE  \E x \in S : \A y \in S : x <= y
<1>1. PICK R, N : /\ IsWellFoundedOn(R, N)
                  /\ N = Nat
                  /\ \A y, z \in Nat : y < z => <<y, z>> \in R
  <2>1. \A y, z \in Nat : y < z => <<y, z>> \in OpToRel(<, Nat)
    BY DEF OpToRel
  <2> QED
    BY <2>1, NatLessThanWellFounded
<1>2. S \subseteq N
  BY <1>1
<1>3. PICK x \in S : \A y \in S : ~(<<y, x>> \in R)
  <2>1. IsWellFoundedOn(R, N)
    BY <1>1
  <2> QED
    BY <2>1, <1>2, WFMin, Zenon
<1>4. \A y \in S : ~(y < x)
  BY <1>1, <1>3
<1> QED
  BY <1>4

LEMMA MinLeast ==
    ASSUME NEW S \in SUBSET Nat, S # {}
    PROVE  Min(S) \in S /\ \A y \in S : Min(S) <= y
  BY LeastExists DEF Min

\* findEntry returns the first way with the tag, if there is one.
LEMMA FindEntryHit ==
    ASSUME PhastConstants, NEW ways \in Table, NEW t, NEW w \in Ways, ways[w].tag = t
    PROVE  /\ FindEntry(ways, t) \in Ways
           /\ ways[FindEntry(ways, t)].tag = t
           /\ FindEntry(ways, t) <= w
           /\ FindEntry(ways, t) # 0
<1> DEFINE hits == {v \in Ways : ways[v].tag = t}
<1>1. hits \in SUBSET Nat /\ w \in hits
  BY DEF Ways, PhastConstants
<1>2. Min(hits) \in hits /\ Min(hits) <= w
  BY <1>1, MinLeast
<1>3. FindEntry(ways, t) = Min(hits)
  BY <1>1 DEF FindEntry
<1> QED
  BY <1>2, <1>3 DEF Ways, PhastConstants

LEMMA FindEntryFound ==
    ASSUME PhastConstants, NEW ways \in Table, NEW t, FindEntry(ways, t) # 0
    PROVE  FindEntry(ways, t) \in Ways /\ ways[FindEntry(ways, t)].tag = t
<1>1. PICK w \in Ways : ways[w].tag = t
  BY DEF FindEntry
<1> QED
  BY <1>1, FindEntryHit

LEMMA FindEntryFirst ==
    ASSUME PhastConstants, NEW ways \in Table, NEW t, NEW w \in Ways, ways[w].tag = t,
           \A v \in Ways : ways[v].tag = t => w <= v
    PROVE  FindEntry(ways, t) = w
<1>1. FindEntry(ways, t) \in Ways /\ ways[FindEntry(ways, t)].tag = t /\ FindEntry(ways, t) <= w
  BY FindEntryHit
<1>2. w <= FindEntry(ways, t)
  BY <1>1
<1> QED
  BY <1>1, <1>2 DEF Ways, PhastConstants

LEMMA LRUEntryIsAWay ==
    ASSUME PhastConstants, NEW ways \in Table
    PROVE  GetLRUEntry(ways) \in Ways
<1> DEFINE lrus == {ways[w].lru : w \in Ways}
           oldest == {w \in Ways : \A v \in Ways : ways[w].lru <= ways[v].lru}
<1>1. lrus \in SUBSET Nat
  BY DEF Table, Entry
<1>2. lrus # {}
  <2>1. 1 \in Ways
    BY DEF Ways, PhastConstants
  <2>2. ways[1].lru \in lrus
    BY <2>1
  <2> QED
    BY <2>2
<1>3. PICK l \in lrus : \A k \in lrus : l <= k
  BY <1>1, <1>2, LeastExists
<1>4. oldest # {}
  BY <1>3
<1>5. oldest \in SUBSET Nat /\ oldest \subseteq Ways
  BY DEF Ways, PhastConstants
<1> HIDE DEF oldest
<1>6. Min(oldest) \in Ways
  BY <1>4, <1>5, MinLeast
<1> QED
  BY <1>6 DEF GetLRUEntry, oldest

\* What judging and touching an entry does to a set of ways.
Quiet(ways, new) ==
    /\ new \in Table
    /\ \A w \in Ways : /\ new[w].tag = ways[w].tag
                       /\ new[w].distance = ways[w].distance
                       /\ new[w].counter # 0 => ways[w].counter # 0

LEMMA QuietKeeps ==
    ASSUME PhastConstants, NEW ways \in Table, NEW new, Quiet(ways, new)
    PROVE  /\ Reachable(ways) => Reachable(new)
           /\ \A t : Predicts(new, t) =>
                /\ Predicts(ways, t)
                /\ new[FindEntry(new, t)].distance = ways[FindEntry(ways, t)].distance
<1>1. \A t : FindEntry(new, t) = FindEntry(ways, t)
  <2> TAKE t
  <2>1. {w \in Ways : new[w].tag = t} = {w \in Ways : ways[w].tag = t}
    BY DEF Quiet
  <2> QED
    BY <2>1 DEF FindEntry
<1>2. Reachable(ways) => Reachable(new)
  BY <1>1 DEF Reachable, Quiet
<1>3. ASSUME NEW t, Predicts(new, t)
      PROVE  /\ Predicts(ways, t)
             /\ new[FindEntry(new, t)].distance = ways[FindEntry(ways, t)].distance
  <2>1. FindEntry(ways, t) # 0 /\ FindEntry(new, t) = FindEntry(ways, t)
    BY <1>1, <1>3 DEF Predicts
  <2>2. FindEntry(ways, t) \in Ways
    BY <2>1, FindEntryFound
  <2> QED
    BY <2>1, <2>2, <1>3 DEF Predicts, Quiet
<1> QED
  BY <1>2, <1>3

LEMMA UpdateCommitQuiet ==
    ASSUME PhastConstants, NEW ways \in Table, NEW n \in Nat, NEW t, NEW wrong \in BOOLEAN
    PROVE  Quiet(ways, UpdateCommit(ways, n, t, wrong))
<1>1. CASE ~Judged(ways, t)
  BY <1>1 DEF UpdateCommit, Quiet
<1>2. CASE Judged(ways, t)
  <2> DEFINE w == FindEntry(ways, t)
             c == IF wrong THEN ways[w].counter - 1 ELSE MaxCounterValue
             e == [ways[w] EXCEPT !.counter = c, !.lru = n]
             new == [ways EXCEPT ![w] = e]
  <2>1. w \in Ways /\ ways[w].counter # 0 /\ ways[w] \in Entry
    BY <1>2, FindEntryFound DEF Judged, Table
  <2>2. c \in Nat
    BY <2>1 DEF Entry, PhastConstants
  <2>3. e \in Entry /\ e.tag = ways[w].tag /\ e.distance = ways[w].distance
    BY <2>1, <2>2 DEF Entry
  <2>4. UpdateCommit(ways, n, t, wrong) = new
    BY <1>2, <2>1 DEF UpdateCommit, Table, Entry
  <2> HIDE DEF e
  <2>5. Quiet(ways, new)
    BY <2>1, <2>3 DEF Quiet, Table
  <2> QED
    BY <2>4, <2>5
<1> QED
  BY <1>1, <1>2

\* Training an entry leaves every entry reachable, takes effect, and makes no other
\* tag predict: one whose entry is evicted finds at most an unused way.
LEMMA UpdateTrains ==
    ASSUME PhastConstants, NEW ways \in Table, Reachable(ways), NEW n \in Nat,
           NEW t \in Tags, NEW d \in Distances, NEW new, new = Update(ways, n, t, d)
    PROVE  /\ new \in Table
           /\ Reachable(new)
           /\ Predicts(new, t) /\ new[FindEntry(new, t)].distance = d
           /\ \A u : u # t /\ Predicts(new, u) =>
                /\ Predicts(ways, u)
                /\ new[FindEntry(new, u)].distance = ways[FindEntry(ways, u)].distance
<1> DEFINE e == [tag |-> t, distance |-> d, lru |-> n, counter |-> MaxCounterValue]
           k == IF FindEntry(ways, t) = 0 THEN GetLRUEntry(ways) ELSE FindEntry(ways, t)
<1>1. k \in Ways
  BY FindEntryFound, LRUEntryIsAWay
<1>2. e \in Entry
  BY DEF Entry, PhastConstants
<1>3. new = [ways EXCEPT ![k] = e]
  BY DEF Update
<1>4. new \in Table /\ new[k] = e /\ \A v \in Ways : v # k => new[v] = ways[v]
  BY <1>1, <1>2, <1>3 DEF Table
<1>5. \A v \in Ways : ways[v].tag = t => k <= v
  <2> SUFFICES ASSUME NEW v \in Ways, ways[v].tag = t PROVE k <= v
    OBVIOUS
  <2>1. FindEntry(ways, t) # 0 /\ FindEntry(ways, t) <= v
    BY FindEntryHit
  <2> QED
    BY <2>1
<1>6. FindEntry(ways, t) # 0 => k = FindEntry(ways, t)
  OBVIOUS
<1> HIDE DEF k
<1>7. e.tag = t /\ e.distance = d /\ e.counter # 0 /\ d # 0
  BY DEF PhastConstants
<1> HIDE DEF e
<1>8. FindEntry(new, t) = k
  <2>1. \A v \in Ways : new[v].tag = t => k <= v
    <3> SUFFICES ASSUME NEW v \in Ways, new[v].tag = t, v # k PROVE k <= v
      BY <1>1 DEF Ways, PhastConstants
    <3> QED
      BY <1>4, <1>5
  <2> QED
    BY <2>1, <1>1, <1>4, <1>7, FindEntryFirst
<1>9. Predicts(new, t) /\ new[FindEntry(new, t)].distance = d
  <2>1. k # 0
    BY <1>1 DEF Ways, PhastConstants
  <2> QED
    BY <2>1, <1>4, <1>7, <1>8 DEF Predicts
<1>10. ASSUME NEW u, u # t, Predicts(new, u)
       PROVE  /\ Predicts(ways, u)
              /\ new[FindEntry(new, u)].distance = ways[FindEntry(ways, u)].distance
  <2> DEFINE v == FindEntry(new, u)
  <2>1. v # 0 /\ new[v].counter # 0 /\ new[v].distance # 0
    BY <1>10 DEF Predicts
  <2>2. v \in Ways /\ new[v].tag = u
    BY <1>4, <2>1, FindEntryFound
  <2> HIDE DEF v
  <2>3. new[v] = ways[v]
    BY <1>4, <1>7, <1>10, <2>2
  <2>4. FindEntry(ways, u) = v
    BY <2>1, <2>2, <2>3 DEF Reachable
  <2> QED
    BY <2>1, <2>3, <2>4 DEF Predicts, v
<1>11. ASSUME NEW w \in Ways, new[w].distance # 0 PROVE FindEntry(new, new[w].tag) = w
  <2>1. CASE w = k
    BY <2>1, <1>4, <1>7, <1>8
  <2>2. CASE w # k
    <3> DEFINE u == ways[w].tag
    <3>1. new[w] = ways[w] /\ FindEntry(ways, u) = w
      BY <2>2, <1>4, <1>11 DEF Reachable
    <3>2. w # 0
      BY DEF Ways, PhastConstants
    <3>3. u # t
      BY <3>1, <3>2, <2>2, <1>6
    <3>4. \A v \in Ways : ways[v].tag = u => w <= v
      BY <3>1, FindEntryHit
    <3> HIDE DEF u
    <3>5. \A v \in Ways : new[v].tag = u => w <= v
      BY <3>3, <3>4, <1>4, <1>7
    <3>6. new[w].tag = u
      BY <3>1 DEF u
    <3> QED
      BY <3>5, <3>6, <1>4, FindEntryFirst
  <2> QED
    BY <2>1, <2>2
<1> QED
  BY <1>4, <1>9, <1>10, <1>11 DEF Reachable

-----------------------------------------------------------------------------
(* The inductive invariant and the two kinds of steps. *)

PhastInv ==
    /\ cache \in [Paths -> Table]
    /\ lruCounter \in [Paths -> Nat]
    /\ trained \in [Paths -> [Tags -> Distances \cup {0}]]
    /\ EntriesReachable
    /\ PredictsLastViolation

\* A step that trains nothing makes nothing predict.
LEMMA QuietStep ==
    ASSUME PhastConstants, PhastInv,
           cache' \in [Paths -> Table], lruCounter' \in [Paths -> Nat],
           trained' = trained, \A p \in Paths : Quiet(cache[p], cache'[p])
    PROVE  /\ PhastInv'
           /\ \A p \in Paths : \A t \in Tags :
                 Predicts(cache'[p], t) => Predicts(cache[p], t)
<1>1. ASSUME NEW p \in Paths
      PROVE  /\ Reachable(cache'[p])
             /\ \A t : Predicts(cache'[p], t) =>
                  /\ Predicts(cache[p], t)
                  /\ cache'[p][FindEntry(cache'[p], t)].distance
                        = cache[p][FindEntry(cache[p], t)].distance
  <2>1. cache[p] \in Table /\ Reachable(cache[p])
    BY DEF PhastInv, EntriesReachable
  <2> QED
    BY <2>1, QuietKeeps
<1>2. EntriesReachable'
  BY <1>1 DEF EntriesReachable, Reachable, FindEntry
<1>3. PredictsLastViolation'
  <2> SUFFICES ASSUME NEW p \in Paths, NEW t \in Tags, Predicts(cache'[p], t)
               PROVE  cache'[p][FindEntry(cache'[p], t)].distance = trained[p][t]
    BY DEF PredictsLastViolation, Predicts, FindEntry
  <2> QED
    BY <1>1 DEF PhastInv, PredictsLastViolation
<1> QED
  BY <1>1, <1>2, <1>3 DEF PhastInv

\* A step that trains one tag of one table, after the judgement of a load.
LEMMA TrainStep ==
    ASSUME PhastConstants, PhastInv,
           NEW p \in Paths, NEW t \in Tags, NEW d \in Distances, NEW n \in Nat,
           NEW mid \in [Paths -> Table], \A q \in Paths : Quiet(cache[q], mid[q]),
           cache' = [mid EXCEPT ![p] = Update(@, n, t, d)],
           lruCounter' \in [Paths -> Nat], trained' = [trained EXCEPT ![p][t] = d]
    PROVE  /\ PhastInv'
           /\ Predicts(cache'[p], t)
           /\ cache'[p][FindEntry(cache'[p], t)].distance = d
           /\ \A q \in Paths : \A u \in Tags :
                 Predicts(cache'[q], u) => Predicts(cache[q], u) \/ (q = p /\ u = t)
<1>1. ASSUME NEW q \in Paths
      PROVE  /\ mid[q] \in Table /\ Reachable(mid[q])
             /\ \A u : Predicts(mid[q], u) =>
                  /\ Predicts(cache[q], u)
                  /\ mid[q][FindEntry(mid[q], u)].distance
                        = cache[q][FindEntry(cache[q], u)].distance
  <2>1. cache[q] \in Table /\ Reachable(cache[q]) /\ Quiet(cache[q], mid[q])
    BY DEF PhastInv, EntriesReachable
  <2> QED
    BY <2>1, QuietKeeps
<1> DEFINE ways == mid[p]
<1>0. /\ cache' = [q \in Paths |-> cache'[q]]
      /\ cache'[p] = Update(ways, n, t, d)
      /\ \A q \in Paths : q # p => cache'[q] = mid[q]
  OBVIOUS
<1>2. /\ ways \in Table /\ Reachable(ways)
      /\ \A u : Predicts(ways, u) =>
           /\ Predicts(cache[p], u)
           /\ ways[FindEntry(ways, u)].distance
                 = cache[p][FindEntry(cache[p], u)].distance
  BY <1>1
<1> HIDE DEF ways
<1>3. /\ cache'[p] \in Table /\ Reachable(cache'[p])
      /\ Predicts(cache'[p], t) /\ cache'[p][FindEntry(cache'[p], t)].distance = d
      /\ \A u : u # t /\ Predicts(cache'[p], u) =>
           /\ Predicts(ways, u)
           /\ cache'[p][FindEntry(cache'[p], u)].distance
                 = ways[FindEntry(ways, u)].distance
  BY <1>0, <1>2, UpdateTrains
<1>4. ASSUME NEW q \in Paths, q # p
      PROVE  /\ cache'[q] \in Table /\ Reachable(cache'[q])
             /\ \A u : Predicts(cache'[q], u) =>
                  /\ Predicts(cache[q], u)
                  /\ cache'[q][FindEntry(cache'[q], u)].distance
                        = cache[q][FindEntry(cache[q], u)].distance
  <2>1. cache'[q] = mid[q]
    BY <1>0, <1>4
  <2> QED
    BY <2>1, <1>1
<1>5. cache' \in [Paths -> Table]
  BY <1>0, <1>3, <1>4
<1>6. EntriesReachable'
  BY <1>3, <1>4 DEF EntriesReachable, Reachable, FindEntry
<1>7. /\ trained' \in [Paths -> [Tags -> Distances \cup {0}]]
      /\ trained'[p][t] = d
      /\ \A q \in Paths : \A u \in Tags :
            q # p \/ u # t => trained'[q][u] = trained[q][u]
  BY DEF PhastInv
<1>8. PredictsLastViolation'
  <2> SUFFICES ASSUME NEW q \in Paths, NEW u \in Tags, Predicts(cache'[q], u)
               PROVE  cache'[q][FindEntry(cache'[q], u)].distance = trained'[q][u]
    BY DEF PredictsLastViolation, Predicts, FindEntry
  <2>1. CASE q = p /\ u = t
    BY <2>1, <1>3, <1>7
  <2>2. CASE q = p /\ u # t
    BY <2>2, <1>2, <1>3, <1>7 DEF PhastInv, PredictsLastViolation
  <2>3. CASE q # p
    BY <2>3, <1>4, <1>7 DEF PhastInv, PredictsLastViolation
  <2> QED
    BY <2>1, <2>2, <2>3
<1>9. \A q \in Paths : \A u \in Tags :
         Predicts(cache'[q], u) => Predicts(cache[q], u) \/ (q = p /\ u = t)
  BY <1>2, <1>3, <1>4
<1> QED
  BY <1>3, <1>5, <1>6, <1>7, <1>8, <1>9 DEF PhastInv

-----------------------------------------------------------------------------
(* The actions. *)

LEMMA QuietItself ==
    ASSUME NEW ways \in Table
    PROVE  Quiet(ways, ways)
  BY DEF Quiet

LEMMA TouchQuiet ==
    ASSUME NEW ways \in Table, NEW w, NEW n \in Nat,
           NEW new, new = [ways EXCEPT ![w].lru = n]
    PROVE  Quiet(ways, new)
<1>1. \A v \in Ways : new[v] = IF v = w THEN [ways[v] EXCEPT !.lru = n] ELSE ways[v]
  BY DEF Table
<1>2. \A v \in Ways : /\ new[v] \in Entry
                      /\ new[v].tag = ways[v].tag
                      /\ new[v].distance = ways[v].distance
                      /\ new[v].counter = ways[v].counter
  BY <1>1 DEF Table, Entry
<1>3. new \in Table
  BY <1>2 DEF Table
<1> QED
  BY <1>2, <1>3 DEF Quiet

LEMMA CounterAdvances ==
    ASSUME NEW f \in [Paths -> Nat], NEW x, NEW c \in BOOLEAN,
           NEW g, g = [f EXCEPT ![x] = IF c THEN @ + 1 ELSE @]
    PROVE  g \in [Paths -> Nat]
<1>1. \A q \in Paths : g[q] = IF q = x /\ c THEN f[q] + 1 ELSE f[q]
  OBVIOUS
<1>2. \A q \in Paths : g[q] \in Nat
  BY <1>1
<1>3. g = [q \in Paths |-> g[q]]
  OBVIOUS
<1> QED
  BY <1>2, <1>3

LEMMA InitInv ==
    ASSUME PhastConstants, Init
    PROVE  PhastInv
<1> DEFINE empty == [w \in Ways |-> Unused]
<1>1. empty \in Table /\ \A w \in Ways : empty[w].distance = 0
  BY DEF Table, Entry, Unused, PhastConstants
<1>2. \A t : ~Predicts(empty, t)
  BY <1>1, FindEntryFound DEF Predicts
<1>3. \A p \in Paths : cache[p] = empty
  BY DEF Init
<1> HIDE DEF empty
<1>4. EntriesReachable
  BY <1>1, <1>3 DEF EntriesReachable, Reachable
<1>5. PredictsLastViolation
  BY <1>2, <1>3 DEF PredictsLastViolation
<1>6. cache \in [Paths -> Table]
  BY <1>1 DEF Init, empty
<1> QED
  BY <1>4, <1>5, <1>6 DEF PhastInv, Init

LEMMA CheckInstQuiet ==
    ASSUME PhastConstants, PhastInv, NEW tags, NEW size, CheckInst(tags, size)
    PROVE  /\ cache' \in [Paths -> Table] /\ lruCounter' \in [Paths -> Nat]
           /\ trained' = trained /\ \A p \in Paths : Quiet(cache[p], cache'[p])
<1>1. CASE UNCHANGED <<cache, lruCounter>>
  BY <1>1, QuietItself DEF PhastInv, CheckInst
<1>2. ASSUME NEW p,
             cache' = [cache EXCEPT
                          ![p][FindEntry(cache[p], tags[p])].lru = lruCounter[p]],
             lruCounter' = [lruCounter EXCEPT ![p] = @ + 1]
      PROVE  /\ cache' \in [Paths -> Table] /\ lruCounter' \in [Paths -> Nat]
             /\ \A q \in Paths : Quiet(cache[q], cache'[q])
  <2> DEFINE w == FindEntry(cache[p], tags[p])
  <2>0. cache' = [cache EXCEPT ![p][w].lru = lruCounter[p]]
    BY <1>2
  <2> HIDE DEF w
  <2>1. ASSUME NEW q \in Paths PROVE Quiet(cache[q], cache'[q])
    <3>1. cache[q] \in Table /\ lruCounter[q] \in Nat
      BY DEF PhastInv
    <3>2. CASE q = p
      <4>1. cache'[q] = [cache[q] EXCEPT ![w].lru = lruCounter[q]]
        BY <3>2, <2>0 DEF PhastInv
      <4> QED
        BY <4>1, <3>1, TouchQuiet
    <3>3. CASE q # p
      BY <3>1, <3>3, <1>2, QuietItself DEF PhastInv
    <3> QED
      BY <3>2, <3>3
  <2>2. cache' = [q \in Paths |-> cache'[q]]
    BY <1>2 DEF PhastInv
  <2>3. cache' \in [Paths -> Table]
    BY <2>1, <2>2 DEF Quiet
  <2>4. lruCounter' \in [Paths -> Nat]
    <3>1. lruCounter' = [lruCounter EXCEPT ![p] = IF TRUE THEN @ + 1 ELSE @]
      BY <1>2
    <3> QED
      BY <3>1, CounterAdvances DEF PhastInv
  <2> QED
    BY <2>1, <2>3, <2>4
<1> QED
  BY <1>1, <1>2 DEF CheckInst

LEMMA CommitQuiet ==
    ASSUME PhastConstants, PhastInv, NEW wrong \in BOOLEAN, Commit(wrong)
    PROVE  /\ cache' \in [Paths -> Table] /\ lruCounter' \in [Paths -> Nat]
           /\ trained' = trained /\ \A p \in Paths : Quiet(cache[p], cache'[p])
<1> DEFINE l == Head(loads)
<1>1. /\ cache' = [cache EXCEPT ![l.path] =
                      UpdateCommit(@, lruCounter[l.path], l.tag, wrong)]
      /\ lruCounter' = [lruCounter EXCEPT ![l.path] =
                           IF Judged(cache[l.path], l.tag) THEN @ + 1 ELSE @]
      /\ trained' = trained
  BY DEF Commit
<1> HIDE DEF l
<1>2. ASSUME NEW q \in Paths PROVE Quiet(cache[q], cache'[q])
  <2>1. cache[q] \in Table /\ lruCounter[q] \in Nat
    BY DEF PhastInv
  <2>2. CASE q = l.path
    <3>1. cache'[q] = UpdateCommit(cache[q], lruCounter[q], l.tag, wrong)
      BY <2>2, <1>1 DEF PhastInv
    <3> QED
      BY <3>1, <2>1, UpdateCommitQuiet
  <2>3. CASE q # l.path
    BY <2>1, <2>3, <1>1, QuietItself DEF PhastInv
  <2> QED
    BY <2>2, <2>3
<1>3. cache' = [q \in Paths |-> cache'[q]]
  BY <1>1 DEF PhastInv
<1>4. cache' \in [Paths -> Table]
  BY <1>2, <1>3 DEF Quiet
<1>5. lruCounter' \in [Paths -> Nat]
  <2>1. Judged(cache[l.path], l.tag) \in BOOLEAN
    BY DEF Judged
  <2> QED
    BY <2>1, <1>1, CounterAdvances DEF PhastInv
<1> QED
  BY <1>1, <1>2, <1>4, <1>5

\* Either kind of violation is a training step, and nothing else predicts anew.
LEMMA ViolationTrains ==
    ASSUME PhastConstants, PhastInv,
           NEW p \in Paths, NEW t \in Tags, NEW d \in Distances,
           Violation(p, t, d) \/ ViolationPredicted(p, t, d)
    PROVE  /\ PhastInv'
           /\ Predicts(cache'[p], t)
           /\ cache'[p][FindEntry(cache'[p], t)].distance = d
           /\ \A q \in Paths : \A u \in Tags :
                 Predicts(cache'[q], u) => Predicts(cache[q], u) \/ (q = p /\ u = t)
<1>0. /\ trained' = [trained EXCEPT ![p][t] = d]
      /\ \A q \in Paths : cache[q] \in Table /\ lruCounter[q] \in Nat
  BY DEF Violation, ViolationPredicted, Train, PhastInv
<1>1. CASE Violation(p, t, d)
  <2>0. PICK mid, n : mid = cache /\ n = lruCounter[p]
    OBVIOUS
  <2>1. /\ cache' = [mid EXCEPT ![p] = Update(@, n, t, d)]
        /\ lruCounter' = [lruCounter EXCEPT ![p] = IF TRUE THEN @ + 1 ELSE @]
    BY <1>1, <2>0 DEF Violation
  <2>2. lruCounter' \in [Paths -> Nat]
    BY <2>1, CounterAdvances DEF PhastInv
  <2>3. /\ mid \in [Paths -> Table] /\ n \in Nat
        /\ \A q \in Paths : Quiet(cache[q], mid[q])
    BY <1>0, <2>0, QuietItself DEF PhastInv
  <2> QED
    BY <2>1, <2>2, <2>3, <1>0, TrainStep
<1>2. CASE ViolationPredicted(p, t, d)
  <2> DEFINE l == Head(loads)
             c == Judged(cache[l.path], l.tag)
             n == [lruCounter EXCEPT ![l.path] = IF c THEN @ + 1 ELSE @]
             mid == [cache EXCEPT ![l.path] =
                        UpdateCommit(@, lruCounter[l.path], l.tag, TRUE)]
  <2>1. /\ cache' = [mid EXCEPT ![p] = Update(@, n[p], t, d)]
        /\ lruCounter' = [n EXCEPT ![p] = IF TRUE THEN @ + 1 ELSE @]
    BY <1>2 DEF ViolationPredicted
  <2>2. n \in [Paths -> Nat]
    <3>1. c \in BOOLEAN
      BY DEF Judged
    <3> QED
      BY <3>1, CounterAdvances DEF PhastInv
  <2>3. ASSUME NEW q \in Paths PROVE Quiet(cache[q], mid[q])
    <3>1. CASE q = l.path
      <4>1. mid[q] = UpdateCommit(cache[q], lruCounter[q], l.tag, TRUE)
        BY <3>1 DEF PhastInv
      <4> QED
        BY <4>1, <1>0, UpdateCommitQuiet
    <3>2. CASE q # l.path
      <4>1. mid[q] = cache[q]
        BY <3>2 DEF PhastInv
      <4> QED
        BY <4>1, <1>0, QuietItself
    <3> QED
      BY <3>1, <3>2
  <2>4. mid = [q \in Paths |-> mid[q]]
    BY DEF PhastInv
  <2> HIDE DEF l, c, n, mid
  <2>5. mid \in [Paths -> Table]
    BY <2>3, <2>4 DEF Quiet
  <2>6. lruCounter' \in [Paths -> Nat] /\ n[p] \in Nat
    BY <2>1, <2>2, CounterAdvances
  <2> QED
    BY <2>1, <2>3, <2>5, <2>6, <1>0, TrainStep
<1> QED
  BY <1>1, <1>2

LEMMA NextInv ==
    ASSUME PhastConstants, PhastInv, [Next]_vars
    PROVE  /\ PhastInv'
           /\ \A p \in Paths : \A t \in Tags :
                 ~Predicts(cache[p], t) /\ Predicts(cache'[p], t)
                     => \E d \in Distances : \/ Violation(p, t, d)
                                             \/ ViolationPredicted(p, t, d)
<1> DEFINE Silent == \A p \in Paths : \A t \in Tags :
                        Predicts(cache'[p], t) => Predicts(cache[p], t)
<1>1. ASSUME NEW tags, NEW size, CheckInst(tags, size) PROVE PhastInv' /\ Silent
  BY <1>1, CheckInstQuiet, QuietStep
<1>2. ASSUME NEW wrong \in BOOLEAN, Commit(wrong) PROVE PhastInv' /\ Silent
  BY <1>2, CommitQuiet, QuietStep
<1>3. CASE UNCHANGED <<cache, lruCounter, trained>>
  <2>1. \A p \in Paths : Quiet(cache[p], cache'[p])
    BY <1>3, QuietItself DEF PhastInv
  <2>2. cache' \in [Paths -> Table] /\ lruCounter' \in [Paths -> Nat] /\ trained' = trained
    BY <1>3 DEF PhastInv
  <2>3. PhastInv' /\ Silent
    BY <2>1, <2>2, QuietStep
  <2> QED
    BY <2>3
<1>4. ASSUME NEW p \in Paths, NEW t \in Tags, NEW d \in Distances,
             Violation(p, t, d) \/ ViolationPredicted(p, t, d)
      PROVE  /\ PhastInv'
             /\ \A q \in Paths : \A u \in Tags :
                   ~Predicts(cache[q], u) /\ Predicts(cache'[q], u)
                       => \E c \in Distances : \/ Violation(q, u, c)
                                               \/ ViolationPredicted(q, u, c)
  <2>1. /\ PhastInv'
        /\ \A q \in Paths : \A u \in Tags :
              Predicts(cache'[q], u) => Predicts(cache[q], u) \/ (q = p /\ u = t)
    BY <1>4, ViolationTrains
  <2> QED
    BY <2>1, <1>4
<1>5. CASE Clear
  <2> DEFINE empty == [w \in Ways |-> Unused]
  <2>1. empty \in Table /\ \A w \in Ways : empty[w].distance = 0
    BY DEF Table, Entry, Unused, PhastConstants
  <2>2. \A t : ~Predicts(empty, t)
    BY <2>1, FindEntryFound DEF Predicts
  <2>3. \A p \in Paths : cache'[p] = empty
    BY <1>5 DEF Clear
  <2>4. cache' \in [Paths -> Table]
    BY <1>5, <2>1 DEF Clear
  <2>5. /\ lruCounter' \in [Paths -> Nat]
        /\ trained' \in [Paths -> [Tags -> Distances \cup {0}]]
    BY <1>5 DEF Clear, PhastInv
  <2> HIDE DEF empty
  <2>6. Silent /\ PredictsLastViolation'
    <3>1. \A p \in Paths : \A t : ~Predicts(cache'[p], t)
      BY <2>2, <2>3
    <3> QED
      BY <3>1 DEF PredictsLastViolation, Predicts, FindEntry
  <2>7. EntriesReachable'
    BY <2>1, <2>3 DEF EntriesReachable, Reachable
  <2> QED
    BY <2>4, <2>5, <2>6, <2>7 DEF PhastInv
<1>6. CASE \E k \in 0..Len(loads) : Squash(k)
  BY <1>6, <1>3 DEF Squash
<1>7. CASE ViolationUnused
  BY <1>7, <1>3 DEF ViolationUnused
<1>8. CASE UNCHANGED vars
  BY <1>8, <1>3 DEF vars
<1> QED
  BY <1>1, <1>2, <1>4, <1>5, <1>6, <1>7, <1>8 DEF Next

-----------------------------------------------------------------------------
\* PHAST's tables: every entry in use is the one its tag finds, and a table
\* predicts the distance of the last violation with that tag, over any number of
\* evictions, late judgements and squashes (findEntry, update, updateCommit).
THEOREM PhastSafe ==
    ASSUME PhastConstants
    PROVE  Spec => [](EntriesReachable /\ PredictsLastViolation)
<1>1. Init => PhastInv
  BY InitInv
<1>2. PhastInv /\ [Next]_vars => PhastInv'
  BY NextInv
<1>3. PhastInv => EntriesReachable /\ PredictsLastViolation
  BY DEF PhastInv
<1> QED
  BY <1>1, <1>2, <1>3, PTL DEF Spec

\* The entry of a tag starts to predict in a step that trains it and in no other;
\* the judgement of an old prediction never revives it (updateCommit).
THEOREM PhastSilent ==
    ASSUME PhastConstants
    PROVE  Spec => SilentUntilTrained
<1>1. Init => PhastInv
  BY InitInv
<1>2. PhastInv /\ [Next]_vars => PhastInv'
  BY NextInv
<1>3. PhastInv /\ [Next]_vars
         => [\A p \in Paths : \A t \in Tags :
                ~Predicts(cache[p], t) /\ Predicts(cache'[p], t)
                    => \E d \in Distances : \/ Violation(p, t, d)
                                            \/ ViolationPredicted(p, t, d)]_vars
  BY NextInv
<1> QED
  BY <1>1, <1>2, <1>3, PTL DEF Spec, SilentUntilTrained

\* A violation is predicted from the next load on, whichever way its entry went
\* to and whatever that way held (update, getLRUEntry).
THEOREM PhastTrains ==
    ASSUME PhastConstants
    PROVE  Spec => TrainingTakesEffect
<1>1. Init => PhastInv
  BY InitInv
<1>2. PhastInv /\ [Next]_vars => PhastInv'
  BY NextInv
<1>3. PhastInv
         => [\A p \in Paths : \A t \in Tags : \A d \in Distances :
                Violation(p, t, d) \/ ViolationPredicted(p, t, d)
                    => /\ Predicts(cache'[p], t)
                       /\ cache'[p][FindEntry(cache'[p], t)].distance = d]_vars
  BY ViolationTrains
<1> QED
  BY <1>1, <1>2, <1>3, PTL DEF Spec, TrainingTakesEffect
=============================================================================
