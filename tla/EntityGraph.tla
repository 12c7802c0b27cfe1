----------------------------- MODULE EntityGraph -----------------------------
(* The knowledge graph in Neo4j as merges, splits and unmerges change it:    *)
(* edges between entities, which carry the facts of books (chunk_refs), and  *)
(* in Postgres the log of merges and the reviews that wait for an            *)
(* administrator. No transaction spans the two. GraphResolution has the      *)
(* queue of entities and the job that decides; here a decision is free.      *)
EXTENDS Naturals, Sequences, FiniteSets

CONSTANTS
  Known,      \* entities of the extraction
  Spare,      \* ids for the entities of splits
  FirstEdges,  \* the edges of the extraction: [id, from, to, rel, book, facts]
  Resolver,   \* resolution jobs
  Curator,    \* administrators, who merge, unmerge and split
  MaxReviewRows,
  MaxOps      \* judgements, merges, unmerges, splits, deletions

VARIABLES
  node, edge,  \* Neo4j
  mlog,        \* graph_merge_log
  review,      \* graph_resolution_reviews
  merging,     \* by whom: the merge, unmerge, split or judgement in progress. keep: the entity
               \* that stays or is split; remove: the one that goes, comes back or is new
  spent,       \* history: facts that an administrator deletes, that an unmerge cannot give
               \* back or had deleted when it broke, or that relate entities that became one
  adrift,      \* history: entities removed without their reviews being looked at
  entangled,   \* history: what was in progress had its edges touched by something else, a
               \* split deleted an edge that it had not copied, as the id is on two edges
               \* once a merge stops half-way, or an entity was merged into itself
  ops

factVars == <<node, edge, mlog, review, merging, spent, adrift, entangled, ops>>

Merger == Resolver \cup Curator
NotMerging ==
  [at |-> "free", keep |-> {}, remove |-> {}, taken |-> {}, todo |-> {}, marks |-> {}]
Op == ops < MaxOps /\ ops' = ops + 1
EndsOf(x) == {x.from, x.to}
EdgesAt(e) == {x \in edge : e \in EndsOf(x)}
Other(x, e) == IF x.from = e THEN x.to ELSE x.from
Ids(S) == {x.id : x \in S}
Facts(S) == UNION {x.facts : x \in S}
EdgeKey(x) == <<x.from, x.rel, x.book, x.to>>

(* The extraction writes an edge once for a key, too.                        *)
ASSUME EntityGraphAssumption ==
  /\ Known \cap Spare = {} /\ MaxReviewRows \in Nat /\ MaxOps \in Nat
  /\ \A x \in FirstEdges :
       /\ DOMAIN x = {"id", "from", "to", "rel", "book", "facts"}
       /\ {x.from, x.to} \subseteq Known
  /\ \A x, y \in FirstEdges : EdgeKey(x) = EdgeKey(y) => x = y

(* Each edge once for every end that it has at e.                            *)
Repointed(S, e, n) == {[x EXCEPT !.from = n] : x \in {y \in S : y.from = e}}
                        \cup {[x EXCEPT !.to = n] : x \in {y \in S : y.to = e}}

(* What is in progress reads or writes.                                      *)
Touches(h) == merging[h].keep \cup merging[h].remove \cup UNION {EndsOf(x) : x \in merging[h].taken}
MergeGoing(h) == merging[h].at \in {"taken", "connected", "detached"}
UnmergeGoing(h) == merging[h].at \in {"restoring", "found", "torn"}
SplitGoing(h) == merging[h].at \in {"parted", "copied"}
UnderWay(h) == MergeGoing(h) \/ UnmergeGoing(h) \/ SplitGoing(h)
Entangles(E, H) == \E h \in H : UnderWay(h) /\ Touches(h) \cap E # {}

-----------------------------------------------------------------------------
EdgeKeys(S) == {EdgeKey(x) : x \in S}
NewEdges(S, first, last) ==
  {[first[k] EXCEPT !.facts = last[k].facts] : k \in EdgeKeys(S) \ EdgeKeys(edge)}

(* Fault: an edge that was there keeps only the facts of the new one.        *)
ConnectedOver(S, first, last) ==
  {x \in edge : EdgeKey(x) \notin EdgeKeys(S)} \cup NewEdges(S, first, last)
    \cup {[x EXCEPT !.facts = last[EdgeKey(x)].facts] :
             x \in {y \in edge : EdgeKey(y) \in EdgeKeys(S)}}

(* connect_entities_bulk: an edge of the same key takes the facts as well.   *)
(* Of two new edges with one key the first is created and the last decides.  *)
Connected(S, first, last) ==
  {x \in edge : EdgeKey(x) \notin EdgeKeys(S)} \cup NewEdges(S, first, last)
    \cup {[x EXCEPT !.facts = @ \cup last[EdgeKey(x)].facts] :
             x \in {y \in edge : EdgeKey(y) \in EdgeKeys(S)}}

Connects(S) ==
  LET there == {x \in S : EndsOf(x) \subseteq node}
      PerKey == {f \in [EdgeKeys(there) -> there] : \A k \in DOMAIN f : EdgeKey(f[k]) = k} IN
    \E first, last \in PerKey : edge' = Connected(there, first, last)

(* execute_merge: both entities exist; the edges of the one that goes are    *)
(* taken down in the log. Nothing compares the two ids: an entity that is    *)
(* merged into itself is deleted.                                            *)
MergeBegins(h, k, r, approves) ==
  /\ {k, r} \subseteq node
  /\ merging' = [merging EXCEPT ![h] = [at |-> "taken", keep |-> {k}, remove |-> {r},
                                        taken |-> EdgesAt(r), todo |-> {}, marks |-> approves]]
  /\ mlog' = Append(mlog, [kept |-> k, removed |-> r, taken |-> EdgesAt(r), open |-> TRUE])
  /\ LET touched == {k, r} \cup UNION {EndsOf(x) : x \in EdgesAt(r)} IN
       entangled' = (entangled \/ k = r \/ Entangles(touched, Merger \ {h}))

AdminMergesTwo(h, k, r) ==
  /\ merging[h] = NotMerging /\ Op /\ MergeBegins(h, k, r, {})
  /\ UNCHANGED <<node, edge, review, spent, adrift>>

(* The edges are written again from the entity that stays.                   *)
MergeConnects(h, k, r) ==
  /\ merging[h].at = "taken" /\ merging[h].keep = {k} /\ merging[h].remove = {r}
  /\ Connects(Repointed(merging[h].taken, r, k))
  /\ merging' = [merging EXCEPT ![h].at = "connected"]
  /\ UNCHANGED <<node, mlog, review, spent, adrift, entangled, ops>>

MergeDetaches(h, k, r) ==
  /\ merging[h].at = "connected" /\ merging[h].keep = {k} /\ merging[h].remove = {r}
  /\ node' = node \ {r} /\ edge' = edge \ EdgesAt(r)
  /\ spent' = spent \cup Facts({x \in merging[h].taken : EndsOf(x) \subseteq {k, r}})
  /\ merging' = [merging EXCEPT ![h].at = "detached"]
  /\ UNCHANGED <<mlog, review, adrift, entangled, ops>>

-----------------------------------------------------------------------------
(* The reviews of the entity that went (resolve_reviews_for_merge). Nothing  *)
(* is flushed between the queries.                                           *)
Pair(i) == {review[i].a, review[i].b}
Undecided(i) == review[i].st = "pending"
Twins(i, k, r) ==
  {j \in DOMAIN review \ {i} : Undecided(j) /\ Pair(j) = (Pair(i) \ {r}) \cup {k}}
About(r) == {i \in DOMAIN review : Undecided(i) /\ r \in Pair(i)}
TooMany(k, r) == \E i \in About(r) : Pair(i) # {k, r} /\ Cardinality(Twins(i, k, r)) > 1

Renamed(e, k, r) == IF e = r THEN k ELSE e
(* Fault: only the first entity of a review is replaced.                     *)
RepointedReviewFirst(i, k, r) == [review[i] EXCEPT !.a = Renamed(@, k, r)]
RepointedReview(i, k, r) == [review[i] EXCEPT !.a = Renamed(@, k, r), !.b = Renamed(@, k, r)]

Resolved(k, r) ==
  [i \in DOMAIN review |->
     IF i \notin About(r) THEN review[i]
     ELSE IF Pair(i) = {k, r} \/ Twins(i, k, r) # {} THEN [review[i] EXCEPT !.st = "approved"]
     ELSE RepointedReview(i, k, r)]

(* Two reviews of the same pair raise an error, and nothing is stored.       *)
MergeEndsWith(h, k, r) ==
  /\ merging[h].at = "detached" /\ merging[h].keep = {k} /\ merging[h].remove = {r}
  /\ IF TooMany(k, r)
       THEN UNCHANGED review
       ELSE review' = [i \in DOMAIN review |->
              IF i \in merging[h].marks THEN [Resolved(k, r)[i] EXCEPT !.st = "approved"]
                                        ELSE Resolved(k, r)[i]]
  /\ adrift' = IF TooMany(k, r) THEN adrift \cup {r} ELSE adrift
  /\ merging' = [merging EXCEPT ![h] = NotMerging]
  /\ UNCHANGED <<node, edge, mlog, spent, entangled, ops>>

(* A store fails, or the process stops, in the middle of a merge.            *)
MergeBreaks(h) ==
  /\ MergeGoing(h) /\ Op
  /\ merging' = [merging EXCEPT ![h] = NotMerging] /\ adrift' = adrift \cup merging[h].remove
  /\ UNCHANGED <<node, edge, mlog, review, spent, entangled>>

-----------------------------------------------------------------------------
(* The job looks at a candidate, asks the judge, and believes the answer.    *)
JudgesPair(h, e, c) ==
  /\ merging[h] = NotMerging /\ Op /\ e # c /\ {e, c} \subseteq node
  /\ merging' = [merging EXCEPT ![h].at = "judging", ![h].keep = {e}, ![h].remove = {c}]
  /\ UNCHANGED <<node, edge, mlog, review, spent, adrift, entangled>>

JudgedSame(h, e, c) ==
  /\ merging[h].at = "judging" /\ merging[h].keep = {e} /\ merging[h].remove = {c}
  /\ MergeBegins(h, e, c, {})
  /\ UNCHANGED <<node, edge, review, spent, adrift, ops>>

(* In doubt, whether the entities are still there or not.                    *)
JudgeDoubts(h, e, c, action) ==
  /\ merging[h].at = "judging" /\ merging[h].keep = {e} /\ merging[h].remove = {c}
  /\ Len(review) < MaxReviewRows
  /\ review' = Append(review, [a |-> e, b |-> c, action |-> action, st |-> "pending"])
  /\ adrift' = adrift \cup ({e, c} \ node)
  /\ merging' = [merging EXCEPT ![h] = NotMerging]
  /\ UNCHANGED <<node, edge, mlog, spent, entangled, ops>>

JudgedDifferent(h) ==
  /\ merging[h].at = "judging" /\ merging' = [merging EXCEPT ![h] = NotMerging]
  /\ UNCHANGED <<node, edge, mlog, review, spent, adrift, entangled, ops>>

(* Approval of a merge merges, of anything else changes only the review, and *)
(* so does that of a merge with an entity that is gone.                      *)
Approves(h, i) ==
  LET k == review[i].a r == review[i].b IN
    /\ merging[h] = NotMerging /\ Undecided(i) /\ Op
    /\ IF review[i].action = "merge" /\ {k, r} \subseteq node
         THEN MergeBegins(h, k, r, {i}) /\ UNCHANGED review
         ELSE /\ review' = [review EXCEPT ![i].st = "approved"]
              /\ UNCHANGED <<merging, mlog, entangled>>
    /\ UNCHANGED <<node, edge, spent, adrift>>

RejectsReview(i) ==
  /\ Undecided(i) /\ review' = [review EXCEPT ![i].st = "rejected"]
  /\ UNCHANGED <<node, edge, mlog, merging, spent, adrift, entangled, ops>>

-----------------------------------------------------------------------------
(* An unmerge: the node comes back, if the constraint on ids lets it.        *)
UnmergeBegins(h, i) ==
  LET r == mlog[i].removed IN
    /\ merging[h] = NotMerging /\ mlog[i].open /\ r \notin node /\ Op
    /\ node' = node \cup {r}
    /\ merging' = [merging EXCEPT ![h] = [at |-> "restoring", keep |-> {}, remove |-> {r},
                                          taken |-> {}, todo |-> mlog[i].taken, marks |-> {i}]]
    /\ entangled' = (entangled \/ Entangles({r}, Merger \ {h}))
    /\ UNCHANGED <<edge, mlog, review, spent, adrift>>

(* Edge by edge, it looks whether the id is still there,                     *)
UnmergeFinds(h, x) ==
  LET there == x.id \in Ids(edge) IN
    /\ merging[h].at = "restoring" /\ x \in merging[h].todo
    /\ merging' = [merging EXCEPT ![h].todo = @ \ {x}, ![h].at = IF there THEN "found" ELSE @,
                                  ![h].taken = IF there THEN {x} ELSE {}]
    /\ entangled' = (entangled \/ (there /\ Entangles(EndsOf(x), Merger \ {h})))
    /\ UNCHANGED <<node, edge, mlog, review, spent, adrift, ops>>

(* deletes whatever has the id, with what it gained since,                   *)
UnmergeTears(h, x) ==
  LET gone == {y \in edge : y.id = x.id} IN
    /\ merging[h].at = "found" /\ merging[h].taken = {x}
    /\ edge' = edge \ gone /\ spent' = spent \cup (Facts(gone) \ x.facts)
    /\ merging' = [merging EXCEPT ![h].at = "torn"]
    /\ entangled' = (entangled \/ Entangles(UNION {EndsOf(y) : y \in gone}, Merger \ {h}))
    /\ UNCHANGED <<node, mlog, review, adrift, ops>>

(* and creates it as it was, which says nothing when an end is gone.         *)
UnmergeGives(h, x) ==
  /\ merging[h].at = "torn" /\ merging[h].taken = {x}
  /\ IF EndsOf(x) \subseteq node
       THEN edge' = edge \cup {x} /\ UNCHANGED spent
       ELSE spent' = spent \cup x.facts /\ UNCHANGED edge
  /\ merging' = [merging EXCEPT ![h].at = "restoring", ![h].taken = {}]
  /\ UNCHANGED <<node, mlog, review, adrift, entangled, ops>>

UnmergeEnds(h) ==
  /\ merging[h].at = "restoring" /\ merging[h].todo = {}
  /\ mlog' = [i \in DOMAIN mlog |->
                IF i \in merging[h].marks THEN [mlog[i] EXCEPT !.open = FALSE] ELSE mlog[i]]
  /\ merging' = [merging EXCEPT ![h] = NotMerging]
  /\ UNCHANGED <<node, edge, review, spent, adrift, entangled, ops>>

(* Every request to Neo4j commits by itself: an unmerge or a split that      *)
(* breaks leaves what it had done, and an edge it had deleted is lost.       *)
TornFacts(h) == IF merging[h].at = "torn" THEN Facts(merging[h].taken) ELSE {}
EditBreaks(h) ==
  /\ Op /\ (UnmergeGoing(h) \/ SplitGoing(h))
  /\ merging' = [merging EXCEPT ![h] = NotMerging] /\ spent' = spent \cup TornFacts(h)
  /\ UNCHANGED <<node, edge, mlog, review, adrift, entangled>>

(* A split: edges are near when they share the book or the other end. The    *)
(* largest group that contradicts the chosen edge, and is not the group of   *)
(* that edge, moves to a new entity, with new ids.                           *)
Near(x, y, e) == x.book = y.book \/ Other(x, e) = Other(y, e)
Group(x, rest, e) ==
  {y \in rest : \A S \in SUBSET rest :
     x \in S /\ (\A u \in S, v \in rest : Near(u, v, e) => v \in S) => y \in S}

SplitsOff(rest, x, e) ==
  LET near == {Group(y, rest, e) : y \in {z \in rest : Near(x, z, e)}}
      Contradicts(own) ==
        {Group(y, rest, e) : y \in {z \in rest : z.rel = x.rel /\ Other(z, e) # Other(x, e)}} \ own
      Largest(G) == {g \in G : \A f \in G : Cardinality(f) <= Cardinality(g)} IN
    UNION {IF Contradicts(own) = {} THEN {{}} ELSE Largest(Contradicts(own)) :
             own \in IF near = {} THEN {{}} ELSE {{g} : g \in near}}

(* Fault: only the edges that lead out of it are written again.              *)
MovedOutgoing(G, e, n) == {[x EXCEPT !.from = n, !.id = @ \o <<n, "out">>] : x \in {y \in G : y.from = e}}

Moved(G, e, n) ==
  {[x EXCEPT !.from = n, !.id = @ \o <<n, "out">>] : x \in {y \in G : y.from = e}}
    \cup {[x EXCEPT !.to = n, !.id = @ \o <<n, "in">>] : x \in {y \in G : y.to = e}}

(* The edges are read and the new entity is written: it has no edge yet.     *)
SplitBegins(h, e, x, n) ==
  /\ merging[h] = NotMerging /\ e \in node /\ x \in EdgesAt(e) /\ Op
  /\ n \in Spare \ node /\ \A i \in DOMAIN mlog : mlog[i].removed # n
  /\ \E G \in SplitsOff(EdgesAt(e) \ {x}, x, e) :
       IF G = {} THEN UNCHANGED <<merging, entangled>>
       ELSE /\ merging' = [merging EXCEPT ![h] = [at |-> "parted", keep |-> {e}, remove |-> {n},
                                                 taken |-> G, todo |-> {}, marks |-> {}]]
            /\ LET touched == {e, n} \cup UNION {EndsOf(y) : y \in G} IN
                 entangled' = (entangled \/ Entangles(touched, Merger \ {h}))
  /\ node' = node \cup {n}
  /\ UNCHANGED <<edge, mlog, review, spent, adrift>>

SplitConnects(h, e, n) ==
  /\ merging[h].at = "parted" /\ merging[h].keep = {e} /\ merging[h].remove = {n}
  /\ Connects(Moved(merging[h].taken, e, n))
  /\ merging' = [merging EXCEPT ![h].at = "copied"]
  /\ UNCHANGED <<node, mlog, review, spent, adrift, entangled, ops>>

(* What was copied is deleted, by id.                                        *)
SplitCuts(h) ==
  LET gone == {y \in edge : y.id \in Ids(merging[h].taken)} IN
    /\ merging[h].at = "copied"
    /\ edge' = edge \ gone
    /\ merging' = [merging EXCEPT ![h] = NotMerging]
    /\ entangled' = (entangled \/ ~(gone \subseteq merging[h].taken))
    /\ UNCHANGED <<node, mlog, review, spent, adrift, ops>>

DeletesRelationship(x) ==
  LET gone == {y \in edge : y.id = x.id} IN
    /\ x \in edge /\ Op
    /\ edge' = edge \ gone /\ spent' = spent \cup Facts(gone)
    /\ UNCHANGED <<node, mlog, review, merging, adrift, entangled>>

-----------------------------------------------------------------------------
GraphInit ==
  /\ node = Known /\ edge = FirstEdges /\ mlog = <<>> /\ review = <<>>
  /\ merging = [h \in Merger |-> NotMerging]
  /\ spent = {} /\ adrift = {} /\ entangled = FALSE /\ ops = 0

EntityGraphNext ==
  \/ \E h \in Merger : MergeBreaks(h)
  \/ \E k, r \in Known \cup Spare :
       \/ \E h \in Merger : \/ MergeConnects(h, k, r) \/ MergeDetaches(h, k, r)
                             \/ MergeEndsWith(h, k, r)
       \/ \E h \in Curator : AdminMergesTwo(h, k, r) \/ SplitConnects(h, k, r)
       \/ \E h \in Resolver : \/ JudgesPair(h, k, r) \/ JudgedSame(h, k, r)
                              \/ \E action \in {"merge", "unsure"} : JudgeDoubts(h, k, r, action)
  \/ \E h \in Resolver : JudgedDifferent(h)
  \/ \E h \in Curator, i \in DOMAIN review : Approves(h, i)
  \/ \E i \in DOMAIN review : RejectsReview(i)
  \/ \E h \in Curator : UnmergeEnds(h) \/ EditBreaks(h) \/ SplitCuts(h)
  \/ \E h \in Curator, i \in DOMAIN mlog : UnmergeBegins(h, i)
  \/ \E h \in Curator : \E x \in merging[h].todo : UnmergeFinds(h, x)
  \/ \E h \in Curator : \E x \in merging[h].taken : UnmergeTears(h, x) \/ UnmergeGives(h, x)
  \/ \E h \in Curator, x \in edge : \E e \in EndsOf(x), n \in Spare : SplitBegins(h, e, x, n)
  \/ \E x \in edge : DeletesRelationship(x)

EntityGraphSpec == GraphInit /\ [][EntityGraphNext]_factVars

-----------------------------------------------------------------------------
(* Whatever is merged, split and unmerged, what a book says about two        *)
(* different entities stays on an edge of the graph, or in the hands of the  *)
(* unmerge that deleted the edge and is about to write it as it was.         *)
FactsAreKept == Facts(FirstEdges) \ spent \subseteq Facts(edge) \cup UNION {TornFacts(h) : h \in Merger}

(* A pending review asks about two different entities that exist, unless one *)
(* of them is being removed, or went while the judge was thinking, or in a   *)
(* merge that failed before it came to the reviews.                          *)
Leaving == UNION {merging[h].remove : h \in {g \in Merger : merging[g].at = "detached"}}
ReviewsAreLive ==
  \A i \in DOMAIN review : Undecided(i) =>
    Pair(i) \subseteq node \cup adrift \cup Leaving /\ review[i].a # review[i].b

(* Merges, unmerges and splits lose neither facts nor questions, unless      *)
(* something else changed the edges of one under way, a split met an id that *)
(* a broken merge left on two edges, or an entity was merged into itself.    *)
MergesAreSound == entangled \/ (FactsAreKept /\ ReviewsAreLive)
=============================================================================
