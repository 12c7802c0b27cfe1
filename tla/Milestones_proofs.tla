------------------------- MODULE Milestones_proofs -------------------------
(* What the milestone of a book says about its pages.                        *)
EXTENDS Milestones, FiniteSetTheorems, TLAPS

(* Counts of pages are natural numbers, bounded by the size of the book, and *)
(* reach it only when every page counts.                                     *)
LEMMA CountFacts ==
  ASSUME NEW P, IsFiniteSet(P), NEW m, NEW v
  PROVE  /\ Cardinality(PagesAt(m, P, v)) \in Nat
         /\ Cardinality(PagesAt(m, P, v)) <= Cardinality(P)
         /\ Cardinality(PagesAt(m, P, v)) = Cardinality(P) <=> \A p \in P : m[p] = v
         /\ Cardinality(PagesAt(m, P, v)) = 0 <=> \A p \in P : m[p] # v
<1> DEFINE T == PagesAt(m, P, v)
<1>1. T \in SUBSET P
  BY DEF PagesAt
<1>2. /\ IsFiniteSet(T) /\ Cardinality(T) <= Cardinality(P)
      /\ Cardinality(P) = Cardinality(T) => P = T
  BY <1>1, FS_Subset
<1>3. Cardinality(T) \in Nat
  BY <1>2, FS_CardinalityType
<1>4. P = T <=> \A p \in P : m[p] = v
  BY DEF PagesAt
<1>5. Cardinality(T) = 0 <=> T = {}
  BY <1>2, FS_EmptySet
<1>6. T = {} <=> \A p \in P : m[p] # v
  BY DEF PagesAt
<1> QED
  BY <1>2, <1>3, <1>4, <1>5, <1>6

(* The roll-up is one of the five values of a book milestone.                *)
LEMMA RollUpType ==
  ASSUME NEW P, NEW m
  PROVE  RollUp(m, P) \in BookMilestone
BY DEF RollUp, ComputeMilestoneStatus, BookMilestone

(* A book is complete at a step exactly when it has pages and each of them   *)
(* succeeded: no count of failed or active pages can imitate it.             *)
THEOREM CompleteMeansAllSucceeded ==
  ASSUME NEW P, IsFiniteSet(P), NEW m
  PROVE  RollUp(m, P) = "complete" <=> P # {} /\ \A p \in P : m[p] = "succeeded"
<1> DEFINE done == Cardinality(PagesAt(m, P, "succeeded"))
           failed == Cardinality(PagesAt(m, P, "failed"))
           total == Cardinality(P)
<1>1. /\ done \in Nat /\ failed \in Nat /\ total \in Nat
      /\ done = total <=> \A p \in P : m[p] = "succeeded"
  BY CountFacts, FS_CardinalityType
<1>2. total = 0 <=> P = {}
  BY FS_EmptySet
<1>3. RollUp(m, P) = "complete" <=> total # 0 /\ done = total
  BY <1>1 DEF RollUp, ComputeMilestoneStatus
<1> QED
  BY <1>1, <1>2, <1>3

(* A book has failed at a step exactly when it has pages and all failed.     *)
THEOREM FailedMeansAllFailed ==
  ASSUME NEW P, IsFiniteSet(P), NEW m
  PROVE  RollUp(m, P) = "failed" <=> P # {} /\ \A p \in P : m[p] = "failed"
<1> DEFINE done == Cardinality(PagesAt(m, P, "succeeded"))
           failed == Cardinality(PagesAt(m, P, "failed"))
           total == Cardinality(P)
<1>1. /\ done \in Nat /\ failed \in Nat /\ total \in Nat
      /\ done = total <=> \A p \in P : m[p] = "succeeded"
      /\ failed = total <=> \A p \in P : m[p] = "failed"
  BY CountFacts, FS_CardinalityType
<1>2. total = 0 <=> P = {}
  BY FS_EmptySet
<1>3. RollUp(m, P) = "failed" <=> total # 0 /\ done # total /\ failed = total
  BY <1>1 DEF RollUp, ComputeMilestoneStatus
<1>4. P # {} /\ (\A p \in P : m[p] = "failed") => done # total
  BY <1>1
<1> QED
  BY <1>1, <1>2, <1>3, <1>4
===========================================================================
