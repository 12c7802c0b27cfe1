---------------------------- MODULE Milestones ----------------------------
(* Milestone values of pages and books, and the roll-up of the pages of a  *)
(* book into one value per step (BookMilestoneService).                    *)
EXTENDS Naturals, FiniteSets

Step == {"ocr", "chunking", "embedding", "spell_check"}

PageStatus == {"idle", "in_progress", "succeeded", "failed"}
BookMilestone == {"idle", "in_progress", "complete", "partial_failure", "failed"}

(* Faults: the value of a page for that of a book; idle pages not counted.  *)
PageValueForBook(done, failed, active, total) ==
  IF total > 0 /\ done = total THEN "succeeded" ELSE "in_progress"
IdleNotCounted(done, failed, active, total) ==
  IF failed + active = 0 THEN "complete"
  ELSE IF failed = total THEN "failed" ELSE "in_progress"

(* The counts of one step over the pages of a book, and the value they     *)
(* give, branch by branch in the order of the code.                        *)
ComputeMilestoneStatus(done, failed, active, total) ==
  IF total = 0 THEN "idle"
  ELSE IF done = total THEN "complete"
  ELSE IF failed = total THEN "failed"
  ELSE IF done + failed = total THEN IF failed > 0 THEN "partial_failure" ELSE "complete"
  ELSE IF done > 0 \/ active > 0 \/ failed > 0 THEN "in_progress"
  ELSE "idle"

(* The pages of P at value v, where m gives the value of each page.         *)
PagesAt(m, P, v) == {p \in P : m[p] = v}

(* What the database counts and compute_milestone_status make of the pages  *)
(* P of a book. ('error' is in FAILED_PAGE_MILESTONES but nothing writes it.)*)
RollUp(m, P) ==
  ComputeMilestoneStatus(Cardinality(PagesAt(m, P, "succeeded")),
                         Cardinality(PagesAt(m, P, "failed")),
                         Cardinality(PagesAt(m, P, "in_progress")),
                         Cardinality(P))
===========================================================================
