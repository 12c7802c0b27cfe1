------------------------- MODULE PipelineOwnership -------------------------
(* The page pipeline implements PageOwnership: a job holds the pages it has  *)
(* locked all of and not yet finished, from the last lock it tries to the    *)
(* transaction that stores the outcome, and loses them when it ends.         *)
EXTENDS PagePipeline

Item == Step \X Page

HeldPages(j) == CASE job[j].phase = "locked" -> job[j].taken
                  [] job[j].phase = "working" -> job[j].todo
                  [] OTHER -> {}
Held(j) == {job[j].step} \X HeldPages(j)

Recorded(s, p) == IF ms[p][s] \in {"succeeded", "failed"} THEN ms[p][s] ELSE "open"

Ownership == INSTANCE PageOwnership WITH
               Worker <- JobId,
               held <- [j \in JobId |-> Held(j)],
               outcome <- [x \in Item |-> Recorded(x[1], x[2])]

(* Every step of a page has at most one job that works it; only that job     *)
(* records success or failure, once for each time it took the page, and      *)
(* scanners, watchdog, driver and corrections only ever open steps again     *)
(* (MultiPageLock, and the page transactions of the four jobs).              *)
OwnershipSpec == Ownership!Spec
=============================================================================
