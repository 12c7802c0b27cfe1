----------------------------- MODULE MCServices -----------------------------
(* Parts of the system that share no state, explored one at a time: the      *)
(* circuit breaker, the desktop client, the resolution of entities, the jobs *)
(* for whole books and the issues of the spell check. The initial state      *)
(* chooses the part.                                                         *)
EXTENDS CircuitBreaker, DesktopOcr, GraphResolution, DerivedJobs, SpellIssues
CONSTANTS c1, c2, c3, u1, l1, i1, i2, i3, i4, k1, e1, e2, a1, b1, b2, p1, x1
VARIABLE part

servicesVars == <<vars, dvars, gvars, derivedVars, ivars, part>>
Parts == {"breaker", "desktop", "resolution", "summary", "graph", "issues"}
SameName == {{e1, e2}}
TwoWords == <<"first word", "second word">>

BreakerTurn == part = "breaker" /\ UNCHANGED <<dvars, gvars, derivedVars, ivars, part>>
DesktopTurn == part = "desktop" /\ UNCHANGED <<vars, gvars, derivedVars, ivars, part>>
ResolutionTurn == part = "resolution" /\ UNCHANGED <<vars, dvars, derivedVars, ivars, part>>
DerivedTurn == part \in {"summary", "graph"} /\ UNCHANGED <<vars, dvars, gvars, ivars, part>>
IssuesTurn == part = "issues" /\ UNCHANGED <<vars, dvars, gvars, derivedVars, part>>

(* What else holds an instance of the client, and the text of a page with    *)
(* issues, is explored in MCBookAdmin.                                       *)
DesktopPart == DesktopNext /\ UNCHANGED request
IssuesPart == IssuesNext /\ changes' = 0 /\ UNCHANGED session

ServicesInit ==
  /\ Init /\ DesktopInit /\ ResolutionInit /\ DerivedInit /\ IssuesInit /\ part \in Parts
  /\ rules = IF part = "issues" THEN {"first word"} ELSE {}
ServicesNext ==
  \/ BreakerTurn /\ Next
  \/ DesktopTurn /\ DesktopPart
  \/ ResolutionTurn /\ ResolutionNext
  \/ DerivedTurn /\ \E b \in DBook : \/ part = "summary" /\ SummaryNext(b)
                                     \/ part = "graph" /\ GraphNext(b)
  \/ IssuesTurn /\ IssuesPart

(* The fairness of the parts. Only one part moves, so a condition that joins *)
(* steps of several parts is that of each.                                   *)
Scanner == ScanStarts \/ ScanClaimsIssues \/ ScanEnds
SpellJobs == \E j \in SJob : JobSteps(j)
ClaimsAge == \E p \in IPage : ClaimAges(p)
ServicesSpec ==
  /\ ServicesInit /\ [][ServicesNext]_servicesVars
  /\ \A c \in Caller : /\ WF_servicesVars(BreakerTurn /\ Answer(c))
                       /\ WF_servicesVars(BreakerTurn /\ AllowCall(c))
  /\ WF_servicesVars((BreakerTurn /\ RecoveryTimeout) \/ (IssuesTurn /\ Scanner))
  /\ WF_servicesVars((BreakerTurn /\ CoolingEnds) \/ (IssuesTurn /\ SpellJobs))
  /\ WF_servicesVars((DesktopTurn /\ OcrJobGoes) \/ (IssuesTurn /\ ClaimsAge))
  /\ \A b \in DBook : /\ WF_servicesVars(DerivedTurn /\ SummaryWork(b))
                      /\ WF_servicesVars(DerivedTurn /\ SummaryScanner(b))
=============================================================================
