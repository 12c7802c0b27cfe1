----------------------------- MODULE SpellIssues -----------------------------
(* The issues a spell check finds on a page, and who corrects them: the      *)
(* auto-correction of the worker, the page view of an editor (which applies  *)
(* the rules as well), the corrections an editor chooses, the next spell     *)
(* check, edits by hand and by an LLM. An issue points into the text by      *)
(* offset. Each of them works from a text it has read, in READ COMMITTED     *)
(* transactions; only auto-correction locks the row of the page. What a new  *)
(* text does to chunks and milestones is in PageContent and PagePipeline.    *)
EXTENDS Integers, FiniteSets, FiniteSetsExt

CONSTANTS
  IPage,
  Slots,       \* a page is this many misspelled words, 1 .. Slots
  WordAt,      \* the word at each place of a page
  SJob, NoSJob,
  Session,     \* requests and spell checks that hold a copy of a page
  MaxChanges,  \* spell checks, edits by hand and by an LLM
  MaxRules,    \* changes of the rules
  MaxIFaults   \* crashes, failed pages, lost jobs

ASSUME SpellIssuesAssumption ==
  /\ Slots \in Nat \ {0} /\ {MaxChanges, MaxRules, MaxIFaults} \subseteq Nat
  /\ NoSJob \notin SJob

VARIABLES
  fixed,     \* Page.text: the places whose word is corrected
  issue,     \* page_spell_issues: for each place, where the issue points and its status
  edition,   \* the spell check the issues come from: their ids
  rules,     \* the words with an active rule
  known,     \* the words added to the dictionary
  scanning,  \* the scanner is in its loop
  cjob,      \* jobs: their pages, those still to do and in hand, the rules and texts read
  rowLock,   \* SELECT ... FOR UPDATE
  session,   \* what a request has read of a page
  changes, ruleChanges, ifaults

ivars == <<fixed, issue, edition, rules, known, scanning, cjob, rowLock, session, changes,
           ruleChanges, ifaults>>
vocabulary == <<rules, known>>
counters == <<changes, ruleChanges, ifaults>>

Slot == 1 .. Slots
Words == {WordAt[s] : s \in Slot}
Status == {"none", "open", "processing", "late", "corrected", "ignored"}
NoIssue == [at |-> 0, status |-> "none"]
NoSpellJob == [kind |-> "free", pages |-> {}, todo |-> {}, hand |-> {}, rules |-> {},
         copy |-> [p \in IPage |-> {}]]
QueuedFor(P) == [NoSpellJob EXCEPT !.kind = "queued", !.pages = P, !.todo = P]
IFault == ifaults < MaxIFaults /\ ifaults' = ifaults + 1 /\ UNCHANGED <<changes, ruleChanges>>
IChange == changes < MaxChanges /\ changes' = changes + 1 /\ UNCHANGED <<ruleChanges, ifaults>>
ISteady == UNCHANGED counters

(* A correction is one letter longer than the word of two letters and a      *)
(* blank it replaces: it moves all that follows.                             *)
Offset(t, s) == 3 * (s - 1) + Cardinality({k \in t : k < s})

(* page_text[start:end] == issue.word: the place whose wrong word, that of   *)
(* the issue of place s, is where the issue points.                          *)
Pointed(t, s, i) ==
  {k \in Slot \ t : Offset(t, k) = i.at /\ WordAt[k] = WordAt[s]}

(* The text with the issues of S corrected from the end to the start, so     *)
(* that a correction does not move those that remain.                        *)
Corrected(t, is, S) == t \cup UNION {Pointed(t, s, is[s]) : s \in S}
Applied(t, is, S) == {s \in S : Pointed(t, s, is[s]) # {}}

InStatus(is, st) == {s \in Slot : is[s].status \in st}
WithStatus(is, S, st) == [s \in Slot |-> IF s \in S THEN [is[s] EXCEPT !.status = st] ELSE is[s]]

-----------------------------------------------------------------------------
(* The scanner: once, issues that have been "processing" for 15 minutes are  *)
(* opened again; then, until there are none, open issues with an active rule *)
(* are claimed, and a job is queued for their pages after the commit.        *)
(* Fault: a claim is for ever.                                               *)
RevertedNever(is) == is
Reverted(is) == WithStatus(is, InStatus(is, {"late"}), "open")

ScanStarts ==
  /\ ~scanning /\ scanning' = TRUE
  /\ issue' = [p \in IPage |-> Reverted(issue[p])]
  /\ UNCHANGED <<fixed, edition, vocabulary, cjob, rowLock, session>> /\ ISteady

Candidates(p) == {s \in InStatus(issue[p], {"open"}) : WordAt[s] \in rules}

(* The LIMIT counts issues: those of one page may fall to two jobs.          *)
ScanClaimsIssues ==
  /\ scanning
  /\ \E C \in [IPage -> SUBSET Slot] :
       LET P == {p \in IPage : C[p] # {}} IN
       /\ P # {} /\ \A p \in IPage : C[p] \subseteq Candidates(p)
       /\ issue' = [p \in IPage |-> WithStatus(issue[p], C[p], "processing")]
       /\ \/ /\ \E j \in SJob : /\ cjob[j] = NoSpellJob
                                /\ cjob' = [cjob EXCEPT ![j] = QueuedFor(P)]
             /\ UNCHANGED scanning /\ ISteady
          \/ UNCHANGED cjob /\ scanning' = FALSE /\ IFault
  /\ UNCHANGED <<fixed, edition, vocabulary, rowLock, session>>

ScanEnds ==
  /\ scanning /\ scanning' = FALSE /\ \A p \in IPage : Candidates(p) = {}
  /\ UNCHANGED <<fixed, issue, edition, vocabulary, cjob, rowLock, session>> /\ ISteady

(* A claim grows older than 15 minutes, whether or not its job still runs.   *)
ClaimAges(p) ==
  /\ InStatus(issue[p], {"processing"}) # {}
  /\ issue' = [issue EXCEPT ![p] = WithStatus(@, InStatus(@, {"processing"}), "late")]
  /\ UNCHANGED <<fixed, edition, vocabulary, scanning, cjob, rowLock, session>> /\ ISteady

-----------------------------------------------------------------------------
(* The job. Without an active rule it returns at once.                       *)
JobReadsRules(j) ==
  /\ cjob[j].kind = "queued"
  /\ cjob' = [cjob EXCEPT ![j] = IF rules = {} THEN NoSpellJob
                                 ELSE [@ EXCEPT !.kind = "working", !.rules = rules]]
  /\ UNCHANGED <<fixed, issue, edition, vocabulary, scanning, rowLock, session>> /\ ISteady

InHand(j, p) == [cjob EXCEPT ![j] = [@ EXCEPT !.todo = cjob[j].todo \ {p},
                                              !.hand = cjob[j].hand \cup {p},
                                              !.copy = [cjob[j].copy EXCEPT ![p] = fixed[p]]]]

(* Fault: the page is read without FOR UPDATE.                               *)
JobReadsPageUnlocked(j, p) ==
  /\ cjob[j].kind = "working" /\ p \in cjob[j].todo /\ cjob' = InHand(j, p)
  /\ UNCHANGED <<fixed, issue, edition, vocabulary, scanning, rowLock, session>> /\ ISteady
JobReadsPage(j, p) ==
  /\ cjob[j].kind = "working" /\ p \in cjob[j].todo /\ cjob' = InHand(j, p)
  /\ rowLock[p] = NoSJob /\ rowLock' = [rowLock EXCEPT ![p] = j]
  /\ UNCHANGED <<fixed, issue, edition, vocabulary, scanning, session>> /\ ISteady

(* The claimed issues of a page, whoever claimed them, or else the open ones *)
(* of the words in W.                                                        *)
ToApply(p, W) ==
  LET claimed == InStatus(issue[p], {"processing", "late"}) IN
  IF claimed # {} THEN claimed
  ELSE {s \in InStatus(issue[p], {"open"}) : WordAt[s] \in W}

(* apply_auto_corrections_to_page on the copy t; nothing is written when no  *)
(* issue still points to its word.                                           *)
AppliesRules(p, t, W) ==
  LET S == {s \in ToApply(p, W) : WordAt[s] \in W}
      done == Applied(t, issue[p], S) IN
  IF done = {} THEN UNCHANGED <<fixed, issue>>
  ELSE /\ issue' = [issue EXCEPT ![p] = WithStatus(@, done, "corrected")]
       /\ fixed' = [fixed EXCEPT ![p] = Corrected(t, issue[p], S)]

PutsDown(j, p) ==
  /\ p \in cjob[j].hand
  /\ cjob' = [cjob EXCEPT ![j] = [@ EXCEPT !.hand = cjob[j].hand \ {p},
                                           !.copy = [cjob[j].copy EXCEPT ![p] = {}]]]
  /\ rowLock' = [rowLock EXCEPT ![p] = NoSJob]

JobCorrects(j, p) ==
  /\ PutsDown(j, p) /\ AppliesRules(p, cjob[j].copy[p], cjob[j].rules)
  /\ UNCHANGED <<edition, vocabulary, scanning, session>> /\ ISteady

(* The transaction of the page fails, and its issues stay as they are.       *)
JobFailsOnPage(j, p) ==
  /\ PutsDown(j, p) /\ IFault
  /\ UNCHANGED <<fixed, issue, edition, vocabulary, scanning, session>>

(* The roll-up of the books at the end is AutoCorrectEnds of PagePipeline.   *)
CJobEnds(j) ==
  /\ cjob[j].kind = "working" /\ cjob[j].todo = {} /\ cjob[j].hand = {}
  /\ cjob' = [cjob EXCEPT ![j] = NoSpellJob]
  /\ UNCHANGED <<fixed, issue, edition, vocabulary, scanning, rowLock, session>> /\ ISteady

(* Killed, or lost from the queue; or, at shutdown, to be run again.         *)
CJobDies(j) ==
  /\ cjob[j] # NoSpellJob /\ IFault
  /\ \E after \in {NoSpellJob, QueuedFor(cjob[j].pages)} : cjob' = [cjob EXCEPT ![j] = after]
  /\ rowLock' = [p \in IPage |-> IF rowLock[p] = j THEN NoSJob ELSE rowLock[p]]
  /\ UNCHANGED <<fixed, issue, edition, vocabulary, scanning, session>>

-----------------------------------------------------------------------------
(* Requests of editors, and spell checks. The page is loaded when they begin *)
(* and the loaded text is what they change, even where they lock the row     *)
(* later: the session of SQLAlchemy keeps the object it has.                 *)
Idle == [kind |-> "idle"]
Holds(x, kind) == session[x].kind = kind /\ session' = [session EXCEPT ![x] = Idle]
Writable(p) == rowLock[p] = NoSJob

Begins(x, r) ==
  /\ session[x] = Idle /\ session' = [session EXCEPT ![x] = r]
  /\ UNCHANGED <<fixed, issue, edition, vocabulary, scanning, cjob, rowLock>>

(* GET .../spell-check shows a page, and applies the rules before.           *)
ViewBegins(x, p) == Begins(x, [kind |-> "view", page |-> p, copy |-> fixed[p]]) /\ ISteady
ViewApplies(x) ==
  LET v == session[x] IN
  /\ Holds(x, "view") /\ Writable(v.page) /\ AppliesRules(v.page, v.copy, rules)
  /\ UNCHANGED <<edition, vocabulary, scanning, cjob, rowLock>> /\ ISteady

(* POST .../spell-check/apply with some issues, whatever their status. A     *)
(* milestone that the loaded page already has is not written.                *)
EditBegins(x, p, S) ==
  /\ S \cap InStatus(issue[p], Status \ {"none"}) = S
  /\ Begins(x, [kind |-> "edit", page |-> p, copy |-> fixed[p], edition |-> edition[p],
                issue |-> issue[p], chosen |-> S])
  /\ ISteady
EditApplies(x) ==
  LET v == session[x]
      p == v.page
      done == Applied(v.copy, v.issue, v.chosen) IN
  /\ Holds(x, "edit") /\ Writable(p)
  /\ IF done # {} /\ v.edition # edition[p]  \* StaleDataError: the issues are gone
       THEN UNCHANGED <<fixed, issue, rules>> /\ ISteady
       ELSE /\ fixed' = [fixed EXCEPT ![p] = IF done = {} THEN @
                                             ELSE Corrected(v.copy, v.issue, v.chosen)]
            /\ issue' = [issue EXCEPT ![p] = WithStatus(@, done, "corrected")]
            /\ \/ UNCHANGED rules /\ ISteady
               \/ /\ \E s \in v.chosen : rules' = rules \cup {WordAt[s]}  \* is_auto_correction
                  /\ ruleChanges < MaxRules /\ ruleChanges' = ruleChanges + 1
                  /\ UNCHANGED <<changes, ifaults>>
  /\ UNCHANGED <<edition, known, scanning, cjob, rowLock>>

Ignores(p) ==
  /\ \E s \in InStatus(issue[p], Status \ {"none"}) :
       issue' = [issue EXCEPT ![p] = WithStatus(@, {s}, "ignored")]
  /\ UNCHANGED <<fixed, edition, vocabulary, scanning, cjob, rowLock, session>> /\ ISteady

(* run_spell_check_for_page, by the job or the trigger of one page: active   *)
(* rules first, then all issues anew. The text is written only if a rule     *)
(* applied.                                                                  *)
CheckBegins(x, p) == Begins(x, [kind |-> "check", page |-> p, copy |-> fixed[p]]) /\ IChange
Found(t, K) ==
  [s \in Slot |-> IF s \in t \/ WordAt[s] \in K THEN NoIssue
                  ELSE [at |-> Offset(t, s), status |-> "open"]]
CheckWrites(x) ==
  LET v == session[x]
      p == v.page
      t == v.copy \cup {s \in Slot : WordAt[s] \in rules} IN
  /\ Holds(x, "check") /\ Writable(p)
  /\ fixed' = [fixed EXCEPT ![p] = IF t = v.copy THEN @ ELSE t]
  /\ issue' = [issue EXCEPT ![p] = Found(t, known)] /\ edition' = [edition EXCEPT ![p] = @ + 1]
  /\ UNCHANGED <<vocabulary, scanning, cjob, rowLock>> /\ ISteady

(* PUT of a page, and a correction by an LLM: a new text without issues,     *)
(* until the spell check that they ask for.                                  *)
EditedText(p) ==
  /\ Writable(p) /\ \E t \in (SUBSET Slot) \ {fixed[p]} : fixed' = [fixed EXCEPT ![p] = t]
  /\ issue' = [issue EXCEPT ![p] = [s \in Slot |-> NoIssue]]
  /\ edition' = [edition EXCEPT ![p] = @ + 1] /\ IChange
  /\ UNCHANGED <<vocabulary, scanning, cjob, rowLock, session>>

(* A rule is created, activated, deactivated or deleted; a word becomes part *)
(* of the dictionary.                                                        *)
RuleChanges(w) ==
  /\ rules' = IF w \in rules THEN rules \ {w} ELSE rules \cup {w}
  /\ ruleChanges < MaxRules /\ ruleChanges' = ruleChanges + 1 /\ UNCHANGED <<changes, ifaults>>
  /\ UNCHANGED <<fixed, issue, edition, known, scanning, cjob, rowLock, session>>
WordIsAdded(w) ==
  /\ w \notin known /\ known' = known \cup {w}
  /\ issue' = [p \in IPage |->
                 WithStatus(issue[p], {s \in InStatus(issue[p], {"open"}) : WordAt[s] = w}, "ignored")]
  /\ ruleChanges < MaxRules /\ ruleChanges' = ruleChanges + 1 /\ UNCHANGED <<changes, ifaults>>
  /\ UNCHANGED <<fixed, edition, rules, scanning, cjob, rowLock, session>>

-----------------------------------------------------------------------------
IssuesInit ==
  /\ fixed = [p \in IPage |-> {}] /\ issue = [p \in IPage |-> Found({}, {})]
  /\ edition = [p \in IPage |-> 0] /\ rules \in SUBSET Words /\ known = {}
  /\ scanning = FALSE /\ cjob = [j \in SJob |-> NoSpellJob]
  /\ rowLock = [p \in IPage |-> NoSJob] /\ session = [x \in Session |-> Idle]
  /\ changes = 0 /\ ruleChanges = 0 /\ ifaults = 0

JobSteps(j) ==
  \/ JobReadsRules(j) \/ CJobEnds(j)
  \/ \E p \in IPage : JobReadsPage(j, p) \/ JobCorrects(j, p)
IssuesNext ==
  \/ ScanStarts \/ ScanClaimsIssues \/ ScanEnds
  \/ \E j \in SJob : \/ JobSteps(j) \/ CJobDies(j)
                     \/ \E p \in IPage : JobFailsOnPage(j, p)
  \/ \E x \in Session : ViewApplies(x) \/ EditApplies(x) \/ CheckWrites(x)
  \/ \E x \in Session, p \in IPage :
       \/ ViewBegins(x, p) \/ CheckBegins(x, p)
       \/ \E S \in (SUBSET Slot) \ {{}} : EditBegins(x, p, S)
  \/ \E p \in IPage : \/ ClaimAges(p) \/ Ignores(p) \/ EditedText(p)
  \/ \E w \in Words : RuleChanges(w) \/ WordIsAdded(w)

IssuesFairness ==
  /\ WF_ivars(ScanStarts) /\ WF_ivars(ScanClaimsIssues) /\ WF_ivars(ScanEnds)
  /\ \A p \in IPage : WF_ivars(ClaimAges(p))
  /\ \A j \in SJob : WF_ivars(JobSteps(j))
IssuesSpec == IssuesInit /\ [][IssuesNext]_ivars /\ IssuesFairness

-----------------------------------------------------------------------------
(* Auto-correction of the worker only adds to the corrections of a page: it  *)
(* takes none back that an editor, a spell check or another job has made     *)
(* since its page was claimed (auto_correct_service.py:85, "Fetch the page   *)
(* with a lock to prevent concurrent updates"), and where an offset is out   *)
(* of date it leaves the word alone.                                         *)
JobKeepsCorrections ==
  [][\A j \in SJob, p \in IPage :
       JobCorrects(j, p) => /\ fixed[p] \subseteq fixed'[p]
                            /\ \A s \in fixed'[p] \ fixed[p] : WordAt[s] \in cjob[j].rules]_ivars

(* An issue that a rule can correct does not wait for ever, though scanner,  *)
(* job and queue lose claims, other issues of the page are out of date, and  *)
(* the LIMIT of the scanner has no order.                                    *)
Correctable(p, s) ==
  /\ issue[p][s].status \in {"open", "processing", "late"} /\ WordAt[s] \in rules
  /\ Pointed(fixed[p], s, issue[p][s]) # {}
RuleIsApplied == \A p \in IPage, s \in Slot : Correctable(p, s) ~> ~Correctable(p, s)
=============================================================================
