----------------------------- MODULE RetrievalScope -----------------------------
(* What a question to the chat may be answered from. In the reader the scope    *)
(* is the open book and its sister volumes, in the library it is everything; a  *)
(* persona limits it to its categories. The retrieval agent, a language model,  *)
(* passes whatever ids it likes to its tools, and the results of searches are   *)
(* cached in Redis for all users. All questions here are embedded alike.        *)
EXTENDS FiniteSets, Naturals

CONSTANTS
  Library,     \* books
  Volumes,     \* Volumes[b]: the volumes of the work b belongs to, b included
  InCategory,  \* books in the categories of the persona
  MadeUp,      \* an id that no book has
  Nowhere,     \* the chat of the library: no book is open
  RTurn,       \* places for questions that are answered at the same time
  Passable,    \* sets of ids the agent may pass; {} is an empty or a missing list
  Production,  \* settings.environment, "development" by default, is "production"
  MaxCalls     \* rag_agent_max_llm_calls, for all questions together

ASSUME ScopeAssumption ==
  /\ \A b \in Library : b \in Volumes[b] /\ \A c \in Volumes[b] : Volumes[c] = Volumes[b]
  /\ Passable \subseteq SUBSET (Library \cup {MadeUp}) /\ MaxCalls \in Nat
  /\ Production \in BOOLEAN

VARIABLES
  question,  \* stage, open book, persona with categories, ids of earlier books
  evidence,  \* what the answer is made from: the kind of a text and its book
  found,     \* rag:search:*: the books a cached result is from
  calls

scopeVars == <<question, evidence, found, calls>>

Everything == {}   \* as a scope: vector_search takes an empty list for none
Within(S) == IF S = Everything THEN Library ELSE S
Reader(t) == question[t].open # Nowhere
Stage(t, st) == question[t].stage = st
Becomes(t, st, ctx) == question' = [question EXCEPT ![t].stage = st, ![t].context = ctx]
Texts(kind, B) == {<<kind, b>> : b \in B}
Gathers(t, E) == evidence' = [evidence EXCEPT ![t] = @ \cup E]
Shelf(t) == IF question[t].persona THEN InCategory ELSE Library

-----------------------------------------------------------------------------
(* The scope of a tool                                                       *)
(* Fault: ids that are all out of scope leave an empty list.                 *)
ReaderScopeKeptOnly(t, ids) == ids \cap Volumes[question[t].open]
ReaderScope(t, ids) ==
  LET kept == ids \cap Volumes[question[t].open]
  IN  IF kept = {} THEN {question[t].open} ELSE kept

LibraryScope(ids) == ids \cap Library
Scope(t, ids) == IF Reader(t) THEN ReaderScope(t, ids) ELSE LibraryScope(ids)

(* Fault: the categories are not part of the key.                            *)
KeyWithoutShelf(t, S) == <<"multi", S, FALSE>>
Key(t, S) ==
  IF Reader(t) /\ Cardinality(S) = 1 /\ ~question[t].persona
  THEN <<"single", S, FALSE>> ELSE <<"multi", S, question[t].persona>>

Remembered(cache, key, R) == [k \in DOMAIN cache \cup {key} |-> IF k = key THEN R ELSE cache[k]]

(* When the vectors find nothing, the texts of the books are matched by the  *)
(* words of the question, whatever their categories. That is not cached.     *)
MatchesWords(S) == ~Production /\ S # Everything
(* Fault: it is cached like a result of the vectors.                         *)
MatchesAreKept(cache, key, S) == Remembered(cache, key, S)
MatchesAreNotKept(cache, key, S) == cache

(* What a search returns, and the cache it leaves. A search finds texts of   *)
(* all books of its scope or none. (Verses of the Quran, which it may add,   *)
(* are of no book of the library, and a source for everyone.)                *)
Search(t, S, cache) ==
  LET key == Key(t, S)
      hits == Within(S) \cap Shelf(t) IN
  IF key \in DOMAIN cache THEN {<<Texts("passage", cache[key]), cache>>}
  ELSE {<<Texts("passage", R), Remembered(cache, key, R)>> : R \in {{}, hits}}
         \cup {<<Texts("match", M), MatchesAreNotKept(cache, key, M)>> :
                  M \in IF MatchesWords(S) THEN {S} ELSE {}}

(* The open book is searched together with its other volumes.                *)
SisterSearch(t, S, cache) ==
  LET others == Volumes[question[t].open] \ {question[t].open}
  IN  IF Reader(t) /\ S = {question[t].open} /\ others # {}
      THEN Search(t, others, cache) ELSE {<<{}, cache>>}

(* In the library, a search in books carried over from an earlier answer is  *)
(* broadened when its results are weak: to the books whose summaries fit, or *)
(* to everything.                                                            *)
BroaderSearch(t, S, cache) ==
  {<<{}, cache>>} \cup
  IF ~Reader(t) /\ S \cap question[t].context # {}
  THEN UNION {Search(t, N, cache) : N \in {Everything, Shelf(t)}} ELSE {}

-----------------------------------------------------------------------------
(* The gates before the agent                                                *)
AsksAbout(t, open, persona, carried) ==
  /\ Stage(t, "answered")
  /\ question' = [question EXCEPT ![t] =
       [stage |-> "asked", open |-> open, persona |-> persona,
        context |-> IF open = Nowhere THEN carried ELSE {open}]]
  /\ evidence' = [evidence EXCEPT ![t] = {}]
  /\ UNCHANGED <<found, calls>>

(* A quoted title is looked for first, and becomes the context in the reader *)
(* as well.                                                                  *)
QuotesTitle(t, M) ==
  /\ Stage(t, "asked") /\ M # {} /\ M \subseteq Shelf(t) /\ Becomes(t, "titled", M)
  /\ UNCHANGED <<evidence, found, calls>>

(* A named poem is looked up in the tables of contents, of one book if the   *)
(* context is one book and otherwise of all, and copied into the answer.     *)
FindsShortWork(t, b) ==
  /\ Stage(t, "asked") \/ Stage(t, "titled")
  /\ b \in IF Cardinality(question[t].context) = 1 THEN question[t].context ELSE Library
  /\ Becomes(t, "answered", {b}) /\ Gathers(t, {<<"verbatim", b>>})
  /\ UNCHANGED <<found, calls>>

(* A quoted phrase is searched in the pages of the context; in the library   *)
(* then in all pages.                                                        *)
FindsPhrase(t) ==
  /\ Stage(t, "asked")
  /\ \E S \in {question[t].context} \cup (IF Reader(t) THEN {} ELSE {Library}) :
       Gathers(t, Texts("passage", S \cap Shelf(t)))
  /\ Becomes(t, "answered", question[t].context)
  /\ UNCHANGED <<found, calls>>

StartsAgent(t) ==
  /\ Stage(t, "asked") \/ Stage(t, "titled")
  /\ Becomes(t, "agent", question[t].context)
  /\ UNCHANGED <<evidence, found, calls>>

-----------------------------------------------------------------------------
(* The tools of the agent                                                    *)
CallsTool(t) == Stage(t, "agent") /\ calls < MaxCalls /\ calls' = calls + 1 /\ UNCHANGED question

(* Facts of the knowledge graph are added without a scope.                   *)
SearchChunks(t, ids) ==
  /\ CallsTool(t)
  /\ LET S == Scope(t, ids) IN
     \E x \in Search(t, S, found) : \E y \in SisterSearch(t, S, x[2]) :
       \E z \in BroaderSearch(t, S, y[2]) : \E facts \in {{}, Library} :
         /\ Gathers(t, x[1] \cup y[1] \cup z[1] \cup Texts("fact", facts))
         /\ found' = z[2]

SearchKeywordPhrase(t, ids) ==
  /\ CallsTool(t) /\ Gathers(t, Texts("passage", Within(Scope(t, ids)) \cap Shelf(t)))
  /\ UNCHANGED found

(* Summaries are extended to all volumes, and know no categories.            *)
GetBookSummary(t, ids) ==
  /\ CallsTool(t)
  /\ Gathers(t, Texts("summary", UNION {Volumes[b] : b \in Scope(t, ids)}))
  /\ UNCHANGED found

GetCurrentPage(t) ==
  /\ CallsTool(t) /\ Reader(t) /\ Gathers(t, {<<"page", question[t].open>>})
  /\ UNCHANGED found

(* The agent is done, fails, or has used up its calls.                       *)
EndsAgent(t) ==
  /\ Stage(t, "agent") /\ Becomes(t, "answered", question[t].context)
  /\ UNCHANGED <<evidence, found, calls>>

ResultsExpire ==
  /\ found # [k \in {} |-> {}] /\ found' = [k \in {} |-> {}]
  /\ UNCHANGED <<question, evidence, calls>>

-----------------------------------------------------------------------------
ScopeInit ==
  /\ question = [t \in RTurn |->
                   [stage |-> "answered", open |-> Nowhere, persona |-> FALSE, context |-> {}]]
  /\ evidence = [t \in RTurn |-> {}] /\ found = [k \in {} |-> {}] /\ calls = 0

Gates(t) ==
  \/ \E M \in SUBSET Library : QuotesTitle(t, M)
  \/ \E b \in Library : FindsShortWork(t, b)
  \/ FindsPhrase(t) \/ StartsAgent(t)
Tools(t) ==
  \/ \E ids \in Passable : SearchChunks(t, ids) \/ SearchKeywordPhrase(t, ids) \/ GetBookSummary(t, ids)
  \/ GetCurrentPage(t) \/ EndsAgent(t)
ScopeNext ==
  \/ \E t \in RTurn : \E open \in Library \cup {Nowhere}, persona \in BOOLEAN :
       \E carried \in Passable : AsksAbout(t, open, persona, carried \cap Library)
  \/ \E t \in RTurn : Gates(t) \/ Tools(t)
  \/ ResultsExpire
ScopeSpec == ScopeInit /\ [][ScopeNext]_scopeVars

-----------------------------------------------------------------------------
(* An answer in the reader is made from texts and summaries of the open work  *)
(* only, and the passages for a persona are from its categories: whatever ids  *)
(* the agent makes up or carries over, whichever empty list becomes a search   *)
(* of everything, and although results are shared with the questions of others *)
(* (_clamp_reader_scope, vector_search). Not so a poem copied verbatim, or a   *)
(* fact of the graph; and what is matched by words outside production, in      *)
(* place of missing vectors, stays in the open work but not in the categories. *)
EvidenceIsInScope ==
  \A t \in RTurn : \A b \in Library :
    /\ Reader(t) /\ {<<"passage", b>>, <<"match", b>>, <<"summary", b>>} \cap evidence[t] # {} =>
         b \in Volumes[question[t].open]
    /\ question[t].persona /\ <<"passage", b>> \in evidence[t] => b \in InCategory
===============================================================================
