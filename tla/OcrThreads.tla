------------------------------ MODULE OcrThreads ------------------------------
(* The threads of the desktop client that recognise pages. The job of a book  *)
(* and requests to redo pages each have a semaphore of their own width, and   *)
(* share one executor, which is replaced when a call asks for another width.  *)
(* A call that runs out of time leaves its thread at work.                    *)
EXTENDS Naturals, Sequences, FiniteSets

CONSTANTS
  OcrCall,      \* calls of ocr_page
  Batch, BatchOf,  \* the job, and requests to redo pages; whose a call is
  Widths,       \* concurrency of a batch
  MaxAttempts   \* OCR_MAX_RETRIES

ASSUME ThreadsAssumption ==
  /\ BatchOf \in [OcrCall -> Batch] /\ Widths \subseteq Nat \ {0} /\ MaxAttempts \in Nat \ {0}

VARIABLES
  width,     \* of each batch
  executors, \* the executors so far, each with its number of threads; the last is in use
  call,      \* a call: its state, its executor, the number of its attempt
  submitted, \* what the executors have to do, in order: [call, on, running, wanted], not
             \* wanted when its call ran out of time
  misread    \* history: attempts whose answer was not good enough
threadVars == <<width, executors, call, submitted, misread>>

Current == Len(executors)
Outside == [at |-> "outside", on |-> 0, attempt |-> 0]
Busy(b) == {c \in OcrCall : BatchOf[c] = b /\ call[c].at = "waits"}
Task(c, e) == [call |-> c, on |-> e, running |-> FALSE, wanted |-> TRUE]
RemoveAt(i) == SubSeq(submitted, 1, i - 1) \o SubSeq(submitted, i + 1, Len(submitted))

(* Fault: the semaphore has the width of the widest batch.                    *)
AdmittedByWidest(c) == \E w \in Widths : Cardinality(Busy(BatchOf[c])) < w
Admitted(c) == Cardinality(Busy(BatchOf[c])) < width[BatchOf[c]]

(* _get_executor. Fault: the first executor serves all.                       *)
ExecutorForAll(w) == IF executors = <<>> THEN <<w>> ELSE executors
ExecutorFor(w) ==
  IF executors = <<>> THEN <<w>>
  ELSE IF executors[Current] = w THEN executors ELSE Append(executors, w)

(* The semaphore lets the call in, and it submits its first attempt before    *)
(* anything else runs; or the page is blank.                                  *)
CallBegins(c) ==
  /\ call[c].at = "outside" /\ Admitted(c)
  /\ executors' = ExecutorFor(width[BatchOf[c]])
  /\ \/ /\ call' = [call EXCEPT ![c] = [at |-> "waits", on |-> Len(executors'), attempt |-> 1]]
        /\ submitted' = Append(submitted, Task(c, Len(executors')))
     \/ call' = [call EXCEPT ![c].at = "read"] /\ UNCHANGED submitted
  /\ UNCHANGED <<width, misread>>

(* A thread takes the first task of its executor, also of one that was        *)
(* replaced: shutdown(wait=False) lets it finish what it has.                 *)
RunningOn(e) == {i \in DOMAIN submitted : submitted[i].on = e /\ submitted[i].running}
Queueing(e) == {i \in DOMAIN submitted : submitted[i].on = e /\ ~submitted[i].running}
ThreadTakes(i) ==
  /\ i \in Queueing(submitted[i].on) /\ \A j \in Queueing(submitted[i].on) : i <= j
  /\ Cardinality(RunningOn(submitted[i].on)) < executors[submitted[i].on]
  /\ submitted' = [submitted EXCEPT ![i].running = TRUE]
  /\ UNCHANGED <<width, executors, call, misread>>

ThreadReads(i) ==
  LET c == submitted[i].call IN
    /\ submitted[i].running /\ submitted' = RemoveAt(i)
    /\ call' = IF submitted[i].wanted THEN [call EXCEPT ![c].at = "read"] ELSE call
    /\ UNCHANGED <<width, executors, misread>>

(* No text, little confidence, a loop or an error: the next attempt, which a  *)
(* replaced executor refuses, as it does all that would follow.               *)
ThreadMisreads(i) ==
  LET c == submitted[i].call
      again == call[c].attempt < MaxAttempts /\ call[c].on = Current IN
    /\ submitted[i].running /\ submitted[i].wanted
    /\ misread' = [misread EXCEPT ![c] = @ + 1]
    /\ IF again
         THEN /\ call' = [call EXCEPT ![c].attempt = @ + 1]
              /\ submitted' = Append(RemoveAt(i), Task(c, call[c].on))
         ELSE call' = [call EXCEPT ![c].at = "failed"] /\ submitted' = RemoveAt(i)
    /\ UNCHANGED <<width, executors>>

(* Time runs from the submission. What no thread has taken is cancelled.      *)
TimesOut(i) ==
  LET c == submitted[i].call IN
    /\ submitted[i].wanted /\ call' = [call EXCEPT ![c].at = "late"]
    /\ submitted' = IF submitted[i].running THEN [submitted EXCEPT ![i].wanted = FALSE] ELSE RemoveAt(i)
    /\ UNCHANGED <<width, executors, misread>>

ThreadsInit ==
  /\ width \in [Batch -> Widths] /\ executors = <<>> /\ submitted = <<>>
  /\ call = [c \in OcrCall |-> Outside] /\ misread = [c \in OcrCall |-> 0]
ThreadsNext ==
  \/ \E c \in OcrCall : CallBegins(c)
  \/ \E i \in DOMAIN submitted : ThreadTakes(i) \/ ThreadReads(i) \/ ThreadMisreads(i) \/ TimesOut(i)
ThreadsSpec == ThreadsInit /\ [][ThreadsNext]_threadVars

-----------------------------------------------------------------------------
(* The clock of a call runs only while a thread is reading its page or is     *)
(* free to do so, unless threads are left from calls that ran out of time, or *)
(* calls of another batch use the executor as well.                           *)
OnExecutor(e) == {submitted[i] : i \in RunningOn(e) \cup Queueing(e)}
Shared(e) == \E s, t \in OnExecutor(e) : BatchOf[s.call] # BatchOf[t.call]
Haunted(e) == \E t \in OnExecutor(e) : ~t.wanted
NobodyQueues ==
  \A e \in DOMAIN executors :
    Shared(e) \/ Haunted(e) \/ Cardinality(RunningOn(e) \cup Queueing(e)) <= executors[e]

(* A call waits for exactly one attempt.                                      *)
OneAttempt ==
  \A c \in OcrCall :
    Cardinality({i \in DOMAIN submitted : submitted[i].call = c /\ submitted[i].wanted})
      = IF call[c].at = "waits" THEN 1 ELSE 0

(* A page is given up only after all its attempts, unless the executor was    *)
(* replaced in the meantime.                                                  *)
FailsForACause ==
  \A c \in OcrCall : call[c].at = "failed" => misread[c] = MaxAttempts \/ call[c].on < Current

(* Pages get their time and their attempts.                                   *)
PagesGetTheirChance == NobodyQueues /\ OneAttempt /\ FailsForACause
===============================================================================
