------------------------------- MODULE ChatTurn -------------------------------
(* A question to the chat: the daily limit, counted in Postgres and in Redis, *)
(* the conversation the turn is saved in, and the score a job gives it later. *)
(* One user and one day; several of his questions may be in progress at once, *)
(* and any of them may end at any step, when its client goes away.            *)
EXTENDS Naturals, FiniteSets

CONSTANTS
  Turn,         \* questions the user asks
  Limit,        \* chat_limit_{role}
  MaxCFaults    \* calls of the cache that fail, lost keys, crashes of the worker

ASSUME ChatAssumption == IsFiniteSet(Turn) /\ Limit \in Nat /\ MaxCFaults \in Nat

VARIABLES
  turn,         \* what each request is doing
  conversation, \* "none", "live" or "deleted"; named by the turn it was created for
  message,      \* conversation_messages
  evaluation,   \* rag_evaluations.eval_status
  judge,        \* rag_eval_job of a turn
  used,         \* user_chat_usage.count of today, 0 without a row
  counted,      \* the counter in Redis: {} without the key
  countedTwice,        \* history: a count was cached while the same turn was being counted
  cfaults

countVars == <<used, counted, countedTwice>>
chatVars == <<turn, conversation, message, evaluation, judge, countVars, cfaults>>

NoConv == "no conversation"
Asked(ph, c, n, then) == [phase |-> ph, conv |-> c, count |-> n, then |-> then]
At(t, ph) == turn[t].phase = ph
Goes(t, ph) == turn' = [turn EXCEPT ![t].phase = ph]
CFault == cfaults < MaxCFaults /\ cfaults' = cfaults + 1
Live == {c \in Turn : conversation[c] = "live"}
Stored(t) == \E c \in Turn : \A r \in {"user", "model"} : <<t, r>> \in message[c]

-----------------------------------------------------------------------------
(* The status of the limit: Redis, else Postgres, and then Redis is filled.   *)
(* An error of the cache is a miss.                                           *)
After(t, n) ==
  IF turn[t].then = "end" THEN "done" ELSE IF n < Limit THEN "opens" ELSE "refused"

AsksChat(t, c) ==
  /\ At(t, "new") /\ c \in {NoConv} \cup {d \in Turn : conversation[d] # "none"}
  /\ turn' = [turn EXCEPT ![t] = Asked("checks", c, 0, "open")]
  /\ UNCHANGED <<conversation, message, evaluation, judge, countVars, cfaults>>

Hits(t) ==
  /\ At(t, "checks") /\ \E n \in counted : Goes(t, After(t, n))
  /\ UNCHANGED <<conversation, message, evaluation, judge, countVars, cfaults>>

Misses(t) ==
  /\ At(t, "checks") /\ Goes(t, "reads")
  /\ IF counted = {} THEN UNCHANGED cfaults ELSE CFault
  /\ UNCHANGED <<conversation, message, evaluation, judge, countVars>>

ReadsUsage(t) ==
  /\ At(t, "reads") /\ turn' = [turn EXCEPT ![t].count = used, ![t].phase = "fills"]
  /\ UNCHANGED <<conversation, message, evaluation, judge, countVars, cfaults>>

Backfills(t) ==
  /\ At(t, "fills")
  /\ turn' = [turn EXCEPT ![t].phase = After(t, turn[t].count), ![t].count = 0]
  /\ \/ counted' = {turn[t].count} /\ UNCHANGED cfaults
        /\ countedTwice' = (countedTwice \/ \E u \in Turn \ {t} : At(u, "increments"))
     \/ CFault /\ UNCHANGED <<counted, countedTwice>>
  /\ UNCHANGED <<conversation, message, evaluation, judge, used>>

-----------------------------------------------------------------------------
(* The turn                                                                   *)
(* A conversation that is deleted, or unknown, is replaced by a new one.      *)
OpensConversation(t) ==
  /\ At(t, "opens")
  /\ \/ turn[t].conv \in Live /\ Goes(t, "answers") /\ UNCHANGED conversation
     \/ /\ turn[t].conv \notin Live
        /\ conversation' = [conversation EXCEPT ![t] = "live"]
        /\ turn' = [turn EXCEPT ![t].conv = t, ![t].phase = "answers"]
  /\ UNCHANGED <<message, evaluation, judge, countVars, cfaults>>

(* Retrieval and synthesis, see RetrievalScope.                               *)
Synthesises(t) ==
  /\ At(t, "answers") /\ \E ph \in {"evaluates", "failed"} : Goes(t, ph)
  /\ UNCHANGED <<conversation, message, evaluation, judge, countVars, cfaults>>

Evaluates(t) ==
  /\ At(t, "evaluates")
  /\ \/ evaluation' = [evaluation EXCEPT ![t] = "queued"] /\ Goes(t, "enqueues")
     \/ evaluation' = [evaluation EXCEPT ![t] = "skipped"] /\ Goes(t, "question")
  /\ UNCHANGED <<conversation, message, judge, countVars, cfaults>>

(* An error is only logged: the evaluation stays queued.                      *)
EnqueuesJudge(t) ==
  /\ At(t, "enqueues") /\ Goes(t, "question")
  /\ \/ judge' = [judge EXCEPT ![t] = "queued"] /\ UNCHANGED cfaults
     \/ CFault /\ UNCHANGED judge
  /\ UNCHANGED <<conversation, message, evaluation, countVars>>

(* Each message is a commit. Nobody looks whether the conversation has been   *)
(* deleted meanwhile.                                                         *)
AddsMessage(t, role, from, to) ==
  /\ At(t, from) /\ Goes(t, to)
  /\ message' = [message EXCEPT ![turn[t].conv] = @ \cup {<<t, role>>}]
  /\ UNCHANGED <<conversation, evaluation, judge, countVars, cfaults>>

(* Fault: the turn is charged before it is saved.                             *)
SavesTurnLate(t) ==
  \/ AddsMessage(t, "user", "question", "charges")
  \/ AddsMessage(t, "model", "answer", "done")
SavesTurn(t) ==
  \/ AddsMessage(t, "user", "question", "answer")
  \/ AddsMessage(t, "model", "answer", "charges")

-----------------------------------------------------------------------------
(* The count: the row is read and written back by the session, without a lock *)
(* and without an atomic increment.                                           *)
ReadsCount(t) ==
  /\ At(t, "charges") /\ turn' = [turn EXCEPT ![t].count = used, ![t].phase = "writes"]
  /\ UNCHANGED <<conversation, message, evaluation, judge, countVars, cfaults>>

(* Of two first rows the second violates the key of the table: the client     *)
(* gets an error for an answer that is saved.                                 *)
WritesCount(t) ==
  /\ At(t, "writes")
  /\ IF turn[t].count = 0 /\ used # 0
     THEN Goes(t, "failed") /\ UNCHANGED used
     ELSE /\ used' = turn[t].count + 1
          /\ turn' = [turn EXCEPT ![t].phase = "increments", ![t].count = 0]
  /\ UNCHANGED <<conversation, message, evaluation, judge, counted, countedTwice, cfaults>>

(* INCR of a missing key starts at 1, whatever Postgres says.                 *)
Increments(t) ==
  /\ At(t, "increments")
  /\ turn' = [turn EXCEPT ![t].phase = "checks", ![t].then = "end"]
  /\ \/ /\ counted' = IF counted = {} THEN {1} ELSE {n + 1 : n \in counted}
        /\ UNCHANGED cfaults
     \/ CFault /\ UNCHANGED counted
  /\ UNCHANGED <<conversation, message, evaluation, judge, used, countedTwice>>

-----------------------------------------------------------------------------
(* The client closes the stream, or the backend stops.                        *)
OverWith == {"new", "done", "refused", "failed", "gone"}
ClientGoes(t) ==
  /\ turn[t].phase \notin OverWith
  /\ turn' = [turn EXCEPT ![t] = Asked("gone", NoConv, 0, "end")]
  /\ UNCHANGED <<conversation, message, evaluation, judge, countVars, cfaults>>

CountIsLost ==
  /\ counted # {} /\ counted' = {} /\ CFault
  /\ UNCHANGED <<turn, conversation, message, evaluation, judge, used, countedTwice>>

DeletesConversation(c) ==
  /\ conversation[c] = "live" /\ conversation' = [conversation EXCEPT ![c] = "deleted"]
  /\ UNCHANGED <<turn, message, evaluation, judge, countVars, cfaults>>

Judges(t) ==
  /\ judge[t] = "queued"
  /\ \E v \in {"completed", "failed"} : evaluation' = [evaluation EXCEPT ![t] = v]
  /\ \/ judge' = [judge EXCEPT ![t] = "done"] /\ UNCHANGED cfaults
     \/ CFault /\ UNCHANGED judge      \* the worker dies, and the job is delivered again
  /\ UNCHANGED <<turn, conversation, message, countVars>>

-----------------------------------------------------------------------------
ChatInit ==
  /\ turn = [t \in Turn |-> Asked("new", NoConv, 0, "open")]
  /\ conversation = [c \in Turn |-> "none"] /\ message = [c \in Turn |-> {}]
  /\ evaluation = [t \in Turn |-> "none"] /\ judge = [t \in Turn |-> "none"]
  /\ used = 0 /\ counted = {} /\ countedTwice = FALSE /\ cfaults = 0

ChatStep(t) ==
  \/ \E c \in Turn \cup {NoConv} : AsksChat(t, c)
  \/ Hits(t) \/ Misses(t) \/ ReadsUsage(t) \/ Backfills(t)
  \/ OpensConversation(t) \/ Synthesises(t) \/ Evaluates(t) \/ EnqueuesJudge(t) \/ SavesTurn(t)
  \/ ReadsCount(t) \/ WritesCount(t) \/ Increments(t) \/ ClientGoes(t) \/ Judges(t)
ChatNext ==
  \/ \E t \in Turn : ChatStep(t) \/ DeletesConversation(t)
  \/ CountIsLost
ChatSpec == ChatInit /\ [][ChatNext]_chatVars

-----------------------------------------------------------------------------
(* A user is told that he has reached his limit only if so many of his        *)
(* answers of today are in his conversations: a turn that failed, that its    *)
(* client left or that was refused costs nothing, although the count is kept  *)
(* in two places, without a transaction, and filled in again when one of them *)
(* is lost. Exempt is the one race that counts a turn twice: a count read      *)
(* after its row was written is cached before its INCR (chat_router.py:88).   *)
RefusalIsDeserved ==
  (\E t \in Turn : At(t, "refused")) /\ ~countedTwice => Cardinality({t \in Turn : Stored(t)}) >= Limit
=============================================================================
