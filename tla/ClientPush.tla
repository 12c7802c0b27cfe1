------------------------------ MODULE ClientPush ------------------------------
(* The desktop client sends a book to the server: the whole file with its     *)
(* pages when it knows of no book there, and otherwise page after page as     *)
(* corrections. Texts are numbered in the order in which they were written.   *)
EXTENDS Naturals

CONSTANTS
  Leaf,        \* pages of the book, 1 .. n
  MaxTexts,    \* texts ever written, by the client or on the server
  MaxBooks,    \* times the book was made on the server
  MaxToggles,  \* times the user marks the session
  MaxPFaults   \* lost requests and answers

ASSUME PushAssumption ==
  /\ MaxTexts \in Nat /\ MaxBooks \in Nat /\ MaxToggles \in Nat /\ MaxPFaults \in Nat
  /\ Leaf \subseteq Nat \ {0} /\ \A p \in Leaf : 1 .. p \subseteq Leaf

VARIABLES
  server,   \* the book with this content: its id, 0 when there is none, and its texts
  onDisk,   \* pages.json: the texts of the client
  work,     \* book.json: book_id, 0 for None, and uploaded
  push,     \* push_response: phase, texts to send, next page
  sent,     \* history: the texts of the last push that ended well
  taken,    \* history: the server had the book and took no text of the last push
  texts, made, toggles, pfaults

pushVars == <<server, onDisk, work, push, sent, taken, texts, made, toggles, pfaults>>

NoTexts == [p \in Leaf |-> 0]
NoPush == [phase |-> "idle", pages |-> NoTexts, next |-> 1]
PFault == pfaults < MaxPFaults /\ pfaults' = pfaults + 1
Named == work.book # 0 /\ server.book = work.book
WritesText == texts < MaxTexts /\ texts' = texts + 1
Makes(t) == /\ made < MaxBooks /\ made' = made + 1
            /\ server' = [book |-> made + 1, text |-> t]

-----------------------------------------------------------------------------
LocalEdit(p) ==
  /\ WritesText /\ onDisk' = [onDisk EXCEPT ![p] = texts + 1]
  /\ UNCHANGED <<server, work, push, sent, taken, made, toggles, pfaults>>

WebEdit(p) ==
  /\ server.book # 0 /\ WritesText /\ server' = [server EXCEPT !.text[p] = texts + 1]
  /\ UNCHANGED <<onDisk, work, push, sent, taken, made, toggles, pfaults>>

WebDeletes ==
  /\ server.book # 0 /\ server' = [book |-> 0, text |-> NoTexts]
  /\ UNCHANGED <<onDisk, work, push, sent, taken, texts, made, toggles, pfaults>>

(* Somebody else uploads the same file.                                       *)
WebUploads ==
  /\ server.book = 0 /\ Makes(NoTexts)
  /\ UNCHANGED <<onDisk, work, push, sent, taken, texts, toggles, pfaults>>

(* toggle_session_uploaded                                                    *)
Toggles ==
  /\ toggles < MaxToggles /\ toggles' = toggles + 1
  /\ work' = IF work.uploaded THEN [book |-> 0, uploaded |-> FALSE]
             ELSE [work EXCEPT !.uploaded = TRUE]
  /\ sent' = NoTexts
  /\ UNCHANGED <<server, onDisk, push, taken, texts, made, pfaults>>

-----------------------------------------------------------------------------
(* push_response: the texts are taken once, edits go on meanwhile.            *)
PushBegins ==
  /\ push = NoPush
  /\ push' = [phase |-> IF work.book = 0 THEN "new" ELSE "asks", pages |-> onDisk, next |-> 1]
  /\ UNCHANGED <<server, onDisk, work, sent, taken, texts, made, toggles, pfaults>>

(* book_exists: 404 and any other error of the server mean no, an error of    *)
(* the connection means yes.                                                  *)
SaysYes == push' = [push EXCEPT !.phase = "corrects"] /\ UNCHANGED work
SaysNo == push' = [push EXCEPT !.phase = "new"] /\ work' = [book |-> 0, uploaded |-> FALSE]
AsksForBook ==
  /\ push.phase = "asks"
  /\ \/ /\ UNCHANGED pfaults
        /\ IF Named THEN SaysYes ELSE SaysNo
     \/ PFault /\ (SaysYes \/ SaysNo)
  /\ UNCHANGED <<server, onDisk, sent, taken, texts, made, toggles>>

Ended(b) == work' = [book |-> b, uploaded |-> TRUE] /\ sent' = push.pages /\ push' = NoPush

(* push_new_book: upload_pdf_ocrd makes a book of all pages, or answers       *)
(* "existing" when it knows the content.                                      *)
SendsBook ==
  /\ push.phase = "new"
  /\ IF server.book = 0 THEN Makes(push.pages) /\ Ended(made + 1) /\ taken' = FALSE
     ELSE Ended(server.book) /\ taken' = TRUE /\ UNCHANGED <<server, made>>
  /\ UNCHANGED <<onDisk, texts, toggles, pfaults>>

(* The server may have made the book although the client never hears of it.   *)
LosesBook ==
  /\ push.phase = "new" /\ PFault /\ push' = NoPush
  /\ \/ UNCHANGED <<server, made>>
     \/ server.book = 0 /\ Makes(push.pages)
  /\ UNCHANGED <<onDisk, work, sent, taken, texts, toggles>>

(* push_page_correction: two requests, the text first.                        *)
SendsPage ==
  /\ push.phase = "corrects" /\ push.next \in Leaf /\ Named
  /\ server' = [server EXCEPT !.text[push.next] = push.pages[push.next]]
  /\ push' = [push EXCEPT !.next = @ + 1]
  /\ UNCHANGED <<onDisk, work, sent, taken, texts, made, toggles, pfaults>>

(* A page that is refused ends the push. Fault: the next page is sent.        *)
GoesOn == [push EXCEPT !.next = @ + 1]
Stops == NoPush
LosesPage ==
  /\ push.phase = "corrects" /\ push.next \in Leaf /\ PFault /\ push' = Stops
  /\ \/ UNCHANGED server
     \/ /\ Named
        /\ server' = [server EXCEPT !.text[push.next] = push.pages[push.next]]
  /\ UNCHANGED <<onDisk, work, sent, taken, texts, made, toggles>>

(* 404: the book went during the push, and is sent as a new one, unless the   *)
(* session was unmarked meanwhile.                                            *)
MissesBook ==
  /\ push.phase = "corrects" /\ push.next \in Leaf /\ ~Named
  /\ IF work.book # 0 THEN SaysNo ELSE push' = NoPush /\ UNCHANGED work
  /\ UNCHANGED <<server, onDisk, sent, taken, texts, made, toggles, pfaults>>

EndsPush ==
  /\ push.phase = "corrects" /\ push.next \notin Leaf
  /\ Ended(work.book) /\ taken' = FALSE
  /\ UNCHANGED <<server, onDisk, texts, made, toggles, pfaults>>

-----------------------------------------------------------------------------
PushInit ==
  /\ server = [book |-> 0, text |-> NoTexts] /\ onDisk = [p \in Leaf |-> 1]
  /\ work = [book |-> 0, uploaded |-> FALSE] /\ push = NoPush /\ sent = NoTexts
  /\ taken = FALSE /\ texts = 1 /\ made = 0 /\ toggles = 0 /\ pfaults = 0

PushNext ==
  \/ \E p \in Leaf : LocalEdit(p) \/ WebEdit(p)
  \/ WebDeletes \/ WebUploads \/ Toggles \/ PushBegins \/ AsksForBook \/ SendsBook \/ LosesBook
  \/ SendsPage \/ LosesPage \/ MissesBook \/ EndsPush
PushSpec == PushInit /\ [][PushNext]_pushVars

-----------------------------------------------------------------------------
(* When the client shows a session as uploaded, the book it names holds every *)
(* text of the push that ended well, or a later one, whatever requests were   *)
(* lost and whoever edited or deleted the book meanwhile. Exempt is a push    *)
(* that the server answered with "existing": it takes no text, and the client *)
(* shows the session as uploaded all the same.                                *)
PushedTextIsThere ==
  work.uploaded /\ ~taken /\ Named
    => \A p \in Leaf : server.text[p] >= sent[p]
=============================================================================
