-------------------------------- MODULE Client --------------------------------
(* What the desktop client promises: the sessions, their copies in memory and  *)
(* the queue, and the threads that recognise pages. The two share no state.    *)
EXTENDS DesktopOcr, OcrThreads

(* In the desktop client nobody works on a second instance of a session, what  *)
(* readers save stays, and a page is given up only for a cause of its own.     *)
ClientIsSound == SessionsAreSound /\ PagesGetTheirChance
===============================================================================
