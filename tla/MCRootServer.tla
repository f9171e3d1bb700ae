---------------------------- MODULE MCRootServer ----------------------------
(* TLC instances of RootServer.                                            *)
EXTENDS RootServer, TLC

CONSTANTS t1, t2   \* model values

TwoThreads == {t1, t2}
Symmetry == Permutations(TwoThreads)

ThreadRequest(op, badges) == [op : {op}, badge : badges]
Plain(op) == [op |-> op, badge |-> None]

(* None stands for a badge that no thread has.                             *)
AllRequests ==
  {Plain("KMalloc"), Plain("MMap"), Plain("Debug")}
    \cup ThreadRequest("Suspend", TwoThreads \cup {None})
    \cup ThreadRequest("Resume", TwoThreads)
    \cup ThreadRequest("SetPriority", TwoThreads)

(* Without the requests that only take the server's time.                  *)
DisturbingRequests ==
  {Plain("KMalloc")}
    \cup ThreadRequest("Suspend", TwoThreads)
    \cup ThreadRequest("Resume", TwoThreads)
    \cup ThreadRequest("SetPriority", TwoThreads)
=============================================================================
