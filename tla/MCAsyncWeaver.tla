--------------------------- MODULE MCAsyncWeaver ---------------------------
(* Small instances of AsyncWeaver for TLC.                                 *)
EXTENDS AsyncWeaver

CONSTANTS c1, c2, w1, w2, h1, h2

MCOneCaller  == {c1}
MCTwoCallers == {c1, c2}
MCOneWorker  == {w1}
MCTwoWorkers == {w1, w2}
MCWindows    == {h1, h2}
MCOneWindow  == {h1}

\* No exception gets past the handler around the lens thread's call.
SureSpec == Init /\ [][Next /\ lpc' # "aborted"]_vars
=============================================================================
