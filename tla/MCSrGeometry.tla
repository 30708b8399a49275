---------------------------- MODULE MCSrGeometry ----------------------------
(* Small instances of SrGeometry for TLC.                                  *)
EXTENDS SrGeometry, TLC

CONSTANTS panelA, panelB, c1, w1, w2, r1

MCPanels     == {panelA, panelB}
MCOnePanel   == {panelA}
MCClients    == {c1}
MCWatchers   == {w1, w2}
MCRefreshers == {r1}

\* The two panels stand on the same desktop rect: their swap does not change the
\* topology signature.
MCSignatureOf == [p \in Panels \cup {NoPanel} |-> IF p = NoPanel THEN "none" ELSE "rect"]

\* No definition tells the two panels, or two watchers, apart.
MCSymmetry == Permutations(MCPanels) \cup Permutations(MCWatchers)

\* The instance of the run that states safety and liveness together, with bounds of its
\* own: the panel is there at the start and SR has identified it or not yet; the claims'
\* re-probe comes before the first event, and after that event the only one left is a
\* panel that is plugged in again; of two watchers the first is taken first.
PlugsAgain  == \E p \in Panels : Replug(p)
ReProbes    == \E r \in Refreshers : Probe(r)
Starts(w)   == pc[w] = "idle" /\ pc'[w] # "idle"

SmallNext ==
    /\ Next
    /\ events = 1 /\ events' = 2 => PlugsAgain
    /\ ReProbes => events = 0
    /\ Starts(w2) => pc[w1] # "idle"

SmallInit == Init /\ panel = panelA
SmallSpec == SmallInit /\ [][SmallNext]_vars /\ Fairness
=============================================================================
