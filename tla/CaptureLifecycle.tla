-------------------------- MODULE CaptureLifecycle --------------------------
(***************************************************************************)
(* What the Linux display processor promises about its desktop captures,   *)
(* whatever its threads do: each one is started by the worker, shown or    *)
(* discarded, laid to rest while the GPU may still sample it, stopped, and *)
(* ended once.  No capture is started beside a shown or a started one, and *)
(* none ends while a frame on the GPU samples it.  BgCapture implements    *)
(* this specification.                                                     *)
(***************************************************************************)
CONSTANT Captures    \* identities of capture sessions

VARIABLES
    stage,      \* per capture: where it is in its life
    busy        \* the captures some frame on the GPU may be sampling

lifeVars == <<stage, busy>>

Stages == {"none", "started", "shown", "resting", "stopping"}

In(s) == {c \in Captures : stage[c] = s}

Init == stage = [c \in Captures |-> "none"] /\ busy = {}

\* The captures of S move to stage s.
Move(S, s) == stage' = [c \in Captures |-> IF c \in S THEN s ELSE stage[c]]

Start(c) ==
    /\ stage[c] = "none" /\ In("started") \cup In("shown") = {}
    /\ Move({c}, "started") /\ UNCHANGED busy

Show(c) == stage[c] = "started" /\ Move({c}, "shown") /\ UNCHANGED busy

Sample(c) == stage[c] = "shown" /\ busy' = busy \cup {c} /\ UNCHANGED stage

Rest(c) == stage[c] \in {"started", "shown"} /\ Move({c}, "resting") /\ UNCHANGED busy

\* A new frame begins: older frames leave the GPU, rested captures are stopped.
NewFrame ==
    \E S \in SUBSET In("resting") : Move(S, "stopping") /\ busy' \subseteq busy

\* The display processor goes away, the GPU idle: the shown capture is stopped,
\* the resting ones follow by NewFrame.
Close == Move(In("shown"), "stopping") /\ busy' = {}

Abandon(c) == stage[c] = "started" /\ Move({c}, "stopping") /\ UNCHANGED busy

End(c) ==
    /\ stage[c] = "stopping" /\ c \notin busy
    /\ Move({c}, "none") /\ UNCHANGED busy

Next ==
    \/ NewFrame \/ Close
    \/ \E c \in Captures :
          Start(c) \/ Show(c) \/ Sample(c) \/ Rest(c) \/ Abandon(c) \/ End(c)

Spec == Init /\ [][Next]_lifeVars
=============================================================================
