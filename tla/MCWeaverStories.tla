-------------------------- MODULE MCWeaverStories --------------------------
(* A caller and a poller on one weaver, in four stories.                   *)
EXTENDS MCAsyncWeaver

\* What c1 does in a behaviour, while c2 polls: it asks for lens modes, of an async or a
\* sync lens, it moves the window, or it polls too while the platform restarts.
VARIABLE story
Stories == {"async", "sync", "window", "restart"}

\* Bounds: a lens only in the stories about one, a second window only in its story, a
\* platform that is down only where it restarts; and where the lens thread runs, one
\* worker identity and stamps from SR only.
Small ==
    /\ asyncLens = (story # "sync")
    /\ story \in {"window", "restart"} => lens = "absent"
    /\ story # "window" => bound = h1
    /\ story # "restart" => up
    /\ story = "async" => pc[w2] = "idle" /\ generation.source # "scm"

StoryNext ==
    /\ \/ story = "restart" /\ (PlatformStep \/ Poll(c1))
       \/ \E wish \in Modes : story \in {"async", "sync"} /\ Request(c1, wish)
       \/ \E h \in Windows : story = "window" /\ SetWindow(c1, h)
       \/ Poll(c2)
       \/ \E c \in Callers : CallerStep(c)
       \/ \E w \in Workers : WorkerStep(w)
       \/ LensStep
       \/ Destroy \/ DestroyStep
    /\ UNCHANGED story
    /\ Small'
StoryInit == Init /\ story \in Stories /\ Small
StorySpec == StoryInit /\ [][StoryNext]_<<vars, story>> /\ Fairness
=============================================================================
