-------------------------- MODULE MCCaptureStories --------------------------
(* A display processor whose application uses one of its two setters.      *)
EXTENDS MCBgCapture

\* It turns the transparency off and on again with set_transparent_background, or leaves
\* that on and uses set_transparency_active.  Bound: one event in the second story.
VARIABLE story
Stories == {"background", "active"}

StoryNext ==
    /\ Next
    /\ story = "background" => active'
    /\ story = "active" => (enabled => enabled') /\ events' > 0
    /\ UNCHANGED story

StoryInit == Init /\ story \in Stories
StorySpec == StoryInit /\ [][StoryNext]_<<vars, story>> /\ Fairness
=============================================================================
