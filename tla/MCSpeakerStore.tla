--------------------------- MODULE MCSpeakerStore ----------------------------
(* Speakers and clone requests for SpeakerStore. *)
EXTENDS SpeakerStore, TLC

CONSTANTS alice, bob, c1, c2

\* Two clones of one speaker.
OneName == c1 :> alice @@ c2 :> alice

SingleClone == c1 :> alice
=============================================================================
