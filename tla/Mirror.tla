-------------------------------- MODULE Mirror -------------------------------
(***************************************************************************)
(* What a screen over changing data promises: it only ever shows what the  *)
(* data were at some moment, it never goes back, and while it is behind it *)
(* will be brought forward.                                                *)
(***************************************************************************)
EXTENDS Naturals

CONSTANT MaxVersion   \* the bound on changes
VARIABLES version,    \* of the data; the first is 1
          shown       \* the version on the screen, 0 before there is one

Init == version = 1 /\ shown = 0

Change == version < MaxVersion /\ version' = version + 1 /\ UNCHANGED shown

Show == shown' \in (shown + 1) .. version /\ UNCHANGED version

Next == Change \/ Show

Spec == Init /\ [][Next]_<<version, shown>> /\ WF_<<version, shown>>(Show)

=============================================================================
