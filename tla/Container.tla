----------------------------- MODULE Container ------------------------------
(***************************************************************************)
(* What a node promises of the container of one server: it is started only *)
(* when its owner asks, halted, replaced by one of another specification   *)
(* that runs if and only if the old one ran, and removed, each in a single *)
(* step.  A replacement that fails may stop the container, lose it or      *)
(* bring back one that an earlier one lost, and says so.                   *)
(***************************************************************************)
CONSTANTS Specs,        \* image, command, limits and ports of a container
          NoContainer   \* Docker knows no container of this name

VARIABLES box,          \* the server's container, as its owner sees it
          asked,        \* what the owner last asked for: "up", "down" or "gone"
          told          \* how the last replacement ended: "done" or "error"

containerVars == <<box, asked, told>>

BoxInit ==
    /\ box \in [spec : Specs, up : {FALSE}]
    /\ asked = "down"
    /\ told = "done"

Powered(up, word) ==
    /\ box # NoContainer
    /\ box' = [box EXCEPT !.up = up]
    /\ asked' = word
    /\ UNCHANGED told

StartBox == Powered(TRUE, "up")

HaltBox == Powered(FALSE, "down")

RemoveBox ==
    /\ asked # "gone"
    /\ box' = NoContainer
    /\ asked' = "gone"
    /\ UNCHANGED told

\* Up if and only if it was; made anew, at rest, if an earlier one lost it.
ReplaceBox ==
    /\ asked # "gone"
    /\ IF box = NoContainer THEN box' \in [spec : Specs, up : {FALSE}]
       ELSE \E c \in Specs : box' = [box EXCEPT !.spec = c]
    /\ told' \in {told, "done"}
    /\ UNCHANGED asked

FailToReplace ==
    /\ asked # "gone"
    /\ IF box = NoContainer THEN box' \in [spec : Specs, up : BOOLEAN] \cup {NoContainer}
       ELSE box' \in {box, NoContainer, [box EXCEPT !.up = FALSE]}
    /\ told' = "error"
    /\ UNCHANGED asked

BoxNext == StartBox \/ HaltBox \/ RemoveBox \/ ReplaceBox \/ FailToReplace

ContainerSpec == BoxInit /\ [][BoxNext]_containerVars
=============================================================================
