------------------------- MODULE MCContainerRebuild -------------------------
(* Small instances of ContainerRebuild for TLC. *)
EXTENDS ContainerRebuild

MCRegimes ==
    {[overlap |-> "power", faults |-> {"calls", "crash", "abort"}],
     [overlap |-> "none", faults |-> {"calls", "abort"}]}
=============================================================================
