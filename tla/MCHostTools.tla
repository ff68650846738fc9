---------------------------- MODULE MCHostTools -----------------------------
(***************************************************************************)
(* Instances of HostTools for TLC.                                         *)
(***************************************************************************)
EXTENDS HostTools

\* A speed at which the longest pause can be refreshed twice, and two at
\* which only the last frame's margin matters.
MCFast   == [hold |-> 3, write |-> 1]
MCSlow   == [hold |-> 11, write |-> 2]
MCSpeeds == {<<MCSlow>>, <<MCFast, MCFast>>}

MCIds == <<"VER">>
=============================================================================
