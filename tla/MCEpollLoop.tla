---------------------------- MODULE MCEpollLoop ----------------------------
(***************************************************************************)
(* Three handlers for TLC.                                                 *)
(***************************************************************************)
EXTENDS EpollLoop

CONSTANTS h1, h2, h3

ThreeHandlers == {h1, h2, h3}
\* back and forth, and each time so far that time_diff overflows
NearAndFar == {-3, 5, -11, 11}

=============================================================================
