----------------------------- MODULE MCPageFetch -----------------------------
(***************************************************************************)
(* An instance of PageFetch for TLC: two addresses on two hosts, so that a *)
(* redirect changes the robots file that counts, and two contents.         *)
(***************************************************************************)
EXTENDS PageFetch

MCHostOf == [u \in Urls |-> IF u = "u1" THEN "h1" ELSE "h2"]
=============================================================================
