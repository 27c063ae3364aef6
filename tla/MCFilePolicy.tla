---------------------------- MODULE MCFilePolicy ----------------------------
(* Three releases of a plan's policy and two of the shared one.  The       *)
(* plan's third drops outbound and data; the second shared one swaps a      *)
(* library for another and drops outbound.                                  *)
EXTENDS FilePolicy

Libraries == {"a", "b"}

ThreePlanReleases ==
    <<[inbound |-> 1, outbound |-> 1, data |-> 1],
      [inbound |-> 2, outbound |-> 2, data |-> 2],
      [inbound |-> 2, outbound |-> 0, data |-> 0]>>

TwoSharedReleases ==
    <<[inbound |-> 1, outbound |-> 1, a |-> 1, b |-> 0],
      [inbound |-> 2, outbound |-> 0, a |-> 0, b |-> 1]>>
==============================================================================
