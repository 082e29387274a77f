---------------------------- MODULE MC_PollSet ----------------------------
(* Three validators, samples of two, two containers: enough for a poll to   *)
(* finish early by alpha, finish by timeouts, or finish behind an older,    *)
(* unfinished poll; three polls so that two may wait behind a third.        *)
EXTENDS PollSet

CONSTANTS v1, v2, v3, c1, c2

MCValidators == {v1, v2, v3}
MCContainers == {c1, c2}
=============================================================================
