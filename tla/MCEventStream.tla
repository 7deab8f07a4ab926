---------------------------- MODULE MCEventStream ----------------------------
(***************************************************************************)
(* EventStream for TLC: interchangeable chats and one browser page.        *)
(***************************************************************************)
EXTENDS EventStream, TLC

CONSTANTS a, b

ChatSymmetry == Permutations(Chat)
=============================================================================
