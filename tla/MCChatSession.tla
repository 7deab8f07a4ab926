--------------------------- MODULE MCChatSession ---------------------------
(* Instances of ChatSession for TLC. *)
EXTENDS ChatSession, TLC

CONSTANTS c1, c2, k1

\* Two chats in one primary checkout.
MCSharedCheckout == [c \in Chat |-> k1]
\* One chat of its own managed worktree.
MCNoCheckout == [c \in Chat |-> NoCheckout]

\* Task and process names are interchangeable (safety runs only).
MCSymmetry == Permutations(Task) \cup Permutations(Proc)
=============================================================================
