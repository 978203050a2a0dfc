----------------------------- MODULE BlockList ------------------------------
(* What the list of applications that may not show toasts promises its       *)
(* users: one application at a time is blocked or let go, what is remembered *)
(* is always the whole list as it once was, and a restart goes back to what  *)
(* is remembered, never to anything else.                                    *)
CONSTANT Apps

VARIABLES blocked, saved

blockListVars == <<blocked, saved>>

\* The list may have been saved by an earlier process.
BlockListInit == blocked \in SUBSET Apps /\ saved = blocked

Block(a)   == blocked' = blocked \cup {a} /\ UNCHANGED saved
Unblock(a) == blocked' = blocked \ {a} /\ UNCHANGED saved
Save       == saved' = blocked /\ UNCHANGED blocked
Recover    == blocked' = saved /\ UNCHANGED saved

BlockListNext ==
    \/ \E a \in Apps : Block(a) \/ Unblock(a)
    \/ Save
    \/ Recover

BlockListSpec == BlockListInit /\ [][BlockListNext]_blockListVars
=============================================================================
