----------------------------- MODULE Transcript -----------------------------
(***************************************************************************)
(* What the persisted scrollback promises of each pane, whatever processes, *)
(* crashes and collections do: the transcript a restart would show grows by *)
(* one new block at its end, or loses blocks.  Nothing is shown twice or in *)
(* another order, and what is gone stays gone.                              *)
(***************************************************************************)
EXTENDS Sequences, Sublist

CONSTANTS Panes, Blocks

VARIABLES
  out,    \* the blocks a restart would show, of each pane
  used    \* the blocks that have ever been shown

Init == out = [r \in Panes |-> <<>>] /\ used = {}

Show(r, b) ==
  /\ b \notin used
  /\ out' = [out EXCEPT ![r] = Append(@, b)]
  /\ used' = used \cup {b}

Forget(r, kept) ==
  /\ out' = [out EXCEPT ![r] = Keep(@, {i \in DOMAIN @ : @[i] \in kept})]
  /\ UNCHANGED used

Next == \E r \in Panes :
  \/ \E b \in Blocks : Show(r, b)
  \/ \E kept \in SUBSET Blocks : Forget(r, kept)

Spec == Init /\ [][Next]_<<out, used>>
=============================================================================
