----------------------------- MODULE UndoHistory -----------------------------
(***************************************************************************)
(* What an editor may rely on: a sequence of states with a position in it. *)
(* An edit cuts off what lies ahead and appends, undo and redo move along  *)
(* the sequence, and a session that ends starts a new sequence, either at  *)
(* the state shown (saved) or at the first one (rolled back).  When the    *)
(* history is lost nothing is promised until the session ends.             *)
(***************************************************************************)
EXTENDS Naturals, Sequences

VARIABLES
    shown,      \* what the user sees
    past,       \* the states of this session
    pos,        \* past[pos] is the state shown
    lost        \* something happened after which nothing is promised

vars == <<shown, past, pos, lost>>

Start(s) == shown = s /\ past = <<s>> /\ pos = 1 /\ lost = FALSE

Edit ==
    /\ pos' = pos + 1
    /\ past' = Append(SubSeq(past, 1, pos), shown')

Undo == pos > 1 /\ pos' = pos - 1 /\ past' = past /\ shown' = past[pos']
Redo == pos < Len(past) /\ pos' = pos + 1 /\ past' = past /\ shown' = past[pos']

Save == shown' = shown /\ past' = <<shown>> /\ pos' = 1
Revert == shown' = past[1] /\ past' = <<shown'>> /\ pos' = 1

Keep == ~lost /\ ~lost' /\ (Edit \/ Undo \/ Redo \/ Save \/ Revert)
Lose == lost'
Restart == lost /\ ~lost' /\ past' = <<shown'>> /\ pos' = 1

Next == Keep \/ Lose \/ Restart
Spec == (\E s \in {shown} : Start(s)) /\ [][Next]_vars
=============================================================================
