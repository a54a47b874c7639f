----------------------------- MODULE Transcript -----------------------------
(***************************************************************************)
(* What a run of a program promises its reader: lines are shown one after  *)
(* the other and none is taken back, and when the run is over the lines    *)
(* shown are those the program means.                                      *)
(***************************************************************************)
EXTENDS Sequences, Naturals

VARIABLES meaning, out, over

Init == out = <<>> /\ ~over

Show ==
    /\ ~over
    /\ Len(out') = Len(out) + 1 /\ SubSeq(out', 1, Len(out)) = out
    /\ UNCHANGED over

Finish == ~over /\ over' /\ UNCHANGED out /\ out = meaning

Spec == Init /\ [][Show \/ Finish]_<<out, over>>
=============================================================================
