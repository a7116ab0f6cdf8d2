------------------------------- MODULE MCTools -------------------------------
(* Instances of Tools for TLC. *)
EXTENDS Tools

Cmd(w, e, l) == [writes |-> w, ending |-> e, leaves |-> l]

\* Small, large on both streams, hanging, exiting, printing the
\* sentinel itself, leaving a process behind.
MCProgram ==
  {Cmd(<<"out", "err">>, "returns", FALSE), Cmd(<<"err", "err", "err", "out", "out">>, "returns", FALSE),
   Cmd(<<"out">>, "hangs", FALSE),
   Cmd(<<>>, "exits", FALSE), Cmd(<<"sentinel", "out">>, "returns", FALSE),
   Cmd(<<>>, "returns", TRUE)}

MCBudgets == {[bash |-> 3, edit |-> 0], [bash |-> 1, edit |-> 2], [bash |-> 0, edit |-> 4]}
=============================================================================
