-------------------------------- MODULE MCShell --------------------------------
(* A small instance of Shell. *)
EXTENDS Shell

Cmd(words, bg, rd, w) ==
    [num_parse |-> words, bg_flag |-> bg, rd_flag |-> rd, word |-> w, number |-> NoNumber]
Wait(n) == [Cmd(2, 0, 0, "wait") EXCEPT !.number = n]

\* "sleep", "sleep &", "ls > f", "jobs", "jobs &" (still the built-in), "exit",
\* "> &", "wait x" and "wait 0" to "wait 3".
MCLines ==
    {Cmd(1, 0, 0, "other"), Cmd(2, 1, 0, "other"), Cmd(2, 0, 1, "other"),
     Cmd(1, 0, 0, "jobs"), Cmd(2, 1, 0, "jobs"), Cmd(1, 0, 0, "exit"),
     Cmd(1, 1, 1, "other"), Wait(NoNumber)}
      \cup {Wait(n) : n \in 0 .. 3}
===============================================================================
