-------------------------- MODULE MCNotifications --------------------------
(* Two processes, three sequence numbers of a counter that wraps at four,   *)
(* the command lines of every kind.                                         *)
EXTENDS Notifications, TLC
Line(cmd, all, autoremove, args) == [cmd |-> cmd, all |-> all, autoremove |-> autoremove, args |-> args]
MCCommands ==
    {Line("process", TRUE, r, <<>>) : r \in BOOLEAN}
    \cup {Line("process", FALSE, r, <<1, Junk, 6>>) : r \in BOOLEAN}
    \cup {Line("remove", TRUE, FALSE, <<>>), Line("remove", FALSE, FALSE, <<2, 2>>)}
    \cup {Line("dump", TRUE, FALSE, <<>>)}
    \cup {Line("replay", FALSE, FALSE, input) : input \in {<<>>, <<Junk, 1>>, <<Junk, NotJson>>}}
Interchangeable == Permutations(Procs)
=============================================================================
