---------------------------- MODULE Notifications ----------------------------
(***************************************************************************)
(* `lpac notification process`, `remove`, `dump` and `replay`: working off *)
(* the notifications an eUICC keeps until they are removed.  With -a the   *)
(* list is read once and then walked, while other lpac processes, and      *)
(* profile operations that create notifications, go on; without -a the     *)
(* sequence numbers come from the command line.  replay takes its          *)
(* notifications from the lines of its input, as dump prints them.         *)
(***************************************************************************)
EXTENDS Integers, Sequences, FiniteSets

CONSTANTS
    Procs,      \* lpac processes
    Numbers,    \* sequence numbers the eUICC gives
    Commands,   \* command lines: [cmd, all, autoremove, args]; for replay args
                \* is the input, a line being the number of its notification
    NumMod,     \* number of values of the uint32_t seqNumber (2^32 in the code)
    MaxFaults   \* bound: exchanges that fail, over all processes

\* Stands for an argument that strtoul does not convert.
Junk == -1

\* A line of input that is no JSON; Junk is one that is no notification of this
\* eUICC.
NotJson == -2

ASSUME CommandsAssumption ==
    /\ Numbers \subseteq 0..NumMod - 1 /\ NumMod \in Nat \ {0} /\ MaxFaults \in Nat
    /\ \A c \in Commands :
          /\ c.cmd \in {"process", "remove", "dump", "replay"} /\ c.all \in BOOLEAN /\ c.autoremove \in BOOLEAN
          /\ c.autoremove => c.cmd = "process"
          /\ c.args \in Seq(Nat \cup {Junk, NotJson})
          /\ c.cmd = "replay" => ~c.all /\ c.args \in Seq(0..NumMod - 1 \cup {Junk, NotJson})

VARIABLES
    line,       \* the command line of a process
    pc,         \* what it does next
    todo,       \* the snapshot of the list, or the arguments
    rptr,       \* position in todo; 0 is the uninitialised rptr of -a
    fret,       \* "none", then "ok" or "err"
    pending,    \* eUICC: notifications kept
    unborn,     \* eUICC: numbers not given to a notification yet
    acked,      \* servers: notifications handled
    faults,     \* exchanges that failed so far
    dropped,    \* history: [by |-> command, n |-> number] of each removal
    alone       \* history: nothing failed and nobody else acted since the start

hostVars == <<line, pc, todo, rptr, fret>>
vars == <<hostVars, pending, unborn, acked, faults, dropped, alone>>

None == [cmd |-> "none", all |-> FALSE, autoremove |-> FALSE, args |-> <<>>]

\* Every variable keeps its type; in particular a sequence number taken from the
\* command line is a uint32_t and the walk stays within the list.
TypeOK ==
    /\ line \in [Procs -> Commands \cup {None}]
    /\ pc \in [Procs -> {"start", "eid", "list", "loop", "parse", "retrieve", "handle", "remove", "free", "done", "crashed", "killed"}]
    /\ \A p \in Procs : \A i \in 1..Len(todo[p]) :
          todo[p][i] \in 0..NumMod - 1 \cup {Junk} \cup IF line[p].cmd = "replay" THEN {NotJson} ELSE {}
    /\ \A p \in Procs : rptr[p] \in 0..Len(todo[p]) + 1
    /\ fret \in [Procs -> {"none", "ok", "err"}]
    /\ pending \subseteq Numbers /\ unborn \subseteq Numbers /\ pending \cap unborn = {}
    /\ acked \subseteq Numbers /\ faults \in 0..MaxFaults

Init ==
    /\ line = [p \in Procs |-> None] /\ pc = [p \in Procs |-> "start"]
    /\ todo = [p \in Procs |-> <<>>] /\ rptr = [p \in Procs |-> 0]
    /\ fret = [p \in Procs |-> "none"]
    /\ \E born \in SUBSET Numbers : pending = born /\ unborn = Numbers \ born
    /\ acked = {} /\ faults = 0
    /\ dropped = {} /\ alone = [p \in Procs |-> TRUE]

-----------------------------------------------------------------------------
Running(p) == pc[p] \notin {"start", "done", "crashed", "killed"}

Go(p, where) == pc' = [pc EXCEPT ![p] = where]

Ends(p, f) == pc' = [pc EXCEPT ![p] = "free"] /\ fret' = [fret EXCEPT ![p] = f]

Current(p) == todo[p][rptr[p]]

\* A change p makes is a disturbance for the others; failing disturbs p too.
Disturbs(p, self) == alone' = [q \in Procs |-> alone[q] /\ (q = p => ~self) /\ (q # p => ~Running(q))]

Fault(p) == faults < MaxFaults /\ faults' = faults + 1 /\ alone' = [alone EXCEPT ![p] = FALSE]

\* Mutant of Arguments: no cast.
ArgumentsUncast(args) == args

\* strtoul and the cast to uint32_t.
Arguments(args) == [i \in 1..Len(args) |-> IF args[i] = Junk THEN Junk ELSE args[i] % NumMod]

\* With -a the list is read first, without it the arguments are walked.
First(c) == IF c.cmd = "replay" THEN "parse" ELSE IF c.all THEN "list" ELSE "loop"

\* getopt and, without -a, the loop over argv.
Start(p, c) ==
    /\ pc[p] = "start" /\ c.cmd # "replay"
    /\ line' = [line EXCEPT ![p] = c]
    /\ Go(p, IF c.cmd = "dump" THEN "eid" ELSE First(c))
    /\ IF c.all
       THEN UNCHANGED <<todo, rptr>>
       ELSE /\ todo' = [todo EXCEPT ![p] = Arguments(c.args)] /\ rptr' = [rptr EXCEPT ![p] = 1]
    /\ UNCHANGED <<fret, pending, unborn, acked, faults, dropped, alone>>

\* replay refuses to read from a terminal.
StartReplay(p, c) ==
    /\ pc[p] = "start" /\ c.cmd = "replay"
    /\ line' = [line EXCEPT ![p] = c]
    /\ todo' = [todo EXCEPT ![p] = c.args] /\ rptr' = [rptr EXCEPT ![p] = 1]
    /\ \/ Go(p, "eid") /\ UNCHANGED fret
       \/ Go(p, "done") /\ fret' = [fret EXCEPT ![p] = "err"]
    /\ UNCHANGED <<pending, unborn, acked, faults, dropped, alone>>

\* dump and replay ask for the EID before anything else, and return if they get none.
GetEid(p) ==
    /\ pc[p] = "eid"
    /\ \/ Go(p, First(line[p])) /\ UNCHANGED <<fret, faults, alone>>
       \/ Fault(p) /\ Go(p, "done") /\ fret' = [fret EXCEPT ![p] = "err"]
    /\ UNCHANGED <<line, todo, rptr, pending, unborn, acked, dropped>>

\* es10b_list_notification: the eUICC's list, in the order of the numbers.
Ordered(s) == {f \in UNION {[1..n -> s] : n \in 0..Cardinality(s)} :
    /\ s = {f[i] : i \in DOMAIN f}
    /\ \A i, j \in DOMAIN f : i < j => f[i] < f[j]}

List(p) ==
    /\ pc[p] = "list"
    /\ \/ /\ \E list \in Ordered(pending) : todo' = [todo EXCEPT ![p] = list]
          /\ rptr' = [rptr EXCEPT ![p] = 1]
          /\ Go(p, "loop") /\ UNCHANGED <<fret, faults, alone>>
       \/ Fault(p) /\ Ends(p, "err") /\ UNCHANGED <<todo, rptr>>
    /\ UNCHANGED <<line, pending, unborn, acked, dropped>>

Advance(p) == Go(p, "loop") /\ rptr' = [rptr EXCEPT ![p] = @ + 1] /\ UNCHANGED fret

\* The head of the loop: after the last element the end, an argument that does not
\* convert is skipped, otherwise the next notification.
LoopTo(p, last) ==
    /\ pc[p] = "loop"
    /\ \/ rptr[p] > last /\ Ends(p, "ok") /\ UNCHANGED rptr
       \/ rptr[p] <= last /\ Current(p) = Junk /\ Advance(p)
       \/ /\ rptr[p] <= last /\ Current(p) # Junk
          /\ Go(p, IF line[p].cmd = "remove" THEN "remove" ELSE "retrieve") /\ UNCHANGED <<rptr, fret>>
    /\ UNCHANGED <<line, todo, pending, unborn, acked, faults, dropped, alone>>

\* Mutant of Loop: leaves at the last element.
LoopShort(p) == LoopTo(p, Len(todo[p]) - 1)

Loop(p) == LoopTo(p, Len(todo[p]))

\* es10b_retrieve_notifications_list: an error when the notification is not
\* there any more.  dump prints it and goes on.
Retrieve(p) ==
    /\ pc[p] = "retrieve"
    /\ \/ /\ Current(p) \in pending
          /\ IF line[p].cmd = "dump" THEN Advance(p) ELSE Go(p, "handle") /\ UNCHANGED <<rptr, fret>>
          /\ UNCHANGED <<faults, alone>>
       \/ Current(p) \notin pending /\ Ends(p, "err") /\ UNCHANGED <<rptr, faults, alone>>
       \/ Fault(p) /\ Ends(p, "err") /\ UNCHANGED rptr
    /\ UNCHANGED <<line, todo, pending, unborn, acked, dropped>>

\* Mutants of Handle: a failure goes on to the removal; a failure goes on to
\* the next notification.
HandleFailing(p, Failed) ==
    /\ pc[p] = "handle"
    /\ \/ /\ acked' = acked \cup {Current(p)}
          /\ IF line[p].autoremove THEN Go(p, "remove") /\ UNCHANGED <<rptr, fret>> ELSE Advance(p)
          /\ UNCHANGED <<faults, alone>>
       \/ Fault(p) /\ Failed /\ acked' \in {acked, acked \cup {Current(p)}}
    /\ UNCHANGED <<line, todo, pending, unborn, dropped>>
HandleRemovesAnyway(p) == HandleFailing(p, Go(p, "remove") /\ UNCHANGED <<rptr, fret>>)
HandleContinues(p) == HandleFailing(p, Advance(p))

\* es9p_handle_notification: delivered; refused or not delivered; delivered
\* with the answer lost.
Handle(p) ==
    /\ pc[p] = "handle"
    /\ \/ /\ acked' = acked \cup {Current(p)}
          /\ IF line[p].autoremove THEN Go(p, "remove") /\ UNCHANGED <<rptr, fret>> ELSE Advance(p)
          /\ UNCHANGED <<faults, alone>>
       \/ Fault(p) /\ Ends(p, "err") /\ UNCHANGED rptr /\ acked' \in {acked, acked \cup {Current(p)}}
    /\ UNCHANGED <<line, todo, pending, unborn, dropped>>

\* Mutant of Remove: the loop does not advance.
RemoveStays(p) ==
    LET n == Current(p)
        Drop == /\ pending' = pending \ {n}
                /\ dropped' = dropped \cup {[by |-> line[p].cmd, n |-> m] : m \in {n} \cap pending}
    IN  /\ pc[p] = "remove"
        /\ \/ n \in pending /\ Drop /\ Go(p, "loop") /\ UNCHANGED <<rptr, fret>> /\ Disturbs(p, FALSE) /\ UNCHANGED faults
           \/ n \notin pending /\ Ends(p, "err") /\ UNCHANGED <<rptr, pending, dropped, faults, alone>>
           \/ /\ faults < MaxFaults /\ faults' = faults + 1 /\ Disturbs(p, TRUE)
              /\ Ends(p, "err") /\ UNCHANGED rptr
              /\ Drop \/ UNCHANGED <<pending, dropped>>
        /\ UNCHANGED <<line, todo, unborn, acked>>

\* es10b_remove_notification_from_list: "seqNumber not found" is an error.
Remove(p) ==
    LET n == Current(p)
        Drop == /\ pending' = pending \ {n}
                /\ dropped' = dropped \cup {[by |-> line[p].cmd, n |-> m] : m \in {n} \cap pending}
    IN  /\ pc[p] = "remove"
        /\ \/ n \in pending /\ Drop /\ Advance(p) /\ Disturbs(p, FALSE) /\ UNCHANGED faults
           \/ n \notin pending /\ Ends(p, "err") /\ UNCHANGED <<rptr, pending, dropped, faults, alone>>
           \/ /\ faults < MaxFaults /\ faults' = faults + 1 /\ Disturbs(p, TRUE)
              /\ Ends(p, "err") /\ UNCHANGED rptr
              /\ Drop \/ UNCHANGED <<pending, dropped>>
        /\ UNCHANGED <<line, todo, unborn, acked>>

\* parse_notification: does the line hold a notification of this eUICC?
ParseNotification(l) == l \in Nat

\* The loop of replay.  A line that parses is refused, because the TRUE of
\* parse_notification is taken for an error; one that does not is handed on with
\* the notification as the stack left it, and that crashes, is refused, or sends
\* something else to some other address.
Parse(p) ==
    /\ pc[p] = "parse"
    /\ IF rptr[p] > Len(todo[p]) THEN Ends(p, "ok") /\ UNCHANGED rptr
       ELSE LET l == Current(p) IN
            \/ (l = NotJson \/ ParseNotification(l)) /\ Ends(p, "err") /\ UNCHANGED rptr
            \/ /\ l # NotJson /\ ~ParseNotification(l)
               /\ \/ Go(p, "crashed") /\ UNCHANGED <<rptr, fret>>
                  \/ Ends(p, "err") /\ UNCHANGED rptr
                  \/ Go(p, "parse") /\ rptr' = [rptr EXCEPT ![p] = @ + 1] /\ UNCHANGED fret
    /\ UNCHANGED <<line, todo, pending, unborn, acked, faults, dropped, alone>>

\* The end of the scope.  With -a the cleanup attribute stands before both
\* declarators of "*notifications, *rptr", so the list is freed from rptr on
\* and then from its head: a node twice, or from a pointer never set, when
\* the loop was left by break or never entered.  replay releases a notification
\* that it never set or whose strings went with the JSON.
FreedTwice(p) ==
    \/ line[p].all /\ (rptr[p] = 0 \/ rptr[p] <= Len(todo[p]))
    \/ line[p].cmd = "replay"

Free(p) ==
    /\ pc[p] = "free"
    /\ Go(p, "done") \/ (FreedTwice(p) /\ Go(p, "crashed"))
    /\ UNCHANGED <<line, todo, rptr, fret, pending, unborn, acked, faults, dropped, alone>>

\* The process is killed.
Kill(p) ==
    /\ Running(p) /\ Go(p, "killed")
    /\ UNCHANGED <<line, todo, rptr, fret, pending, unborn, acked, faults, dropped, alone>>

\* A profile operation creates a notification (external).
Create(n) ==
    /\ n \in unborn
    /\ pending' = pending \cup {n} /\ unborn' = unborn \ {n}
    /\ UNCHANGED <<hostVars, acked, faults, dropped, alone>>

Step(p) ==
    \/ \E c \in Commands : Start(p, c) \/ StartReplay(p, c)
    \/ GetEid(p) \/ List(p) \/ Loop(p) \/ Parse(p) \/ Retrieve(p) \/ Handle(p) \/ Remove(p) \/ Free(p)

Next == (\E p \in Procs : Step(p) \/ Kill(p)) \/ (\E n \in Numbers : Create(n))

Spec == Init /\ [][Next]_vars
-----------------------------------------------------------------------------
(* Properties.                                                             *)

\* A notification leaves the eUICC only after its server handled it, or
\* because somebody asked for its removal: whatever is lost or killed between
\* the delivery and the removal, and whoever else is at work.
NeverLost ==
    \A n \in Numbers \ (pending \cup unborn) :
        n \in acked \/ [by |-> "remove", n |-> n] \in dropped

\* Success is complete.  `process` that ends with it had every notification of
\* its list, or every number on its command line, handled; with -r, or for
\* `remove`, they are gone too.  replay, which would have to have sent every
\* notification of its input, never succeeds on an input that holds one.
SuccessMeansDone ==
    \A p \in Procs : fret[p] = "ok" =>
        \A i \in 1..Len(todo[p]) :
            LET n == todo[p][i] IN
            /\ (line[p].cmd = "process" /\ n # Junk) \/ (line[p].cmd = "replay" /\ ParseNotification(n)) =>
                   n \in acked
            /\ line[p].autoremove \/ line[p].cmd = "remove" => n \notin pending

\* -a undisturbed, with nothing failing, succeeds.  (Numbers on the command
\* line may name a notification that is not there, or one twice.)
AloneSucceeds ==
    \A p \in Procs : fret[p] # "none" /\ line[p].all /\ alone[p] => fret[p] = "ok"

\* Outside replay the list is freed twice only on the way out of a -a that failed.
FreedTwiceOnlyOnError ==
    \A p \in Procs : pc[p] \in {"free", "crashed"} /\ line[p].cmd # "replay" /\ FreedTwice(p) =>
        fret[p] = "err"
=============================================================================
