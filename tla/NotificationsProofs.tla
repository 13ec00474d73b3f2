------------------------ MODULE NotificationsProofs ------------------------
(***************************************************************************)
(* What Notifications promises, for any number of processes, notifications,*)
(* faults and command lines.  The invariants are not inductive by          *)
(* themselves: the proof adds where each kind of command line can be, that *)
(* a process about to remove a notification was told to or has had it      *)
(* handled, what is behind the position in the list, and, for an           *)
(* undisturbed -a, what is before it.                                      *)
(***************************************************************************)
EXTENDS Notifications, TLAPS

Places == {"start", "eid", "list", "loop", "parse", "retrieve", "handle", "remove", "free",
           "done", "crashed", "killed"}
Walking == {"loop", "retrieve", "handle", "remove"}

\* Where the kinds of command lines can be.
Control(p) ==
    /\ pc[p] = "start" => fret[p] = "none" /\ rptr[p] = 0 /\ todo[p] = <<>>
    /\ pc[p] # "start" => line[p] \in Commands
    /\ fret[p] = "none" \/ pc[p] \in {"free", "done", "crashed", "killed"}
    /\ pc[p] = "free" => fret[p] # "none"
    /\ pc[p] = "eid" => line[p].all \/ rptr[p] = 1
    /\ pc[p] = "list" => line[p].all
    /\ pc[p] = "parse" => line[p].cmd = "replay" /\ rptr[p] >= 1
    /\ pc[p] \in Walking => line[p].cmd # "replay" /\ rptr[p] >= 1
    /\ pc[p] \in {"retrieve", "handle", "remove"} => rptr[p] <= Len(todo[p]) /\ Current(p) # Junk
    /\ pc[p] = "retrieve" => line[p].cmd # "remove"
    /\ pc[p] = "handle" => line[p].cmd = "process" /\ Current(p) \in Numbers
    /\ pc[p] = "crashed" => line[p].cmd = "replay" \/ fret[p] = "err"
    /\ fret[p] = "ok" => rptr[p] = Len(todo[p]) + 1

\* A process about to remove a notification was told to, or has had it handled.
Entitled(p) == pc[p] = "remove" => line[p].cmd = "remove" \/ Current(p) \in acked

\* What the position in the list has passed is done.
Passed(p) ==
    \A i \in 1..Len(todo[p]) : i < rptr[p] =>
        /\ line[p].cmd = "process" /\ todo[p][i] # Junk => todo[p][i] \in acked
        /\ line[p].cmd = "replay" => ~ParseNotification(todo[p][i])
        /\ line[p].autoremove \/ line[p].cmd = "remove" => todo[p][i] \notin pending \cup unborn

\* What an undisturbed -a still has before it is on the eUICC, once each.
Before(p) ==
    line[p].all =>
        /\ \A i, j \in 1..Len(todo[p]) : i < j => todo[p][i] < todo[p][j]
        /\ alone[p] /\ pc[p] \in Walking =>
               \A i \in 1..Len(todo[p]) : i >= rptr[p] => todo[p][i] \in pending
        /\ alone[p] => fret[p] # "err"

Local(p) == Control(p) /\ Entitled(p) /\ Passed(p) /\ Before(p)

Shape ==
    /\ TypeOK /\ todo \in [Procs -> Seq(Int)] /\ rptr \in [Procs -> Nat]
    /\ alone \in [Procs -> BOOLEAN]

IInv == Shape /\ NeverLost /\ \A p \in Procs : Local(p)

-----------------------------------------------------------------------------
(* At the start, and at the head of the loop.                              *)

\* Nothing is lost before anything has happened.
LEMMA InitKeeps ==
    ASSUME Init
    PROVE  IInv
<1>1. Shape
    BY CommandsAssumption DEF Init, Shape, TypeOK
<1>2. NeverLost
    BY DEF Init, NeverLost
<1>3. ASSUME NEW p \in Procs
      PROVE  Local(p)
  <2>1. pc[p] = "start" /\ fret[p] = "none" /\ rptr[p] = 0 /\ todo[p] = <<>> /\ ~line[p].all
    BY DEF Init, None
  <2>2. Control(p)
    BY <2>1 DEF Control, Walking
  <2>3. Entitled(p) /\ Passed(p) /\ Before(p)
    BY <2>1 DEF Entitled, Passed, Before
  <2> QED BY <2>2, <2>3 DEF Local
<1> QED BY <1>1, <1>2, <1>3 DEF IInv

\* A process back at the head of its loop, about to look for an entry.
LEMMA InLoop ==
    ASSUME NEW p \in Procs, pc'[p] = "loop", fret'[p] = "none", line'[p] \in Commands,
           line'[p].cmd # "replay", rptr'[p] \in Nat, rptr'[p] >= 1
    PROVE  Control(p)' /\ Entitled(p)'
    BY DEF Control, Walking, Entitled

-----------------------------------------------------------------------------
(* A step of one process as the others see it.                             *)

\* q's own state stays in the step of another process.
Same(q) ==
    /\ line'[q] = line[q] /\ pc'[q] = pc[q] /\ todo'[q] = todo[q] /\ rptr'[q] = rptr[q]
    /\ fret'[q] = fret[q]

\* Nothing that was handled is forgotten, nothing that was removed comes back.
Onward ==
    /\ acked \subseteq acked' /\ pending' \cup unborn' \subseteq pending \cup unborn

\* q is still undisturbed only if it was, and nothing was taken from it.
Heard(q) == alone'[q] => alone[q] /\ (Running(q) => pending \subseteq pending')

\* Such a step keeps what is known of q.
LEMMA OthersKeep ==
    ASSUME NEW q \in Procs, Local(q), Same(q), Onward, Heard(q)
    PROVE  Local(q)'
<1> USE DEF Same, Onward
<1>1. Control(q)'
    BY DEF Local, Control, Current
<1>2. Entitled(q)'
    BY DEF Local, Entitled, Current
<1>3. Passed(q)'
    BY DEF Local, Passed
<1>4. Before(q)'
    BY DEF Local, Before, Heard, Running, Walking
<1> QED BY <1>1, <1>2, <1>3, <1>4, Zenon DEF Local

\* So a step of p that keeps what is known of p keeps the invariant.
LEMMA StepKeeps ==
    ASSUME IInv, NEW p \in Procs, Shape', NeverLost', Local(p)', Onward,
           \A q \in Procs \ {p} : Same(q) /\ Heard(q)
    PROVE  IInv'
    BY OthersKeep DEF IInv

-----------------------------------------------------------------------------
(* The parts that the steps are made of.                                   *)

\* p goes on with the list it has.
Walked(p) ==
    /\ UNCHANGED <<line, todo>>
    /\ pc' \in [Procs -> Places] /\ rptr' \in [Procs -> Nat]
    /\ fret' \in [Procs -> {"none", "ok", "err"}]
    /\ rptr'[p] \in 0..Len(todo[p]) + 1
    /\ \A q \in Procs \ {p} : Same(q)

\* The eUICC and the servers keep what they have.
Kept == UNCHANGED <<pending, unborn, acked, dropped>>

\* Nobody but p is disturbed.
Quiet(p) ==
    /\ faults' \in 0..MaxFaults /\ alone' \in [Procs -> BOOLEAN]
    /\ alone'[p] => alone[p]
    /\ \A q \in Procs \ {p} : alone'[q] => alone[q]

\* A failing exchange disturbs p.
LEMMA Faulted ==
    ASSUME Shape, NEW p \in Procs, Fault(p)
    PROVE  Quiet(p) /\ ~alone'[p]
    BY CommandsAssumption DEF Shape, TypeOK, Fault, Quiet

\* When nothing fails nobody is disturbed.
LEMMA Unfaulted ==
    ASSUME Shape, NEW p \in Procs, UNCHANGED <<faults, alone>>
    PROVE  Quiet(p)
    BY DEF Shape, TypeOK, Quiet

\* p has dealt with the entry at its position and goes back to the loop.
LEMMA Advanced ==
    ASSUME Shape, NEW p \in Procs, Advance(p), UNCHANGED <<line, todo>>, rptr[p] \in 1..Len(todo[p])
    PROVE  /\ pc'[p] = "loop" /\ rptr'[p] = rptr[p] + 1 /\ rptr'[p] \in Nat /\ rptr'[p] >= 1
           /\ UNCHANGED fret /\ Walked(p)
<1>1. rptr[p] \in Nat /\ Len(todo[p]) \in Nat
    BY DEF Shape, TypeOK
<1>2. pc'[p] = "loop" /\ rptr'[p] = rptr[p] + 1 /\ UNCHANGED fret
    BY DEF Shape, TypeOK, Advance, Go
<1>3. rptr'[p] \in Nat /\ rptr'[p] >= 1 /\ rptr'[p] \in 0..Len(todo[p]) + 1
    BY <1>1, <1>2
<1>4. pc' \in [Procs -> Places] /\ rptr' \in [Procs -> Nat] /\ fret' \in [Procs -> {"none", "ok", "err"}]
    BY <1>1 DEF Shape, TypeOK, Advance, Go, Places
<1>5. \A q \in Procs \ {p} : Same(q)
    BY Zenon DEF Shape, TypeOK, Advance, Go, Same
<1> QED BY <1>2, <1>3, <1>4, <1>5, Zenon DEF Walked

\* What it passes is done.
LEMMA PassedOn ==
    ASSUME NEW p \in Procs, Passed(p), Onward, UNCHANGED <<line, todo>>,
           rptr[p] \in Nat, Len(todo[p]) \in Nat, rptr'[p] = rptr[p] + 1,
           line[p].cmd = "process" /\ Current(p) # Junk => Current(p) \in acked',
           line[p].cmd = "replay" => ~ParseNotification(Current(p)),
           line[p].autoremove \/ line[p].cmd = "remove" => Current(p) \notin pending' \cup unborn'
    PROVE  Passed(p)'
<1> SUFFICES ASSUME NEW i \in 1..Len(todo[p]), i < rptr[p] + 1
             PROVE  /\ line[p].cmd = "process" /\ todo[p][i] # Junk => todo[p][i] \in acked'
                    /\ line[p].cmd = "replay" => ~ParseNotification(todo[p][i])
                    /\ line[p].autoremove \/ line[p].cmd = "remove" =>
                          todo[p][i] \notin pending' \cup unborn'
    BY Zenon DEF Passed
<1>1. CASE i < rptr[p]
    BY <1>1, Zenon DEF Passed, Onward
<1>2. CASE i = rptr[p]
    BY <1>2, Zenon DEF Current
<1> QED BY <1>1, <1>2

\* What is before it was before it already.
LEMMA BeforeOn ==
    ASSUME NEW p \in Procs, Before(p), pc[p] \in Walking, UNCHANGED <<line, todo, pending, alone, fret>>,
           rptr[p] \in Nat, Len(todo[p]) \in Nat, rptr'[p] = rptr[p] + 1
    PROVE  Before(p)'
<1>1. \A i \in 1..Len(todo[p]) : i >= rptr[p] + 1 => i >= rptr[p]
    OBVIOUS
<1> QED BY <1>1, Zenon DEF Before

\* Going on with the same list keeps every type.
LEMMA WalkShaped ==
    ASSUME Shape, NEW p \in Procs, Walked(p), pending' \subseteq Numbers, unborn' \subseteq Numbers,
           pending' \cap unborn' = {}, acked' \subseteq Numbers,
           faults' \in 0..MaxFaults, alone' \in [Procs -> BOOLEAN]
    PROVE  Shape'
<1>1. \A q \in Procs : rptr'[q] \in 0..Len(todo[q]) + 1
    BY Zenon DEF Shape, TypeOK, Walked, Same
<1> QED BY <1>1, Zenon DEF Shape, TypeOK, Walked, Places

\* A step that leaves the eUICC and the servers alone.
LEMMA QuietStep ==
    ASSUME IInv, NEW p \in Procs, Shape', Local(p)', Kept, Quiet(p), \A q \in Procs \ {p} : Same(q)
    PROVE  IInv'
<1>1. NeverLost'
    BY Zenon DEF IInv, NeverLost, Kept
<1>2. Onward
    BY DEF Onward, Kept
<1>3. \A q \in Procs \ {p} : Heard(q)
    BY DEF Heard, Quiet, Kept
<1> QED BY <1>1, <1>2, <1>3, StepKeeps

\* A step of p within its walk that delivers and removes nothing keeps the
\* invariant, if p's own part of it is kept.
LEMMA QuietWalk ==
    ASSUME IInv, NEW p \in Procs, Walked(p), Local(p)', Kept, Quiet(p)
    PROVE  IInv'
<1>1. Shape'
    BY WalkShaped, Zenon DEF IInv, Shape, TypeOK, Kept, Quiet
<1>2. \A q \in Procs \ {p} : Same(q)
    BY DEF Walked
<1> QED BY <1>1, <1>2, QuietStep

-----------------------------------------------------------------------------
(* The steps, one lemma for each.                                          *)

\* The list is released (Free), once or through both pointers.
LEMMA FreeKeeps ==
    ASSUME IInv, NEW p \in Procs, Free(p)
    PROVE  IInv'
<1> USE DEF IInv
<1>1. pc[p] = "free" /\ pc'[p] \in {"done", "crashed"} /\ (pc'[p] = "crashed" => FreedTwice(p))
    BY DEF Shape, TypeOK, Free, Go
<1>2. UNCHANGED <<line, todo, rptr, fret, pending, unborn, acked, faults, dropped, alone>>
    BY DEF Free
<1>3. Walked(p)
    BY <1>2, Zenon DEF Shape, TypeOK, Free, Go, Walked, Same, Places
<1>4. Kept /\ Quiet(p)
    BY <1>2, Unfaulted DEF Kept
<1>5. pc'[p] = "crashed" => line[p].cmd = "replay" \/ fret[p] = "err"
  <2>1. rptr[p] \in Nat /\ Len(todo[p]) \in Nat /\ fret[p] \in {"none", "ok", "err"}
    BY DEF Shape, TypeOK
  <2> QED BY <1>1, <2>1 DEF FreedTwice, Local, Control
<1>6. Control(p)'
    BY <1>1, <1>2, <1>5, Zenon DEF Local, Control, Current, Walking
<1>7. Entitled(p)' /\ Passed(p)' /\ Before(p)'
    BY <1>1, <1>2 DEF Local, Entitled, Passed, Before, Walking
<1> QED BY <1>3, <1>4, <1>6, <1>7, QuietWalk DEF Local

\* A process is killed (Kill): it holds and claims nothing any more.
LEMMA KillKeeps ==
    ASSUME IInv, NEW p \in Procs, Kill(p)
    PROVE  IInv'
<1> USE DEF IInv
<1>1. pc[p] # "start" /\ pc'[p] = "killed"
    BY DEF Shape, TypeOK, Kill, Go, Running
<1>2. UNCHANGED <<line, todo, rptr, fret, pending, unborn, acked, faults, dropped, alone>>
    BY DEF Kill
<1>3. Walked(p)
    BY <1>2, Zenon DEF Shape, TypeOK, Kill, Go, Walked, Same, Places
<1>4. Kept /\ Quiet(p)
    BY <1>2, Unfaulted DEF Kept
<1>5. Control(p)'
    BY <1>1, <1>2, Zenon DEF Local, Control, Current, Walking
<1>6. Entitled(p)' /\ Passed(p)' /\ Before(p)'
    BY <1>1, <1>2, Zenon DEF Local, Entitled, Passed, Before, Walking
<1> QED BY <1>3, <1>4, <1>5, <1>6, QuietWalk DEF Local

\* The loop looks for its next entry (Loop): it skips an argument that is no
\* number, goes on to an entry, or ends with success.
LEMMA LoopKeeps ==
    ASSUME IInv, NEW p \in Procs, Loop(p)
    PROVE  IInv'
<1> USE DEF IInv
<1>1. UNCHANGED <<line, todo, pending, unborn, acked, faults, dropped, alone>> /\ pc[p] = "loop"
    BY DEF Loop, LoopTo
<1>2. Kept /\ Quiet(p)
    BY <1>1, Unfaulted DEF Kept
<1>3. rptr[p] \in Nat /\ Len(todo[p]) \in Nat /\ rptr[p] \in 0..Len(todo[p]) + 1 /\ rptr[p] >= 1
    BY <1>1 DEF Shape, TypeOK, Local, Control, Walking
<1>4. line[p].cmd # "replay" /\ line[p] \in Commands /\ fret[p] = "none"
    BY <1>1 DEF Local, Control, Walking
<1>5. CASE rptr[p] > Len(todo[p]) /\ Ends(p, "ok") /\ UNCHANGED rptr
  <2>1. pc'[p] = "free" /\ fret'[p] = "ok" /\ rptr[p] = Len(todo[p]) + 1
    BY <1>3, <1>5 DEF Shape, TypeOK, Ends
  <2>2. Walked(p)
    BY <1>1, <1>3, <1>5 DEF Shape, TypeOK, Ends, Walked, Same, Places
  <2>3. Control(p)'
    BY <1>1, <1>4, <1>5, <2>1, Zenon DEF Control, Current, Walking
  <2>4. Entitled(p)' /\ Passed(p)' /\ Before(p)'
    BY <1>1, <1>5, <2>1, Zenon DEF Local, Entitled, Passed, Before, Walking
  <2> QED BY <1>2, <2>2, <2>3, <2>4, QuietWalk DEF Local
<1>6. CASE rptr[p] <= Len(todo[p]) /\ Current(p) = Junk /\ Advance(p)
  <2>1. rptr[p] \in 1..Len(todo[p])
    BY <1>3, <1>6
  <2>2. /\ pc'[p] = "loop" /\ rptr'[p] = rptr[p] + 1 /\ rptr'[p] \in Nat /\ rptr'[p] >= 1
        /\ UNCHANGED fret /\ Walked(p)
    BY <1>1, <1>6, <2>1, Advanced, Zenon
  <2>3. Control(p)' /\ Entitled(p)'
    BY <1>1, <1>4, <2>2, InLoop, Zenon
  <2>4. Junk \notin pending \cup unborn
    BY CommandsAssumption DEF Shape, TypeOK, Junk
  <2>5. Passed(p)'
    BY <1>1, <1>3, <1>4, <1>6, <2>2, <2>4, PassedOn, Zenon DEF Local, Onward
  <2>6. Before(p)'
    BY <1>1, <1>3, <2>2, BeforeOn, Zenon DEF Local, Walking
  <2> QED BY <1>2, <2>2, <2>3, <2>5, <2>6, QuietWalk, Zenon DEF Local
<1>7. CASE /\ rptr[p] <= Len(todo[p]) /\ Current(p) # Junk
           /\ Go(p, IF line[p].cmd = "remove" THEN "remove" ELSE "retrieve")
           /\ UNCHANGED <<rptr, fret>>
  <2>1. pc'[p] = IF line[p].cmd = "remove" THEN "remove" ELSE "retrieve"
    BY <1>7 DEF Shape, TypeOK, Go
  <2>2. Walked(p)
    BY <1>1, <1>3, <1>7, Zenon DEF Shape, TypeOK, Go, Walked, Same, Places
  <2>3. Control(p)'
    BY <1>1, <1>3, <1>4, <1>7, <2>1, Zenon DEF Control, Current, Walking
  <2>4. Entitled(p)' /\ Passed(p)' /\ Before(p)'
    BY <1>1, <1>7, <2>1, Zenon DEF Local, Entitled, Passed, Before, Walking
  <2> QED BY <1>2, <2>2, <2>3, <2>4, QuietWalk DEF Local
<1> QED BY <1>5, <1>6, <1>7 DEF Loop, LoopTo

\* A failure ends the loop (Retrieve, Handle, Remove, List); an undisturbed -a
\* has none.
LEMMA EndedLocal ==
    ASSUME IInv, NEW p \in Procs, Walked(p), Onward, pc[p] \in Walking \cup {"list"},
           pc'[p] = "free", fret'[p] = "err", rptr'[p] = rptr[p],
           alone'[p] => alone[p], alone'[p] => ~line[p].all
    PROVE  Local(p)'
<1> USE DEF Walked, IInv
<1>1. Control(p)'
    BY Zenon DEF Local, Control, Walking
<1>2. Entitled(p)'
    BY Zenon DEF Entitled
<1>3. Passed(p)'
    BY DEF Local, Passed, Onward
<1>4. Before(p)'
    BY DEF Local, Before, Walking
<1> QED BY <1>1, <1>2, <1>3, <1>4, Zenon DEF Local

\* Where p is in the list while it works on one notification.
LEMMA Position ==
    ASSUME IInv, NEW p \in Procs, pc[p] \in {"retrieve", "handle", "remove"}
    PROVE  /\ rptr[p] \in Nat /\ Len(todo[p]) \in Nat /\ rptr[p] \in 1..Len(todo[p])
           /\ line[p].cmd # "replay" /\ line[p] \in Commands /\ fret[p] = "none"
           /\ Current(p) # Junk /\ Current(p) \in 0..NumMod - 1
           /\ line[p].all /\ alone[p] => Current(p) \in pending
<1>1. /\ rptr[p] \in Nat /\ Len(todo[p]) \in Nat /\ rptr[p] \in 1..Len(todo[p])
      /\ line[p].cmd # "replay" /\ line[p] \in Commands /\ fret[p] = "none"
      /\ Current(p) # Junk
  <2>1. todo[p] \in Seq(Int) /\ rptr[p] \in 0..Len(todo[p]) + 1
    BY Zenon DEF IInv, Shape, TypeOK
  <2>2. /\ rptr[p] >= 1 /\ rptr[p] <= Len(todo[p])
        /\ line[p].cmd # "replay" /\ line[p] \in Commands /\ fret[p] = "none"
        /\ Current(p) # Junk
    BY DEF IInv, Local, Control, Walking
  <2> QED BY <2>1, <2>2
<1>2. Current(p) \in 0..NumMod - 1
    BY <1>1 DEF IInv, Shape, TypeOK, Current
<1>3. line[p].all /\ alone[p] => Current(p) \in pending
    BY <1>1 DEF IInv, Local, Before, Walking, Current
<1> QED BY <1>1, <1>2, <1>3

\* The notification is fetched from the eUICC (Retrieve), or the command fails.
LEMMA RetrieveKeeps ==
    ASSUME IInv, NEW p \in Procs, Retrieve(p)
    PROVE  IInv'
<1> USE DEF IInv
<1>1. UNCHANGED <<line, todo, pending, unborn, acked, dropped>> /\ pc[p] = "retrieve" /\ Kept /\ Onward
    BY Zenon DEF Retrieve, Kept, Onward
<1>2. /\ rptr[p] \in Nat /\ Len(todo[p]) \in Nat /\ rptr[p] \in 1..Len(todo[p])
      /\ line[p].cmd \notin {"replay", "remove"} /\ line[p] \in Commands /\ fret[p] = "none"
      /\ Current(p) # Junk
      /\ line[p].all /\ alone[p] => Current(p) \in pending
    BY <1>1, Position, Zenon DEF Local, Control
<1>3. line[p].autoremove => line[p].cmd = "process"
    BY <1>2, CommandsAssumption, Zenon
<1>4. CASE line[p].cmd = "dump" /\ Advance(p) /\ UNCHANGED <<faults, alone>>
  <2>1. /\ pc'[p] = "loop" /\ rptr'[p] = rptr[p] + 1 /\ rptr'[p] \in Nat /\ rptr'[p] >= 1
        /\ UNCHANGED fret /\ Walked(p)
    BY <1>1, <1>2, <1>4, Advanced, Zenon
  <2>2. Control(p)' /\ Entitled(p)'
    BY <1>1, <1>2, <2>1, InLoop, Zenon
  <2>3. Passed(p)'
    BY <1>1, <1>2, <1>3, <1>4, <2>1, PassedOn, Zenon DEF Local
  <2>4. Before(p)'
    BY <1>1, <1>2, <1>4, <2>1, BeforeOn, Zenon DEF Local, Walking
  <2> QED BY <1>1, <1>4, <2>1, <2>2, <2>3, <2>4, QuietWalk, Unfaulted, Zenon DEF Local
<1>5. CASE /\ Current(p) \in pending /\ line[p].cmd # "dump" /\ Go(p, "handle")
           /\ UNCHANGED <<rptr, fret, faults, alone>>
  <2>1. pc'[p] = "handle"
    BY <1>5 DEF Shape, TypeOK, Go
  <2>2. Walked(p)
    BY <1>1, <1>2, <1>5 DEF Shape, TypeOK, Go, Walked, Same, Places
  <2>3. Current(p) \in Numbers /\ line[p].cmd = "process"
    BY <1>2, <1>5, CommandsAssumption, Zenon DEF Shape, TypeOK
  <2>4. Control(p)'
    BY <1>1, <1>2, <1>5, <2>1, <2>3 DEF Control, Current, Walking
  <2>5. Entitled(p)' /\ Passed(p)' /\ Before(p)'
    BY <1>1, <1>5, <2>1 DEF Local, Entitled, Passed, Before, Walking
  <2> QED BY <1>1, <1>5, <2>2, <2>4, <2>5, QuietWalk, Unfaulted DEF Local
<1>6. CASE Current(p) \notin pending /\ Ends(p, "err") /\ UNCHANGED <<rptr, faults, alone>>
  <2>1. Walked(p) /\ pc'[p] = "free" /\ fret'[p] = "err"
    BY <1>1, <1>2, <1>6 DEF Shape, TypeOK, Ends, Walked, Same, Places
  <2>2. Local(p)'
    BY <1>1, <1>2, <1>6, <2>1, EndedLocal DEF Walking
  <2> QED BY <1>1, <1>6, <2>1, <2>2, QuietWalk, Unfaulted
<1>7. CASE Fault(p) /\ Ends(p, "err") /\ UNCHANGED rptr
  <2>1. Walked(p) /\ pc'[p] = "free" /\ fret'[p] = "err"
    BY <1>1, <1>2, <1>7 DEF Shape, TypeOK, Ends, Walked, Same, Places
  <2>2. Quiet(p) /\ ~alone'[p]
    BY <1>7, Faulted, Zenon
  <2>3. Local(p)'
    BY <1>1, <1>7, <2>1, <2>2, EndedLocal, Zenon DEF Walking
  <2> QED BY <1>1, <2>1, <2>2, <2>3, QuietWalk
<1> QED BY <1>4, <1>5, <1>6, <1>7, Zenon DEF Retrieve

\* The notification is sent to its server (Handle); only an acknowledged one goes
\* on to be removed.
LEMMA HandleKeeps ==
    ASSUME IInv, NEW p \in Procs, Handle(p)
    PROVE  IInv'
<1> USE DEF IInv
<1>1. /\ UNCHANGED <<line, todo, pending, unborn, dropped>> /\ pc[p] = "handle"
      /\ acked' \in {acked, acked \cup {Current(p)}} /\ Onward
    BY Zenon DEF Handle, Onward
<1>2. /\ rptr[p] \in Nat /\ Len(todo[p]) \in Nat /\ rptr[p] \in 1..Len(todo[p])
      /\ line[p].cmd = "process" /\ line[p] \in Commands /\ fret[p] = "none"
      /\ Current(p) # Junk /\ Current(p) \in Numbers
    BY <1>1, Position DEF Local, Control
<1>3. acked' \subseteq Numbers
    BY <1>1, <1>2 DEF Shape, TypeOK
<1>4. NeverLost'
    BY <1>1, Zenon DEF NeverLost
<1>5. Walked(p) => \A q \in Procs \ {p} : Same(q)
    BY Zenon DEF Walked
<1>6. Quiet(p) => /\ \A q \in Procs \ {p} : Heard(q)
                  /\ faults' \in 0..MaxFaults /\ alone' \in [Procs -> BOOLEAN]
    BY <1>1 DEF Quiet, Heard
<1>7. pending' \subseteq Numbers /\ unborn' \subseteq Numbers /\ pending' \cap unborn' = {}
    BY <1>1 DEF Shape, TypeOK
<1>8. ASSUME Walked(p), Quiet(p), Local(p)'
      PROVE  IInv'
  <2>1. Shape'
    BY <1>3, <1>6, <1>7, <1>8, WalkShaped
  <2> QED BY <1>1, <1>4, <1>5, <1>6, <1>8, <2>1, StepKeeps
<1>9. CASE /\ acked' = acked \cup {Current(p)} /\ line[p].autoremove /\ Go(p, "remove")
           /\ UNCHANGED <<rptr, fret, faults, alone>>
  <2>1. pc'[p] = "remove"
    BY <1>9, Zenon DEF Shape, TypeOK, Go
  <2>2. Walked(p)
    BY <1>1, <1>2, <1>9, Zenon DEF Shape, TypeOK, Go, Walked, Same, Places
  <2>3. Control(p)'
    BY <1>1, <1>2, <1>9, <2>1 DEF Control, Current, Walking
  <2>4. Entitled(p)'
    BY <1>1, <1>9, Zenon DEF Entitled, Current
  <2>5. Passed(p)' /\ Before(p)'
    BY <1>1, <1>9, <2>1 DEF Local, Passed, Before, Walking
  <2> QED BY <1>8, <1>9, <2>2, <2>3, <2>4, <2>5, Unfaulted, Zenon DEF Local
<1>10. CASE /\ acked' = acked \cup {Current(p)} /\ ~line[p].autoremove /\ Advance(p)
            /\ UNCHANGED <<faults, alone>>
  <2>1. /\ pc'[p] = "loop" /\ rptr'[p] = rptr[p] + 1 /\ rptr'[p] \in Nat /\ rptr'[p] >= 1
        /\ UNCHANGED fret /\ Walked(p)
    BY <1>1, <1>2, <1>10, Advanced, Zenon
  <2>2. Control(p)' /\ Entitled(p)'
    BY <1>1, <1>2, <2>1, InLoop, Zenon
  <2>3. Passed(p)'
    BY <1>1, <1>2, <1>10, <2>1, PassedOn, Zenon DEF Local
  <2>4. Before(p)'
    BY <1>1, <1>2, <1>10, <2>1, BeforeOn, Zenon DEF Local, Walking
  <2> QED BY <1>8, <1>10, <2>1, <2>2, <2>3, <2>4, Unfaulted, Zenon DEF Local
<1>11. CASE Fault(p) /\ Ends(p, "err") /\ UNCHANGED rptr
  <2>1. Walked(p) /\ pc'[p] = "free" /\ fret'[p] = "err"
    BY <1>1, <1>2, <1>11, Zenon DEF Shape, TypeOK, Ends, Walked, Same, Places
  <2>2. Quiet(p) /\ ~alone'[p]
    BY <1>11, Faulted
  <2>3. Local(p)'
    BY <1>1, <1>11, <2>1, <2>2, EndedLocal DEF Walking
  <2> QED BY <1>8, <2>1, <2>2, <2>3, Zenon
<1> QED BY <1>9, <1>10, <1>11, Zenon DEF Handle

\* What a removal takes from the eUICC, its process was entitled to take.
LEMMA RemoveKeeps ==
    ASSUME IInv, NEW p \in Procs, Remove(p)
    PROVE  IInv'
<1> USE DEF IInv
<1> DEFINE n == Current(p)
           new == {[by |-> line[p].cmd, n |-> m] : m \in {n} \cap pending}
           Drop == pending' = pending \ {n} /\ dropped' = dropped \cup new
<1>1. UNCHANGED <<line, todo, unborn, acked>> /\ pc[p] = "remove"
    BY Zenon DEF Remove
<1>2. /\ rptr[p] \in Nat /\ Len(todo[p]) \in Nat /\ rptr[p] \in 1..Len(todo[p])
      /\ line[p].cmd # "replay" /\ line[p] \in Commands /\ fret[p] = "none"
      /\ n # Junk
      /\ line[p].all /\ alone[p] => n \in pending
    BY <1>1, Position, Zenon
<1>3. line[p].cmd = "remove" \/ n \in acked
    BY <1>1 DEF Local, Entitled
<1>4. Drop \/ UNCHANGED <<pending, dropped>>
    BY Zenon DEF Remove
<1>5. Onward
    BY <1>1, <1>4, Zenon DEF Onward
<1>6. n \in pending => n \in acked \/ [by |-> "remove", n |-> n] \in new
    BY <1>3
<1>7. NeverLost'
    BY <1>1, <1>4, <1>6, Zenon DEF NeverLost
<1>8. pending' \subseteq Numbers /\ unborn' \subseteq Numbers /\ pending' \cap unborn' = {} /\ acked' \subseteq Numbers
    BY <1>1, <1>4, Zenon DEF Shape, TypeOK
<1>9. ASSUME NEW self \in BOOLEAN, Disturbs(p, self)
      PROVE  /\ alone' \in [Procs -> BOOLEAN] /\ \A q \in Procs \ {p} : Heard(q)
             /\ alone'[p] => alone[p] /\ ~self
  <2>1. alone' = [q \in Procs |-> alone[q] /\ (q = p => ~self) /\ (q # p => ~Running(q))]
    BY <1>9 DEF Disturbs
  <2>2. alone \in [Procs -> BOOLEAN]
    BY DEF Shape
  <2>3. alone' \in [Procs -> BOOLEAN]
    BY <2>1, <2>2, Zenon
  <2>4. alone'[p] => alone[p] /\ ~self
    BY <2>1, Zenon
  <2>5. \A q \in Procs \ {p} : alone'[q] => alone[q] /\ ~Running(q)
    BY <2>1, Zenon
  <2> QED BY <2>3, <2>4, <2>5 DEF Heard
<1>10. ASSUME Walked(p), Local(p)', faults' \in 0..MaxFaults, alone' \in [Procs -> BOOLEAN],
              \A q \in Procs \ {p} : Heard(q)
       PROVE  IInv'
  <2>1. Shape'
    BY <1>8, <1>10, WalkShaped, Zenon
  <2>2. \A q \in Procs \ {p} : Same(q)
    BY <1>10, Zenon DEF Walked
  <2> QED BY <1>5, <1>7, <1>10, <2>1, <2>2, StepKeeps, Zenon
<1>11. CASE n \in pending /\ Drop /\ Advance(p) /\ Disturbs(p, FALSE) /\ UNCHANGED faults
  <2>1. /\ pc'[p] = "loop" /\ rptr'[p] = rptr[p] + 1 /\ rptr'[p] \in Nat /\ rptr'[p] >= 1
        /\ UNCHANGED fret
    BY <1>1, <1>2, <1>11, Advanced, Zenon
  <2>2. Walked(p)
    BY <1>1, <1>2, <1>11, Advanced, Zenon
  <2>3. Control(p)' /\ Entitled(p)'
    BY <1>1, <1>2, <2>1, InLoop, Zenon
  <2>4. n \notin pending' \cup unborn'
    BY <1>1, <1>11, Zenon DEF Shape, TypeOK
  <2>5. Passed(p)'
    BY <1>1, <1>2, <1>3, <1>5, <2>1, <2>4, PassedOn, Zenon DEF Local
  <2>7. /\ alone' \in [Procs -> BOOLEAN] /\ \A q \in Procs \ {p} : Heard(q)
        /\ alone'[p] => alone[p]
    BY <1>9, <1>11, Zenon
  <2>8. line[p].all => \A i \in 1..Len(todo[p]) : i >= rptr[p] + 1 => todo[p][i] # n
    BY <1>2 DEF Local, Before, Current, Shape
  <2>9. Before(p)'
    <3>1. line'[p] = line[p] /\ todo'[p] = todo[p] /\ fret'[p] = "none" /\ rptr'[p] = rptr[p] + 1
      BY <1>1, <1>2, <2>1, Zenon
    <3>2. ASSUME line[p].all
          PROVE  \A i, j \in 1..Len(todo[p]) : i < j => todo[p][i] < todo[p][j]
      BY <3>2, Zenon DEF Local, Before
    <3>3. ASSUME line[p].all, alone'[p], NEW i \in 1..Len(todo[p]), i >= rptr[p] + 1
          PROVE  todo[p][i] \in pending'
      <4>1. alone[p] /\ pc[p] \in Walking
        BY <1>1, <2>7, <3>3, Zenon DEF Walking
      <4>2. i >= rptr[p]
        BY <1>2, <3>3
      <4>3. todo[p][i] \in pending
        BY <3>3, <4>1, <4>2, Zenon DEF Local, Before
      <4>4. todo[p][i] # n
        BY <2>8, <3>3, Zenon
      <4> QED BY <1>11, <4>3, <4>4, Zenon
    <3> QED BY <3>1, <3>2, <3>3, Zenon DEF Before
  <2>10. faults' \in 0..MaxFaults
    BY <1>11, Zenon DEF Shape, TypeOK
  <2> QED BY <1>10, <2>2, <2>3, <2>5, <2>7, <2>9, <2>10, Zenon DEF Local
<1>12. CASE n \notin pending /\ Ends(p, "err") /\ UNCHANGED <<rptr, faults, alone>>
  <2>1. Walked(p) /\ pc'[p] = "free" /\ fret'[p] = "err"
    BY <1>1, <1>2, <1>12, Zenon DEF Shape, TypeOK, Ends, Walked, Same, Places
  <2>2. Local(p)'
    BY <1>1, <1>2, <1>5, <1>12, <2>1, EndedLocal, Zenon DEF Walking
  <2>3. faults' \in 0..MaxFaults /\ alone' \in [Procs -> BOOLEAN]
    BY <1>12, Zenon DEF Shape, TypeOK
  <2>4. pending' = pending
    BY <1>4, <1>12
  <2>5. \A q \in Procs \ {p} : Heard(q)
    BY <1>12, <2>4, Zenon DEF Heard
  <2> QED BY <1>10, <2>1, <2>2, <2>3, <2>5, Zenon
<1>13. CASE /\ faults < MaxFaults /\ faults' = faults + 1 /\ Disturbs(p, TRUE)
            /\ Ends(p, "err") /\ UNCHANGED rptr
  <2>1. Walked(p) /\ pc'[p] = "free" /\ fret'[p] = "err"
    BY <1>1, <1>2, <1>13, Zenon DEF Shape, TypeOK, Ends, Walked, Same, Places
  <2>2. /\ alone' \in [Procs -> BOOLEAN] /\ \A q \in Procs \ {p} : Heard(q)
        /\ ~alone'[p]
    BY <1>9, <1>13, Zenon
  <2>3. Local(p)'
    BY <1>1, <1>5, <1>13, <2>1, <2>2, EndedLocal, Zenon DEF Walking
  <2>4. faults' \in 0..MaxFaults
    BY <1>13, CommandsAssumption DEF Shape, TypeOK
  <2> QED BY <1>10, <2>1, <2>2, <2>3, <2>4, Zenon
<1> QED BY <1>11, <1>12, <1>13, Zenon DEF Remove

\* A line of the input of replay is read (Parse).
LEMMA ParseKeeps ==
    ASSUME IInv, NEW p \in Procs, Parse(p)
    PROVE  IInv'
<1> USE DEF IInv
<1>1. UNCHANGED <<line, todo, pending, unborn, acked, faults, dropped, alone>> /\ pc[p] = "parse"
    BY DEF Parse
<1>2. Kept /\ Quiet(p)
    BY <1>1, Unfaulted, Zenon DEF Kept
<1>3. line[p].cmd = "replay" /\ line[p] \in Commands /\ fret[p] = "none" /\ rptr[p] >= 1
    BY <1>1, Zenon DEF Local, Control
<1>4. ~line[p].all
    BY <1>3, CommandsAssumption, Zenon
<1>5. rptr[p] \in Nat /\ Len(todo[p]) \in Nat /\ rptr[p] \in 0..Len(todo[p]) + 1
    BY DEF Shape, TypeOK
<1>6. Before(p)'
    BY <1>1, <1>4, Zenon DEF Before
<1>7. CASE rptr[p] > Len(todo[p]) /\ Ends(p, "ok") /\ UNCHANGED rptr
  <2>1. Walked(p) /\ pc'[p] = "free" /\ fret'[p] = "ok" /\ rptr[p] = Len(todo[p]) + 1
    BY <1>1, <1>5, <1>7 DEF Shape, TypeOK, Ends, Walked, Same, Places
  <2>2. Control(p)'
    BY <1>1, <1>3, <1>7, <2>1 DEF Control, Walking
  <2>3. Entitled(p)' /\ Passed(p)'
    BY <1>1, <1>7, <2>1, Zenon DEF Local, Entitled, Passed
  <2> QED BY <1>2, <1>6, <2>1, <2>2, <2>3, QuietWalk, Zenon DEF Local
<1>8. CASE Ends(p, "err") /\ UNCHANGED rptr
  <2>1. Walked(p) /\ pc'[p] = "free" /\ fret'[p] = "err"
    BY <1>1, <1>5, <1>8, Zenon DEF Shape, TypeOK, Ends, Walked, Same, Places
  <2>2. Control(p)'
    BY <1>1, <1>3, <1>8, <2>1, Zenon DEF Control, Walking
  <2>3. Entitled(p)' /\ Passed(p)'
    BY <1>1, <1>8, <2>1, Zenon DEF Local, Entitled, Passed
  <2> QED BY <1>2, <1>6, <2>1, <2>2, <2>3, QuietWalk, Zenon DEF Local
<1>9. CASE Go(p, "crashed") /\ UNCHANGED <<rptr, fret>>
  <2>1. Walked(p) /\ pc'[p] = "crashed"
    BY <1>1, <1>5, <1>9, Zenon DEF Shape, TypeOK, Go, Walked, Same, Places
  <2>2. Control(p)'
    BY <1>1, <1>3, <1>9, <2>1, Zenon DEF Control, Walking
  <2>3. Entitled(p)' /\ Passed(p)'
    BY <1>1, <1>9, <2>1, Zenon DEF Local, Entitled, Passed
  <2> QED BY <1>2, <1>6, <2>1, <2>2, <2>3, QuietWalk, Zenon DEF Local
<1>10. CASE /\ rptr[p] <= Len(todo[p]) /\ ~ParseNotification(Current(p))
            /\ Go(p, "parse") /\ rptr' = [rptr EXCEPT ![p] = rptr[p] + 1] /\ UNCHANGED fret
  <2>1. rptr'[p] = rptr[p] + 1 /\ pc'[p] = "parse"
    BY <1>10, Zenon DEF Shape, TypeOK, Go
  <2>2. Walked(p)
    BY <1>1, <1>5, <1>10 DEF Shape, TypeOK, Go, Walked, Same, Places
  <2>3. Control(p)'
    <3>1. line'[p] = line[p] /\ fret'[p] = "none"
      BY <1>1, <1>3, <1>10, Zenon
    <3>2. rptr'[p] >= 1
      BY <1>5, <2>1
    <3> QED BY <1>3, <2>1, <3>1, <3>2, Zenon DEF Control, Walking
  <2>4. ~line[p].autoremove
    BY <1>3, CommandsAssumption, Zenon
  <2>5. Passed(p)'
    BY <1>1, <1>3, <1>5, <1>10, <2>1, <2>4, PassedOn, Zenon DEF Local, Onward
  <2>6. Entitled(p)'
    BY <2>1, Zenon DEF Entitled
  <2> QED BY <1>2, <1>6, <2>2, <2>3, <2>5, <2>6, QuietWalk, Zenon DEF Local
<1>11. /\ rptr[p] > Len(todo[p]) => Ends(p, "ok") /\ UNCHANGED rptr
       /\ ~(rptr[p] > Len(todo[p])) =>
            \/ Ends(p, "err") /\ UNCHANGED rptr
            \/ Go(p, "crashed") /\ UNCHANGED <<rptr, fret>>
            \/ /\ ~ParseNotification(Current(p))
               /\ Go(p, "parse") /\ rptr' = [rptr EXCEPT ![p] = rptr[p] + 1] /\ UNCHANGED fret
    BY DEF Parse
<1> QED BY <1>5, <1>7, <1>8, <1>9, <1>10, <1>11

\* The arguments become as many numbers of 32 bits, or junk.
LEMMA ArgumentsTyped ==
    ASSUME NEW args \in Seq(Nat \cup {Junk, NotJson})
    PROVE  /\ Arguments(args) \in Seq(Int) /\ Len(Arguments(args)) = Len(args)
           /\ \A i \in 1..Len(args) : Arguments(args)[i] \in 0..NumMod - 1 \cup {Junk}
<1> DEFINE conv(i) == IF args[i] = Junk THEN Junk ELSE args[i] % NumMod
<1>1. ASSUME NEW i \in 1..Len(args)
      PROVE  conv(i) \in 0..NumMod - 1 \cup {Junk}
  <2>1. args[i] \in Int
    BY DEF Junk, NotJson
  <2> QED BY <2>1, CommandsAssumption DEF Junk
<1>2. \A i \in 1..Len(args) : conv(i) \in Int
    BY <1>1, CommandsAssumption DEF Junk
<1>3. Len(args) \in Nat
    OBVIOUS
<1> HIDE DEF conv
<1>4. Arguments(args) = [i \in 1..Len(args) |-> conv(i)]
    BY DEF Arguments, conv
<1> QED BY <1>1, <1>2, <1>3, <1>4

\* What the eUICC lists are its numbers, in their order.
LEMMA OrderedTyped ==
    ASSUME Shape, NEW list \in Ordered(pending)
    PROVE  /\ list \in Seq(Int) /\ \A i \in 1..Len(list) : list[i] \in pending
           /\ \A i, j \in 1..Len(list) : i < j => list[i] < list[j]
<1>1. pending \subseteq Int
    BY CommandsAssumption DEF Shape, TypeOK
<1>2. PICK n \in 0..Cardinality(pending) : list \in [1..n -> pending]
    BY Zenon DEF Ordered
<1>3. n \in Nat
    BY <1>2
<1>4. list \in [1..n -> Int]
    BY <1>1, <1>2, Zenon
<1>5. list \in Seq(Int) /\ Len(list) = n /\ DOMAIN list = 1..n
    BY <1>3, <1>4
<1> QED BY <1>2, <1>5, Zenon DEF Ordered

\* A new list for p, with types that fit.
LEMMA ListShaped ==
    ASSUME Shape, NEW p \in Procs, NEW c \in Commands \cup {None}, NEW list \in Seq(Int), NEW k \in {0, 1},
           line' = [line EXCEPT ![p] = c], todo' = [todo EXCEPT ![p] = list],
           rptr' = [rptr EXCEPT ![p] = k],
           \A i \in 1..Len(list) :
               list[i] \in 0..NumMod - 1 \cup {Junk} \cup IF c.cmd = "replay" THEN {NotJson} ELSE {},
           pc' \in [Procs -> Places], fret' \in [Procs -> {"none", "ok", "err"}],
           UNCHANGED <<pending, unborn, acked>>,
           faults' \in 0..MaxFaults, alone' \in [Procs -> BOOLEAN]
    PROVE  Shape'
<1>1. \A q \in Procs : \A i \in 1..Len(todo'[q]) :
          todo'[q][i] \in 0..NumMod - 1 \cup {Junk} \cup IF line'[q].cmd = "replay" THEN {NotJson} ELSE {}
    BY DEF Shape, TypeOK
<1>2. \A q \in Procs : rptr'[q] \in 0..Len(todo'[q]) + 1
    BY DEF Shape, TypeOK
<1>3. todo' \in [Procs -> Seq(Int)] /\ rptr' \in [Procs -> Nat] /\ line' \in [Procs -> Commands \cup {None}]
    BY DEF Shape, TypeOK
<1> QED BY <1>1, <1>2, <1>3, Zenon DEF Shape, TypeOK, Places

\* A command is started with its arguments (Start).
LEMMA StartKeeps ==
    ASSUME IInv, NEW p \in Procs, NEW c \in Commands, Start(p, c)
    PROVE  IInv'
<1> USE DEF IInv
<1>1. /\ UNCHANGED <<fret, pending, unborn, acked, faults, dropped, alone>> /\ pc[p] = "start"
      /\ line' = [line EXCEPT ![p] = c] /\ c.cmd # "replay"
    BY Zenon DEF Start
<1>2. fret[p] = "none" /\ rptr[p] = 0 /\ todo[p] = <<>>
    BY <1>1 DEF Local, Control
<1>3. /\ c.cmd \in {"process", "remove", "dump", "replay"} /\ c.all \in BOOLEAN
      /\ c.args \in Seq(Nat \cup {Junk, NotJson})
    BY CommandsAssumption, Zenon
<1> DEFINE list == IF c.all THEN <<>> ELSE Arguments(c.args)
           k == IF c.all THEN 0 ELSE 1
<1>4. list \in Seq(Int) /\ k \in {0, 1} /\ \A i \in 1..Len(list) : list[i] \in 0..NumMod - 1 \cup {Junk}
  <2>1. CASE c.all
    BY <2>1
  <2>2. CASE ~c.all
    BY <1>3, <2>2, ArgumentsTyped, Zenon
  <2> QED BY <2>1, <2>2
<1>5. todo' = [todo EXCEPT ![p] = list] /\ rptr' = [rptr EXCEPT ![p] = k]
    BY <1>2 DEF Start, Shape, TypeOK
<1> HIDE DEF list
<1>6. line'[p] = c /\ todo'[p] = list /\ rptr'[p] = k /\ pc' \in [Procs -> Places]
    BY <1>1, <1>5, Zenon DEF Start, Shape, TypeOK, Go, First, Places
<1>7. pc'[p] = IF c.cmd = "dump" THEN "eid" ELSE IF c.all THEN "list" ELSE "loop"
    BY <1>1 DEF Start, Shape, TypeOK, Go, First
<1>8. Shape'
    BY <1>1, <1>4, <1>5, <1>6, ListShaped, Zenon DEF Shape, TypeOK
<1>9. \A q \in Procs \ {p} : Same(q)
    BY <1>1, <1>5 DEF Start, Shape, TypeOK, Go, Same
<1>10. Control(p)'
  <2>1. fret'[p] = "none" /\ c \in Commands /\ c.cmd # "replay"
    BY <1>1, <1>2, Zenon
  <2>2. pc'[p] \in {"eid", "list", "loop"} /\ (pc'[p] = "list" => c.all)
    BY <1>3, <1>7, Zenon
  <2>3. pc'[p] # "list" => c.all \/ rptr'[p] = 1
    BY <1>6, Zenon
  <2>4. pc'[p] = "loop" => rptr'[p] = 1
    BY <1>3, <1>6, <1>7, Zenon
  <2> QED BY <1>6, <2>1, <2>2, <2>3, <2>4 DEF Control, Walking
<1>11. Entitled(p)' /\ Passed(p)'
    BY <1>4, <1>6, <1>7 DEF Entitled, Passed
<1>12. Before(p)'
    BY <1>1, <1>2, <1>6, <1>7 DEF Before, Walking, list
<1> QED BY <1>1, <1>8, <1>9, <1>10, <1>11, <1>12, QuietStep, Unfaulted, Zenon DEF Local, Kept

\* replay is started with its input (StartReplay).
LEMMA StartReplayKeeps ==
    ASSUME IInv, NEW p \in Procs, NEW c \in Commands, StartReplay(p, c)
    PROVE  IInv'
<1> USE DEF IInv
<1>1. /\ UNCHANGED <<pending, unborn, acked, faults, dropped, alone>> /\ pc[p] = "start"
      /\ line' = [line EXCEPT ![p] = c] /\ c.cmd = "replay"
      /\ todo' = [todo EXCEPT ![p] = c.args] /\ rptr' = [rptr EXCEPT ![p] = 1]
    BY Zenon DEF StartReplay
<1>2. fret[p] = "none"
    BY <1>1, Zenon DEF Local, Control
<1>3. ~c.all /\ ~c.autoremove /\ c.args \in Seq(0..NumMod - 1 \cup {Junk, NotJson})
    BY <1>1, CommandsAssumption, Zenon
<1>4. c.args \in Seq(Int) /\ \A i \in 1..Len(c.args) : c.args[i] \in 0..NumMod - 1 \cup {Junk, NotJson}
    BY <1>3, CommandsAssumption DEF Junk, NotJson
<1>5. line'[p] = c /\ todo'[p] = c.args /\ rptr'[p] = 1
    BY <1>1, Zenon DEF Shape, TypeOK
<1>6. \/ pc'[p] = "eid" /\ fret'[p] = "none"
      \/ pc'[p] = "done" /\ fret'[p] = "err"
    BY <1>2 DEF StartReplay, Shape, TypeOK, Go
<1>7. pc' \in [Procs -> Places] /\ fret' \in [Procs -> {"none", "ok", "err"}]
    BY Zenon DEF StartReplay, Shape, TypeOK, Go, Places
<1>8. faults' \in 0..MaxFaults /\ alone' \in [Procs -> BOOLEAN]
    BY <1>1 DEF Shape, TypeOK
<1>9. Shape'
    BY <1>1, <1>4, <1>7, <1>8, ListShaped, Zenon
<1>10. \A q \in Procs \ {p} : Same(q)
    BY <1>1 DEF StartReplay, Shape, TypeOK, Go, Same
<1>11. Control(p)'
    BY <1>1, <1>5, <1>6, Zenon DEF Control, Walking
<1>12. Entitled(p)' /\ Passed(p)'
    BY <1>4, <1>5, <1>6 DEF Entitled, Passed
<1>13. Before(p)'
    BY <1>3, <1>5, Zenon DEF Before
<1> QED BY <1>1, <1>9, <1>10, <1>11, <1>12, <1>13, QuietStep, Unfaulted, Zenon DEF Local, Kept

\* The EID is read (GetEid), or the command fails.
LEMMA GetEidKeeps ==
    ASSUME IInv, NEW p \in Procs, GetEid(p)
    PROVE  IInv'
<1> USE DEF IInv
<1>1. UNCHANGED <<line, todo, rptr, pending, unborn, acked, dropped>> /\ pc[p] = "eid" /\ Kept
    BY Zenon DEF GetEid, Kept
<1>2. line[p] \in Commands /\ fret[p] = "none" /\ (line[p].all \/ rptr[p] = 1)
    BY <1>1, Zenon DEF Local, Control
<1>3. line[p].all \in BOOLEAN /\ (line[p].cmd = "replay" => ~line[p].all)
    BY <1>2, CommandsAssumption, Zenon
<1>4. rptr[p] \in 0..Len(todo[p]) + 1 /\ rptr[p] \in Nat
    BY DEF Shape, TypeOK
<1>5. CASE Go(p, First(line[p])) /\ UNCHANGED <<fret, faults, alone>>
  <2>1. pc'[p] = IF line[p].cmd = "replay" THEN "parse" ELSE IF line[p].all THEN "list" ELSE "loop"
    BY <1>5, Zenon DEF Shape, TypeOK, Go, First
  <2>2. Walked(p)
    BY <1>1, <1>4, <1>5, Zenon DEF Shape, TypeOK, Go, First, Walked, Same, Places
  <2>3. Control(p)'
    <3>1. line'[p] = line[p] /\ rptr'[p] = rptr[p] /\ fret'[p] = "none"
      BY <1>1, <1>2, <1>5, Zenon
    <3>2. pc'[p] \in {"parse", "list", "loop"} /\ (pc'[p] = "list" => line[p].all)
      BY <1>3, <2>1, Zenon
    <3>3. /\ pc'[p] = "parse" => line[p].cmd = "replay" /\ rptr[p] = 1
          /\ pc'[p] = "loop" => line[p].cmd # "replay" /\ rptr[p] = 1
      BY <1>2, <1>3, <2>1
    <3> QED BY <1>2, <3>1, <3>2, <3>3 DEF Control, Walking
  <2>4. Entitled(p)' /\ Passed(p)' /\ Before(p)'
    BY <1>1, <1>3, <1>5, <2>1, Zenon DEF Local, Entitled, Passed, Before, Walking
  <2> QED BY <1>1, <1>5, <2>2, <2>3, <2>4, QuietWalk, Unfaulted, Zenon DEF Local
<1>6. CASE Fault(p) /\ Go(p, "done") /\ fret' = [fret EXCEPT ![p] = "err"]
  <2>1. pc'[p] = "done" /\ fret'[p] = "err"
    BY <1>6, Zenon DEF Shape, TypeOK, Go
  <2>2. Walked(p)
    BY <1>1, <1>4, <1>6 DEF Shape, TypeOK, Go, Walked, Same, Places
  <2>3. Quiet(p) /\ ~alone'[p]
    BY <1>6, Faulted, Zenon
  <2>4. Control(p)'
    BY <1>1, <1>2, <2>1, Zenon DEF Control, Walking
  <2>5. Entitled(p)' /\ Passed(p)' /\ Before(p)'
    BY <1>1, <2>1, <2>3, Zenon DEF Local, Entitled, Passed, Before
  <2> QED BY <1>1, <2>2, <2>3, <2>4, <2>5, QuietWalk, Zenon DEF Local
<1> QED BY <1>5, <1>6, Zenon DEF GetEid

\* The list of pending notifications is read (List), in the order of the numbers,
\* or the command fails.
LEMMA ListKeeps ==
    ASSUME IInv, NEW p \in Procs, List(p)
    PROVE  IInv'
<1> USE DEF IInv
<1>1. UNCHANGED <<line, pending, unborn, acked, dropped>> /\ pc[p] = "list" /\ Kept /\ Onward
    BY Zenon DEF List, Kept, Onward
<1>2. line[p] \in Commands /\ fret[p] = "none" /\ line[p].all
    BY <1>1, Zenon DEF Local, Control
<1>3. line[p].cmd # "replay"
    BY <1>2, CommandsAssumption, Zenon
<1>4. ASSUME NEW list \in Ordered(pending), todo' = [todo EXCEPT ![p] = list],
             rptr' = [rptr EXCEPT ![p] = 1], Go(p, "loop"), UNCHANGED <<fret, faults, alone>>
      PROVE  IInv'
  <2>1. /\ list \in Seq(Int) /\ \A i \in 1..Len(list) : list[i] \in pending
        /\ \A i, j \in 1..Len(list) : i < j => list[i] < list[j]
    BY OrderedTyped, Zenon
  <2>2. \A i \in 1..Len(list) : list[i] \in 0..NumMod - 1
    BY <2>1, CommandsAssumption, Zenon DEF Shape, TypeOK
  <2>3. pc'[p] = "loop" /\ todo'[p] = list /\ rptr'[p] = 1
    BY <1>4, Zenon DEF Shape, TypeOK, Go
  <2>4. line' = [line EXCEPT ![p] = line[p]] /\ line[p] \in Commands \cup {None}
    BY <1>1 DEF Shape, TypeOK
  <2>5. Shape'
    <3>1. pc' \in [Procs -> Places] /\ fret' \in [Procs -> {"none", "ok", "err"}]
          /\ faults' \in 0..MaxFaults /\ alone' \in [Procs -> BOOLEAN]
      BY <1>4, Zenon DEF Shape, TypeOK, Go, Places
    <3> QED BY <1>1, <1>4, <2>1, <2>2, <2>4, <3>1, ListShaped, Zenon
  <2>6. \A q \in Procs \ {p} : Same(q)
    BY <1>1, <1>4 DEF Shape, TypeOK, Go, Same
  <2>7. Control(p)' /\ Entitled(p)'
    <3>1. line'[p] = line[p] /\ fret'[p] = "none"
      BY <1>1, <1>2, <1>4, Zenon
    <3>2. rptr'[p] \in Nat /\ rptr'[p] >= 1
      BY <2>3
    <3> QED BY <1>2, <1>3, <2>3, <3>1, <3>2, InLoop, Zenon
  <2>8. Passed(p)'
    <3>1. \A i \in 1..Len(list) : ~(i < 1)
      BY <2>1
    <3> QED BY <2>3, <3>1, Zenon DEF Passed
  <2>9. Before(p)'
    <3>1. fret'[p] = "none" /\ pending' = pending
      BY <1>1, <1>2, <1>4, Zenon
    <3> QED BY <2>1, <2>3, <3>1, Zenon DEF Before
  <2> QED BY <1>1, <1>4, <2>5, <2>6, <2>7, <2>8, <2>9, QuietStep, Unfaulted, Zenon DEF Local
<1>5. CASE Fault(p) /\ Ends(p, "err") /\ UNCHANGED <<todo, rptr>>
  <2>1. rptr[p] \in 0..Len(todo[p]) + 1
    BY Zenon DEF Shape, TypeOK
  <2>2. Walked(p) /\ pc'[p] = "free" /\ fret'[p] = "err"
    BY <1>1, <1>5, <2>1 DEF Shape, TypeOK, Ends, Walked, Same, Places
  <2>3. Quiet(p) /\ ~alone'[p]
    BY <1>5, Faulted, Zenon
  <2>4. Local(p)'
    BY <1>1, <1>5, <2>2, <2>3, EndedLocal, Zenon
  <2> QED BY <1>1, <2>2, <2>3, <2>4, QuietWalk, Zenon
<1> QED BY <1>4, <1>5, Zenon DEF List

\* A new notification is pending, and takes nothing from anyone.
LEMMA CreateKeeps ==
    ASSUME IInv, NEW n \in Numbers, Create(n)
    PROVE  IInv'
<1> USE DEF IInv
<1>1. /\ UNCHANGED <<line, pc, todo, rptr, fret, acked, faults, dropped, alone>> /\ n \in unborn
      /\ pending' = pending \cup {n} /\ unborn' = unborn \ {n}
    BY Zenon DEF Create, hostVars
<1>2. Shape'
    BY <1>1 DEF Shape, TypeOK
<1>3. NeverLost'
    BY <1>1, Zenon DEF NeverLost
<1>4. Onward /\ \A q \in Procs : Same(q) /\ Heard(q)
    BY <1>1, Zenon DEF Onward, Same, Heard
<1> QED BY <1>2, <1>3, <1>4, OthersKeep, Zenon

-----------------------------------------------------------------------------
(* The theorems.                                                           *)

\* Every step keeps the invariant.
LEMMA NextKeeps ==
    ASSUME IInv, [Next]_vars
    PROVE  IInv'
<1>1. CASE UNCHANGED vars
  <2>1. UNCHANGED <<line, pc, todo, rptr, fret, pending, unborn, acked, faults, dropped, alone>>
    BY <1>1, Zenon DEF vars, hostVars
  <2>2. Shape'
    BY <2>1 DEF IInv, Shape, TypeOK
  <2>3. NeverLost'
    BY <2>1, Zenon DEF IInv, NeverLost
  <2>4. Onward /\ \A q \in Procs : Same(q) /\ Heard(q)
    BY <2>1, Zenon DEF Onward, Same, Heard
  <2> QED BY <2>2, <2>3, <2>4, OthersKeep, Zenon DEF IInv
<1>2. ASSUME NEW p \in Procs, Step(p) \/ Kill(p)
      PROVE  IInv'
    BY <1>2, StartKeeps, StartReplayKeeps, GetEidKeeps, ListKeeps, LoopKeeps, ParseKeeps,
       RetrieveKeeps, HandleKeeps, RemoveKeeps, FreeKeeps, KillKeeps, Zenon DEF Step
<1> QED BY <1>1, <1>2, CreateKeeps, Zenon DEF Next

\* The strengthened invariant holds in every reachable state.
LEMMA Inductive == Spec => []IInv
    BY InitKeeps, NextKeeps, PTL DEF Spec

\* A number from the command line is a uint32_t and the walk stays within its
\* list, for any command lines.
THEOREM NotificationsTyped == Spec => []TypeOK
<1>1. IInv => TypeOK
    BY DEF IInv, Shape
<1> QED BY <1>1, Inductive, PTL

\* A notification that is gone from the eUICC was handled by its server, or its
\* removal was asked for, wherever a process fails or is killed.
THEOREM NothingIsLost == Spec => []NeverLost
<1>1. IInv => NeverLost
    BY Zenon DEF IInv
<1> QED BY <1>1, Inductive, PTL

\* A process that reports success has done what it was asked to do, to all of its
\* list.
THEOREM SuccessIsComplete == Spec => []SuccessMeansDone
<1>1. ASSUME IInv, NEW p \in Procs, fret[p] = "ok", NEW i \in 1..Len(todo[p])
      PROVE  /\ (line[p].cmd = "process" /\ todo[p][i] # Junk)
                   \/ (line[p].cmd = "replay" /\ ParseNotification(todo[p][i])) => todo[p][i] \in acked
             /\ line[p].autoremove \/ line[p].cmd = "remove" => todo[p][i] \notin pending
  <2>1. rptr[p] = Len(todo[p]) + 1 /\ Passed(p) /\ todo[p] \in Seq(Int)
    BY <1>1, Zenon DEF IInv, Local, Control, Shape
  <2>2. i < rptr[p]
    BY <1>1, <2>1
  <2> QED BY <2>1, <2>2, Zenon DEF Passed
<1>2. IInv => SuccessMeansDone
    BY <1>1, Zenon DEF SuccessMeansDone
<1> QED BY <1>2, Inductive, PTL

\* An undisturbed -a with no failing exchange succeeds.
THEOREM UndisturbedSucceeds == Spec => []AloneSucceeds
<1>1. IInv => AloneSucceeds
    BY Zenon DEF IInv, Shape, TypeOK, Local, Before, AloneSucceeds
<1> QED BY <1>1, Inductive, PTL

\* Outside replay the double release of the list happens only after an error.
THEOREM DoubleFreeAfterError == Spec => []FreedTwiceOnlyOnError
<1>1. ASSUME IInv, NEW p \in Procs, pc[p] \in {"free", "crashed"}, line[p].cmd # "replay", FreedTwice(p)
      PROVE  fret[p] = "err"
  <2>1. rptr[p] \in Nat /\ Len(todo[p]) \in Nat /\ fret[p] \in {"none", "ok", "err"}
    BY <1>1 DEF IInv, Shape, TypeOK
  <2>2. fret[p] # "ok"
    BY <1>1, <2>1 DEF IInv, Local, Control, FreedTwice
  <2>3. fret[p] # "none"
    BY <1>1, Zenon DEF IInv, Local, Control
  <2> QED BY <2>1, <2>2, <2>3, Zenon
<1>2. IInv => FreedTwiceOnlyOnError
    BY <1>1 DEF FreedTwiceOnlyOnError
<1> QED BY <1>2, Inductive, PTL
=============================================================================
