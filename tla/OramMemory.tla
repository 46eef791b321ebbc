----------------------------- MODULE OramMemory -----------------------------
(***************************************************************************)
(* What an ORAM promises its caller (the comment of Access_ORAM in         *)
(* path_oram.h): a memory of blocks in which a READ places at data_ptr the *)
(* data of the last WRITE to that id.  A READ of an id that was never      *)
(* written, or an id out of range, ends the program.                       *)
(***************************************************************************)
CONSTANTS Ids, BadIds, Values, NoValue

VARIABLES
    phase,      \* "down", "idle", "called", "done" or "aborted"
    op, id,     \* the running call
    buffer,     \* the caller's data_ptr
    mem         \* what each id holds, NoValue when it was never written

mvars == <<phase, op, id, buffer, mem>>

Empty == [i \in Ids |-> NoValue]

Init ==
    /\ phase = "down" /\ op = "none" /\ id = NoValue /\ buffer = NoValue
    /\ mem = Empty

Open ==
    /\ phase = "down" /\ phase' = "idle"
    /\ mem' = Empty
    /\ UNCHANGED <<op, id, buffer>>

Close ==
    /\ phase = "idle" /\ phase' = "down"
    /\ UNCHANGED <<op, id, buffer, mem>>

\* A call that is accepted: any WRITE, and a READ of what was written.
Accept(o, i, d) ==
    /\ phase = "idle" /\ phase' = "called"
    /\ o = "READ" => mem[i] # NoValue
    /\ op' = o /\ id' = i /\ buffer' = d
    /\ UNCHANGED mem

\* A call that fails an assertion; the buffer may have been passed already.
Reject ==
    /\ phase = "idle" /\ phase' = "aborted"
    /\ BadIds # {} \/ \E i \in Ids : mem[i] = NoValue
    /\ UNCHANGED <<op, id, buffer, mem>>

\* The one instant at which a call takes effect.
Perform ==
    /\ phase = "called" /\ phase' = "done"
    /\ IF op = "WRITE"
       THEN mem' = [mem EXCEPT ![id] = buffer] /\ UNCHANGED buffer
       ELSE buffer' = mem[id] /\ UNCHANGED mem
    /\ UNCHANGED <<op, id>>

Return ==
    /\ phase = "done" /\ phase' = "idle"
    /\ op' = "none" /\ id' = NoValue /\ buffer' = NoValue
    /\ UNCHANGED mem

Next ==
    \/ Open \/ Close \/ Reject \/ Perform \/ Return
    \/ \E i \in Ids : Accept("READ", i, NoValue)
    \/ \E i \in Ids, d \in Values : Accept("WRITE", i, d)

Spec == Init /\ [][Next]_mvars
=============================================================================
