----------------------------- MODULE X86Context -----------------------------
(***************************************************************************)
(* arch/x86/emulator: the contexts (processes and threads) of a guest, the *)
(* system calls that suspend, wake, signal, create and end them, and the   *)
(* host threads that sleep or poll on behalf of a suspended context.       *)
(*                                                                         *)
(* The main thread runs one instruction of every running context, frees    *)
(* the finished ones and processes events, over and over.  A host thread   *)
(* shares process_events_force and host_thread_suspend_active with it,     *)
(* under the emulator's mutex, and reads the state of its context without. *)
(* A system call is one step: a host thread that ends during one writes    *)
(* the same two fields as one that ends before it.                         *)
(*                                                                         *)
(* Handlers of signals other than SIGCHLD are taken to be installed.       *)
(***************************************************************************)
EXTENDS Integers, Sequences, FiniteSets, Functions

CONSTANTS
    MaxContexts,    \* bound: contexts the guest creates, the first one included
    MaxThreads,     \* bound: host threads alive at a time
    MaxCalls,       \* bound: system calls the guest makes
    MaxReady,       \* bound: units of data waiting in the file
    Signals,        \* a set of signal numbers
    SIGCHLD,
    Masks,          \* the sets of signals the guest blocks
    Calls           \* the system calls the guest makes

Contexts == 1 .. MaxContexts
Threads  == 1 .. MaxThreads
None     == 0                     \* nullptr

ASSUME ContextAssumption == /\ MaxContexts \in Nat \ {0}
                            /\ {MaxThreads, MaxCalls, MaxReady} \subseteq Nat
                            /\ SIGCHLD \in Signals
                            /\ Masks \subseteq SUBSET Signals

VARIABLES
    contexts,       \* Emulator::contexts, in order
    context,        \* the fields of each Context
    suspended,      \* Emulator::suspended_contexts
    zombies,        \* Emulator::zombie_contexts
    threads,        \* host threads alive
    force,          \* Emulator::process_events_force
    ready,          \* data in the file that the guest reads and polls
    created,        \* contexts created so far
    made,           \* system calls made so far
    turn,           \* where Emulator::Run is in the list of contexts
    phase           \* "run", "stopped", "aborted" (an exception or an assertion),
                    \* "undefined" (use of a freed context), "bound"

vars == <<contexts, context, suspended, zombies, threads, force, ready, created, made, turn, phase>>

\* A world is the part of the state that system calls and ProcessEvents change.
World == [context |-> context, suspended |-> suspended, zombies |-> zombies,
          threads |-> threads, force |-> force, ready |-> ready, phase |-> phase]

\* Once the program is gone nothing else is of interest.
Becomes(w) == IF w.phase = "run"
              THEN /\ context'   = w.context
                   /\ suspended' = w.suspended
                   /\ zombies'   = w.zombies
                   /\ threads'   = w.threads
                   /\ force'     = w.force
                   /\ ready'     = w.ready
                   /\ UNCHANGED phase
              ELSE /\ phase' = w.phase
                   /\ UNCHANGED <<context, suspended, zombies, threads, force, ready>>

\* Fields of a context that has not been created, or was freed.
Blank == [state |-> {}, parent |-> None, group_parent |-> None, exit_signal |-> None,
          pending |-> {}, blocked |-> {}, backup |-> {},
          active |-> FALSE, thread |-> None, expired |-> FALSE, pid |-> None]

Is(w, c, flag)   == flag \in w.context[c].state
Exists(c)        == c \in Range(contexts)
Dangling(c)      == c # None /\ ~Exists(c)
Unblocked(w, c)  == w.context[c].pending \ w.context[c].blocked
Schedule(w)      == [w EXCEPT !.force = TRUE]
Abort(w, why)    == [w EXCEPT !.phase = why]
Running(c)       == "Running" \in context[c].state

-----------------------------------------------------------------------------
(* States, and the lists that follow them.                                 *)

\* Context::UpdateState.
Normal(st) ==
    LET st1 == IF "Finished" \in st THEN {"Finished"} ELSE IF "Zombie" \in st THEN {"Zombie"} ELSE st
    IN IF st1 \cap {"Suspended", "Finished", "Zombie"} = {}
       THEN st1 \cup {"Running"} ELSE st1 \ {"Running"}

\* Mutant of Listed: a context stays in the list.
ListedForEver(list, c, present) == IF present /\ c \notin Range(list) THEN Append(list, c) ELSE list

\* The list without the contexts of a set.
Without(list, set) ==
    LET kept[i \in 0 .. Len(list)] ==
            IF i = 0 THEN <<>>
            ELSE IF list[i] \in set THEN kept[i - 1] ELSE Append(kept[i - 1], list[i])
    IN kept[Len(list)]

\* UpdateSuspendedContexts and its like: at the end when new, in place when there.
Listed(list, c, present) ==
    IF present THEN IF c \in Range(list) THEN list ELSE Append(list, c)
               ELSE Without(list, {c})

UpdateState(w, c, st) ==
    LET new == Normal(st)
    IN [w EXCEPT !.context[c].state = new,
                 !.suspended = Listed(@, c, "Suspended" \in new),
                 !.zombies   = Listed(@, c, "Zombie" \in new)]

SetState(w, c, flags)   == UpdateState(w, c, w.context[c].state \cup flags)
ClearState(w, c, flags) == UpdateState(w, c, w.context[c].state \ flags)

-----------------------------------------------------------------------------
(* Host threads.                                                           *)

\* pthread_create at the end of a CanWakeup function.
Launch(w, c) ==
    LET free == Threads \ DOMAIN w.threads
        t    == CHOOSE x \in free : \A y \in free : x <= y
    IN IF free = {} THEN Abort(w, "bound")
       ELSE [w EXCEPT !.threads = [x \in DOMAIN w.threads \cup {t} |->
                                      IF x = t THEN [context |-> c, at |-> "start", cancelled |-> FALSE]
                                               ELSE w.threads[x]],
                      !.context[c] = [@ EXCEPT !.active = TRUE, !.thread = t]]

\* HostThreadSuspendCancel.  To cancel a thread that has ended is an error.
HostThreadSuspendCancel(w, c) ==
    LET t == w.context[c].thread
    IN Schedule(IF ~w.context[c].active THEN w
                ELSE IF t \notin DOMAIN w.threads THEN Abort(w, "aborted")
                ELSE [w EXCEPT !.threads[t].cancelled = TRUE,
                               !.context[c] = [@ EXCEPT !.active = FALSE, !.thread = None]])

-----------------------------------------------------------------------------
(* Signals.                                                                *)

FirstSignal(w, c) == CHOOSE s \in Unblocked(w, c) : \A x \in Unblocked(w, c) : s <= x

\* RunSignalHandler and the removal from the pending signals.  SIGCHLD has no
\* handler and is dropped.
RunSignalHandler(w, c, sig) ==
    LET taken == [w EXCEPT !.context[c].pending = @ \ {sig}]
    IN IF sig = SIGCHLD THEN taken
       ELSE IF Is(w, c, "Handler") THEN Abort(w, "aborted")
       ELSE SetState(taken, c, {"Handler"})

CheckSignalHandlerIntr(w, c) ==
    IF Is(w, c, "Handler") THEN Abort(w, "aborted") ELSE RunSignalHandler(w, c, FirstSignal(w, c))

CheckSignalHandler(w, c) ==
    IF Is(w, c, "Handler") \/ Unblocked(w, c) = {} THEN w
    ELSE RunSignalHandler(w, c, FirstSignal(w, c))

ReturnFromSignalHandler(w, c) == ClearState(w, c, {"Handler"})

-----------------------------------------------------------------------------
(* Suspending and waking up.                                               *)

Suspend(w, c, wakeup_state) ==
    Schedule(SetState(w, c, {"Suspended", "Callback", wakeup_state}))

\* The arguments of the call are forgotten with it.
Wakeup(w, c) ==
    ClearState([w EXCEPT !.context[c] = [@ EXCEPT !.expired = FALSE, !.pid = None, !.backup = {}]], c,
               {"Callback", "Suspended", "Nanosleep", "Read", "Poll", "Waitpid", "Sigsuspend"})

\* The zombie children with that pid, None standing for -1, and the one getZombie
\* finds: the first in the list.
ZombiesOf(w, c, pid) ==
    {x \in Range(w.zombies) : w.context[x].parent = c /\ pid \in {None, x}}
FirstOf(list, set) ==
    LET at == {i \in DOMAIN list : list[i] \in set}
    IN list[CHOOSE i \in at : \A j \in at : i <= j]

\* Mutant of NanosleepCanWakeup: the time is not looked at.
NanosleepForEver(w, c) ==
    IF w.context[c].active THEN w
    ELSE IF Unblocked(w, c) # {} THEN Wakeup(w, c)
    ELSE Launch(w, c)

\* The CanWakeup functions, with Wakeup where they return true.
NanosleepCanWakeup(w, c) ==
    IF w.context[c].active THEN w
    ELSE IF w.context[c].expired \/ Unblocked(w, c) # {} THEN Wakeup(w, c)
    ELSE Launch(w, c)

ReadCanWakeup(w, c) ==
    IF w.context[c].active THEN w
    ELSE IF Unblocked(w, c) # {} THEN Wakeup(CheckSignalHandlerIntr(w, c), c)
    ELSE IF w.ready > 0 THEN Wakeup([w EXCEPT !.ready = @ - 1], c)
    ELSE Launch(w, c)

PollCanWakeup(w, c) ==
    IF w.context[c].active THEN w
    ELSE IF Unblocked(w, c) # {} THEN Wakeup(CheckSignalHandlerIntr(w, c), c)
    ELSE IF w.ready > 0 \/ w.context[c].expired THEN Wakeup(w, c)
    ELSE Launch(w, c)

WaitpidCanWakeup(w, c) ==
    LET found == ZombiesOf(w, c, w.context[c].pid)
    IN IF found = {} THEN w ELSE Wakeup(SetState(w, FirstOf(w.zombies, found), {"Finished"}), c)

SigsuspendCanWakeup(w, c) ==
    IF Unblocked(w, c) = {} THEN w
    ELSE Wakeup([CheckSignalHandlerIntr(w, c) EXCEPT !.context[c].blocked = w.context[c].backup], c)

CanWakeup(w, c) ==
    CASE Is(w, c, "Nanosleep")  -> NanosleepCanWakeup(w, c)
      [] Is(w, c, "Read")       -> ReadCanWakeup(w, c)
      [] Is(w, c, "Poll")       -> PollCanWakeup(w, c)
      [] Is(w, c, "Waitpid")    -> WaitpidCanWakeup(w, c)
      [] Is(w, c, "Sigsuspend") -> SigsuspendCanWakeup(w, c)
      [] OTHER                  -> w      \* a futex has no call-back

\* Emulator::ProcessEvents: the suspended contexts, then the signals of the
\* running ones.
LookAtSuspended(w, list) ==
    LET after[i \in 0 .. Len(list)] == IF i = 0 THEN w ELSE CanWakeup(after[i - 1], list[i])
    IN after[Len(list)]

RunHandlers(w, list) ==
    LET after[i \in 0 .. Len(list)] ==
            IF i = 0 THEN w
            ELSE IF Is(after[i - 1], list[i], "Running") THEN CheckSignalHandler(after[i - 1], list[i])
            ELSE after[i - 1]
    IN after[Len(list)]

ProcessEvents(w, list) ==
    IF ~w.force THEN w
    ELSE RunHandlers(LookAtSuspended([w EXCEPT !.force = FALSE], w.suspended), list)

\* FutexWake with all bits set.  The context with the lowest wakeup_futex_sleep
\* is the one that was suspended first, so the first in the list.
Sleepers(w) == {i \in DOMAIN w.suspended : Is(w, w.suspended[i], "Futex")}
FutexWake(w, count) ==
    LET first == {i \in Sleepers(w) : Cardinality({j \in Sleepers(w) : j < i}) < count}
        woken == {w.suspended[i] : i \in first}
    IN [w EXCEPT !.context = [c \in Contexts |-> IF c \notin woken THEN w.context[c]
                    ELSE [w.context[c] EXCEPT !.state = Normal(@ \ {"Futex", "Suspended"})]],
                 !.suspended = Without(@, woken)]

-----------------------------------------------------------------------------
(* The end of a context and of its group.                                  *)

\* The children lose their parent, and the zombies among them finish.
Orphan(w, c) ==
    LET children == {x \in Range(contexts) : w.context[x].parent = c}
    IN [w EXCEPT !.context = [x \in Contexts |-> IF x \notin children THEN w.context[x]
                    ELSE [w.context[x] EXCEPT !.parent = None,
                                              !.state = IF "Zombie" \in @ THEN {"Finished"} ELSE @]],
                 !.zombies = Without(@, children)]

\* The futex at clear_child_tid, when the context has one, wakes a sleeper.
Finish(w, c, clear_child_tid) ==
    LET parent   == w.context[c].parent
        signal   == w.context[c].exit_signal
        orphaned == Orphan(HostThreadSuspendCancel(w, c), c)
        told     == IF signal = None \/ parent = None THEN orphaned
                    ELSE IF Dangling(parent) THEN Abort(orphaned, "undefined")
                    ELSE [orphaned EXCEPT !.context[parent].pending = @ \cup {signal}]
        woken    == IF clear_child_tid THEN FutexWake(told, 1) ELSE told
    IN Schedule(SetState(ReturnFromSignalHandler(woken, c), c,
                         {IF parent # None THEN "Zombie" ELSE "Finished"}))

FinishMember(w, c, leader) ==
    LET w1 == IF Is(w, c, "Zombie") THEN SetState(w, c, {"Finished"}) ELSE w
        w2 == HostThreadSuspendCancel(ReturnFromSignalHandler(w1, c), c)
    IN SetState(w2, c, {IF c = leader /\ w.context[c].parent # None THEN "Zombie" ELSE "Finished"})

FinishMembers(w, group, leader) ==
    LET after[i \in 0 .. Len(contexts)] ==
            IF i = 0 THEN w
            ELSE IF contexts[i] \in group THEN FinishMember(after[i - 1], contexts[i], leader)
            ELSE after[i - 1]
    IN after[Len(contexts)]

FinishGroup(w, c) ==
    LET leader == IF w.context[c].group_parent = None THEN c ELSE w.context[c].group_parent
        group  == {x \in Range(contexts) : x = leader \/ w.context[x].group_parent = leader}
    IN IF Dangling(leader) THEN Abort(w, "undefined")
       ELSE IF w.context[leader].state \cap {"Finished", "Zombie"} # {} THEN w
       ELSE Schedule(FinishMembers(w, group, leader))

-----------------------------------------------------------------------------
(* Emulator::Run.                                                          *)

Init == /\ contexts  = <<1>>
        /\ context   = [c \in Contexts |-> IF c = 1 THEN [Blank EXCEPT !.state = {"Running"}]
                                                 ELSE Blank]
        /\ suspended = <<>>
        /\ zombies   = <<>>
        /\ threads   = <<>>
        /\ force     = FALSE
        /\ ready     = 0
        /\ created   = 1
        /\ made      = 0
        /\ turn      = 1
        /\ phase     = "run"

\* Positions of the contexts still to execute an instruction in this round.
ToRun == {i \in turn .. Len(contexts) : Running(contexts[i])}

\* The next running context of the list executes an instruction.
Executes(c, call) == /\ phase = "run"
                     /\ \E i \in ToRun : /\ \A j \in ToRun : i <= j
                                        /\ contexts[i] = c
                                        /\ turn' = i + 1
                     /\ call \in Calls
                     /\ made' = made + (IF call = "compute" THEN 0 ELSE 1)
                     /\ made' <= MaxCalls

Call(w) == Becomes(w) /\ UNCHANGED <<contexts, created>>

\* Calls that end with ProcessEventsSchedule and ProcessEvents.
CallAndProcess(w) == Call(ProcessEvents(Schedule(w), contexts))

\* clear_child_tid is set by a flag of clone, for a thread and for a process alike, or by
\* set_tid_address, and read only when its context ends: it is chosen there.
Exit(c)      == /\ Executes(c, "exit")
                /\ \E clear_child_tid \in BOOLEAN : Call(Finish(World, c, clear_child_tid))
ExitGroup(c) == Executes(c, "exit_group") /\ Call(FinishGroup(World, c))

Nanosleep(c) == /\ Executes(c, "nanosleep")
                /\ Call(Suspend([World EXCEPT !.context[c].expired = FALSE], c, "Nanosleep"))

Read(c) == /\ Executes(c, "read")
           /\ Call(IF ready > 0 THEN [World EXCEPT !.ready = @ - 1] ELSE Suspend(World, c, "Read"))

Poll(c) == /\ Executes(c, "poll")
           /\ ready = 0                   \* otherwise it returns at once
           /\ Call(Suspend([World EXCEPT !.context[c].expired = FALSE], c, "Poll"))

Waitpid(c, pid) ==
    /\ Executes(c, "waitpid")
    /\ LET found == ZombiesOf(World, c, pid)
       IN Call(IF found # {} THEN SetState(World, FirstOf(zombies, found), {"Finished"})
               ELSE Suspend([World EXCEPT !.context[c].pid = pid], c, "Waitpid"))

\* kill and tgkill
Kill(c, target, sig) ==
    /\ Executes(c, "kill")
    /\ CallAndProcess(HostThreadSuspendCancel(
           [World EXCEPT !.context[target].pending = @ \cup {sig}], target))

Sigreturn(c) == /\ Executes(c, "sigreturn")
                /\ Is(World, c, "Handler")
                /\ CallAndProcess(ReturnFromSignalHandler(World, c))

Sigprocmask(c, set) == /\ Executes(c, "sigprocmask")
                       /\ CallAndProcess([World EXCEPT !.context[c].blocked = set])

Sigsuspend(c, set) ==
    /\ Executes(c, "sigsuspend")
    /\ CallAndProcess(Suspend([World EXCEPT !.context[c] =
                                   [@ EXCEPT !.backup = context[c].blocked, !.blocked = set]],
                              c, "Sigsuspend"))

FutexWait(c) == Executes(c, "futex") /\ Call(SetState(World, c, {"Suspended", "Futex"}))

FutexWakeUp(c) == /\ Executes(c, "futex")
                  /\ \E count \in {1, Cardinality(Sleepers(World))} : Call(FutexWake(World, count))

\* clone: a thread of the group (whose exit signal is ignored) or a process.
Clone(c, thread) ==
    LET child == created + 1
    IN /\ Executes(c, IF thread THEN "clone_thread" ELSE "fork")
       /\ created < MaxContexts
       /\ created'  = child
       /\ contexts' = Append(contexts, child)
       /\ Becomes([World EXCEPT !.context[child] =
            [Blank EXCEPT !.state = {"Running"}, !.parent = c,
                          !.exit_signal = IF thread THEN None ELSE SIGCHLD,
                          !.group_parent = IF ~thread THEN None
                                           ELSE IF context[c].group_parent # None
                                                THEN context[c].group_parent ELSE c]])

\* Any other instruction.
Compute(c) == Executes(c, "compute") /\ Call(World)

SystemCall(c) ==
    \/ Exit(c) \/ ExitGroup(c) \/ Nanosleep(c) \/ Read(c) \/ Poll(c)
    \/ \E pid \in {None} \cup {x \in Range(contexts) : context[x].parent = c} : Waitpid(c, pid)
    \/ \E target \in Range(contexts), sig \in Signals \ {SIGCHLD} : Kill(c, target, sig)
    \/ Sigreturn(c)
    \/ \E set \in Masks : Sigprocmask(c, set) \/ Sigsuspend(c, set)
    \/ FutexWait(c) \/ FutexWakeUp(c)
    \/ Clone(c, TRUE) \/ Clone(c, FALSE)
    \/ Compute(c)

\* The end of a round: finished contexts are freed, then events are processed.
EndOfRound ==
    LET finished == {c \in Range(contexts) : Is(World, c, "Finished")}
        left     == Without(contexts, finished)
        freed    == [World EXCEPT !.context = [c \in Contexts |-> IF c \in finished THEN Blank ELSE context[c]]]
    IN /\ phase = "run"
       /\ contexts # <<>>
       /\ ToRun = {}
       /\ contexts' = left
       /\ turn' = 1
       /\ Becomes(ProcessEvents(freed, left))
       /\ UNCHANGED <<created, made>>

Stop == /\ phase = "run"
        /\ contexts = <<>>
        /\ phase' = "stopped"
        /\ UNCHANGED <<contexts, context, suspended, zombies, threads, force, ready, created, made, turn>>

MainThread == (\E c \in Contexts : SystemCall(c)) \/ EndOfRound \/ Stop

-----------------------------------------------------------------------------
(* Context::HostThreadSuspend, and the host.                               *)

\* A thread looks at the state of its context, which must not have been freed.
Thread(t, at) == phase = "run" /\ t \in DOMAIN threads /\ threads[t].at = at

ThreadContext(t) == threads[t].context

GoesTo(t, at) ==
    /\ Becomes(IF ~Exists(ThreadContext(t)) THEN Abort(World, "undefined")
               ELSE [World EXCEPT !.threads[t].at = at])
    /\ UNCHANGED <<contexts, created, made, turn>>

Waits(t) == context[ThreadContext(t)].state

Start(t) == /\ Thread(t, "start")
            /\ GoesTo(t, CASE "Nanosleep" \in Waits(t) -> "sleep"
                           [] Waits(t) \cap {"Read", "Poll"} # {} -> "poll"
                           [] OTHER -> "end")

\* usleep is over, in time or not: its result is not looked at.
SleepOver(t) == /\ Thread(t, "sleep")
                /\ GoesTo(t, IF Waits(t) \cap {"Read", "Poll"} # {} THEN "poll" ELSE "end")

\* The host poll returns with data, or at its timeout.
PollOver(t) == /\ Thread(t, "poll")
               /\ ready > 0 \/ "Poll" \in Waits(t)
               /\ GoesTo(t, "end")

\* usleep and poll are cancellation points.
Dies(t) == /\ phase = "run"
           /\ t \in DOMAIN threads
           /\ threads[t].cancelled
           /\ threads[t].at \in {"sleep", "poll"}
           /\ threads' = [x \in DOMAIN threads \ {t} |-> threads[x]]
           /\ UNCHANGED <<contexts, context, suspended, zombies, force, ready, created, made, turn, phase>>

\* Mutants of LastLines: no event is scheduled, or the field is not cleared.
LastLinesSilent(w, t) ==
    [w EXCEPT !.threads = [x \in DOMAIN w.threads \ {t} |-> w.threads[x]],
              !.context[w.threads[t].context] = [@ EXCEPT !.active = FALSE, !.thread = None]]
LastLinesActive(w, t) ==
    Schedule([w EXCEPT !.threads = [x \in DOMAIN w.threads \ {t} |-> w.threads[x]]])

\* The last lines, under the mutex.
LastLines(w, t) ==
    Schedule([w EXCEPT !.threads = [x \in DOMAIN w.threads \ {t} |-> w.threads[x]],
                       !.context[w.threads[t].context] = [@ EXCEPT !.active = FALSE, !.thread = None]])

Ends(t) ==
    /\ Thread(t, "end")
    /\ Becomes(IF Exists(ThreadContext(t)) THEN LastLines(World, t) ELSE Abort(World, "undefined"))
    /\ UNCHANGED <<contexts, created, made, turn>>

HostThread(t) == Start(t) \/ SleepOver(t) \/ PollOver(t) \/ Dies(t) \/ Ends(t)

\* The time given to nanosleep or poll is over.
Expire(c) == /\ phase = "run"
             /\ context[c].state \cap {"Nanosleep", "Poll"} # {}
             /\ ~context[c].expired
             /\ context' = [context EXCEPT ![c].expired = TRUE]
             /\ UNCHANGED <<contexts, suspended, zombies, threads, force, ready, created, made, turn, phase>>

DataArrives == /\ phase = "run"
               /\ ready < MaxReady
               /\ ready' = ready + 1
               /\ UNCHANGED <<contexts, context, suspended, zombies, threads, force, created, made, turn, phase>>

Next == MainThread \/ (\E t \in Threads : HostThread(t)) \/ (\E c \in Contexts : Expire(c)) \/ DataArrives

Spec == Init /\ [][Next]_vars

\* What a round of the main thread does to a request for events: ProcessEvents
\* takes it back, and nothing that it calls makes it again.
Processed == phase = "run" /\ force /\ force' = FALSE

\* The rounds of the main thread go on, the host schedules its threads and time
\* passes.
Fairness == /\ WF_force(Processed)
            /\ \A t \in Threads : WF_vars(HostThread(t))
            /\ \A c \in Contexts : WF_vars(Expire(c))

FairSpec == Spec /\ Fairness

-----------------------------------------------------------------------------
(* Properties.                                                             *)

TypeOK == /\ Range(contexts) \subseteq 1 .. created
          /\ \A c \in Contexts : /\ context[c].state = Normal(context[c].state) \/ context[c] = Blank
                                 /\ context[c].pending \subseteq Signals
                                 /\ context[c].thread \in {None} \cup Threads
          /\ Range(suspended) = {c \in Contexts : "Suspended" \in context[c].state}
          /\ Range(zombies) = {c \in Contexts : "Zombie" \in context[c].state}
          /\ DOMAIN threads \subseteq Threads
          /\ force \in BOOLEAN
          /\ ready \in 0 .. MaxReady
          /\ turn \in 1 .. MaxContexts + 1
          /\ phase \in {"run", "stopped", "aborted", "undefined", "bound"}

\* The thread a context counts on is alive and has not been cancelled.
CanCount(c) == /\ context[c].active
               /\ context[c].thread \in DOMAIN threads
               /\ threads[context[c].thread].context = c
               /\ ~threads[context[c].thread].cancelled

\* No wake-up is lost: a context suspended in nanosleep, read or poll has a live
\* host thread or the next round looks at it, and one whose child is a zombie or
\* whose signal is pending is looked at in the next round.
NoLostWakeup ==
    phase = "run" /\ ~force =>
        \A c \in Range(suspended) :
            /\ context[c].state \cap {"Nanosleep", "Read", "Poll"} # {} => CanCount(c)
            /\ "Waitpid" \in context[c].state => ZombiesOf(World, c, context[c].pid) = {}
            /\ "Sigsuspend" \in context[c].state => Unblocked(World, c) = {}

\* host_thread_suspend_active tells of a thread that pthread_cancel can find, also
\* when a cancelled thread, past its sleep, has cleared the field of its successor.
CancelFindsItsThread ==
    phase = "run" => \A c \in Contexts : context[c].active => CanCount(c)

\* Who waits in nanosleep or poll gets up, whatever signals, cancellations and
\* late threads come in between.
SleepersWake ==
    \A c \in Contexts : (context[c].state \cap {"Nanosleep", "Poll"} # {} /\ phase = "run")
                            ~> (context[c].state \cap {"Nanosleep", "Poll"} = {} \/ phase # "run")

\* The main thread and the host threads of Context.cc agree on which thread is running:
\* the lists are consistent and pthread_cancel finds its thread.
HostThreadsAreFound == TypeOK /\ CancelFindsItsThread
=============================================================================
