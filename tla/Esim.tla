-------------------------------- MODULE Esim --------------------------------
(***************************************************************************)
(* lib/esim: the event-driven engine and its wait queues, with the main    *)
(* loop that drives it.  The loop alternates between                       *)
(*   phase "arch"    the architectures run and call the engine from outside *)
(*                   any handler;                                          *)
(*   phase "events"  ProcessEvents pops every frame that is due and runs   *)
(*                   its handler;                                          *)
(* and, once the simulation has finished, runs ProcessAllEvents:           *)
(*   "drain", "ends", "redrain", then "done".                              *)
(* A handler is any sequence of calls of the engine's interface followed   *)
(* by HandlerReturns.  A call that breaks the interface's rules throws a   *)
(* Panic, phase "panic", or fails an assertion.  The flag Engine::locked is never set anywhere    *)
(* and is left out; the two warnings only print.                           *)
(***************************************************************************)
EXTENDS Integers, Sequences, FiniteSets

CONSTANTS
    Frames,         \* the frame objects that can exist at a time
    Events,         \* registered event types
    Domains,        \* registered frequency domains
    Frequency,      \* Frequency[d] in MHz
    DomainOf,       \* DomainOf[e]: Event::frequency_domain
    None,           \* nullptr
    Afters,         \* delays a caller passes, in cycles
    Periods,        \* periods a caller passes for each event, 0 when it does not repeat
    MaxTime,        \* bound: no event is scheduled after it, the loop ends there
    MaxCalls,       \* bound: calls of the interface
    Interrupts,     \* whether the user may send a SIGINT
    MaxFinalization \* Engine::max_finalization_events

\* The unit of time is the picosecond.
Microsecond  == 1000000
CycleTime(d) == Microsecond \div Frequency[d]

\* Mutant of ShortestCycleTime: the comparison the other way round.
SlowestCycleTime ==
    CycleTime(CHOOSE d \in Domains : \A x \in Domains : Frequency[x] >= Frequency[d])

\* UpdateFastestFrequency: the cycle time of the domain of highest frequency.
ShortestCycleTime ==
    CycleTime(CHOOSE d \in Domains : \A x \in Domains : Frequency[x] <= Frequency[d])

\* isValidFrequency bounds what a configuration may ask for.
ASSUME DomainAssumption ==
    /\ Domains # {} /\ IsFiniteSet(Domains)
    /\ Frequency \in [Domains -> 1 .. Microsecond]
    /\ DomainOf \in [Events -> Domains]
ASSUME CallAssumption ==
    /\ Afters \subseteq Nat /\ Periods \in [Events -> SUBSET Nat]
    /\ MaxTime \in Nat /\ MaxCalls \in Nat /\ MaxFinalization \in Nat \ {0}
    /\ Interrupts \in BOOLEAN
    /\ None \notin Frames /\ None \notin Events

VARIABLES
    current_time,
    heap,           \* frames by time; schedule_sequence keeps equal times in order
    frame,          \* the fields of each frame
    queue,          \* a wait queue, head first
    stack,          \* current_frame, then the ones Execute saved
    in_flight,      \* Event::num_in_flight
    end_frames,
    phase,
    num_events,     \* counter of Drain
    waking,         \* inside the loop of Queue::WakeupAll
    signal,         \* signal_received = SIGINT
    finish,
    loop_iterations,    \* m2s_loop_iterations, modulo 2: only that it moves matters
    calls

vars == <<current_time, heap, frame, queue, stack, in_flight, end_frames, phase,
          num_events, waking, signal, finish, loop_iterations, calls>>

Blank == [event |-> None, time |-> 0, period |-> 0, parent |-> None,
          return_event |-> None, wakeup_event |-> None]

InSeq(f, s)   == \E i \in DOMAIN s : s[i] = f
InHeap(f)     == InSeq(f, heap)
InQueue(f)    == InSeq(f, queue)
current_frame == IF stack = <<>> THEN None ELSE Head(stack)
Draining      == phase \in {"drain", "redrain"}

Stopped       == phase \in {"done", "panic", "assert"}

\* Client code is running and may call the engine.
InHandler == stack # <<>> /\ ~waking /\ ~Stopped
Outside   == phase = "arch" /\ ~waking
Client    == InHandler \/ Outside

\* A frame no shared pointer refers to any more.
Free(f) ==
    /\ frame[f] = Blank
    /\ ~InHeap(f) /\ ~InQueue(f) /\ ~InSeq(f, stack) /\ ~InSeq(f, end_frames)
    /\ \A g \in Frames : frame[g].parent # f

-----------------------------------------------------------------------------
\* The order of Frame::CompareSharedPointers: behind the frames of the same time.
HeapInsert(h, f, fr) ==
    LET k == Cardinality({i \in DOMAIN h : fr[h[i]].time <= fr[f].time})
    IN  [i \in 1 .. Len(h) + 1 |->
            IF i <= k THEN h[i] ELSE IF i = k + 1 THEN f ELSE h[i - 1]]

\* Mutant of TimeOf: the current time is not rounded to the domain's cycle.
TimeOfUnrounded(e, after) == current_time + CycleTime(DomainOf[e]) * after

\* The time of an event: the start of its domain's current cycle plus the delay.
TimeOf(e, after) ==
    LET ct == CycleTime(DomainOf[e])
    IN  (current_time \div ct) * ct + ct * after

\* Event::incInFlight.  Bound: in the draining, which only adds, it stops counting
\* at MaxCalls.
incInFlight(e) ==
    [in_flight EXCEPT ![e] = IF Draining /\ @ >= MaxCalls THEN @ ELSE @ + 1]

Panic == /\ phase' = "panic"
         /\ UNCHANGED <<heap, in_flight>>

\* Engine::Schedule; fr is what the caller has already written to the frames.
Schedule(e, f, after, period, fr) ==
    \/ /\ f = None
       /\ phase' = "assert"
       /\ frame' = fr
       /\ UNCHANGED <<heap, in_flight>>
    \/ /\ InQueue(f) \/ InHeap(f)
       /\ Panic
       /\ frame' = fr
    \/ /\ f # None /\ ~InQueue(f) /\ ~InHeap(f)
       /\ e = None
       /\ frame' = fr
       /\ UNCHANGED <<heap, in_flight, phase>>
    \/ /\ f # None /\ ~InQueue(f) /\ ~InHeap(f)
       /\ e # None
       /\ TimeOf(e, after) <= MaxTime
       /\ frame' = [fr EXCEPT ![f].event = e, ![f].time = TimeOf(e, after),
                              ![f].period = period]
       /\ heap' = HeapInsert(heap, f, frame')
       /\ in_flight' = incInFlight(e)
       /\ UNCHANGED phase

\* Bound of the runs: a call costs one unit, except that the handlers the
\* draining runs may go on calling Next, and that a wake-up is paid for by the
\* Wait it answers.
Budget == calls < MaxCalls /\ calls' = calls + 1

\* Engine::Next: the current frame, or a new one outside of a handler.
NextEvent(e, after, period) ==
    /\ Client
    /\ IF Draining THEN UNCHANGED calls ELSE Budget
    /\ \E f \in Frames :
        /\ f = current_frame \/ (current_frame = None /\ Free(f))
        /\ Schedule(e, f, after, period, frame)
    /\ UNCHANGED <<current_time, queue, stack, end_frames, num_events, waking, loop_iterations, signal, finish>>

\* Engine::Call
Call(e, return_event, after, period) ==
    /\ Client /\ Budget
    /\ \E f \in Frames :
        /\ Free(f)
        /\ Schedule(e, f, after, period,
              [frame EXCEPT ![f].return_event = return_event, ![f].parent = current_frame])
    /\ UNCHANGED <<current_time, queue, stack, end_frames, num_events, waking, loop_iterations, signal, finish>>

\* Engine::Return
Return(after) ==
    /\ InHandler /\ Budget
    /\ LET r == frame[current_frame].return_event IN
        /\ r # None
        /\ Schedule(r, frame[current_frame].parent, after, 0, frame)
    /\ UNCHANGED <<current_time, queue, stack, end_frames, num_events, waking, loop_iterations, signal, finish>>

\* Engine::Execute runs the handler at once, on a frame of its own.
Execute(receive_event) ==
    /\ Client /\ Budget
    /\ \E f \in Frames :
        /\ Free(f)
        /\ frame' = [frame EXCEPT ![f].parent = current_frame,
                                  ![f].return_event = receive_event]
        /\ stack' = <<f>> \o stack
    /\ UNCHANGED <<current_time, heap, queue, in_flight, end_frames, phase, num_events,
                   waking, loop_iterations, signal, finish>>

\* Engine::EndEvent
EndEvent(e) ==
    /\ Client /\ Budget
    /\ \E f \in Frames :
        /\ Free(f)
        /\ frame' = [frame EXCEPT ![f].event = e]
        /\ end_frames' = Append(end_frames, f)
    /\ UNCHANGED <<current_time, heap, queue, stack, in_flight, phase, num_events, waking,
                   loop_iterations, signal, finish>>

-----------------------------------------------------------------------------
\* Mutant of Wait: no check that the frame has been scheduled already.
WaitUnchecked(e, priority) ==
    /\ InHandler /\ Budget
    /\ frame' = [frame EXCEPT ![current_frame].wakeup_event = e]
    /\ queue' = IF priority THEN <<current_frame>> \o queue
                            ELSE Append(queue, current_frame)
    /\ UNCHANGED <<current_time, heap, stack, in_flight, end_frames, phase, num_events,
                   waking, loop_iterations, signal, finish>>

\* Queue::Wait.  Its assertions !in_queue and !wakeup_event stop the program
\* like its Panics do.
Wait(e, priority) ==
    /\ InHandler /\ Budget
    /\ IF InHeap(current_frame) \/ InQueue(current_frame)
       THEN Panic /\ UNCHANGED <<frame, queue>>
       ELSE /\ frame' = [frame EXCEPT ![current_frame].wakeup_event = e]
            /\ queue' = IF priority THEN <<current_frame>> \o queue
                                    ELSE Append(queue, current_frame)
            /\ UNCHANGED <<heap, in_flight, phase>>
    /\ UNCHANGED <<current_time, stack, end_frames, num_events, waking, loop_iterations, signal, finish>>

\* The body of Queue::WakeupOne on a queue that is not empty: PopFront, then
\* Schedule, which finds the frame in no queue.
PopAndSchedule ==
    LET f == Head(queue)
        e == frame[f].wakeup_event
    IN  /\ queue' = Tail(queue)
        /\ IF InHeap(f)
           THEN Panic /\ frame' = [frame EXCEPT ![f].wakeup_event = None]
           ELSE /\ TimeOf(e, 0) <= MaxTime
                /\ frame' = [frame EXCEPT ![f].wakeup_event = None, ![f].event = e,
                                          ![f].time = TimeOf(e, 0), ![f].period = 0]
                /\ heap' = HeapInsert(heap, f, frame')
                /\ in_flight' = incInFlight(e)
                /\ UNCHANGED phase

WakeupOne ==
    /\ Client
    /\ IF queue = <<>> THEN Panic /\ UNCHANGED <<frame, queue>>
                       ELSE PopAndSchedule
    /\ UNCHANGED <<current_time, stack, end_frames, num_events, waking, loop_iterations, signal, finish, calls>>

\* Queue::WakeupAll pops until the queue is empty; nothing else runs meanwhile.
WakeupAll ==
    /\ Client \/ waking
    /\ queue # <<>>
    /\ PopAndSchedule
    /\ waking' = (queue' # <<>> /\ phase' # "panic")
    /\ UNCHANGED <<current_time, stack, end_frames, num_events, loop_iterations, signal, finish, calls>>

-----------------------------------------------------------------------------
\* Take a frame off the top of the heap and enter its handler.
PopHeap ==
    /\ heap' = Tail(heap)
    /\ stack' = <<Head(heap)>>

\* Mutant of ProcessEvent: decInFlight is forgotten.
ProcessEventKeepsCount ==
    /\ phase = "events" /\ stack = <<>>
    /\ heap # <<>> /\ frame[Head(heap)].time <= current_time
    /\ PopHeap
    /\ UNCHANGED <<current_time, frame, queue, in_flight, end_frames, phase, num_events,
                   waking, loop_iterations, signal, finish, calls>>

\* One iteration of ProcessEvents up to the call of the handler.
ProcessEvent ==
    /\ phase = "events" /\ stack = <<>>
    /\ heap # <<>> /\ frame[Head(heap)].time <= current_time
    /\ PopHeap
    /\ in_flight' = [in_flight EXCEPT ![frame[Head(heap)].event] = @ - 1]
    /\ UNCHANGED <<current_time, frame, queue, end_frames, phase, num_events, waking,
                   loop_iterations, signal, finish, calls>>

\* Mutant of NextCycle: the time does not advance.
NextCycleStuck ==
    /\ phase = "events" /\ stack = <<>>
    /\ heap # <<>> => frame[Head(heap)].time > current_time
    /\ phase' = "arch"
    /\ UNCHANGED <<current_time, heap, frame, queue, stack, in_flight, end_frames, num_events,
                   waking, loop_iterations, signal, finish, calls>>

\* Nothing left for this cycle: ProcessEvents advances the time and returns to
\* the main loop.
NextCycle ==
    /\ phase = "events" /\ stack = <<>>
    /\ heap # <<>> => frame[Head(heap)].time > current_time
    /\ current_time' = current_time + ShortestCycleTime
    /\ phase' = "arch"
    /\ UNCHANGED <<heap, frame, queue, stack, in_flight, end_frames, num_events, waking,
                   loop_iterations, signal, finish, calls>>

\* Mutant of DrainGivesUp: the test at the end of the loop is forgotten.
DrainGoesOn == FALSE

\* The test at the end of an iteration of Drain, after the handler.
DrainGivesUp == num_events = MaxFinalization

\* One iteration of Drain up to the call of the handler.  Bound: num_events counts
\* no further than the limit.
DrainEvent ==
    /\ Draining /\ stack = <<>>
    /\ heap # <<>> /\ ~DrainGivesUp
    /\ PopHeap
    /\ current_time' = frame[Head(heap)].time
    /\ num_events' = IF num_events < MaxFinalization THEN num_events + 1 ELSE num_events
    /\ UNCHANGED <<frame, queue, in_flight, end_frames, phase, waking, loop_iterations, signal, finish, calls>>

\* One iteration of ProcessEndEvents up to the call of the handler.
ProcessEndEvent ==
    /\ phase = "ends" /\ stack = <<>>
    /\ end_frames # <<>>
    /\ stack' = <<Head(end_frames)>>
    /\ end_frames' = Tail(end_frames)
    /\ UNCHANGED <<current_time, heap, frame, queue, in_flight, phase, num_events, waking,
                   loop_iterations, signal, finish, calls>>

\* The frames that shared pointers still reach when the current one is dropped:
\* the least set that holds those something else points to and their parents.
Held == {f \in Frames : InHeap(f) \/ InQueue(f) \/ InSeq(f, end_frames) \/ InSeq(f, Tail(stack))}
Reachable ==
    {f \in Frames : \A S \in SUBSET Frames :
        (Held \subseteq S /\ \A g \in S : frame[g].parent \in S \cup {None}) => f \in S}
Released == [f \in Frames |-> IF f \in Reachable THEN frame[f] ELSE Blank]

\* The handler is over.  ProcessEvents reschedules a periodic frame; Drain,
\* ProcessEndEvents and Execute do not.  Bound: nor does the model after MaxTime.
HandlerReturns ==
    /\ InHandler
    /\ stack' = Tail(stack)
    /\ LET f == current_frame
           periodic == phase = "events" /\ Len(stack) = 1 /\ frame[f].period > 0
           bounded  == TimeOf(frame[f].event, frame[f].period) <= MaxTime
       IN  IF periodic /\ (InHeap(f) \/ InQueue(f) \/ bounded)
           THEN Schedule(frame[f].event, f, frame[f].period, frame[f].period, frame)
           ELSE frame' = Released /\ UNCHANGED <<heap, in_flight, phase>>
    /\ UNCHANGED <<current_time, queue, end_frames, num_events, waking, loop_iterations, signal, finish, calls>>

-----------------------------------------------------------------------------
\* Engine::SignalHandler for SIGINT; a second one exits at once.
Sigint ==
    /\ ~Stopped /\ Interrupts
    /\ signal' = TRUE
    /\ phase' = IF signal THEN "done" ELSE phase
    /\ UNCHANGED <<current_time, heap, frame, queue, stack, in_flight, end_frames,
                   num_events, waking, finish, calls, loop_iterations>>

\* The rest of an iteration of MainLoop after arch_pool->Run: timing says
\* whether an architecture runs a timing simulation, emulating whether one runs
\* an emulation.  ProcessEvents starts with the check for the signal.  The last
\* disjunct stands for both uses of Finish in the loop.
Iterate(timing, emulating) ==
    /\ Outside /\ stack = <<>> /\ ~finish
    /\ \/ /\ timing /\ current_time < MaxTime
          /\ phase' = "events"
          /\ finish' = signal
       \/ /\ ~timing /\ emulating
          /\ UNCHANGED <<phase, finish>>
       \/ /\ ~timing /\ ~emulating
          /\ finish' = TRUE
          /\ UNCHANGED phase
    /\ loop_iterations' = (loop_iterations + 1) % 2
    /\ UNCHANGED <<current_time, heap, frame, queue, stack, in_flight, end_frames,
                   num_events, waking, signal, calls>>

\* The loop is over: ProcessAllEvents.
ProcessAllEvents ==
    /\ Outside /\ stack = <<>> /\ finish
    /\ phase' = "drain"
    /\ num_events' = 0
    /\ UNCHANGED <<current_time, heap, frame, queue, stack, in_flight, end_frames, waking,
                   loop_iterations, signal, finish, calls>>

\* Drain returns: to the warning when it gave up, else to the next stage.
DrainReturns ==
    /\ Draining /\ stack = <<>>
    /\ heap = <<>> \/ DrainGivesUp
    /\ phase' = IF phase = "drain" /\ ~DrainGivesUp THEN "ends" ELSE "done"
    /\ UNCHANGED <<current_time, heap, frame, queue, stack, in_flight, end_frames,
                   num_events, waking, loop_iterations, signal, finish, calls>>

EndEventsReturn ==
    /\ phase = "ends" /\ stack = <<>> /\ end_frames = <<>>
    /\ phase' = "redrain"
    /\ num_events' = 0
    /\ UNCHANGED <<current_time, heap, frame, queue, stack, in_flight, end_frames,
                   waking, loop_iterations, signal, finish, calls>>

-----------------------------------------------------------------------------
Init ==
    /\ current_time = 0 /\ heap = <<>> /\ queue = <<>> /\ stack = <<>>
    /\ frame = [f \in Frames |-> Blank]
    /\ in_flight = [e \in Events |-> 0]
    /\ end_frames = <<>> /\ phase = "arch" /\ num_events = 0
    /\ waking = FALSE /\ signal = FALSE /\ finish = FALSE
    /\ loop_iterations = 0 /\ calls = 0

Calls ==
    \/ \E e \in Events \cup {None}, a \in Afters :
           \E p \in (IF e = None THEN {0} ELSE Periods[e]) : NextEvent(e, a, p)
    \/ \E e \in Events, r \in Events \cup {None}, a \in Afters :
           \E p \in Periods[e] : Call(e, r, a, p)
    \/ \E a \in Afters : Return(a)
    \/ \E r \in Events \cup {None} : Execute(r)
    \/ \E e \in Events : EndEvent(e)
    \/ \E e \in Events, priority \in BOOLEAN : Wait(e, priority)
    \/ WakeupOne

Engine ==
    \/ ProcessEvent \/ NextCycle \/ DrainEvent \/ ProcessEndEvent
    \/ DrainReturns \/ EndEventsReturn \/ ProcessAllEvents \/ HandlerReturns

MainLoop == \E timing, emulating \in BOOLEAN : Iterate(timing, emulating)

Next == Calls \/ WakeupAll \/ Engine \/ MainLoop \/ Sigint

Spec == Init /\ [][Next]_vars

\* The engine's own steps and the rest of a WakeupAll are plain sequential code;
\* a handler returns, and the main loop goes round.
LoopFairness == WF_vars(Engine) /\ WF_vars(waking /\ WakeupAll) /\ WF_vars(MainLoop)
FairSpec == Spec /\ LoopFairness

\* A timing simulation that stays active until the bound on the time, where the
\* contexts finish.
TimingFairness ==
    /\ WF_vars(\E emulating \in BOOLEAN : Iterate(TRUE, emulating))
    /\ WF_vars(current_time >= MaxTime /\ Iterate(FALSE, FALSE))
TimingSpec == FairSpec /\ TimingFairness

-----------------------------------------------------------------------------
FrameFields ==
    [event : Events \cup {None}, time : 0 .. MaxTime, period : {0} \cup UNION {Periods[e] : e \in Events},
     parent : Frames \cup {None}, return_event : Events \cup {None},
     wakeup_event : Events \cup {None}]

\* Type invariant: what the engine and its queues hold.
TypeOK ==
    /\ current_time \in Nat
    /\ heap \in Seq(Frames) /\ queue \in Seq(Frames) /\ stack \in Seq(Frames)
    /\ end_frames \in Seq(Frames)
    /\ frame \in [Frames -> FrameFields]
    /\ in_flight \in [Events -> Int]
    /\ phase \in {"arch", "events", "drain", "ends", "redrain", "done", "panic", "assert"}
    /\ num_events \in 0 .. MaxFinalization
    /\ waking \in BOOLEAN /\ signal \in BOOLEAN /\ finish \in BOOLEAN
    /\ loop_iterations \in 0 .. 1 /\ calls \in 0 .. MaxCalls

\* An event chain is in one place: a frame is in the heap once or in the queue
\* once and never in both, and one that waits knows the event it waits for.
\* in_heap and in_queue guard this against a handler's second Next or Wait.
OnePlace ==
    /\ \A i, j \in DOMAIN heap : heap[i] = heap[j] => i = j
    /\ \A i, j \in DOMAIN queue : queue[i] = queue[j] => i = j
    /\ \A f \in Frames : ~(InHeap(f) /\ InQueue(f))
    /\ \A f \in Frames : InQueue(f) <=> frame[f].wakeup_event # None

Scheduled(e) == {i \in DOMAIN heap : frame[heap[i]].event = e}

\* Event.h: isInFlight tells whether events of a type are scheduled, and a type
\* is no longer in flight when the handler of its last instance runs.  Schedule
\* and ProcessEvents keep the count; until the draining it is exact.
InFlightIsScheduled ==
    phase \in {"arch", "events"} =>
        \A e \in Events : in_flight[e] = Cardinality(Scheduled(e))

\* In the main loop a handler runs in the very cycle of its own domain that it
\* was scheduled for, whatever the ratio of the frequencies: it is never early,
\* and never late by a cycle although the time of the frame may be in the past.
RunsInItsCycle ==
    [][(phase = "events" /\ stack = <<>> /\ stack' # <<>>) =>
         LET f  == stack'[1]
             ct == CycleTime(DomainOf[frame[f].event])
         IN  frame[f].time \div ct = current_time \div ct]_vars

\* A periodic event does not drift: each occurrence is exactly period cycles
\* after the time of the previous one, although ProcessEvents reschedules it
\* relative to the time at which its handler ran.
PeriodsDoNotDrift ==
    [][\A f \in Frames :
         (phase = "events" /\ stack = <<f>> /\ stack' = <<>> /\ frame[f].period > 0
              /\ InSeq(f, heap') /\ phase' # "panic") =>
           frame'[f].time = frame[f].time
               + frame[f].period * CycleTime(DomainOf[frame[f].event])]_vars

\* Handlers that keep scheduling events cannot keep the simulation from ending: once
\* finish is set the draining ends, by the limit on its events (Engine.cc:132) where
\* every handler the draining runs schedules another event.
Finalizes == finish ~> Stopped

\* Every event that is scheduled is run, in the main loop or by the draining,
\* unless the draining gives up.
ScheduledRuns ==
    \A f \in Frames : InHeap(f) ~> (~InHeap(f) \/ Stopped)

\* The bookkeeping of Engine.cc and Queue.cc is right: a frame is in one place, and the
\* counters of events in flight agree with the heap.
FramesAccountedFor == TypeOK /\ OnePlace /\ InFlightIsScheduled

\* ProcessEvents runs every event on time: in the cycle of its domain it was scheduled
\* for, and a periodic one again after exactly its period.
OnTime == RunsInItsCycle /\ PeriodsDoNotDrift
=============================================================================
