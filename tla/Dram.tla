-------------------------------- MODULE Dram --------------------------------
(***************************************************************************)
(* The DRAM model: one memory controller with one channel.  Three kinds of *)
(* events share the state of the channel:                                  *)
(*   - the request processor takes one request a cycle and breaks it into  *)
(*     commands at the end of its bank's queue;                            *)
(*   - the scheduler runs at most one command a cycle, when the timing     *)
(*     rules allow the one at the front of the bank it has chosen, and     *)
(*     otherwise remembers the bank and sleeps until they do;              *)
(*   - a command that has run returns after its duration.                  *)
(* Requests arrive in any cycle.  Events that are due in the same cycle    *)
(* run in any order.  Channels share nothing but the queue of requests,    *)
(* controllers share nothing, so one of each is enough.                    *)
(***************************************************************************)
EXTENDS Integers, Sequences, FiniteSets

CONSTANTS
    NumRanks, NumBanks,     \* geometry: NumBanks is per rank
    Rows,                   \* the rows requests are made for
    T,                      \* TimingParameters
    MaxRequests,            \* bound: requests made
    LastArrival             \* bound: the last cycle in which one arrives

Ranks == 0 .. NumRanks - 1
Banks == Ranks \X (0 .. NumBanks - 1)
CommandTypes == {"Precharge", "Activate", "Read", "Write"}
RequestTypes == {"Read", "Write"}
Parameters == {"tRC", "tRRD", "tRP", "tCCD", "tRTRS", "tCWD", "tWTR", "tCAS",
               "tRCD", "tOST", "tRAS", "tWR", "tRTP", "tBURST"}

\* A bank with no active row, Bank::future_active_row = -1.
Precharged == -1
\* Initial last_scheduled_commands.
Never == -100

\* ParseConfiguration refuses a geometry below one.
ASSUME GeometryAssumption ==
    /\ NumRanks \in Nat \ {0} /\ NumBanks \in Nat \ {0}
    /\ Rows \subseteq Nat
ASSUME ParameterAssumption == T \in [Parameters -> Nat]
ASSUME BoundAssumption == MaxRequests \in Nat /\ LastArrival \in Nat

Larger(x, y) == IF x >= y THEN x ELSE y

-----------------------------------------------------------------------------
(* The timing rules: previous command, next command, rank, bank, where a   *)
(* location is s(ame), d(ifferent) or a(ny).                               *)

timings ==
    [AAss |-> T["tRC"],
     AAsd |-> T["tRRD"],
     PAss |-> T["tRP"],
     ARss |-> T["tRCD"],
     RRsa |-> Larger(T["tBURST"], T["tCCD"]),
     RRda |-> T["tBURST"] + T["tRTRS"],
     WRsa |-> T["tCWD"] + T["tBURST"] + T["tWTR"],
     WRda |-> T["tCWD"] + T["tBURST"] + T["tRTRS"] - T["tCAS"],
     AWss |-> T["tRCD"],
     RWaa |-> T["tCAS"] + T["tBURST"] + T["tRTRS"] - T["tCWD"],
     WWsa |-> Larger(T["tBURST"], T["tCCD"]),
     WWda |-> T["tBURST"] + T["tOST"],
     APss |-> T["tRAS"],
     RPss |-> T["tBURST"] + T["tRTP"] - T["tCCD"],
     WPss |-> T["tCWD"] + T["tBURST"] + T["tWR"]]

getTiming(rule) == Larger(timings[rule], 1)

\* Controller::command_durations.
getDuration(type) ==
    CASE type = "Precharge" -> T["tRP"]
      [] type = "Activate" -> T["tRCD"]
      [] type = "Read" -> T["tCAS"] + T["tBURST"]
      [] type = "Write" -> T["tCWD"] + T["tBURST"] + T["tWTR"]

-----------------------------------------------------------------------------
VARIABLES
    cycle,                      \* of the DRAM's frequency domain
    incoming_requests,          \* Controller
    processor,                  \* {} or the cycle the request processor is called for
    command_queue, future_active_row,   \* Bank
    SchedulingPolicy, PagePolicy,       \* of the configuration
    bank_last, rank_last,       \* last_scheduled_commands of Bank and Rank
    next_scheduled_bank,        \* Channel: {} or the bank remembered
    scheduler,                  \* {} or the cycle the scheduler is called for
    current,                    \* RankBankRoundRobin: current_rank, current_bank
    returns,                    \* command_return events in flight
    \* History, for the properties.
    requests,                   \* number of requests made
    issued,                     \* commands run, in order
    open_row,                   \* the row the commands run have left open
    passed,                     \* commands other banks have run while the bank had one waiting
    finished                    \* requests finished, in order

policies == <<SchedulingPolicy, PagePolicy>>
controllerVars == <<incoming_requests, processor, requests>>
bankVars == <<command_queue, future_active_row>>
channelVars == <<bank_last, rank_last, next_scheduled_bank, current>>
historyVars == <<issued, open_row, passed>>
vars == <<cycle, controllerVars, bankVars, policies, channelVars, scheduler,
          returns, historyVars, finished>>

Requests == [id : 1 .. MaxRequests, type : RequestTypes, bank : Banks, row : Rows]
Commands == [type : CommandTypes, request : Requests, cycle_created : Nat]

Init ==
    /\ cycle = 0
    /\ incoming_requests = <<>> /\ processor = {}
    /\ command_queue = [b \in Banks |-> <<>>]
    /\ future_active_row = [b \in Banks |-> Precharged]
    /\ SchedulingPolicy \in {"OldestFirst", "RankBankRoundRobin"}
    /\ PagePolicy \in {"Open", "Closed"}
    /\ bank_last = [b \in Banks |-> [t \in CommandTypes |-> Never]]
    /\ rank_last = [r \in Ranks |-> [t \in CommandTypes |-> Never]]
    /\ next_scheduled_bank = {} /\ scheduler = {}
    /\ current = <<0, 0>>
    /\ returns = {}
    /\ requests = 0 /\ issued = <<>> /\ finished = <<>>
    /\ open_row = [b \in Banks |-> Precharged]
    /\ passed = [b \in Banks |-> [x \in Banks |-> 0]]

\* CallScheduler and CallRequestProcessor do nothing when the event is in flight.
Called(event, after) == IF event = {} THEN {cycle + after} ELSE event

-----------------------------------------------------------------------------
(* Requests                                                                *)

\* Read and Write, through System::AddRequest to Controller::AddRequest.
AddRequest(type, b, row) ==
    /\ requests < MaxRequests /\ cycle <= LastArrival
    /\ requests' = requests + 1
    /\ incoming_requests' =
           Append(incoming_requests,
                  [id |-> requests + 1, type |-> type, bank |-> b, row |-> row])
    /\ processor' = Called(processor, 1)
    /\ UNCHANGED <<cycle, bankVars, policies, channelVars, scheduler, returns,
                   historyVars, finished>>

Command(type, request) == [type |-> type, request |-> request, cycle_created |-> cycle]

\* The commands that open the row of a request, given the row its bank will have
\* open when the commands before them have run.
Opening(request, future) ==
    IF future = Precharged THEN <<Command("Activate", request)>>
    ELSE IF future # request.row
         THEN <<Command("Precharge", request), Command("Activate", request)>>
         ELSE <<>>

Closing(request) ==
    IF PagePolicy = "Closed" THEN <<Command("Precharge", request)>> ELSE <<>>

CommandsFor(request, future) ==
    Opening(request, future) \o <<Command(request.type, request)>> \o Closing(request)

\* The row that stays open when the commands of a request have run.
RowAfter(request) == IF PagePolicy = "Closed" THEN Precharged ELSE request.row

\* Mutant of ProcessRequest: decides from policies, which is never set.
ProcessForOpenRow(request) ==
    LET b == request.bank
    IN  /\ command_queue' =
               [command_queue EXCEPT ![b] = @ \o CommandsFor(request, Precharged)]
        /\ future_active_row' = [future_active_row EXCEPT ![b] = RowAfter(request)]
        /\ scheduler' = Called(scheduler, 1)

\* Mutant of ProcessRequest: the commands are put at the front of the queue.
ProcessAtFront(request) ==
    LET b == request.bank
    IN  /\ command_queue' =
               [command_queue EXCEPT ![b] = CommandsFor(request, future_active_row[b]) \o @]
        /\ future_active_row' = [future_active_row EXCEPT ![b] = RowAfter(request)]
        /\ scheduler' = Called(scheduler, 1)

\* Mutant of ProcessRequest: the bank is given no row to open.
ProcessWithoutRow(request) ==
    LET b == request.bank
    IN  /\ command_queue' =
               [command_queue EXCEPT ![b] = @ \o CommandsFor(request, future_active_row[b])]
        /\ future_active_row' = [future_active_row EXCEPT ![b] = Never]
        /\ scheduler' = Called(scheduler, 1)

\* Bank::ProcessRequest.
ProcessRequest(request) ==
    LET b == request.bank
    IN  /\ command_queue' =
               [command_queue EXCEPT ![b] = @ \o CommandsFor(request, future_active_row[b])]
        /\ future_active_row' = [future_active_row EXCEPT ![b] = RowAfter(request)]
        /\ scheduler' = Called(scheduler, 1)

\* Mutant of RunRequestProcessor: does not call itself for the requests left.
ProcessOnlyFirst ==
    /\ cycle \in processor
    /\ incoming_requests # <<>>
    /\ ProcessRequest(Head(incoming_requests))
    /\ incoming_requests' = Tail(incoming_requests)
    /\ processor' = {}
    /\ UNCHANGED <<cycle, policies, channelVars, returns, requests, historyVars,
                   finished>>

RunRequestProcessor ==
    /\ cycle \in processor
    /\ IF incoming_requests = <<>>
       THEN /\ processor' = {}
            /\ UNCHANGED <<incoming_requests, bankVars, scheduler>>
       ELSE /\ ProcessRequest(Head(incoming_requests))
            /\ incoming_requests' = Tail(incoming_requests)
            /\ processor' = IF Tail(incoming_requests) = <<>> THEN {} ELSE {cycle + 1}
    /\ UNCHANGED <<cycle, policies, channelVars, returns, requests, historyVars,
                   finished>>

-----------------------------------------------------------------------------
(* The scheduler                                                           *)

Front(b) == Head(command_queue[b])
BanksWaiting == {b \in Banks : command_queue[b] # <<>>}

\* The position of a bank in the order the schedulers visit them.
Index(b) == b[1] * NumBanks + b[2]
NumBanksTotal == NumRanks * NumBanks
\* How many banks the round robin passes before it comes to b.
Distance(b) == (Index(b) - Index(current) - 1) % NumBanksTotal

\* Mutant of OldestFirst: the comparison the other way round.
YoungestFirst(b) ==
    \A o \in BanksWaiting \ {b} :
        \/ Front(b).cycle_created > Front(o).cycle_created
        \/ Front(b).cycle_created = Front(o).cycle_created /\ Index(b) < Index(o)

\* OldestFirst::FindNext: the first bank whose front command is oldest.
OldestFirst(b) ==
    \A o \in BanksWaiting \ {b} :
        \/ Front(b).cycle_created < Front(o).cycle_created
        \/ Front(b).cycle_created = Front(o).cycle_created /\ Index(b) < Index(o)

\* Mutant of RankBankRoundRobin: every search starts at the first bank.
FirstBank(b) == \A o \in BanksWaiting : Index(b) <= Index(o)

\* RankBankRoundRobin::FindNext: the next bank that has a command.
RankBankRoundRobin(b) == \A o \in BanksWaiting : Distance(b) <= Distance(o)

FindNext(b) ==
    /\ b \in BanksWaiting
    /\ IF SchedulingPolicy = "OldestFirst" THEN OldestFirst(b) ELSE RankBankRoundRobin(b)

\* Mutant of ReadyCycles: the rules of the bank only.
ReadyForBank(type, b) ==
    LET Bank(t, rule) == bank_last[b][t] + getTiming(rule)
    IN  CASE type = "Precharge" ->
               {Bank("Activate", "APss"), Bank("Read", "RPss"), Bank("Write", "WPss")}
          [] type = "Activate" -> {Bank("Activate", "AAss"), Bank("Precharge", "PAss")}
          [] type = "Read" ->
               {Bank("Activate", "ARss"), Bank("Read", "RRsa"), Bank("Write", "WRsa")}
          [] type = "Write" ->
               {Bank("Activate", "AWss"), Bank("Write", "WWsa"), Bank("Read", "RWaa")}


\* CalculateReadyCycle: the cycles the timing rules make a command of bank b wait
\* for.  The command is ready in the latest of them.
ReadyCycles(type, b) ==
    LET r == b[1]
        Bank(t, rule) == bank_last[b][t] + getTiming(rule)
        Rank(o, t, rule) == rank_last[o][t] + getTiming(rule)
    IN  CASE type = "Precharge" ->
               {Bank("Activate", "APss"), Bank("Read", "RPss"), Bank("Write", "WPss")}
          [] type = "Activate" ->
               {Bank("Activate", "AAss"), Bank("Precharge", "PAss")} \union
               {bank_last[o]["Activate"] + getTiming("AAsd") :
                    o \in {o \in Banks : o[1] = r /\ o # b}}
          [] type = "Read" ->
               {Bank("Activate", "ARss"), Rank(r, "Read", "RRsa"), Rank(r, "Write", "WRsa")}
               \union {Rank(o, "Read", "RRda") : o \in Ranks \ {r}}
               \union {Rank(o, "Write", "RRda") : o \in Ranks \ {r}}
          [] type = "Write" ->
               {Rank(r, "Activate", "AWss"), Rank(r, "Write", "WWsa")}
               \union {Rank(o, "Write", "WWda") : o \in Ranks \ {r}}
               \union {Rank(o, "Read", "RWaa") : o \in Ranks}

Ready(b) == \A t \in ReadyCycles(Front(b).type, b) : cycle >= t
Latest(S) == CHOOSE t \in S : \A x \in S : x <= t

\* What a command leaves open in its bank.
RowLeftOpen(command) ==
    IF command.type = "Precharge" THEN Precharged ELSE command.request.row

\* Bank::RunFrontCommand, with setLastScheduledCommand of the bank and the rank.
RunFrontCommand(b) ==
    LET command == Front(b)
    IN  /\ bank_last' = [bank_last EXCEPT ![b][command.type] = cycle]
        /\ rank_last' = [rank_last EXCEPT ![b[1]][command.type] = cycle]
        /\ returns' = returns \union
               {[command |-> command, at |-> cycle + getDuration(command.type)]}
        /\ command_queue' = [command_queue EXCEPT ![b] = Tail(@)]
        /\ issued' = Append(issued, [type |-> command.type, bank |-> b, at |-> cycle])
        /\ open_row' = [open_row EXCEPT ![b] = RowLeftOpen(command)]
        /\ passed' = [o \in Banks |->
               IF o # b /\ o \in BanksWaiting THEN [passed[o] EXCEPT ![b] = @ + 1]
               ELSE [x \in Banks |-> 0]]

\* Mutant of RunScheduler: remembers the bank and does not call itself again.
SchedulerGivesUp(b) ==
    /\ cycle \in scheduler
    /\ IF next_scheduled_bank # {} THEN b \in next_scheduled_bank ELSE FindNext(b)
    /\ current' = IF SchedulingPolicy = "RankBankRoundRobin" THEN b ELSE current
    /\ IF Ready(b)
       THEN /\ RunFrontCommand(b)
            /\ next_scheduled_bank' = {}
            /\ scheduler' = {cycle + 1}
       ELSE /\ next_scheduled_bank' = {b}
            /\ scheduler' = {}
            /\ UNCHANGED <<bank_last, rank_last, returns, command_queue, historyVars>>
    /\ UNCHANGED <<cycle, controllerVars, future_active_row, policies, finished>>

\* RunScheduler, on the bank remembered or on the one FindNext returns.
RunScheduler(b) ==
    /\ cycle \in scheduler
    /\ IF next_scheduled_bank # {} THEN b \in next_scheduled_bank ELSE FindNext(b)
    /\ current' = IF SchedulingPolicy = "RankBankRoundRobin" THEN b ELSE current
    /\ IF Ready(b)
       THEN /\ RunFrontCommand(b)
            /\ next_scheduled_bank' = {}
            /\ scheduler' = {cycle + 1}
       ELSE /\ next_scheduled_bank' = {b}
            /\ scheduler' = {Latest(ReadyCycles(Front(b).type, b))}
            /\ UNCHANGED <<bank_last, rank_last, returns, command_queue, historyVars>>
    /\ UNCHANGED <<cycle, controllerVars, future_active_row, policies, finished>>

\* RunScheduler when no bank has a command.
SchedulerStops ==
    /\ cycle \in scheduler
    /\ next_scheduled_bank = {} /\ BanksWaiting = {}
    /\ scheduler' = {}
    /\ UNCHANGED <<cycle, controllerVars, bankVars, policies, channelVars, returns,
                   historyVars, finished>>

\* CommandReturnHandler: Command::setFinished finishes the request of an access.
CommandReturns(r) ==
    /\ r \in returns /\ r.at = cycle
    /\ returns' = returns \ {r}
    /\ finished' = IF r.command.type \in RequestTypes
                   THEN Append(finished, r.command.request) ELSE finished
    /\ UNCHANGED <<cycle, controllerVars, bankVars, policies, channelVars, scheduler,
                   historyVars>>

-----------------------------------------------------------------------------
Due == processor \union scheduler \union {r.at : r \in returns}

\* ProcessEvents has run every event of the cycle.
Tick ==
    /\ cycle \notin Due
    /\ Due # {} \/ cycle < LastArrival
    /\ cycle' = cycle + 1
    /\ UNCHANGED <<controllerVars, bankVars, policies, channelVars, scheduler,
                   returns, historyVars, finished>>

Next ==
    \/ \E type \in RequestTypes, b \in Banks, row \in Rows : AddRequest(type, b, row)
    \/ RunRequestProcessor
    \/ \E b \in Banks : RunScheduler(b)
    \/ SchedulerStops
    \/ \E r \in returns : CommandReturns(r)
    \/ Tick

Spec == Init /\ [][Next]_vars

\* The engine runs every event that is due and then advances the time; nothing
\* obliges a request to arrive.
Fairness ==
    /\ WF_vars(RunRequestProcessor)
    /\ WF_vars(\E b \in Banks : RunScheduler(b))
    /\ WF_vars(SchedulerStops)
    /\ WF_vars(\E r \in returns : CommandReturns(r))
    /\ WF_vars(Tick)
FairSpec == Spec /\ Fairness

-----------------------------------------------------------------------------
(* Properties                                                              *)

TypeOK ==
    /\ cycle \in Nat
    /\ incoming_requests \in Seq(Requests)
    /\ processor \subseteq Nat /\ scheduler \subseteq Int
    /\ command_queue \in [Banks -> Seq(Commands)]
    /\ future_active_row \in [Banks -> Rows \union {Precharged}]
    /\ SchedulingPolicy \in {"OldestFirst", "RankBankRoundRobin"}
    /\ PagePolicy \in {"Open", "Closed"}
    /\ bank_last \in [Banks -> [CommandTypes -> Int]]
    /\ rank_last \in [Ranks -> [CommandTypes -> Int]]
    /\ next_scheduled_bank \subseteq Banks
    /\ current \in Banks
    /\ returns \subseteq [command : Commands, at : Nat]
    /\ requests \in 0 .. MaxRequests
    /\ issued \in Seq([type : CommandTypes, bank : Banks, at : Nat])
    /\ open_row \in [Banks -> Rows \union {Precharged}]
    /\ passed \in [Banks -> [Banks -> Nat]]
    /\ finished \in Seq(Requests)

SameRank(c, d) == c.bank[1] = d.bank[1]

\* The separation the table of the controller asks for between command c and a
\* later command d: the rules of ParseConfigurationTiming, with their locations.
RulesBetween(c, d) ==
    LET Rule(prev, next, where, rule) ==
            IF c.type = prev /\ d.type = next /\ where THEN {rule} ELSE {}
    IN  UNION {Rule("Activate", "Activate", c.bank = d.bank, "AAss"),
               Rule("Activate", "Activate", SameRank(c, d) /\ c.bank # d.bank, "AAsd"),
               Rule("Precharge", "Activate", c.bank = d.bank, "PAss"),
               Rule("Activate", "Read", c.bank = d.bank, "ARss"),
               Rule("Read", "Read", SameRank(c, d), "RRsa"),
               Rule("Read", "Read", ~SameRank(c, d), "RRda"),
               Rule("Write", "Read", SameRank(c, d), "WRsa"),
               Rule("Write", "Read", ~SameRank(c, d), "WRda"),
               Rule("Activate", "Write", c.bank = d.bank, "AWss"),
               Rule("Read", "Write", TRUE, "RWaa"),
               Rule("Write", "Write", SameRank(c, d), "WWsa"),
               Rule("Write", "Write", ~SameRank(c, d), "WWda"),
               Rule("Activate", "Precharge", c.bank = d.bank, "APss"),
               Rule("Read", "Precharge", c.bank = d.bank, "RPss"),
               Rule("Write", "Precharge", c.bank = d.bank, "WPss")}

Separated(c, d) == \A rule \in RulesBetween(c, d) : d.at >= c.at + getTiming(rule)

\* No two commands of the channel, however far apart and in whatever banks, are
\* closer than the timing table says: CalculateReadyCycle looks only at the last
\* command of each type, and the bank is chosen cycles before the command runs.
TimingsRespected ==
    \A j \in 1 .. Len(issued) : \A i \in 1 .. j - 1 : Separated(issued[i], issued[j])

\* What the bank must have open for a command: nothing for an activate, some row
\* for a precharge, the row of the request for an access.
Legal(command, row) ==
    CASE command.type = "Activate" -> row = Precharged
      [] command.type = "Precharge" -> row # Precharged
      [] OTHER -> row = command.request.row

\* A command that can run next finds its bank as it needs it.  ProcessRequest
\* decides which commands a request needs from the row it expects to be open
\* long before the commands run.
RowIsReady == \A b \in BanksWaiting : Legal(Front(b), open_row[b])

\* Nothing waits for an event that is not in flight: while a bank has commands the
\* scheduler is called, while there are requests the request processor is.
\* CallScheduler and CallRequestProcessor return early when the event is in
\* flight, and RunScheduler stops calling itself when it finds no command.
NoLostWakeup ==
    /\ BanksWaiting # {} => scheduler # {}
    /\ incoming_requests # <<>> => processor # {}

\* The bank remembered while its command is not ready is still the one OldestFirst
\* would return: a request processed meanwhile does not make the choice stale.
ChoiceNotStale ==
    SchedulingPolicy = "OldestFirst" =>
        \A b \in next_scheduled_bank : FindNext(b)

\* The requests of a bank finish in the order in which they were made, although a
\* read and a write take different times to return.
FinishInOrder ==
    \A j \in 1 .. Len(finished) : \A i \in 1 .. j - 1 :
        finished[i].bank = finished[j].bank => finished[i].id < finished[j].id

\* Round robin: no other bank runs two commands while a bank waits with one, also
\* when a bank was remembered in between.
NoBankStarves ==
    SchedulingPolicy = "RankBankRoundRobin" => \A b, x \in Banks : passed[b][x] <= 1

\* Every request made finishes: AddRequest, ProcessRequest, the commands before it
\* in its bank, its own and the return of its access all happen.
Finishes ==
    \A n \in 1 .. MaxRequests :
        requests >= n ~> \E i \in 1 .. Len(finished) : finished[i].id = n

\* Bank.cc and Scheduler.cc serve the banks fairly: each finishes its requests in the
\* order they came, and none is passed over for ever while others are served.
ServedInTurn == TypeOK /\ FinishInOrder /\ NoBankStarves
=============================================================================
