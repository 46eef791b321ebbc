----------------------------- MODULE Dram_proofs -----------------------------
(***************************************************************************)
(* Proofs about the DRAM model, for every geometry, policy, timing table   *)
(* and number of requests.                                                 *)
(***************************************************************************)
EXTENDS Dram, LoopLemmas

-----------------------------------------------------------------------------
(* No wake-up is lost                                                      *)

\* Whatever cycle it is called for, an event that is called is in flight.
LEMMA CalledIsInFlight ==
    ASSUME NEW event, NEW after
    PROVE  Called(event, after) # {}
  BY DEF Called

\* A queue of commands or of requests is only ever filled by a step that leaves
\* its event in flight, and the event only stops when the queue is empty.
LEMMA NoLostWakeupStep == NoLostWakeup /\ [Next]_vars => NoLostWakeup'
  <1> SUFFICES ASSUME NoLostWakeup, [Next]_vars
               PROVE  NoLostWakeup'
    OBVIOUS
  <1>1. ASSUME NEW type \in RequestTypes, NEW b \in Banks, NEW row \in Rows,
               AddRequest(type, b, row)
        PROVE  NoLostWakeup'
    <2>1. processor' # {}
      BY <1>1, CalledIsInFlight DEF AddRequest
    <2>2. scheduler' = scheduler /\ BanksWaiting' = BanksWaiting
      BY <1>1 DEF AddRequest, BanksWaiting, bankVars
    <2> QED BY <2>1, <2>2 DEF NoLostWakeup
  <1>2. ASSUME RunRequestProcessor
        PROVE  NoLostWakeup'
    <2>1. CASE incoming_requests = <<>>
      BY <1>2, <2>1 DEF RunRequestProcessor, NoLostWakeup, BanksWaiting, bankVars
    <2>2. CASE incoming_requests # <<>>
      <3>1. scheduler' # {}
        BY <1>2, <2>2, CalledIsInFlight DEF RunRequestProcessor, ProcessRequest
      <3>2. incoming_requests' # <<>> => processor' # {}
        BY <1>2, <2>2 DEF RunRequestProcessor
      <3> QED BY <3>1, <3>2 DEF NoLostWakeup
    <2> QED BY <2>1, <2>2
  <1>3. ASSUME NEW b \in Banks, RunScheduler(b)
        PROVE  NoLostWakeup'
    <2>1. scheduler' # {}
      BY <1>3 DEF RunScheduler
    <2>2. UNCHANGED <<incoming_requests, processor>>
      BY <1>3 DEF RunScheduler, controllerVars
    <2> QED BY <2>1, <2>2 DEF NoLostWakeup
  <1>4. ASSUME SchedulerStops
        PROVE  NoLostWakeup'
    BY <1>4 DEF SchedulerStops, NoLostWakeup, BanksWaiting, bankVars, controllerVars
  <1>5. ASSUME NEW r \in returns, CommandReturns(r)
        PROVE  NoLostWakeup'
    BY <1>5 DEF CommandReturns, NoLostWakeup, BanksWaiting, bankVars, controllerVars
  <1>6. ASSUME Tick
        PROVE  NoLostWakeup'
    BY <1>6 DEF Tick, NoLostWakeup, BanksWaiting, bankVars, controllerVars
  <1>7. ASSUME UNCHANGED vars
        PROVE  NoLostWakeup'
    BY <1>7 DEF vars, NoLostWakeup, BanksWaiting, bankVars, controllerVars
  <1> QED BY <1>1, <1>2, <1>3, <1>4, <1>5, <1>6, <1>7 DEF Next

\* In no state do commands or requests wait for an event that CallScheduler or
\* CallRequestProcessor has not scheduled.
THEOREM NoWakeupIsLost == Spec => []NoLostWakeup
  <1>1. Init => NoLostWakeup
    BY DEF Init, NoLostWakeup, BanksWaiting
  <1> QED BY <1>1, NoLostWakeupStep, PTL DEF Spec

-----------------------------------------------------------------------------
(* Types, as far as the other proofs need them                             *)

Typed ==
    /\ cycle \in Nat
    /\ requests \in 0 .. MaxRequests
    /\ incoming_requests \in Seq(Requests)
    /\ command_queue \in [Banks -> Seq(Commands)]
    /\ future_active_row \in [Banks -> Rows \union {Precharged}]
    /\ open_row \in [Banks -> Rows \union {Precharged}]
    /\ bank_last \in [Banks -> [CommandTypes -> Int]]
    /\ rank_last \in [Ranks -> [CommandTypes -> Int]]
    /\ issued \in Seq([type : CommandTypes, bank : Banks, at : Nat])

\* A bank that is remembered has a command.
Remembered == \A b \in next_scheduled_bank : b \in Banks /\ command_queue[b] # <<>>

TypeInv == Typed /\ Remembered

LEMMA CommandsForType ==
    ASSUME NEW request \in Requests, NEW future, cycle \in Nat
    PROVE  /\ Opening(request, future) \in Seq(Commands)
           /\ <<Command(request.type, request)>> \in Seq(Commands)
           /\ Closing(request) \in Seq(Commands)
           /\ CommandsFor(request, future) \in Seq(Commands)
           /\ CommandsFor(request, future) # <<>>
  <1>1. \A type \in CommandTypes : Command(type, request) \in Commands
    BY DEF Commands, Command
  <1>2. request.type \in CommandTypes /\ "Activate" \in CommandTypes /\ "Precharge" \in CommandTypes
    BY DEF Requests, RequestTypes, CommandTypes
  <1>3. /\ Opening(request, future) \in Seq(Commands)
        /\ <<Command(request.type, request)>> \in Seq(Commands)
        /\ Closing(request) \in Seq(Commands)
    BY <1>1, <1>2 DEF Opening, Closing
  <1>4. CommandsFor(request, future) \in Seq(Commands)
    BY <1>3 DEF CommandsFor
  <1>5. CommandsFor(request, future) # <<>>
    <2> DEFINE opening == Opening(request, future)
               access == <<Command(request.type, request)>>
               closing == Closing(request)
    <2>1. Len(access) = 1
      OBVIOUS
    <2> HIDE DEF opening, access, closing
    <2>2. opening \in Seq(Commands) /\ access \in Seq(Commands) /\ closing \in Seq(Commands)
      BY <1>3 DEF opening, access, closing
    <2>3. Len(opening \o access \o closing) >= 1
      BY <2>1, <2>2
    <2> QED BY <2>3 DEF CommandsFor, opening, access, closing
  <1> QED BY <1>3, <1>4, <1>5

\* The command that RunScheduler runs or waits for exists.
LEMMA FrontType ==
    ASSUME TypeInv, NEW b \in Banks, command_queue[b] # <<>>
    PROVE  /\ Front(b) \in Commands
           /\ Front(b).type \in CommandTypes
           /\ Front(b).request \in Requests
           /\ Tail(command_queue[b]) \in Seq(Commands)
  <1>1. command_queue[b] \in Seq(Commands)
    BY DEF TypeInv, Typed
  <1>2. Len(command_queue[b]) >= 1
    BY <1>1
  <1>3. Front(b) \in Commands /\ Tail(command_queue[b]) \in Seq(Commands)
    BY <1>1, <1>2 DEF Front
  <1> QED BY <1>3 DEF Commands

\* RunScheduler never looks at the front of an empty queue: the bank FindNext
\* returns has a command, and the one remembered still has it.
LEMMA SchedulerFindsCommand ==
    ASSUME TypeInv, NEW b \in Banks, RunScheduler(b)
    PROVE  command_queue[b] # <<>>
  BY DEF TypeInv, Remembered, RunScheduler, FindNext, BanksWaiting

LEMMA TypeInvInit == Init => TypeInv
  <1> SUFFICES ASSUME Init PROVE TypeInv
    OBVIOUS
  <1>1. Never \in Int
    BY DEF Never
  <1>2. <<>> \in Seq(Commands) /\ <<>> \in Seq(Requests)
        /\ <<>> \in Seq([type : CommandTypes, bank : Banks, at : Nat])
    OBVIOUS
  <1>3. requests \in 0 .. MaxRequests
    BY BoundAssumption DEF Init
  <1> QED BY <1>1, <1>2, <1>3 DEF Init, TypeInv, Typed, Remembered

LEMMA TypeInvStep == TypeInv /\ [Next]_vars => TypeInv'
  <1> SUFFICES ASSUME TypeInv, [Next]_vars
               PROVE  TypeInv'
    OBVIOUS
  <1> USE DEF TypeInv
  <1>1. ASSUME NEW type \in RequestTypes, NEW b \in Banks, NEW row \in Rows,
               AddRequest(type, b, row)
        PROVE  TypeInv'
    <2> DEFINE request == [id |-> requests + 1, type |-> type, bank |-> b, row |-> row]
    <2>1. requests' \in 0 .. MaxRequests /\ requests + 1 \in 1 .. MaxRequests
      BY <1>1, BoundAssumption DEF AddRequest, Typed
    <2>2. request \in Requests
      BY <2>1 DEF Requests
    <2>3. incoming_requests' \in Seq(Requests)
      BY <1>1, <2>2 DEF AddRequest, Typed
    <2>4. UNCHANGED <<cycle, command_queue, future_active_row, open_row, bank_last, rank_last,
                      next_scheduled_bank, issued>>
      BY <1>1 DEF AddRequest, bankVars, channelVars, historyVars
    <2> QED BY <2>1, <2>3, <2>4 DEF Typed, Remembered
  <1>2. ASSUME RunRequestProcessor
        PROVE  TypeInv'
    <2>1. UNCHANGED <<cycle, requests, open_row, bank_last, rank_last, next_scheduled_bank,
                      issued>>
      BY <1>2 DEF RunRequestProcessor, channelVars, historyVars
    <2>2. CASE incoming_requests = <<>>
      <3>1. UNCHANGED <<incoming_requests, command_queue, future_active_row>>
        BY <1>2, <2>2 DEF RunRequestProcessor, bankVars
      <3> QED BY <2>1, <3>1 DEF Typed, Remembered
    <2>3. CASE incoming_requests # <<>>
      <3> DEFINE request == Head(incoming_requests)
                 commands == CommandsFor(request, future_active_row[request.bank])
      <3>1. request \in Requests /\ Tail(incoming_requests) \in Seq(Requests)
        BY <2>3 DEF Typed
      <3>2. request.bank \in Banks /\ request.row \in Rows
        BY <3>1 DEF Requests
      <3>3. commands \in Seq(Commands) /\ commands # <<>>
        BY <3>1, CommandsForType DEF Typed
      <3>4. ProcessRequest(request) /\ incoming_requests' = Tail(incoming_requests)
        BY <1>2, <2>3 DEF RunRequestProcessor
      <3> HIDE DEF commands, request
      <3>5. command_queue' = [command_queue EXCEPT ![request.bank] = @ \o commands]
        BY <3>4 DEF ProcessRequest, commands
      <3>6. command_queue' \in [Banks -> Seq(Commands)]
        BY <3>2, <3>3, <3>5 DEF Typed
      <3>7. future_active_row' \in [Banks -> Rows \union {Precharged}]
        BY <3>2, <3>4 DEF ProcessRequest, RowAfter, Typed
      <3>8. \A b \in Banks : command_queue[b] # <<>> => command_queue'[b] # <<>>
        <4> SUFFICES ASSUME NEW b \in Banks, command_queue[b] # <<>>
                     PROVE  command_queue'[b] # <<>>
          OBVIOUS
        <4>1. CASE b = request.bank
          <5>1. command_queue[b] \in Seq(Commands) /\ command_queue'[b] = command_queue[b] \o commands
            BY <3>2, <3>5, <4>1 DEF Typed
          <5>2. Len(command_queue[b]) >= 1
            BY <5>1
          <5>3. Len(command_queue'[b]) >= 1
            BY <5>1, <5>2, <3>3
          <5> QED BY <5>3
        <4>2. CASE b # request.bank
          BY <3>2, <3>5, <4>2 DEF Typed
        <4> QED BY <4>1, <4>2
      <3> QED BY <2>1, <3>1, <3>4, <3>6, <3>7, <3>8 DEF Typed, Remembered
    <2> QED BY <2>2, <2>3
  <1>3. ASSUME NEW b \in Banks, RunScheduler(b)
        PROVE  TypeInv'
    <2>1. command_queue[b] # <<>>
      BY <1>3, SchedulerFindsCommand
    <2>2. UNCHANGED <<cycle, requests, incoming_requests, future_active_row>>
      BY <1>3 DEF RunScheduler, controllerVars
    <2>3. CASE Ready(b)
      <3>1. RunFrontCommand(b) /\ next_scheduled_bank' = {}
        BY <1>3, <2>3 DEF RunScheduler
      <3>2. /\ Front(b).type \in CommandTypes
            /\ Front(b).request.row \in Rows
            /\ Tail(command_queue[b]) \in Seq(Commands)
        BY <2>1, FrontType DEF Requests
      <3>3. command_queue' \in [Banks -> Seq(Commands)]
        BY <3>1, <3>2 DEF RunFrontCommand, Typed
      <3>4. open_row' \in [Banks -> Rows \union {Precharged}]
        BY <3>1, <3>2 DEF RunFrontCommand, RowLeftOpen, Typed
      <3>5. b[1] \in Ranks
        BY DEF Banks
      <3>6. bank_last' \in [Banks -> [CommandTypes -> Int]]
        BY <3>1, <3>2 DEF RunFrontCommand, Typed
      <3>7. rank_last' \in [Ranks -> [CommandTypes -> Int]]
        BY <3>1, <3>2, <3>5 DEF RunFrontCommand, Typed
      <3>8. issued' \in Seq([type : CommandTypes, bank : Banks, at : Nat])
        BY <3>1, <3>2 DEF RunFrontCommand, Typed
      <3> QED BY <2>2, <3>1, <3>3, <3>4, <3>6, <3>7, <3>8 DEF Typed, Remembered
    <2>4. CASE ~Ready(b)
      <3>1. UNCHANGED <<bank_last, rank_last, command_queue, issued, open_row>>
            /\ next_scheduled_bank' = {b}
        BY <1>3, <2>4 DEF RunScheduler, historyVars
      <3> QED BY <2>1, <2>2, <3>1 DEF Typed, Remembered
    <2> QED BY <2>3, <2>4
  <1>4. ASSUME UNCHANGED <<controllerVars, bankVars, channelVars, historyVars>>, cycle' \in Nat
        PROVE  TypeInv'
    BY <1>4 DEF controllerVars, bankVars, channelVars, historyVars, Typed, Remembered
  <1>5. ASSUME SchedulerStops \/ \E r \in returns : CommandReturns(r)
        PROVE  TypeInv'
    BY <1>4, <1>5 DEF SchedulerStops, CommandReturns, Typed
  <1>6. ASSUME Tick
        PROVE  TypeInv'
    BY <1>4, <1>6 DEF Tick, Typed
  <1>7. ASSUME UNCHANGED vars
        PROVE  TypeInv'
    BY <1>4, <1>7 DEF vars, Typed
  <1> QED BY <1>1, <1>2, <1>3, <1>5, <1>6, <1>7 DEF Next

-----------------------------------------------------------------------------
(* Every command finds its row                                             *)

\* The row open before command i of s, when row "from" is open before the first.
RowBefore(s, from, i) == IF i = 1 THEN from ELSE RowLeftOpen(s[i - 1])

\* The commands of s are legal one after the other and lead from one row to another.
Chain(s, from, to) ==
    /\ \A i \in 1 .. Len(s) : Legal(s[i], RowBefore(s, from, i))
    /\ to = RowBefore(s, from, Len(s) + 1)

\* What a bank has queued leads from the row that is open to future_active_row.
Chained == \A b \in Banks : Chain(command_queue[b], open_row[b], future_active_row[b])

\* Two queues one after the other.
LEMMA ChainConcat ==
    ASSUME NEW S, NEW s \in Seq(S), NEW t \in Seq(S), NEW from, NEW mid, NEW to,
           Chain(s, from, mid), Chain(t, mid, to)
    PROVE  Chain(s \o t, from, to)
  <1>1. /\ Len(s \o t) = Len(s) + Len(t) /\ Len(s) \in Nat /\ Len(t) \in Nat
        /\ \A i \in 1 .. Len(s) : (s \o t)[i] = s[i]
        /\ \A i \in 1 .. Len(t) : (s \o t)[Len(s) + i] = t[i]
    OBVIOUS
  <1>2. \A i \in 1 .. Len(s) : RowBefore(s \o t, from, i) = RowBefore(s, from, i)
    BY <1>1 DEF RowBefore
  <1>3. \A i \in 1 .. Len(t) + 1 : RowBefore(s \o t, from, Len(s) + i) = RowBefore(t, mid, i)
    <2> SUFFICES ASSUME NEW i \in 1 .. Len(t) + 1
                 PROVE  RowBefore(s \o t, from, Len(s) + i) = RowBefore(t, mid, i)
      OBVIOUS
    <2>1. CASE i = 1
      <3>1. CASE Len(s) = 0
        BY <1>1, <2>1, <3>1 DEF RowBefore, Chain
      <3>2. CASE Len(s) # 0
        <4>1. Len(s) + i # 1 /\ Len(s) + i - 1 = Len(s) /\ Len(s) \in 1 .. Len(s)
          BY <1>1, <2>1, <3>2
        <4>2. mid = RowLeftOpen(s[Len(s)])
          BY <1>1, <3>2 DEF Chain, RowBefore
        <4> QED BY <1>1, <2>1, <4>1, <4>2 DEF RowBefore
      <3> QED BY <3>1, <3>2
    <2>2. CASE i # 1
      <3>1. i - 1 \in 1 .. Len(t) /\ Len(s) + i - 1 = Len(s) + (i - 1) /\ Len(s) + i # 1
        BY <1>1, <2>2
      <3> QED BY <1>1, <2>2, <3>1 DEF RowBefore
    <2> QED BY <2>1, <2>2
  <1>4. \A i \in 1 .. Len(s \o t) : Legal((s \o t)[i], RowBefore(s \o t, from, i))
    <2> SUFFICES ASSUME NEW i \in 1 .. Len(s \o t)
                 PROVE  Legal((s \o t)[i], RowBefore(s \o t, from, i))
      OBVIOUS
    <2>1. CASE i \in 1 .. Len(s)
      BY <1>1, <1>2, <2>1 DEF Chain
    <2>2. CASE i \notin 1 .. Len(s)
      <3>1. i - Len(s) \in 1 .. Len(t) /\ i = Len(s) + (i - Len(s))
        BY <1>1, <2>2
      <3> HIDE DEF Legal
      <3>2. /\ (s \o t)[i] = t[i - Len(s)]
            /\ RowBefore(s \o t, from, i) = RowBefore(t, mid, i - Len(s))
        BY <1>1, <1>3, <3>1
      <3> QED BY <3>1, <3>2 DEF Chain
    <2> QED BY <2>1, <2>2
  <1>5. to = RowBefore(s \o t, from, Len(s \o t) + 1)
    <2>1. Len(t) + 1 \in 1 .. Len(t) + 1 /\ Len(s \o t) + 1 = Len(s) + (Len(t) + 1)
      BY <1>1
    <2> QED BY <1>3, <2>1 DEF Chain
  <1> QED BY <1>4, <1>5 DEF Chain

\* A queue without its first command.
LEMMA ChainTail ==
    ASSUME NEW S, NEW s \in Seq(S), s # <<>>, NEW from, NEW to, Chain(s, from, to)
    PROVE  Chain(Tail(s), RowLeftOpen(Head(s)), to)
  <1>1. /\ Len(s) \in Nat \ {0} /\ Len(Tail(s)) = Len(s) - 1 /\ Head(s) = s[1]
        /\ \A i \in 1 .. Len(s) - 1 : Tail(s)[i] = s[i + 1]
    OBVIOUS
  <1>2. \A i \in 1 .. Len(s) :
            RowBefore(Tail(s), RowLeftOpen(Head(s)), i) = RowBefore(s, from, i + 1)
    <2> SUFFICES ASSUME NEW i \in 1 .. Len(s)
                 PROVE  RowBefore(Tail(s), RowLeftOpen(Head(s)), i) = RowBefore(s, from, i + 1)
      OBVIOUS
    <2>1. CASE i = 1
      BY <1>1, <2>1 DEF RowBefore
    <2>2. CASE i # 1
      <3>1. i - 1 \in 1 .. Len(s) - 1 /\ i + 1 # 1 /\ i + 1 - 1 = i /\ (i - 1) + 1 = i
        BY <1>1, <2>2
      <3>2. Tail(s)[i - 1] = s[i]
        BY <1>1, <3>1
      <3> QED BY <2>2, <3>1, <3>2 DEF RowBefore
    <2> QED BY <2>1, <2>2
  <1>3. \A i \in 1 .. Len(Tail(s)) : Legal(Tail(s)[i], RowBefore(Tail(s), RowLeftOpen(Head(s)), i))
    <2> SUFFICES ASSUME NEW i \in 1 .. Len(s) - 1
                 PROVE  Legal(Tail(s)[i], RowBefore(Tail(s), RowLeftOpen(Head(s)), i))
      BY <1>1
    <2>1. i + 1 \in 1 .. Len(s) /\ i \in 1 .. Len(s) /\ Tail(s)[i] = s[i + 1]
      BY <1>1
    <2>2. Legal(s[i + 1], RowBefore(s, from, i + 1))
      BY <2>1 DEF Chain
    <2> QED BY <1>2, <2>1, <2>2
  <1>4. to = RowBefore(Tail(s), RowLeftOpen(Head(s)), Len(Tail(s)) + 1)
    <2>1. Len(s) \in 1 .. Len(s) /\ Len(Tail(s)) + 1 = Len(s)
      BY <1>1
    <2> QED BY <1>2, <2>1 DEF Chain
  <1> QED BY <1>3, <1>4 DEF Chain

LEMMA ChainEmpty == ASSUME NEW row PROVE Chain(<<>>, row, row)
  BY DEF Chain, RowBefore

LEMMA ChainOne ==
    ASSUME NEW command, NEW from, Legal(command, from)
    PROVE  Chain(<<command>>, from, RowLeftOpen(command))
  BY DEF Chain, RowBefore

LEMMA ChainTwo ==
    ASSUME NEW c, NEW d, NEW from, Legal(c, from), Legal(d, RowLeftOpen(c))
    PROVE  Chain(<<c, d>>, from, RowLeftOpen(d))
  <1> DEFINE s == <<c, d>>
  <1>1. Len(s) = 2 /\ s[1] = c /\ s[2] = d
    OBVIOUS
  <1> HIDE DEF s
  <1>2. RowBefore(s, from, 1) = from /\ RowBefore(s, from, 2) = RowLeftOpen(c)
        /\ RowBefore(s, from, 3) = RowLeftOpen(d)
    BY <1>1 DEF RowBefore
  <1>3. \A i \in 1 .. Len(s) : i = 1 \/ i = 2
    BY <1>1
  <1>4. Chain(s, from, RowLeftOpen(d))
    BY <1>1, <1>2, <1>3 DEF Chain
  <1> QED BY <1>4 DEF s

\* The commands ProcessRequest queues for a request lead from the row it expects to
\* be open to the row it records as open afterwards.
LEMMA CommandsForChain ==
    ASSUME NEW request \in Requests, NEW future \in Rows \union {Precharged}, cycle \in Nat
    PROVE  Chain(CommandsFor(request, future), future, RowAfter(request))
  <1> DEFINE row == request.row
             access == Command(request.type, request)
  <1>1. row \in Rows /\ row # Precharged /\ request.type \in RequestTypes
    BY GeometryAssumption DEF Requests, Precharged
  <1>2. /\ Opening(request, future) \in Seq(Commands)
        /\ <<access>> \in Seq(Commands)
        /\ Closing(request) \in Seq(Commands)
        /\ Opening(request, future) \o <<access>> \in Seq(Commands)
    BY CommandsForType
  <1>3. Chain(Opening(request, future), future, row)
    <2> DEFINE precharge == Command("Precharge", request)
               activate == Command("Activate", request)
    <2>1. /\ Legal(activate, Precharged) /\ RowLeftOpen(activate) = row
          /\ future # Precharged => Legal(precharge, future)
          /\ RowLeftOpen(precharge) = Precharged
      BY DEF Command, Legal, RowLeftOpen
    <2> HIDE DEF precharge, activate
    <2>2. Chain(<<activate>>, Precharged, row)
      BY <2>1, ChainOne
    <2>3. CASE future = Precharged
      BY <2>2, <2>3 DEF Opening, activate
    <2>4. CASE future # Precharged /\ future # row
      <3>1. Chain(<<precharge, activate>>, future, row)
        BY <2>1, <2>4, ChainTwo
      <3> QED BY <2>4, <3>1 DEF Opening, precharge, activate
    <2>5. CASE future # Precharged /\ future = row
      BY <2>5, ChainEmpty DEF Opening
    <2> QED BY <2>3, <2>4, <2>5
  <1>4. Chain(<<access>>, row, row)
    <2>1. Legal(access, row) /\ RowLeftOpen(access) = row
      BY <1>1 DEF Command, Legal, RowLeftOpen, RequestTypes
    <2> HIDE DEF access
    <2> QED BY <2>1, ChainOne
  <1>5. Chain(Closing(request), row, RowAfter(request))
    <2>1. CASE PagePolicy = "Closed"
      <3> DEFINE precharge == Command("Precharge", request)
      <3>1. Legal(precharge, row) /\ RowLeftOpen(precharge) = Precharged
        BY <1>1 DEF Command, Legal, RowLeftOpen
      <3> HIDE DEF precharge
      <3>2. Chain(<<precharge>>, row, Precharged)
        BY <3>1, ChainOne
      <3> QED BY <2>1, <3>2 DEF Closing, RowAfter, precharge
    <2>2. CASE PagePolicy # "Closed"
      BY <2>2, ChainEmpty DEF Closing, RowAfter
    <2> QED BY <2>1, <2>2
  <1> HIDE DEF row, access
  <1>6. Chain(Opening(request, future) \o <<access>>, future, row)
    BY <1>2, <1>3, <1>4, ChainConcat
  <1>7. Chain(Opening(request, future) \o <<access>> \o Closing(request), future, RowAfter(request))
    BY <1>2, <1>5, <1>6, ChainConcat
  <1> QED BY <1>7 DEF CommandsFor, access

LEMMA ChainedStep == TypeInv /\ Chained /\ [Next]_vars => Chained'
  <1> SUFFICES ASSUME TypeInv, Chained, [Next]_vars
               PROVE  Chained'
    OBVIOUS
  <1>1. ASSUME UNCHANGED <<command_queue, future_active_row, open_row>>
        PROVE  Chained'
    BY <1>1 DEF Chained
  <1>2. ASSUME RunRequestProcessor, incoming_requests # <<>>
        PROVE  Chained'
    <2> DEFINE request == Head(incoming_requests)
               commands == CommandsFor(request, future_active_row[request.bank])
    <2>1. request \in Requests
      BY <1>2 DEF TypeInv, Typed
    <2>2. request.bank \in Banks
      BY <2>1 DEF Requests
    <2>3. /\ Chain(commands, future_active_row[request.bank], RowAfter(request))
          /\ commands \in Seq(Commands)
      BY <2>1, <2>2, CommandsForChain, CommandsForType DEF TypeInv, Typed
    <2>4. ProcessRequest(request) /\ open_row' = open_row
      BY <1>2 DEF RunRequestProcessor, historyVars
    <2> HIDE DEF request, commands
    <2>5. /\ command_queue' = [command_queue EXCEPT ![request.bank] = @ \o commands]
          /\ future_active_row' = [future_active_row EXCEPT ![request.bank] = RowAfter(request)]
      BY <2>4 DEF ProcessRequest, commands
    <2> SUFFICES ASSUME NEW b \in Banks
                 PROVE  Chain(command_queue'[b], open_row'[b], future_active_row'[b])
      BY DEF Chained, Chain, RowBefore
    <2>6. CASE b = request.bank
      <3>1. /\ command_queue'[b] = command_queue[b] \o commands
            /\ future_active_row'[b] = RowAfter(request)
        BY <2>2, <2>5, <2>6 DEF TypeInv, Typed
      <3>2. /\ Chain(command_queue[b], open_row[b], future_active_row[b])
            /\ command_queue[b] \in Seq(Commands)
        BY DEF Chained, TypeInv, Typed
      <3>3. Chain(command_queue[b] \o commands, open_row[b], RowAfter(request))
        BY <2>3, <2>6, <3>2, ChainConcat
      <3> QED BY <2>4, <3>1, <3>3
    <2>7. CASE b # request.bank
      <3>1. command_queue'[b] = command_queue[b] /\ future_active_row'[b] = future_active_row[b]
        BY <2>2, <2>5, <2>7 DEF TypeInv, Typed
      <3> QED BY <2>4, <3>1 DEF Chained
    <2> QED BY <2>6, <2>7
  <1>3. ASSUME NEW o \in Banks, RunScheduler(o), Ready(o)
        PROVE  Chained'
    <2>1. command_queue[o] # <<>>
      BY <1>3, SchedulerFindsCommand
    <2>2. RunFrontCommand(o) /\ future_active_row' = future_active_row
      BY <1>3 DEF RunScheduler
    <2>3. /\ command_queue' = [command_queue EXCEPT ![o] = Tail(@)]
          /\ open_row' = [open_row EXCEPT ![o] = RowLeftOpen(Head(command_queue[o]))]
      BY <2>2 DEF RunFrontCommand, Front
    <2> SUFFICES ASSUME NEW b \in Banks
                 PROVE  Chain(command_queue'[b], open_row'[b], future_active_row'[b])
      BY DEF Chained, Chain, RowBefore
    <2>4. CASE b = o
      <3>1. /\ command_queue'[b] = Tail(command_queue[b])
            /\ open_row'[b] = RowLeftOpen(Head(command_queue[b]))
        BY <2>3, <2>4 DEF TypeInv, Typed
      <3>2. /\ Chain(command_queue[b], open_row[b], future_active_row[b])
            /\ command_queue[b] \in Seq(Commands)
        BY DEF Chained, TypeInv, Typed
      <3>3. Chain(Tail(command_queue[b]), RowLeftOpen(Head(command_queue[b])), future_active_row[b])
        BY <2>1, <2>4, <3>2, ChainTail
      <3> QED BY <2>2, <3>1, <3>3
    <2>5. CASE b # o
      <3>1. command_queue'[b] = command_queue[b] /\ open_row'[b] = open_row[b]
        BY <2>3, <2>5 DEF TypeInv, Typed
      <3> QED BY <2>2, <3>1 DEF Chained
    <2> QED BY <2>4, <2>5
  <1>4. ASSUME NEW type \in RequestTypes, NEW b \in Banks, NEW row \in Rows,
               AddRequest(type, b, row)
        PROVE  Chained'
    BY <1>1, <1>4 DEF AddRequest, bankVars, historyVars
  <1>5. ASSUME RunRequestProcessor, incoming_requests = <<>>
        PROVE  Chained'
    BY <1>1, <1>5 DEF RunRequestProcessor, bankVars, historyVars
  <1>6. ASSUME NEW b \in Banks, RunScheduler(b), ~Ready(b)
        PROVE  Chained'
    BY <1>1, <1>6 DEF RunScheduler, historyVars
  <1>7. ASSUME SchedulerStops \/ (\E r \in returns : CommandReturns(r)) \/ Tick \/ UNCHANGED vars
        PROVE  Chained'
    BY <1>1, <1>7 DEF SchedulerStops, CommandReturns, Tick, vars, bankVars, historyVars
  <1> QED BY <1>2, <1>3, <1>4, <1>5, <1>6, <1>7 DEF Next

\* The front command of every bank is legal in the row that is open: it is the first
\* of a chain.
LEMMA ChainedGivesRow == TypeInv /\ Chained => RowIsReady
  <1> SUFFICES ASSUME TypeInv, Chained, NEW b \in BanksWaiting
               PROVE  Legal(Front(b), open_row[b])
    BY DEF RowIsReady
  <1>1. b \in Banks /\ command_queue[b] # <<>> /\ command_queue[b] \in Seq(Commands)
    BY DEF BanksWaiting, TypeInv, Typed
  <1>2. 1 \in 1 .. Len(command_queue[b]) /\ Front(b) = command_queue[b][1]
    BY <1>1 DEF Front
  <1>3. Legal(command_queue[b][1], RowBefore(command_queue[b], open_row[b], 1))
    BY <1>1, <1>2 DEF Chained, Chain
  <1> QED BY <1>2, <1>3 DEF RowBefore

\* Whatever requests arrive and however the scheduler interleaves the banks, an
\* access finds its row open, an activate its bank precharged and a precharge a row
\* to close: ProcessRequest predicts the row correctly.
THEOREM EveryCommandIsLegal == Spec => []RowIsReady
  <1>1. Init => TypeInv /\ Chained
    <2> SUFFICES ASSUME Init PROVE Chained
      BY TypeInvInit
    <2>1. \A b \in Banks : command_queue[b] = <<>> /\ open_row[b] = Precharged
                           /\ future_active_row[b] = Precharged
      BY DEF Init
    <2> QED BY <2>1, ChainEmpty DEF Chained
  <1>2. TypeInv /\ Chained /\ [Next]_vars => (TypeInv /\ Chained)'
    BY TypeInvStep, ChainedStep
  <1> QED BY <1>1, <1>2, ChainedGivesRow, PTL DEF Spec

-----------------------------------------------------------------------------
(* The timing rules                                                        *)

RuleNames == {"AAss", "AAsd", "PAss", "ARss", "RRsa", "RRda", "WRsa", "WRda", "AWss",
              "RWaa", "WWsa", "WWda", "APss", "RPss", "WPss"}

LEMMA TimingType == \A rule \in RuleNames : getTiming(rule) \in Int
  <1>1. /\ T["tRC"] \in Int /\ T["tRRD"] \in Int /\ T["tRP"] \in Int /\ T["tCCD"] \in Int
        /\ T["tRTRS"] \in Int /\ T["tCWD"] \in Int /\ T["tWTR"] \in Int /\ T["tCAS"] \in Int
        /\ T["tRCD"] \in Int /\ T["tOST"] \in Int /\ T["tRAS"] \in Int /\ T["tWR"] \in Int
        /\ T["tRTP"] \in Int /\ T["tBURST"] \in Int
    BY ParameterAssumption DEF Parameters
  <1>2. Larger(T["tBURST"], T["tCCD"]) \in Int
    BY <1>1 DEF Larger
  <1>3. /\ timings["AAss"] \in Int /\ timings["AAsd"] \in Int /\ timings["PAss"] \in Int
        /\ timings["ARss"] \in Int /\ timings["RRsa"] \in Int /\ timings["RRda"] \in Int
        /\ timings["WRsa"] \in Int /\ timings["WRda"] \in Int /\ timings["AWss"] \in Int
        /\ timings["RWaa"] \in Int /\ timings["WWsa"] \in Int /\ timings["WWda"] \in Int
        /\ timings["APss"] \in Int /\ timings["RPss"] \in Int /\ timings["WPss"] \in Int
    BY <1>1, <1>2 DEF timings
  <1>4. \A rule \in RuleNames : timings[rule] \in Int
    BY <1>3 DEF RuleNames
  <1> QED BY <1>4 DEF getTiming, Larger

\* The entry the code reads for a read after a write to another rank is at least the
\* entry that is meant, when the write latency does not exceed the read latency.
LEMMA WriteReadTiming ==
    ASSUME T["tCWD"] <= T["tCAS"]
    PROVE  getTiming("WRda") <= getTiming("RRda")
  <1>1. /\ T["tCWD"] \in Int /\ T["tCAS"] \in Int
        /\ T["tBURST"] \in Int /\ T["tRTRS"] \in Int
    BY ParameterAssumption DEF Parameters
  <1>2. /\ timings["WRda"] = T["tCWD"] + T["tBURST"] + T["tRTRS"] - T["tCAS"]
        /\ timings["RRda"] = T["tBURST"] + T["tRTRS"]
    BY DEF timings
  <1> QED BY <1>1, <1>2 DEF getTiming, Larger

\* last_scheduled_commands of a bank and of its rank are no older than any command
\* that has run there.
LastIsLatest ==
    /\ \A b \in Banks, t \in CommandTypes : bank_last[b][t] <= cycle
    /\ \A r \in Ranks, t \in CommandTypes : rank_last[r][t] <= cycle
    /\ \A i \in 1 .. Len(issued) :
           /\ issued[i].at <= bank_last[issued[i].bank][issued[i].type]
           /\ issued[i].at <= rank_last[issued[i].bank[1]][issued[i].type]

LEMMA ElementOfSeq == ASSUME NEW S, NEW s \in Seq(S), NEW i \in 1 .. Len(s) PROVE s[i] \in S
  OBVIOUS

\* A command that is ready is separated from any one command before it: the bounds of
\* CalculateReadyCycle imply the rules of the table, type by type.
LEMMA ReadyIsSeparated ==
    ASSUME TypeInv, LastIsLatest, T["tCWD"] <= T["tCAS"],
           NEW b \in Banks, command_queue[b] # <<>>, Ready(b),
           NEW i \in 1 .. Len(issued)
    PROVE  Separated(issued[i], [type |-> Front(b).type, bank |-> b, at |-> cycle])
  <1> DEFINE c == issued[i]
             type == Front(b).type
             d == [type |-> type, bank |-> b, at |-> cycle]
  <1>1. /\ c.type \in CommandTypes /\ c.bank \in Banks /\ c.at \in Int
        /\ c.bank[1] \in Ranks /\ b[1] \in Ranks
    <2>1. c \in [type : CommandTypes, bank : Banks, at : Nat]
      BY ElementOfSeq DEF TypeInv, Typed
    <2>2. \A o \in Banks : o[1] \in Ranks
      BY DEF Banks
    <2> QED BY <2>1, <2>2
  <1>2. c.at <= bank_last[c.bank][c.type] /\ c.at <= rank_last[c.bank[1]][c.type]
    BY DEF LastIsLatest
  <1>3. /\ cycle \in Int
        /\ bank_last[c.bank][c.type] \in Int /\ rank_last[c.bank[1]][c.type] \in Int
    <2> HIDE DEF c
    <2>1. /\ bank_last[c.bank] \in [CommandTypes -> Int]
          /\ rank_last[c.bank[1]] \in [CommandTypes -> Int]
      BY <1>1 DEF TypeInv, Typed
    <2>2. cycle \in Int
      BY DEF TypeInv, Typed
    <2> QED BY <1>1, <2>1, <2>2
  <1>4. \A t \in ReadyCycles(type, b) : cycle >= t
    BY DEF Ready
  <1>5. type \in CommandTypes
    BY FrontType
  <1>6. d.type = type /\ d.bank = b /\ d.at = cycle
    OBVIOUS
  <1> HIDE DEF c, type, d
  <1> SUFFICES ASSUME NEW rule \in RulesBetween(c, d)
               PROVE  cycle >= c.at + getTiming(rule)
    BY <1>6 DEF Separated, c, d, type
  \* The bounds of CalculateReadyCycle are about the last command of c's type in the
  \* bank or the rank of c.
  <1> DEFINE Bounded(name) == \/ cycle >= bank_last[c.bank][c.type] + getTiming(name)
                              \/ cycle >= rank_last[c.bank[1]][c.type] + getTiming(name)
  <1>b. ASSUME NEW name \in RuleNames, Bounded(name)
        PROVE  cycle >= c.at + getTiming(name)
    BY <1>b, <1>1, <1>2, <1>3, TimingType
  <1>7. CASE type = "Precharge"
    <2>1. /\ cycle >= bank_last[b]["Activate"] + getTiming("APss")
          /\ cycle >= bank_last[b]["Read"] + getTiming("RPss")
          /\ cycle >= bank_last[b]["Write"] + getTiming("WPss")
      BY <1>4, <1>7 DEF ReadyCycles
    <2>2. /\ c.bank = b
          /\ \/ c.type = "Activate" /\ rule = "APss"
             \/ c.type = "Read" /\ rule = "RPss"
             \/ c.type = "Write" /\ rule = "WPss"
      BY <1>6, <1>7 DEF RulesBetween
    <2>3. rule \in RuleNames /\ Bounded(rule)
      BY <1>1, <2>1, <2>2 DEF RuleNames
    <2> QED BY <1>b, <2>3
  <1>8. CASE type = "Activate"
    <2>1. /\ cycle >= bank_last[b]["Activate"] + getTiming("AAss")
          /\ cycle >= bank_last[b]["Precharge"] + getTiming("PAss")
          /\ \A o \in Banks : o[1] = b[1] /\ o # b =>
                 cycle >= bank_last[o]["Activate"] + getTiming("AAsd")
      BY <1>4, <1>8 DEF ReadyCycles
    <2>2. \/ c.bank = b /\ c.type = "Activate" /\ rule = "AAss"
          \/ c.bank = b /\ c.type = "Precharge" /\ rule = "PAss"
          \/ c.bank[1] = b[1] /\ c.bank # b /\ c.type = "Activate" /\ rule = "AAsd"
      BY <1>6, <1>8 DEF RulesBetween, SameRank
    <2>3. rule \in RuleNames /\ Bounded(rule)
      BY <1>1, <2>1, <2>2 DEF RuleNames
    <2> QED BY <1>b, <2>3
  <1>9. CASE type = "Read"
    <2>1. /\ cycle >= bank_last[b]["Activate"] + getTiming("ARss")
          /\ cycle >= rank_last[b[1]]["Read"] + getTiming("RRsa")
          /\ cycle >= rank_last[b[1]]["Write"] + getTiming("WRsa")
          /\ \A o \in Ranks : o # b[1] =>
                 /\ cycle >= rank_last[o]["Read"] + getTiming("RRda")
                 /\ cycle >= rank_last[o]["Write"] + getTiming("RRda")
      BY <1>4, <1>9 DEF ReadyCycles
    <2>2. \/ c.bank = b /\ c.type = "Activate" /\ rule = "ARss"
          \/ c.bank[1] = b[1] /\ c.type = "Read" /\ rule = "RRsa"
          \/ c.bank[1] # b[1] /\ c.type = "Read" /\ rule = "RRda"
          \/ c.bank[1] = b[1] /\ c.type = "Write" /\ rule = "WRsa"
          \/ c.bank[1] # b[1] /\ c.type = "Write" /\ rule = "WRda"
      BY <1>6, <1>9 DEF RulesBetween, SameRank
    <2>3. CASE rule # "WRda"
      <3>1. rule \in RuleNames /\ Bounded(rule)
        BY <1>1, <2>1, <2>2, <2>3 DEF RuleNames
      <3> QED BY <1>b, <3>1
    <2>4. CASE rule = "WRda"
      <3>1. "RRda" \in RuleNames /\ Bounded("RRda")
        BY <1>1, <2>1, <2>2, <2>4 DEF RuleNames
      <3>2. cycle >= c.at + getTiming("RRda")
        BY <1>b, <3>1
      <3>3. getTiming("RRda") \in Int /\ getTiming("WRda") \in Int
        BY TimingType DEF RuleNames
      <3> QED BY <1>1, <1>3, <2>4, <3>2, <3>3, WriteReadTiming
    <2> QED BY <2>3, <2>4
  <1>10. CASE type = "Write"
    <2>1. /\ cycle >= rank_last[b[1]]["Activate"] + getTiming("AWss")
          /\ cycle >= rank_last[b[1]]["Write"] + getTiming("WWsa")
          /\ \A o \in Ranks : o # b[1] => cycle >= rank_last[o]["Write"] + getTiming("WWda")
          /\ \A o \in Ranks : cycle >= rank_last[o]["Read"] + getTiming("RWaa")
      BY <1>4, <1>10 DEF ReadyCycles
    <2>2. \/ c.bank = b /\ c.type = "Activate" /\ rule = "AWss"
          \/ c.type = "Read" /\ rule = "RWaa"
          \/ c.bank[1] = b[1] /\ c.type = "Write" /\ rule = "WWsa"
          \/ c.bank[1] # b[1] /\ c.type = "Write" /\ rule = "WWda"
      BY <1>6, <1>10 DEF RulesBetween, SameRank
    <2>3. rule \in RuleNames /\ Bounded(rule)
      BY <1>1, <2>1, <2>2 DEF RuleNames
    <2> QED BY <1>b, <2>3
  <1> QED BY <1>5, <1>7, <1>8, <1>9, <1>10 DEF CommandTypes

\* The steps other than running a command leave what the timing rules look at alone,
\* or only let the time pass.
LEMMA OtherSteps ==
    ASSUME TypeInv, [Next]_vars
    PROVE  \/ \E b \in Banks : RunScheduler(b) /\ Ready(b)
           \/ UNCHANGED <<bank_last, rank_last, issued>> /\ cycle' \in Nat /\ cycle' >= cycle
  <1>1. cycle \in Nat
    BY DEF TypeInv, Typed
  <1>2. CASE \E type \in RequestTypes, b \in Banks, row \in Rows : AddRequest(type, b, row)
    BY <1>1, <1>2 DEF AddRequest, channelVars, historyVars
  <1>3. CASE RunRequestProcessor
    BY <1>1, <1>3 DEF RunRequestProcessor, channelVars, historyVars
  <1>4. CASE \E b \in Banks : RunScheduler(b)
    BY <1>1, <1>4 DEF RunScheduler, historyVars
  <1>5. CASE SchedulerStops \/ \E r \in returns : CommandReturns(r)
    BY <1>1, <1>5 DEF SchedulerStops, CommandReturns, channelVars, historyVars
  <1>6. CASE Tick \/ UNCHANGED vars
    BY <1>1, <1>6 DEF Tick, vars, channelVars, historyVars
  <1> QED BY <1>2, <1>3, <1>4, <1>5, <1>6 DEF Next

\* The new command becomes the last of its type in its bank and rank.
LEMMA LastIsLatestStep == TypeInv /\ LastIsLatest /\ [Next]_vars => LastIsLatest'
  <1> SUFFICES ASSUME TypeInv, LastIsLatest, [Next]_vars
               PROVE  LastIsLatest'
    OBVIOUS
  <1>1. cycle \in Nat
        /\ bank_last \in [Banks -> [CommandTypes -> Int]]
        /\ rank_last \in [Ranks -> [CommandTypes -> Int]]
    BY DEF TypeInv, Typed
  <1>2. CASE UNCHANGED <<bank_last, rank_last, issued>> /\ cycle' \in Nat /\ cycle' >= cycle
    <2>1. \A b \in Banks, t \in CommandTypes : bank_last'[b][t] <= cycle'
      BY <1>1, <1>2 DEF LastIsLatest
    <2>2. \A r \in Ranks, t \in CommandTypes : rank_last'[r][t] <= cycle'
      BY <1>1, <1>2 DEF LastIsLatest
    <2> QED BY <1>2, <2>1, <2>2 DEF LastIsLatest
  <1>3. ASSUME NEW b \in Banks, RunScheduler(b), Ready(b)
        PROVE  LastIsLatest'
    <2> DEFINE type == Front(b).type
               new == [type |-> type, bank |-> b, at |-> cycle]
    <2>1. RunFrontCommand(b) /\ cycle' = cycle
      BY <1>3 DEF RunScheduler
    <2>2. type \in CommandTypes /\ b[1] \in Ranks
      BY <1>3, SchedulerFindsCommand, FrontType DEF Banks
    <2>3. /\ bank_last' = [bank_last EXCEPT ![b][type] = cycle]
          /\ rank_last' = [rank_last EXCEPT ![b[1]][type] = cycle]
          /\ issued' = Append(issued, new)
      BY <2>1 DEF RunFrontCommand
    <2>4. new.type = type /\ new.bank = b /\ new.at = cycle
      OBVIOUS
    <2> HIDE DEF type, new
    <2>5. \A o \in Banks, t \in CommandTypes :
              /\ bank_last'[o][t] = IF o = b /\ t = type THEN cycle ELSE bank_last[o][t]
              /\ bank_last'[o][t] <= cycle /\ bank_last'[o][t] >= bank_last[o][t]
      BY <1>1, <2>2, <2>3 DEF LastIsLatest
    <2>6. \A o \in Ranks, t \in CommandTypes :
              /\ rank_last'[o][t] = IF o = b[1] /\ t = type THEN cycle ELSE rank_last[o][t]
              /\ rank_last'[o][t] <= cycle /\ rank_last'[o][t] >= rank_last[o][t]
      BY <1>1, <2>2, <2>3 DEF LastIsLatest
    <2>7. issued \in Seq([type : CommandTypes, bank : Banks, at : Nat])
      BY DEF TypeInv, Typed
    <2>8. ASSUME NEW i \in 1 .. Len(issued')
          PROVE  /\ issued'[i].at <= bank_last'[issued'[i].bank][issued'[i].type]
                 /\ issued'[i].at <= rank_last'[issued'[i].bank[1]][issued'[i].type]
      <3>1. CASE i \in 1 .. Len(issued)
        <4> DEFINE c == issued[i]
        <4>1. issued'[i] = c
          BY <2>3, <2>7, <3>1
        <4>2. c \in [type : CommandTypes, bank : Banks, at : Nat]
          BY <2>7, <3>1, ElementOfSeq
        <4>3. c.type \in CommandTypes /\ c.bank \in Banks /\ c.at \in Int
          BY <4>2
        <4>4. c.bank[1] \in Ranks
          BY <4>3 DEF Banks
        <4>5. c.at <= bank_last[c.bank][c.type] /\ c.at <= rank_last[c.bank[1]][c.type]
          BY <3>1 DEF LastIsLatest
        <4> HIDE DEF c
        <4>6. /\ bank_last'[c.bank][c.type] >= bank_last[c.bank][c.type]
              /\ rank_last'[c.bank[1]][c.type] >= rank_last[c.bank[1]][c.type]
          BY <2>5, <2>6, <4>3, <4>4
        <4>7. /\ bank_last[c.bank] \in [CommandTypes -> Int]
              /\ rank_last[c.bank[1]] \in [CommandTypes -> Int]
          BY <1>1, <4>3, <4>4
        <4>8. /\ bank_last[c.bank][c.type] \in Int /\ rank_last[c.bank[1]][c.type] \in Int
          BY <4>3, <4>7
        <4>9. /\ bank_last'[c.bank][c.type] \in Int /\ rank_last'[c.bank[1]][c.type] \in Int
          BY <1>1, <2>5, <2>6, <4>3, <4>4, <4>8
        <4> QED BY <4>1, <4>3, <4>5, <4>6, <4>8, <4>9
      <3>2. CASE i \notin 1 .. Len(issued)
        <4>1. issued'[i] = new
          BY <2>3, <2>7, <3>2
        <4>2. bank_last'[b][type] = cycle /\ rank_last'[b[1]][type] = cycle
          BY <2>2, <2>5, <2>6
        <4> QED BY <1>1, <2>4, <4>1, <4>2
      <3> QED BY <3>1, <3>2
    <2>9. /\ \A o \in Banks, t \in CommandTypes : bank_last'[o][t] <= cycle'
          /\ \A o \in Ranks, t \in CommandTypes : rank_last'[o][t] <= cycle'
      BY <2>1, <2>5, <2>6
    <2> QED BY <2>8, <2>9 DEF LastIsLatest
  <1> QED BY <1>2, <1>3, OtherSteps

LEMMA TimingsStep ==
    ASSUME T["tCWD"] <= T["tCAS"]
    PROVE  TypeInv /\ LastIsLatest /\ TimingsRespected /\ [Next]_vars => TimingsRespected'
  <1> SUFFICES ASSUME TypeInv, LastIsLatest, TimingsRespected, [Next]_vars
               PROVE  TimingsRespected'
    OBVIOUS
  <1>1. CASE issued' = issued
    BY <1>1 DEF TimingsRespected
  <1>2. ASSUME NEW b \in Banks, RunScheduler(b), Ready(b)
        PROVE  TimingsRespected'
    <2> DEFINE new == [type |-> Front(b).type, bank |-> b, at |-> cycle]
    <2>1. issued' = Append(issued, new)
      BY <1>2 DEF RunScheduler, RunFrontCommand
    <2>2. issued \in Seq([type : CommandTypes, bank : Banks, at : Nat])
      BY DEF TypeInv, Typed
    <2>3. \A i \in 1 .. Len(issued) : Separated(issued[i], new)
      BY <1>2, SchedulerFindsCommand, ReadyIsSeparated
    <2> HIDE DEF new
    <2>4. /\ Len(issued) \in Nat /\ Len(issued') = Len(issued) + 1
          /\ \A i \in 1 .. Len(issued) : issued'[i] = issued[i]
          /\ issued'[Len(issued) + 1] = new
      BY <2>1, <2>2
    <2> SUFFICES ASSUME NEW j \in 1 .. Len(issued'), NEW i \in 1 .. j - 1
                 PROVE  Separated(issued'[i], issued'[j])
      BY DEF TimingsRespected, Separated, RulesBetween, SameRank
    <2>5. CASE j \in 1 .. Len(issued)
      <3>1. i \in 1 .. Len(issued)
        BY <2>4, <2>5
      <3> QED BY <2>4, <2>5, <3>1 DEF TimingsRespected
    <2>6. CASE j \notin 1 .. Len(issued)
      <3>1. j = Len(issued) + 1 /\ i \in 1 .. Len(issued)
        BY <2>4, <2>6
      <3> QED BY <2>3, <2>4, <3>1
    <2> QED BY <2>5, <2>6
  <1> QED BY <1>1, <1>2, OtherSteps

\* On a device whose write latency does not exceed its read latency, no two commands
\* of the channel are ever closer than the timing table says, although
\* CalculateReadyCycle keeps one cycle per type of command and reads the wrong entry
\* for a read after a write to another rank.
THEOREM TimingsAreRespected ==
    T["tCWD"] <= T["tCAS"] => (Spec => []TimingsRespected)
  <1> SUFFICES ASSUME T["tCWD"] <= T["tCAS"]
               PROVE  Spec => []TimingsRespected
    OBVIOUS
  <1> DEFINE Inv == TypeInv /\ LastIsLatest /\ TimingsRespected
  <1>1. Init => Inv
    <2> SUFFICES ASSUME Init PROVE LastIsLatest /\ TimingsRespected
      BY TypeInvInit
    <2>1. Never <= 0
      BY DEF Never
    <2>2. Len(issued) = 0
      BY DEF Init
    <2>3. TimingsRespected
      BY <2>2 DEF TimingsRespected
    <2>4. LastIsLatest
      BY <2>1, <2>2 DEF LastIsLatest, Init
    <2> QED BY <2>3, <2>4
  <1>2. Inv /\ [Next]_vars => Inv'
    BY TypeInvStep, LastIsLatestStep, TimingsStep
  <1> QED BY <1>1, <1>2, PTL DEF Spec

-----------------------------------------------------------------------------
(* The whole type invariant, and no event in the past                      *)

\* A bounded set of cycles has a latest one.
LEMMA LatestOf ==
    ASSUME NEW S \in SUBSET Int, S # {}, NEW k \in Int, \A t \in S : t <= k
    PROVE  Latest(S) \in S /\ \A t \in S : t <= Latest(S)
  <1> DEFINE gaps == {m \in Nat : \E t \in S : m = k - t}
  <1>1. gaps \in SUBSET Nat /\ gaps # {}
    <2>1. PICK t \in S : t <= k
      OBVIOUS
    <2>2. k - t \in gaps
      BY <2>1
    <2> QED BY <2>2
  <1>2. PICK x \in gaps : \A y \in gaps : x <= y
    <2> HIDE DEF gaps
    <2> QED BY <1>1, LeastOf
  <1>3. PICK t \in S : x = k - t
    BY <1>2
  <1>4. \A o \in S : o <= t
    <2> TAKE o \in S
    <2>1. k - o \in gaps
      OBVIOUS
    <2> QED BY <1>2, <1>3, <2>1
  <1> HIDE DEF gaps
  <1> QED BY <1>3, <1>4 DEF Latest

\* The longest time any rule asks for.
LEMMA BoundOfFive ==
    \A a, b, c, d, e \in Nat :
        \E k \in Nat : a <= k /\ b <= k /\ c <= k /\ d <= k /\ e <= k
  <1> TAKE a \in Nat, b \in Nat, c \in Nat, d \in Nat, e \in Nat
  <1> WITNESS a + b + c + d + e \in Nat
  <1> QED OBVIOUS

LEMMA TimingBound ==
    \E k \in Nat : \A rule \in RuleNames : getTiming(rule) <= k
  <1> DEFINE t(rule) == getTiming(rule)
  <1>1. \A rule \in RuleNames : t(rule) \in Nat
    <2>1. ASSUME NEW rule \in RuleNames
          PROVE  t(rule) >= 1 /\ t(rule) \in Int
      <3>1. getTiming(rule) \in Int
        BY TimingType
      <3>2. timings[rule] >= 1 \/ getTiming(rule) = 1
        BY DEF getTiming, Larger
      <3> QED BY <3>1, <3>2 DEF getTiming, Larger
    <2> QED BY <2>1
  <1> HIDE DEF t
  <1>2. PICK k1 \in Nat : t("AAss") <= k1 /\ t("AAsd") <= k1 /\ t("PAss") <= k1
                          /\ t("ARss") <= k1 /\ t("RRsa") <= k1
    BY <1>1, BoundOfFive DEF RuleNames
  <1>3. PICK k2 \in Nat : t("RRda") <= k2 /\ t("WRsa") <= k2 /\ t("WRda") <= k2
                          /\ t("AWss") <= k2 /\ t("RWaa") <= k2
    BY <1>1, BoundOfFive DEF RuleNames
  <1>4. PICK k3 \in Nat : t("WWsa") <= k3 /\ t("WWda") <= k3 /\ t("APss") <= k3
                          /\ t("RPss") <= k3 /\ t("WPss") <= k3
    BY <1>1, BoundOfFive DEF RuleNames
  <1>5. \A rule \in RuleNames : t(rule) <= k1 \/ t(rule) <= k2 \/ t(rule) <= k3
    BY <1>2, <1>3, <1>4 DEF RuleNames
  <1>6. \A rule \in RuleNames : t(rule) <= k1 + k2 + k3
    BY <1>1, <1>5
  <1> QED BY <1>6 DEF t

\* CalculateReadyCycle returns a cycle: the latest of those it looks at.  When the
\* command is not ready that cycle is still to come.
LEMMA ReadyCycleType ==
    ASSUME TypeInv, LastIsLatest, NEW b \in Banks, command_queue[b] # <<>>
    PROVE  /\ Latest(ReadyCycles(Front(b).type, b)) \in Int
           /\ ~Ready(b) => Latest(ReadyCycles(Front(b).type, b)) > cycle
  <1> DEFINE type == Front(b).type
             cycles == ReadyCycles(type, b)
  <1>1. type \in CommandTypes
    BY FrontType
  <1>2. PICK k \in Nat : \A rule \in RuleNames : getTiming(rule) <= k
    BY TimingBound
  <1>3. /\ \A o \in Banks, t \in CommandTypes :
               bank_last[o][t] \in Int /\ bank_last[o][t] <= cycle
        /\ \A r \in Ranks, t \in CommandTypes :
               rank_last[r][t] \in Int /\ rank_last[r][t] <= cycle
        /\ cycle \in Int
    <2>1. /\ \A o \in Banks : bank_last[o] \in [CommandTypes -> Int]
          /\ \A r \in Ranks : rank_last[r] \in [CommandTypes -> Int]
      BY DEF TypeInv, Typed
    <2> QED BY <2>1 DEF LastIsLatest, TypeInv, Typed
  <1> DEFINE Summed(t) == \E last \in Int, rule \in RuleNames :
                              last <= cycle /\ t = last + getTiming(rule)
  <1>4. \A t \in cycles : Summed(t)
    <2>1. b[1] \in Ranks /\ \A o \in Banks : o[1] \in Ranks
      BY DEF Banks
    <2>2. CASE type = "Precharge"
      BY <1>3, <2>2 DEF ReadyCycles, RuleNames, CommandTypes
    <2>3. CASE type = "Activate"
      BY <1>3, <2>3 DEF ReadyCycles, RuleNames, CommandTypes
    <2>4. CASE type = "Read"
      BY <1>3, <2>1, <2>4 DEF ReadyCycles, RuleNames, CommandTypes
    <2>5. CASE type = "Write"
      BY <1>3, <2>1, <2>5 DEF ReadyCycles, RuleNames, CommandTypes
    <2> QED BY <1>1, <2>2, <2>3, <2>4, <2>5 DEF CommandTypes
  <1>5. \A t \in cycles : t \in Int /\ t <= cycle + k
    BY <1>2, <1>3, <1>4, TimingType
  <1>6. cycles # {}
    BY <1>1 DEF ReadyCycles, CommandTypes
  <1>7. ~Ready(b) => \E t \in cycles : ~(cycle >= t)
    BY DEF Ready
  <1> HIDE DEF cycles, Summed
  <1>8. /\ cycles \in SUBSET Int /\ cycle + k \in Int
        /\ \A t \in cycles : t <= cycle + k
    BY <1>3, <1>5
  <1>9. Latest(cycles) \in cycles /\ \A t \in cycles : t <= Latest(cycles)
    BY <1>6, <1>8, LatestOf
  <1>10. /\ Latest(cycles) \in Int
         /\ ~Ready(b) => Latest(cycles) > cycle
    BY <1>3, <1>5, <1>7, <1>9
  <1> QED BY <1>10 DEF cycles

\* The part of TypeOK that Typed leaves out.
TypedRest ==
    /\ processor \subseteq Nat /\ scheduler \subseteq Int
    /\ SchedulingPolicy \in {"OldestFirst", "RankBankRoundRobin"}
    /\ PagePolicy \in {"Open", "Closed"}
    /\ next_scheduled_bank \subseteq Banks
    /\ current \in Banks
    /\ returns \subseteq [command : Commands, at : Nat]
    /\ passed \in [Banks -> [Banks -> Nat]]
    /\ finished \in Seq(Requests)

\* No event is scheduled for a cycle that has passed: Tick waits for those that are
\* due, and none is ever added behind it.
NoneOverdue == \A e \in Due : e >= cycle

WholeType == TypeInv /\ LastIsLatest /\ TypedRest /\ NoneOverdue

LEMMA DurationType == \A type \in CommandTypes : getDuration(type) \in Nat
  <1>1. /\ T["tRP"] \in Nat /\ T["tRCD"] \in Nat /\ T["tCAS"] \in Nat
        /\ T["tBURST"] \in Nat /\ T["tCWD"] \in Nat /\ T["tWTR"] \in Nat
    BY ParameterAssumption DEF Parameters
  <1> QED BY <1>1 DEF getDuration, CommandTypes

LEMMA WholeTypeInit == Init => WholeType
  <1> SUFFICES ASSUME Init PROVE WholeType
    OBVIOUS
  <1>1. TypeInv
    BY TypeInvInit
  <1>2. Never <= 0 /\ Never \in Int
    BY DEF Never
  <1>3. LastIsLatest
    BY <1>2 DEF Init, LastIsLatest
  <1>4. <<0, 0>> \in Banks
    BY GeometryAssumption DEF Banks, Ranks
  <1>5. TypedRest /\ NoneOverdue
    BY <1>4 DEF Init, TypedRest, NoneOverdue, Due
  <1> QED BY <1>1, <1>3, <1>5 DEF WholeType

LEMMA WholeTypeStep == WholeType /\ [Next]_vars => WholeType'
  <1> SUFFICES ASSUME WholeType, [Next]_vars
               PROVE  TypedRest' /\ NoneOverdue'
    BY TypeInvStep, LastIsLatestStep DEF WholeType
  <1> USE DEF WholeType
  <1>1. cycle \in Nat
    BY DEF TypeInv, Typed
  <1>2. ASSUME NEW type \in RequestTypes, NEW b \in Banks, NEW row \in Rows,
               AddRequest(type, b, row)
        PROVE  TypedRest' /\ NoneOverdue'
    <2>1. UNCHANGED <<cycle, SchedulingPolicy, PagePolicy, next_scheduled_bank, current, returns,
                      passed, finished, scheduler>>
      BY <1>2 DEF AddRequest, policies, channelVars, historyVars
    <2>2. processor' \subseteq processor \union {cycle + 1}
      BY <1>2 DEF AddRequest, Called
    <2>3. \A e \in Due' : e \in Due \/ e = cycle + 1
      BY <2>1, <2>2 DEF Due
    <2>4. NoneOverdue'
      BY <1>1, <2>1, <2>3 DEF NoneOverdue
    <2>5. processor' \subseteq Nat
      BY <1>1, <2>2 DEF TypedRest
    <2> QED BY <2>1, <2>4, <2>5 DEF TypedRest
  <1>3. ASSUME RunRequestProcessor
        PROVE  TypedRest' /\ NoneOverdue'
    <2>1. UNCHANGED <<cycle, SchedulingPolicy, PagePolicy, next_scheduled_bank, current, returns,
                      passed, finished>>
      BY <1>3 DEF RunRequestProcessor, policies, channelVars, historyVars
    <2>2. processor' \subseteq {cycle + 1}
      BY <1>3 DEF RunRequestProcessor
    <2>3. scheduler' \subseteq scheduler \union {cycle + 1}
      BY <1>3 DEF RunRequestProcessor, ProcessRequest, Called
    <2>4. \A e \in Due' : e \in Due \/ e = cycle + 1
      BY <2>1, <2>2, <2>3 DEF Due
    <2>5. NoneOverdue'
      BY <1>1, <2>1, <2>4 DEF NoneOverdue
    <2>6. processor' \subseteq Nat /\ scheduler' \subseteq Int
      BY <1>1, <2>2, <2>3 DEF TypedRest
    <2> QED BY <2>1, <2>5, <2>6 DEF TypedRest
  <1>4. ASSUME NEW b \in Banks, RunScheduler(b)
        PROVE  TypedRest' /\ NoneOverdue'
    <2>1. UNCHANGED <<cycle, processor, SchedulingPolicy, PagePolicy, finished>>
      BY <1>4 DEF RunScheduler, controllerVars, policies
    <2>2. next_scheduled_bank' \subseteq Banks /\ current' \in Banks
      BY <1>4 DEF RunScheduler, TypedRest
    <2>3. command_queue[b] # <<>>
      BY <1>4, SchedulerFindsCommand
    <2>4. CASE Ready(b)
      <3>1. RunFrontCommand(b) /\ scheduler' = {cycle + 1}
        BY <1>4, <2>4 DEF RunScheduler
      <3>2. Front(b) \in Commands /\ getDuration(Front(b).type) \in Nat
        BY <2>3, FrontType, DurationType
      <3> DEFINE return == [command |-> Front(b), at |-> cycle + getDuration(Front(b).type)]
      <3>3. returns' = returns \union {return}
        BY <3>1 DEF RunFrontCommand
      <3>4. return \in [command : Commands, at : Nat] /\ return.at >= cycle
        BY <1>1, <3>2
      <3> HIDE DEF return
      <3>5. returns' \subseteq [command : Commands, at : Nat]
        BY <3>3, <3>4 DEF TypedRest
      <3>6. passed' \in [Banks -> [Banks -> Nat]]
        <4>1. \A o \in Banks : [passed[o] EXCEPT ![b] = @ + 1] \in [Banks -> Nat]
          BY DEF TypedRest
        <4> QED BY <3>1, <4>1 DEF RunFrontCommand
      <3>7. \A e \in Due' : e \in Due \/ e = cycle + 1 \/ e = return.at
        BY <2>1, <3>1, <3>3 DEF Due
      <3>8. NoneOverdue'
        BY <1>1, <2>1, <3>4, <3>7 DEF NoneOverdue
      <3>9. scheduler' \subseteq Int /\ processor' \subseteq Nat
        BY <1>1, <2>1, <3>1 DEF TypedRest
      <3>10. /\ SchedulingPolicy' \in {"OldestFirst", "RankBankRoundRobin"}
             /\ PagePolicy' \in {"Open", "Closed"} /\ finished' \in Seq(Requests)
        BY <2>1 DEF TypedRest
      <3>11. TypedRest'
        BY <2>2, <3>5, <3>6, <3>9, <3>10 DEF TypedRest
      <3> QED BY <3>8, <3>11
    <2>5. CASE ~Ready(b)
      <3>1. UNCHANGED <<returns, passed>>
            /\ scheduler' = {Latest(ReadyCycles(Front(b).type, b))}
        BY <1>4, <2>5 DEF RunScheduler, historyVars
      <3>2. Latest(ReadyCycles(Front(b).type, b)) \in Int
            /\ Latest(ReadyCycles(Front(b).type, b)) > cycle
        BY <2>3, <2>5, ReadyCycleType
      <3>3. \A e \in Due' : e \in Due \/ e = Latest(ReadyCycles(Front(b).type, b))
        BY <2>1, <3>1 DEF Due
      <3>4. NoneOverdue'
        BY <1>1, <2>1, <3>2, <3>3 DEF NoneOverdue
      <3>5. scheduler' \subseteq Int
        BY <3>1, <3>2
      <3>6. TypedRest'
        BY <2>1, <2>2, <3>1, <3>5 DEF TypedRest
      <3> QED BY <3>4, <3>6
    <2> QED BY <2>4, <2>5
  <1>5. ASSUME SchedulerStops
        PROVE  TypedRest' /\ NoneOverdue'
    BY <1>5 DEF SchedulerStops, TypedRest, NoneOverdue, Due, controllerVars, policies,
                channelVars, historyVars
  <1>6. ASSUME NEW r \in returns, CommandReturns(r)
        PROVE  TypedRest' /\ NoneOverdue'
    <2>1. UNCHANGED <<cycle, processor, scheduler, SchedulingPolicy, PagePolicy,
                      next_scheduled_bank, current, passed>>
          /\ returns' = returns \ {r}
      BY <1>6 DEF CommandReturns, controllerVars, policies, channelVars, historyVars
    <2>2. r.command.request \in Requests
      BY DEF TypedRest, Commands
    <2>3. finished' \in Seq(Requests)
      BY <1>6, <2>2 DEF CommandReturns, TypedRest
    <2> QED BY <2>1, <2>3 DEF TypedRest, NoneOverdue, Due
  <1>7. ASSUME Tick
        PROVE  TypedRest' /\ NoneOverdue'
    <2>1. UNCHANGED <<processor, scheduler, returns, SchedulingPolicy, PagePolicy,
                      next_scheduled_bank, current, passed, finished>>
          /\ cycle' = cycle + 1 /\ cycle \notin Due
      BY <1>7 DEF Tick, controllerVars, policies, channelVars, historyVars
    <2>2. \A e \in Due : e \in Int
      BY DEF TypedRest, Due
    <2>3. NoneOverdue'
      BY <1>1, <2>1, <2>2 DEF NoneOverdue, Due
    <2> QED BY <2>1, <2>3 DEF TypedRest
  <1>8. ASSUME UNCHANGED vars
        PROVE  TypedRest' /\ NoneOverdue'
    BY <1>8 DEF vars, controllerVars, policies, channelVars, historyVars, TypedRest,
                NoneOverdue, Due
  <1> QED BY <1>2, <1>3, <1>4, <1>5, <1>6, <1>7, <1>8 DEF Next

\* Every state is as TypeOK says, and the engine never finds that the cycle of an
\* event has gone by: CalculateReadyCycle returns a later cycle whenever the command
\* it looks at must wait.
THEOREM NoEventIsOverdue == Spec => [](TypeOK /\ NoneOverdue)
  <1>1. WholeType => TypeOK /\ NoneOverdue
    BY DEF WholeType, TypeInv, Typed, TypedRest, TypeOK
  <1> QED BY <1>1, WholeTypeInit, WholeTypeStep, PTL DEF Spec

-----------------------------------------------------------------------------
(* The choice of OldestFirst                                               *)

\* The request processor runs at most once a cycle, after every command it has made
\* in earlier cycles: commands made in one cycle are for one bank.
OncePerCycle ==
    /\ \A b \in Banks : \A i \in 1 .. Len(command_queue[b]) :
           /\ command_queue[b][i].cycle_created <= cycle
           /\ cycle \in processor => command_queue[b][i].cycle_created < cycle
    /\ \A p \in processor : p >= cycle

\* A front command is one of the commands OncePerCycle is about.
LEMMA FrontIsFirst ==
    ASSUME TypeInv, NEW b \in BanksWaiting
    PROVE  /\ b \in Banks /\ command_queue[b] \in Seq(Commands)
           /\ 1 \in 1 .. Len(command_queue[b]) /\ Front(b) = command_queue[b][1]
           /\ Front(b).cycle_created \in Nat
  <1>1. b \in Banks /\ command_queue[b] # <<>> /\ command_queue[b] \in Seq(Commands)
    BY DEF BanksWaiting, TypeInv, Typed
  <1>2. 1 \in 1 .. Len(command_queue[b]) /\ Front(b) = command_queue[b][1]
    BY <1>1 DEF Front
  <1>3. Front(b) \in Commands
    BY <1>1, FrontType
  <1> QED BY <1>1, <1>2, <1>3 DEF Commands

LEMMA CommandsForMade ==
    ASSUME NEW request \in Requests, NEW future, cycle \in Nat
    PROVE  \A i \in 1 .. Len(CommandsFor(request, future)) :
               /\ CommandsFor(request, future)[i].cycle_created = cycle
               /\ CommandsFor(request, future)[i].request = request
  <1> DEFINE mine == {c \in Commands : c.cycle_created = cycle /\ c.request = request}
  <1>1. \A type \in CommandTypes : Command(type, request) \in mine
    BY DEF Commands, Command
  <1>2. request.type \in CommandTypes /\ "Activate" \in CommandTypes /\ "Precharge" \in CommandTypes
    BY DEF Requests, RequestTypes, CommandTypes
  <1> HIDE DEF mine
  <1>3. /\ Opening(request, future) \in Seq(mine)
        /\ <<Command(request.type, request)>> \in Seq(mine)
        /\ Closing(request) \in Seq(mine)
    BY <1>1, <1>2 DEF Opening, Closing
  <1>4. CommandsFor(request, future) \in Seq(mine)
    BY <1>3 DEF CommandsFor
  <1>5. \A i \in 1 .. Len(CommandsFor(request, future)) : CommandsFor(request, future)[i] \in mine
    BY <1>4, ElementOfSeq
  <1> QED BY <1>5 DEF mine

LEMMA OncePerCycleStep == TypeInv /\ TypedRest /\ OncePerCycle /\ [Next]_vars => OncePerCycle'
  <1> SUFFICES ASSUME TypeInv, TypedRest, OncePerCycle, [Next]_vars
               PROVE  OncePerCycle'
    OBVIOUS
  <1>1. /\ cycle \in Nat /\ processor \subseteq Nat
        /\ \A b \in Banks : command_queue[b] \in Seq(Commands)
        /\ \A b \in Banks : \A i \in 1 .. Len(command_queue[b]) :
               command_queue[b][i].cycle_created \in Nat
    <2>1. \A b \in Banks : \A i \in 1 .. Len(command_queue[b]) : command_queue[b][i] \in Commands
      BY ElementOfSeq DEF TypeInv, Typed
    <2> QED BY <2>1 DEF TypeInv, Typed, TypedRest, Commands
  <1>2. ASSUME NEW type \in RequestTypes, NEW b \in Banks, NEW row \in Rows,
               AddRequest(type, b, row)
        PROVE  OncePerCycle'
    <2>1. UNCHANGED <<cycle, command_queue>> /\ processor' \subseteq processor \union {cycle + 1}
      BY <1>2 DEF AddRequest, bankVars, Called
    <2>2. cycle \in processor' => cycle \in processor
      BY <1>1, <2>1
    <2> QED BY <1>1, <2>1, <2>2 DEF OncePerCycle
  <1>3. ASSUME RunRequestProcessor
        PROVE  OncePerCycle'
    <2>1. cycle' = cycle /\ processor' \subseteq {cycle + 1} /\ cycle \in processor
      BY <1>3 DEF RunRequestProcessor
    <2>2. cycle' \notin processor' /\ \A p \in processor' : p >= cycle'
      BY <1>1, <2>1
    <2>3. CASE incoming_requests = <<>>
      <3>1. command_queue' = command_queue
        BY <1>3, <2>3 DEF RunRequestProcessor, bankVars
      <3> QED BY <2>1, <2>2, <3>1 DEF OncePerCycle
    <2>4. CASE incoming_requests # <<>>
      <3> DEFINE request == Head(incoming_requests)
                 commands == CommandsFor(request, future_active_row[request.bank])
      <3>1. request \in Requests /\ ProcessRequest(request)
        BY <1>3, <2>4 DEF RunRequestProcessor, TypeInv, Typed
      <3>2. commands \in Seq(Commands)
            /\ \A i \in 1 .. Len(commands) : commands[i].cycle_created = cycle
        BY <1>1, <3>1, CommandsForMade, CommandsForType
      <3>3. request.bank \in Banks
        BY <3>1 DEF Requests
      <3> HIDE DEF request, commands
      <3>4. command_queue' = [command_queue EXCEPT ![request.bank] = @ \o commands]
        BY <3>1 DEF ProcessRequest, commands
      <3>5. ASSUME NEW b \in Banks, NEW i \in 1 .. Len(command_queue'[b])
            PROVE  command_queue'[b][i].cycle_created <= cycle
        <4>1. CASE b # request.bank
          BY <3>4, <3>3, <3>5, <4>1 DEF OncePerCycle, TypeInv, Typed
        <4>2. CASE b = request.bank
          <5>1. command_queue'[b] = command_queue[b] \o commands
            BY <3>3, <3>4, <4>2 DEF TypeInv, Typed
          <5>2. CASE i \in 1 .. Len(command_queue[b])
            BY <1>1, <3>2, <5>1, <5>2 DEF OncePerCycle
          <5>3. CASE i \notin 1 .. Len(command_queue[b])
            <6>1. i - Len(command_queue[b]) \in 1 .. Len(commands)
                  /\ command_queue'[b][i] = commands[i - Len(command_queue[b])]
              BY <1>1, <3>2, <3>5, <5>1, <5>3
            <6> QED BY <1>1, <3>2, <6>1
          <5> QED BY <5>2, <5>3
        <4> QED BY <4>1, <4>2
      <3> QED BY <2>1, <2>2, <3>5 DEF OncePerCycle
    <2> QED BY <2>3, <2>4
  <1>4. ASSUME NEW o \in Banks, RunScheduler(o)
        PROVE  OncePerCycle'
    <2>1. UNCHANGED <<cycle, processor>>
      BY <1>4 DEF RunScheduler, controllerVars
    <2>2. command_queue[o] # <<>>
      BY <1>4, SchedulerFindsCommand
    <2>3. command_queue' = command_queue \/ command_queue' = [command_queue EXCEPT ![o] = Tail(@)]
      BY <1>4 DEF RunScheduler, RunFrontCommand
    <2>4. ASSUME NEW b \in Banks, NEW i \in 1 .. Len(command_queue'[b])
          PROVE  \E j \in 1 .. Len(command_queue[b]) : command_queue'[b][i] = command_queue[b][j]
      <3>1. CASE command_queue'[b] = command_queue[b]
        BY <2>4, <3>1
      <3>2. CASE command_queue'[b] # command_queue[b]
        <4>1. b = o /\ command_queue'[b] = Tail(command_queue[b])
          BY <2>3, <3>2 DEF TypeInv, Typed
        <4>2. i + 1 \in 1 .. Len(command_queue[b]) /\ command_queue'[b][i] = command_queue[b][i + 1]
          BY <1>1, <2>2, <2>4, <4>1
        <4> QED BY <4>2
      <3> QED BY <3>1, <3>2
    <2> QED BY <2>1, <2>4 DEF OncePerCycle
  <1>5. ASSUME SchedulerStops \/ (\E r \in returns : CommandReturns(r)) \/ UNCHANGED vars
        PROVE  OncePerCycle'
    BY <1>5 DEF SchedulerStops, CommandReturns, vars, controllerVars, bankVars, OncePerCycle
  <1>6. ASSUME Tick
        PROVE  OncePerCycle'
    <2>1. UNCHANGED <<command_queue, processor>> /\ cycle' = cycle + 1 /\ cycle \notin processor
      BY <1>6 DEF Tick, Due, bankVars, controllerVars
    <2>2. \A p \in processor : p \in Nat /\ p # cycle
      BY <1>1, <2>1
    <2>3. \A p \in processor' : p >= cycle'
      BY <1>1, <2>1, <2>2 DEF OncePerCycle
    <2>4. \A b \in Banks : \A i \in 1 .. Len(command_queue[b]) :
              /\ command_queue[b][i].cycle_created < cycle'
              /\ command_queue[b][i].cycle_created <= cycle'
      BY <1>1, <2>1 DEF OncePerCycle
    <2> QED BY <1>1, <2>1, <2>3, <2>4 DEF OncePerCycle
  <1> QED BY <1>2, <1>3, <1>4, <1>5, <1>6 DEF Next

\* While a bank is remembered only the request processor can change a front command,
\* and the one it adds is younger than all that are there.
LEMMA ChoiceStep ==
    TypeInv /\ TypedRest /\ OncePerCycle /\ ChoiceNotStale /\ [Next]_vars => ChoiceNotStale'
  <1> SUFFICES ASSUME TypeInv, TypedRest, OncePerCycle, ChoiceNotStale, [Next]_vars,
                      SchedulingPolicy' = "OldestFirst", NEW b \in next_scheduled_bank'
               PROVE  FindNext(b)'
    BY DEF ChoiceNotStale
  <1>1. SchedulingPolicy = "OldestFirst"
    BY DEF Next, AddRequest, RunRequestProcessor, RunScheduler, SchedulerStops, CommandReturns,
           Tick, vars, policies
  <1>2. ASSUME UNCHANGED command_queue, FindNext(b)
        PROVE  FindNext(b)'
    BY <1>1, <1>2 DEF FindNext, OldestFirst, BanksWaiting, Front, Index
  <1>3. ASSUME RunRequestProcessor, incoming_requests # <<>>
        PROVE  FindNext(b)'
    <2> DEFINE request == Head(incoming_requests)
               commands == CommandsFor(request, future_active_row[request.bank])
    <2>1. request \in Requests /\ ProcessRequest(request) /\ cycle \in processor
      BY <1>3 DEF RunRequestProcessor, TypeInv, Typed
    <2>2. request.bank \in Banks /\ cycle \in Nat
      BY <2>1 DEF Requests, TypeInv, Typed
    <2>3. /\ commands \in Seq(Commands) /\ commands # <<>>
          /\ \A i \in 1 .. Len(commands) : commands[i].cycle_created = cycle
      BY <2>1, <2>2, CommandsForMade, CommandsForType
    <2> HIDE DEF request, commands
    <2>4. command_queue' = [command_queue EXCEPT ![request.bank] = @ \o commands]
      BY <2>1 DEF ProcessRequest, commands
    <2>5. b \in next_scheduled_bank
      BY <1>3 DEF RunRequestProcessor, channelVars
    <2>6. FindNext(b)
      BY <1>1, <2>5 DEF ChoiceNotStale
    <2>7. \A o \in BanksWaiting : o \in BanksWaiting' /\ Front(o)' = Front(o)
      <3> TAKE o \in BanksWaiting
      <3>1. o \in Banks /\ command_queue[o] \in Seq(Commands) /\ command_queue[o] # <<>>
            /\ Front(o) = command_queue[o][1] /\ 1 \in 1 .. Len(command_queue[o])
        BY FrontIsFirst DEF BanksWaiting
      <3>2. command_queue'[o] = IF o = request.bank THEN command_queue[o] \o commands
                                ELSE command_queue[o]
        BY <2>4, <3>1 DEF TypeInv, Typed
      <3>3. /\ command_queue'[o] \in Seq(Commands)
            /\ 1 \in 1 .. Len(command_queue'[o])
            /\ command_queue'[o][1] = command_queue[o][1]
        BY <2>3, <3>1, <3>2
      <3>4. command_queue'[o] # <<>>
        BY <3>3
      <3> QED BY <3>1, <3>3, <3>4 DEF BanksWaiting, Front
    <2>8. \A o \in BanksWaiting' \ BanksWaiting : Front(o)'.cycle_created = cycle
      <3> TAKE o \in BanksWaiting' \ BanksWaiting
      <3>1. o \in Banks /\ command_queue[o] = <<>> /\ command_queue'[o] # <<>>
        BY DEF BanksWaiting
      <3>2. o = request.bank /\ command_queue'[o] = <<>> \o commands
        BY <2>2, <2>4, <3>1 DEF TypeInv, Typed
      <3>3. command_queue'[o] = commands /\ 1 \in 1 .. Len(commands)
        BY <2>3, <3>2
      <3> QED BY <2>3, <3>3 DEF Front
    <2>9. b \in BanksWaiting /\ \A o \in BanksWaiting \ {b} :
              \/ Front(b).cycle_created < Front(o).cycle_created
              \/ Front(b).cycle_created = Front(o).cycle_created /\ Index(b) < Index(o)
      BY <1>1, <2>6 DEF FindNext, OldestFirst
    <2>10. Front(b).cycle_created < cycle
      BY <2>1, <2>9, FrontIsFirst DEF OncePerCycle
    <2>11. \A o \in BanksWaiting' \ {b} :
              \/ Front(b)'.cycle_created < Front(o)'.cycle_created
              \/ Front(b)'.cycle_created = Front(o)'.cycle_created /\ Index(b) < Index(o)
      <3> TAKE o \in BanksWaiting' \ {b}
      <3>1. CASE o \in BanksWaiting
        BY <2>7, <2>9, <3>1
      <3>2. CASE o \notin BanksWaiting
        BY <2>7, <2>8, <2>9, <2>10, <3>2
      <3> QED BY <3>1, <3>2
    <2> QED BY <2>7, <2>9, <2>11 DEF FindNext, OldestFirst, Index
  <1>4. ASSUME NEW o \in Banks, RunScheduler(o)
        PROVE  FindNext(b)'
    <2>1. ~Ready(o) /\ b = o /\ command_queue' = command_queue
      BY <1>4 DEF RunScheduler
    <2>2. CASE o \in next_scheduled_bank
      BY <1>1, <1>2, <2>1, <2>2 DEF ChoiceNotStale
    <2>3. CASE FindNext(o)
      BY <1>2, <2>1, <2>3
    <2> QED BY <1>4, <2>2, <2>3 DEF RunScheduler
  <1>5. ASSUME UNCHANGED <<command_queue, next_scheduled_bank>>
        PROVE  FindNext(b)'
    BY <1>1, <1>2, <1>5 DEF ChoiceNotStale
  <1>6. ASSUME RunRequestProcessor, incoming_requests = <<>>
        PROVE  FindNext(b)'
    BY <1>5, <1>6 DEF RunRequestProcessor, bankVars, channelVars
  <1>7. ASSUME NEW type \in RequestTypes, NEW o \in Banks, NEW row \in Rows,
               AddRequest(type, o, row)
        PROVE  FindNext(b)'
    BY <1>5, <1>7 DEF AddRequest, bankVars, channelVars
  <1>8. ASSUME SchedulerStops \/ (\E r \in returns : CommandReturns(r)) \/ Tick \/ UNCHANGED vars
        PROVE  FindNext(b)'
    BY <1>5, <1>8 DEF SchedulerStops, CommandReturns, Tick, vars, bankVars, channelVars
  <1> QED BY <1>3, <1>4, <1>6, <1>7, <1>8 DEF Next

\* The bank that waits for its command to become ready is the one OldestFirst would
\* return in every cycle until then, whatever requests are processed meanwhile.
THEOREM ChoiceIsNeverStale == Spec => []ChoiceNotStale
  <1> DEFINE Inv == WholeType /\ OncePerCycle /\ ChoiceNotStale
  <1>1. Init => Inv
    <2>1. Init => OncePerCycle /\ ChoiceNotStale
      BY DEF Init, OncePerCycle, ChoiceNotStale
    <2> QED BY <2>1, WholeTypeInit
  <1>2. Inv /\ [Next]_vars => Inv'
    BY WholeTypeStep, OncePerCycleStep, ChoiceStep DEF WholeType
  <1> QED BY <1>1, <1>2, PTL DEF Spec

-----------------------------------------------------------------------------
(* The turns of the round robin                                            *)

\* The banks are numbered from 0, each with a number of its own.
LEMMA IndexProperties ==
    /\ NumBanksTotal \in Nat \ {0}
    /\ \A b \in Banks : Index(b) \in 0 .. NumBanksTotal - 1
    /\ \A b, c \in Banks : Index(b) = Index(c) => b = c
  <1>1. NumRanks \in Nat \ {0} /\ NumBanks \in Nat \ {0}
    BY GeometryAssumption
  <1>2. \A b \in Banks : /\ b[1] \in 0 .. NumRanks - 1 /\ b[2] \in 0 .. NumBanks - 1
                         /\ b = <<b[1], b[2]>>
    BY DEF Banks, Ranks
  <1>3. ASSUME NEW r \in Nat \ {0}, NEW n \in Nat \ {0},
               NEW a \in 0 .. r - 1, NEW i \in 0 .. n - 1
        PROVE  r * n \in Nat \ {0} /\ a * n + i \in 0 .. (r * n) - 1
    OBVIOUS
  <1>4. ASSUME NEW r \in Nat \ {0}, NEW n \in Nat \ {0},
               NEW a \in 0 .. r - 1, NEW i \in 0 .. n - 1,
               NEW c \in 0 .. r - 1, NEW j \in 0 .. n - 1, a * n + i = c * n + j
        PROVE  a = c /\ i = j
    BY <1>4
  <1>5. \A b \in Banks : NumBanksTotal \in Nat \ {0} /\ Index(b) \in 0 .. NumBanksTotal - 1
    BY <1>1, <1>2, <1>3 DEF NumBanksTotal, Index
  <1>6. NumBanksTotal \in Nat \ {0}
    BY <1>1, <1>3 DEF NumBanksTotal
  <1>7. ASSUME NEW b \in Banks, NEW c \in Banks, Index(b) = Index(c)
        PROVE  b = c
    <2>1. b[1] = c[1] /\ b[2] = c[2]
      BY <1>1, <1>2, <1>4, <1>7 DEF Index
    <2> QED BY <1>2, <2>1
  <1> QED BY <1>5, <1>6, <1>7

\* The banks that lie between bank y, where the search starts, and bank b.
DistanceFrom(y, b) == (Index(b) - Index(y) - 1) % NumBanksTotal

\* Once y is reached the banks after it come in the same order, and y comes last.
LEMMA DistanceProperties ==
    ASSUME NEW c \in Banks, NEW y \in Banks, NEW b \in Banks, NEW x \in Banks
    PROVE  /\ DistanceFrom(c, b) \in 0 .. NumBanksTotal - 1
           /\ DistanceFrom(c, b) = DistanceFrom(c, x) => b = x
           /\ DistanceFrom(c, y) < DistanceFrom(c, b) /\ DistanceFrom(c, b) < DistanceFrom(c, x) =>
                  DistanceFrom(y, b) < DistanceFrom(y, x)
           /\ b # y => DistanceFrom(y, b) < DistanceFrom(y, y)
  <1>1. NumBanksTotal \in Nat \ {0}
        /\ Index(c) \in 0 .. NumBanksTotal - 1 /\ Index(y) \in 0 .. NumBanksTotal - 1
        /\ Index(b) \in 0 .. NumBanksTotal - 1 /\ Index(x) \in 0 .. NumBanksTotal - 1
    BY IndexProperties
  <1>2. ASSUME NEW n \in Nat \ {0}, NEW i \in 0 .. n - 1, NEW s \in 0 .. n - 1
        PROVE  (i - s - 1) % n = IF i > s THEN i - s - 1 ELSE i - s - 1 + n
    OBVIOUS
  <1> DEFINE after(s, i) == IF i > s THEN i - s - 1 ELSE i - s - 1 + NumBanksTotal
  <1>3. \A s, o \in Banks : DistanceFrom(s, o) = after(Index(s), Index(o))
    BY IndexProperties, <1>2 DEF DistanceFrom
  <1>4. ASSUME NEW n \in Nat \ {0}, NEW k \in 0 .. n - 1, NEW i \in 0 .. n - 1,
               NEW j \in 0 .. n - 1, NEW l \in 0 .. n - 1, n = NumBanksTotal
        PROVE  /\ after(k, j) \in 0 .. n - 1
               /\ after(k, j) = after(k, l) => j = l
               /\ after(k, i) < after(k, j) /\ after(k, j) < after(k, l) =>
                      after(i, j) < after(i, l)
               /\ j # i => after(i, j) < after(i, i)
    BY <1>4
  <1> HIDE DEF after
  <1>5. /\ after(Index(c), Index(b)) \in 0 .. NumBanksTotal - 1
        /\ after(Index(c), Index(b)) = after(Index(c), Index(x)) => Index(b) = Index(x)
        /\ after(Index(c), Index(y)) < after(Index(c), Index(b))
               /\ after(Index(c), Index(b)) < after(Index(c), Index(x)) =>
                      after(Index(y), Index(b)) < after(Index(y), Index(x))
        /\ Index(b) # Index(y) => after(Index(y), Index(b)) < after(Index(y), Index(y))
    BY <1>1, <1>4
  <1> QED BY <1>3, <1>5, IndexProperties

\* A bank that has been passed by x comes before x in the order of the search, so it
\* is served before x is reached again.  A bank that is remembered is served next,
\* and has passed nobody who still waits.
RoundRobin ==
    SchedulingPolicy = "RankBankRoundRobin" =>
        /\ \A b, x \in Banks :
               passed[b][x] # 0 =>
                   /\ passed[b][x] = 1 /\ b \in BanksWaiting
                   /\ b \in next_scheduled_bank \/ Distance(b) < Distance(x)
        /\ \A y \in next_scheduled_bank :
               current = y /\ \A b \in Banks : passed[b][y] = 0

LEMMA StillWaiting ==
    ASSUME TypeInv, RunRequestProcessor, NEW b \in BanksWaiting
    PROVE  b \in BanksWaiting'
  <1>1. b \in Banks /\ command_queue[b] \in Seq(Commands) /\ Len(command_queue[b]) >= 1
    BY FrontIsFirst
  <1>2. CASE incoming_requests = <<>>
    BY <1>2 DEF RunRequestProcessor, bankVars, BanksWaiting
  <1>3. CASE incoming_requests # <<>>
    <2> DEFINE request == Head(incoming_requests)
               commands == CommandsFor(request, future_active_row[request.bank])
    <2>1. request \in Requests /\ ProcessRequest(request)
      BY <1>3 DEF RunRequestProcessor, TypeInv, Typed
    <2>2. commands \in Seq(Commands) /\ request.bank \in Banks
      BY <2>1, CommandsForType DEF TypeInv, Typed, Requests
    <2> HIDE DEF request, commands
    <2>3. command_queue' = [command_queue EXCEPT ![request.bank] = @ \o commands]
      BY <2>1 DEF ProcessRequest, commands
    <2>4. command_queue'[b] = command_queue[b] \o commands
          \/ command_queue'[b] = command_queue[b]
      BY <1>1, <2>2, <2>3 DEF TypeInv, Typed
    <2>5. Len(command_queue[b] \o commands) >= 1
      BY <1>1, <2>2
    <2>6. command_queue'[b] # <<>>
      BY <1>1, <2>4, <2>5
    <2> QED BY <1>1, <2>6 DEF BanksWaiting
  <1> QED BY <1>2, <1>3

LEMMA RoundRobinStep == TypeInv /\ TypedRest /\ RoundRobin /\ [Next]_vars => RoundRobin'
  <1> SUFFICES ASSUME TypeInv, TypedRest, RoundRobin, [Next]_vars,
                      SchedulingPolicy' = "RankBankRoundRobin"
               PROVE  RoundRobin'
    BY DEF RoundRobin
  <1>1. SchedulingPolicy = "RankBankRoundRobin"
    BY DEF Next, AddRequest, RunRequestProcessor, RunScheduler, SchedulerStops, CommandReturns,
           Tick, vars, policies
  <1>2. /\ \A b, x \in Banks :
               passed[b][x] # 0 =>
                   /\ passed[b][x] = 1 /\ b \in BanksWaiting
                   /\ b \in next_scheduled_bank
                      \/ DistanceFrom(current, b) < DistanceFrom(current, x)
        /\ \A y \in next_scheduled_bank :
               current = y /\ \A b \in Banks : passed[b][y] = 0
    BY <1>1 DEF RoundRobin, Distance, DistanceFrom
  <1>3. ASSUME UNCHANGED <<next_scheduled_bank, current, passed>>,
               \A b \in BanksWaiting : b \in BanksWaiting'
        PROVE  RoundRobin'
    BY <1>2, <1>3 DEF RoundRobin, Distance, DistanceFrom, Index
  <1>4. ASSUME NEW y \in Banks, RunScheduler(y)
        PROVE  RoundRobin'
    <2>1. current' = y /\ current \in Banks
      BY <1>1, <1>4 DEF RunScheduler, TypedRest
    \* The search has reached y.
    <2>2. /\ \A b \in Banks : passed[b][y] = 0
          /\ \A b, x \in Banks :
                 passed[b][x] # 0 =>
                     /\ passed[b][x] = 1 /\ b \in BanksWaiting
                     /\ b = y \/ DistanceFrom(y, b) < DistanceFrom(y, x)
      <3>1. CASE next_scheduled_bank # {}
        <4>1. y \in next_scheduled_bank /\ current = y
          BY <1>2, <1>4, <3>1 DEF RunScheduler
        <4>2. \A b \in next_scheduled_bank : b = y
          BY <1>2, <4>1
        <4> QED BY <1>2, <4>1, <4>2
      <3>2. CASE next_scheduled_bank = {}
        <4>1. RankBankRoundRobin(y)
          BY <1>1, <1>4, <3>2 DEF RunScheduler, FindNext
        <4>2. \A o \in BanksWaiting : DistanceFrom(current, y) <= DistanceFrom(current, o)
          BY <4>1 DEF RankBankRoundRobin, Distance, DistanceFrom
        <4>3. ASSUME NEW b \in Banks, NEW x \in Banks, passed[b][x] # 0
              PROVE  /\ passed[b][x] = 1 /\ b \in BanksWaiting
                     /\ x # y
                     /\ b = y \/ DistanceFrom(y, b) < DistanceFrom(y, x)
          <5>1. /\ passed[b][x] = 1 /\ b \in BanksWaiting
                /\ DistanceFrom(current, b) < DistanceFrom(current, x)
            BY <1>2, <3>2, <4>3
          <5>2. DistanceFrom(current, y) <= DistanceFrom(current, b)
            BY <4>2, <5>1
          <5>3. /\ DistanceFrom(current, y) \in Int /\ DistanceFrom(current, b) \in Int
                /\ DistanceFrom(current, x) \in Int
            BY <2>1, DistanceProperties
          <5>4. x # y
            BY <5>1, <5>2, <5>3
          <5>5. b # y => DistanceFrom(current, y) < DistanceFrom(current, b)
            BY <2>1, <5>2, <5>3, DistanceProperties
          <5>6. b # y => DistanceFrom(y, b) < DistanceFrom(y, x)
            BY <2>1, <5>1, <5>5, DistanceProperties
          <5> QED BY <5>1, <5>4, <5>6
        <4> QED BY <4>3
      <3> QED BY <3>1, <3>2
    <2>3. CASE Ready(y)
      <3>1. RunFrontCommand(y) /\ next_scheduled_bank' = {}
        BY <1>4, <2>3 DEF RunScheduler
      <3>2. \A b \in BanksWaiting : b # y => b \in BanksWaiting'
        BY <3>1 DEF RunFrontCommand, BanksWaiting, TypeInv, Typed
      <3>3. ASSUME NEW b \in Banks, NEW x \in Banks, passed'[b][x] # 0
            PROVE  /\ passed'[b][x] = 1 /\ b \in BanksWaiting'
                   /\ DistanceFrom(y, b) < DistanceFrom(y, x)
        <4>1. passed' = [o \in Banks |->
                             IF o # y /\ o \in BanksWaiting
                             THEN [passed[o] EXCEPT ![y] = @ + 1]
                             ELSE [z \in Banks |-> 0]]
          BY <3>1 DEF RunFrontCommand
        <4>2. b # y /\ b \in BanksWaiting /\ passed'[b] = [passed[b] EXCEPT ![y] = @ + 1]
          BY <3>3, <4>1
        <4>3. passed[b] \in [Banks -> Nat] /\ passed[b][y] = 0
          BY <2>2 DEF TypedRest
        <4>4. CASE x = y
          <5>1. passed'[b][x] = 1
            BY <4>2, <4>3, <4>4
          <5> QED BY <3>2, <4>2, <4>4, <5>1, DistanceProperties
        <4>5. CASE x # y
          <5>1. passed'[b][x] = passed[b][x]
            BY <4>2, <4>3, <4>5
          <5> QED BY <2>2, <3>2, <3>3, <4>2, <5>1
        <4> QED BY <4>4, <4>5
      <3> QED BY <2>1, <3>1, <3>3 DEF RoundRobin, Distance, DistanceFrom, Index
    <2>4. CASE ~Ready(y)
      <3>1. UNCHANGED <<command_queue, passed>> /\ next_scheduled_bank' = {y}
        BY <1>4, <2>4 DEF RunScheduler, historyVars
      <3>2. BanksWaiting' = BanksWaiting
        BY <3>1 DEF BanksWaiting
      <3> QED BY <2>1, <2>2, <3>1, <3>2 DEF RoundRobin, Distance, DistanceFrom, Index
    <2> QED BY <2>3, <2>4
  <1>5. ASSUME RunRequestProcessor
        PROVE  RoundRobin'
    BY <1>3, <1>5, StillWaiting DEF RunRequestProcessor, channelVars, historyVars
  <1>6. ASSUME NEW type \in RequestTypes, NEW o \in Banks, NEW row \in Rows,
               AddRequest(type, o, row)
        PROVE  RoundRobin'
    BY <1>3, <1>6 DEF AddRequest, bankVars, channelVars, historyVars, BanksWaiting
  <1>7. ASSUME SchedulerStops \/ (\E r \in returns : CommandReturns(r)) \/ Tick \/ UNCHANGED vars
        PROVE  RoundRobin'
    BY <1>3, <1>7 DEF SchedulerStops, CommandReturns, Tick, vars, bankVars, channelVars,
                      historyVars, BanksWaiting
  <1> QED BY <1>4, <1>5, <1>6, <1>7 DEF Next

LEMMA RoundRobinGivesTurns == TypedRest /\ RoundRobin => NoBankStarves
  <1> SUFFICES ASSUME TypedRest, RoundRobin, SchedulingPolicy = "RankBankRoundRobin",
                      NEW b \in Banks, NEW x \in Banks
               PROVE  passed[b][x] <= 1
    BY DEF NoBankStarves
  <1>1. passed[b][x] = 0 \/ passed[b][x] = 1
    BY DEF RoundRobin
  <1> QED BY <1>1

-----------------------------------------------------------------------------
(* The order in which requests finish                                      *)

IsAccess(command) == command.type \in RequestTypes

\* The accesses that have run and whose requests are not finished yet.
Accesses == {r \in returns : IsAccess(r.command)}

\* The requests whose access has run, and those a command has been made for.
Gone == {finished[i] : i \in 1 .. Len(finished)} \union {r.command.request : r \in Accesses}
Queued == UNION {{command_queue[b][i].request : i \in 1 .. Len(command_queue[b])} : b \in Banks}

IncomingOrder ==
    \A j \in 1 .. Len(incoming_requests) :
        /\ incoming_requests[j].id <= requests
        /\ \A i \in 1 .. j - 1 : incoming_requests[i].id < incoming_requests[j].id
        /\ \A x \in Gone \union Queued : x.id < incoming_requests[j].id

QueueOrder ==
    \A b \in Banks : \A j \in 1 .. Len(command_queue[b]) :
        /\ command_queue[b][j].request.bank = b
        /\ IsAccess(command_queue[b][j]) =>
               /\ \A i \in 1 .. j - 1 :
                      IsAccess(command_queue[b][i]) =>
                          command_queue[b][i].request.id < command_queue[b][j].request.id
               /\ \A x \in Gone : x.bank = b => x.id < command_queue[b][j].request.id

\* An access returns no later than its duration after the last access of its type in
\* the rank, so the timing rules also separate the cycles of the returns.
ReturnOrder ==
    \A r \in Accesses :
        /\ r.at <= rank_last[r.command.request.bank[1]][r.command.type] + getDuration(r.command.type)
        /\ \A s \in Accesses :
               r # s /\ r.command.request.bank = s.command.request.bank /\ r.at <= s.at =>
                   r.command.request.id < s.command.request.id
        /\ \A i \in 1 .. Len(finished) :
               finished[i].bank = r.command.request.bank => finished[i].id < r.command.request.id

Ordered ==
    /\ \A x \in Gone \union Queued : x.id <= requests
    /\ IncomingOrder /\ QueueOrder /\ ReturnOrder /\ FinishInOrder

LEMMA GoneAndQueuedType ==
    ASSUME TypeInv, TypedRest
    PROVE  /\ \A r \in returns : /\ r.command \in Commands /\ r.command.request \in Requests
                                 /\ r.command.type \in CommandTypes /\ r.at \in Nat
           /\ Gone \subseteq Requests /\ Queued \subseteq Requests
           /\ \A x \in Requests : x.id \in Nat /\ x.bank \in Banks /\ x.bank[1] \in Ranks
           /\ \A b \in Banks : \A i \in 1 .. Len(command_queue[b]) :
                  command_queue[b][i] \in Commands /\ command_queue[b][i].request \in Requests
           /\ \A j \in 1 .. Len(incoming_requests) : incoming_requests[j] \in Requests
           /\ \A j \in 1 .. Len(finished) : finished[j] \in Requests
  <1>1. \A r \in returns : r.command \in Commands /\ r.at \in Nat
    BY DEF TypedRest
  <1>2. \A c \in Commands : c.request \in Requests /\ c.type \in CommandTypes
    BY DEF Commands
  <1>3. \A b \in Banks : \A i \in 1 .. Len(command_queue[b]) : command_queue[b][i] \in Commands
    BY ElementOfSeq DEF TypeInv, Typed
  <1>4. \A x \in Requests : x.id \in Nat /\ x.bank \in Banks /\ x.bank[1] \in Ranks
    <2>1. \A b \in Banks : b[1] \in Ranks
      BY DEF Banks
    <2> QED BY <2>1, BoundAssumption DEF Requests
  <1>5. \A j \in 1 .. Len(incoming_requests) : incoming_requests[j] \in Requests
    BY ElementOfSeq DEF TypeInv, Typed
  <1>6. \A j \in 1 .. Len(finished) : finished[j] \in Requests
    BY ElementOfSeq DEF TypedRest
  <1>7. Gone \subseteq Requests
    BY <1>1, <1>2, <1>6 DEF Gone, Accesses
  <1>8. Queued \subseteq Requests
    BY <1>2, <1>3 DEF Queued
  <1> QED BY <1>1, <1>2, <1>3, <1>4, <1>5, <1>6, <1>7, <1>8

\* ProcessRequest makes one access for a request.
LEMMA CommandsForOneAccess ==
    ASSUME NEW request \in Requests, NEW future, cycle \in Nat,
           NEW j \in 1 .. Len(CommandsFor(request, future)), NEW i \in 1 .. j - 1
    PROVE  ~(/\ IsAccess(CommandsFor(request, future)[i])
             /\ IsAccess(CommandsFor(request, future)[j]))
  <1> DEFINE opening == Opening(request, future)
             access == Command(request.type, request)
             closing == Closing(request)
             all == CommandsFor(request, future)
  <1>1. /\ Len(opening) \in 0 .. 2 /\ \A k \in 1 .. Len(opening) : ~IsAccess(opening[k])
    <2>1. /\ ~IsAccess(Command("Precharge", request)) /\ ~IsAccess(Command("Activate", request))
      BY DEF IsAccess, Command, RequestTypes
    <2> QED BY <2>1 DEF Opening
  <1>2. /\ Len(closing) \in 0 .. 1 /\ \A k \in 1 .. Len(closing) : ~IsAccess(closing[k])
    BY DEF Closing, IsAccess, Command, RequestTypes
  <1>3. opening \in Seq(Commands) /\ <<access>> \in Seq(Commands) /\ closing \in Seq(Commands)
        /\ all = opening \o <<access>> \o closing
    BY CommandsForType DEF CommandsFor
  <1> HIDE DEF opening, access, closing, all
  <1>4. \A k \in 1 .. Len(all) : k # Len(opening) + 1 => ~IsAccess(all[k])
    <2> TAKE k \in 1 .. Len(all)
    <2>1. CASE k \in 1 .. Len(opening)
      <3>1. all[k] = opening[k]
        BY <1>3, <2>1
      <3> QED BY <1>1, <2>1, <3>1
    <2>2. CASE k > Len(opening) + 1
      <3>1. k - Len(opening) - 1 \in 1 .. Len(closing)
            /\ all[k] = closing[k - Len(opening) - 1]
        BY <1>3, <2>2
      <3> QED BY <1>2, <3>1
    <2> QED BY <1>1, <2>1, <2>2
  <1>5. i \in 1 .. Len(all) /\ j \in 1 .. Len(all) /\ i # j
    BY <1>3 DEF all
  <1> QED BY <1>1, <1>4, <1>5 DEF all

LEMMA OrderedAdd ==
    ASSUME TypeInv, TypedRest, Ordered, NEW type \in RequestTypes, NEW b \in Banks, NEW row \in Rows,
           AddRequest(type, b, row)
    PROVE  Ordered'
  <1> DEFINE request == [id |-> requests + 1, type |-> type, bank |-> b, row |-> row]
  <1>1. /\ UNCHANGED <<command_queue, returns, finished, rank_last>>
        /\ requests' = requests + 1 /\ requests \in Nat
        /\ incoming_requests' = Append(incoming_requests, request)
        /\ incoming_requests \in Seq(Requests)
    BY DEF AddRequest, bankVars, channelVars, TypeInv, Typed
  <1>2. Gone' = Gone /\ Queued' = Queued /\ Accesses' = Accesses
    BY <1>1 DEF Gone, Queued, Accesses
  <1>3. QueueOrder' /\ ReturnOrder' /\ FinishInOrder'
    BY <1>1, <1>2 DEF Ordered, QueueOrder, ReturnOrder, FinishInOrder
  <1>4. request.id = requests + 1
    OBVIOUS
  <1> HIDE DEF request
  <1>5. \A x \in Gone \union Queued : x.id \in Nat /\ x.id <= requests /\ x.id < requests + 1
    BY <1>1, GoneAndQueuedType DEF Ordered
  <1>6. IncomingOrder'
    <2> SUFFICES ASSUME NEW j \in 1 .. Len(incoming_requests')
                 PROVE  /\ incoming_requests'[j].id <= requests'
                        /\ \A i \in 1 .. j - 1 : incoming_requests'[i].id < incoming_requests'[j].id
                        /\ \A x \in Gone \union Queued : x.id < incoming_requests'[j].id
      BY <1>2 DEF IncomingOrder
    <2>1. \A i \in 1 .. Len(incoming_requests) :
              /\ incoming_requests'[i] = incoming_requests[i]
              /\ incoming_requests[i].id \in Nat /\ incoming_requests[i].id <= requests
      BY <1>1, GoneAndQueuedType DEF Ordered, IncomingOrder
    <2>2. CASE j \in 1 .. Len(incoming_requests)
      <3>1. \A i \in 1 .. j - 1 : i \in 1 .. Len(incoming_requests)
        BY <1>1, <2>2
      <3> QED BY <1>1, <2>1, <2>2, <3>1 DEF Ordered, IncomingOrder
    <2>3. CASE j \notin 1 .. Len(incoming_requests)
      <3>1. incoming_requests'[j] = request
            /\ \A i \in 1 .. j - 1 : i \in 1 .. Len(incoming_requests)
        BY <1>1, <2>3
      <3> QED BY <1>1, <1>4, <1>5, <2>1, <3>1
    <2> QED BY <2>2, <2>3
  <1>7. \A x \in Gone' \union Queued' : x.id <= requests'
    BY <1>1, <1>2, <1>5
  <1> QED BY <1>3, <1>6, <1>7 DEF Ordered

LEMMA OrderedProcess ==
    ASSUME TypeInv, TypedRest, Ordered, RunRequestProcessor, incoming_requests # <<>>
    PROVE  Ordered'
  <1> DEFINE request == Head(incoming_requests)
             o == request.bank
             commands == CommandsFor(request, future_active_row[o])
  <1>1. /\ UNCHANGED <<returns, finished, rank_last, requests>>
        /\ requests \in Nat /\ cycle \in Nat
        /\ incoming_requests' = Tail(incoming_requests)
        /\ incoming_requests \in Seq(Requests) /\ Len(incoming_requests) \in Nat \ {0}
        /\ request = incoming_requests[1] /\ ProcessRequest(request)
    BY DEF RunRequestProcessor, controllerVars, channelVars, TypeInv, Typed
  <1>2. request \in Requests /\ o \in Banks /\ request.id \in Nat
    BY <1>1, GoneAndQueuedType
  <1>3. /\ commands \in Seq(Commands)
        /\ \A i \in 1 .. Len(commands) : commands[i].request = request
        /\ \A j \in 1 .. Len(commands) : \A i \in 1 .. j - 1 :
               ~(IsAccess(commands[i]) /\ IsAccess(commands[j]))
    BY <1>1, <1>2, CommandsForType, CommandsForMade, CommandsForOneAccess
  <1>4. Gone' = Gone /\ Accesses' = Accesses
    BY <1>1 DEF Gone, Accesses
  <1>5. ReturnOrder' /\ FinishInOrder'
    BY <1>1, <1>4 DEF Ordered, ReturnOrder, FinishInOrder
  <1>6. /\ request.id <= requests
        /\ \A x \in Gone \union Queued : x.id < request.id
    BY <1>1 DEF Ordered, IncomingOrder
  <1>7. command_queue' = [command_queue EXCEPT ![o] = @ \o commands]
    BY <1>1 DEF ProcessRequest
  <1> HIDE DEF request, o, commands
  <1>8. \A b \in Banks : command_queue[b] \in Seq(Commands)
                         /\ command_queue'[b] = IF b = o THEN command_queue[b] \o commands
                                                ELSE command_queue[b]
    BY <1>2, <1>7 DEF TypeInv, Typed
  \* A command of the new queue was there or is one of the new ones.
  <1>9. ASSUME NEW b \in Banks, NEW i \in 1 .. Len(command_queue'[b])
        PROVE  \/ i \in 1 .. Len(command_queue[b]) /\ command_queue'[b][i] = command_queue[b][i]
               \/ /\ b = o /\ i - Len(command_queue[b]) \in 1 .. Len(commands)
                  /\ command_queue'[b][i] = commands[i - Len(command_queue[b])]
                  /\ command_queue'[b][i].request = request
    <2>1. CASE b # o
      BY <1>8, <1>9, <2>1
    <2>2. CASE b = o
      <3>1. command_queue[b] \in Seq(Commands) /\ command_queue'[b] = command_queue[b] \o commands
        BY <1>8, <2>2
      <3>2. CASE i \in 1 .. Len(command_queue[b])
        BY <1>3, <3>1, <3>2
      <3>3. CASE i \notin 1 .. Len(command_queue[b])
        <4>1. /\ i - Len(command_queue[b]) \in 1 .. Len(commands)
              /\ command_queue'[b][i] = commands[i - Len(command_queue[b])]
          BY <1>3, <1>9, <3>1, <3>3
        <4> QED BY <1>3, <2>2, <4>1
      <3> QED BY <3>2, <3>3
    <2> QED BY <2>1, <2>2
  <1>10. Queued' \subseteq Queued \union {request}
    <2>1. ASSUME NEW b \in Banks, NEW i \in 1 .. Len(command_queue'[b])
          PROVE  command_queue'[b][i].request \in Queued \union {request}
      BY <1>9 DEF Queued
    <2> QED BY <2>1 DEF Queued
  <1>11. IncomingOrder'
    <2> SUFFICES ASSUME NEW j \in 1 .. Len(incoming_requests')
                 PROVE  /\ incoming_requests'[j].id <= requests
                        /\ \A i \in 1 .. j - 1 : incoming_requests'[i].id < incoming_requests'[j].id
                        /\ \A x \in Gone \union Queued \union {request} :
                               x.id < incoming_requests'[j].id
      BY <1>1, <1>4, <1>10 DEF IncomingOrder
    <2>1. /\ j + 1 \in 1 .. Len(incoming_requests) /\ 1 \in 1 .. (j + 1) - 1
          /\ incoming_requests'[j] = incoming_requests[j + 1]
          /\ \A i \in 1 .. j - 1 : /\ i + 1 \in 1 .. (j + 1) - 1
                                   /\ incoming_requests'[i] = incoming_requests[i + 1]
      BY <1>1
    <2>2. /\ incoming_requests[j + 1].id <= requests
          /\ \A i \in 1 .. (j + 1) - 1 : incoming_requests[i].id < incoming_requests[j + 1].id
          /\ \A x \in Gone \union Queued : x.id < incoming_requests[j + 1].id
      BY <2>1 DEF Ordered, IncomingOrder
    <2> QED BY <1>1, <2>1, <2>2
  <1>12. QueueOrder'
    <2> SUFFICES ASSUME NEW b \in Banks, NEW j \in 1 .. Len(command_queue'[b])
                 PROVE  /\ command_queue'[b][j].request.bank = b
                        /\ IsAccess(command_queue'[b][j]) =>
                               /\ \A i \in 1 .. j - 1 :
                                      IsAccess(command_queue'[b][i]) =>
                                          command_queue'[b][i].request.id
                                              < command_queue'[b][j].request.id
                               /\ \A x \in Gone : x.bank = b =>
                                      x.id < command_queue'[b][j].request.id
      BY <1>4 DEF QueueOrder, IsAccess
    <2>1. \A i \in 1 .. j - 1 : i \in 1 .. Len(command_queue'[b])
      BY <1>3, <1>8
    <2>2. CASE j \in 1 .. Len(command_queue[b]) /\ command_queue'[b][j] = command_queue[b][j]
      <3>1. \A i \in 1 .. j - 1 : command_queue'[b][i] = command_queue[b][i]
        <4>1. command_queue[b] \in Seq(Commands) /\ j \in 1 .. Len(command_queue[b])
              /\ (command_queue'[b] = command_queue[b]
                  \/ command_queue'[b] = command_queue[b] \o commands)
          BY <1>8, <2>2
        <4>2. CASE command_queue'[b] = command_queue[b]
          BY <4>2
        <4>3. CASE command_queue'[b] = command_queue[b] \o commands
          BY <1>3, <4>1, <4>3
        <4> QED BY <4>1, <4>2, <4>3
      <3> QED BY <2>2, <3>1 DEF Ordered, QueueOrder
    <2>3. CASE /\ b = o /\ j - Len(command_queue[b]) \in 1 .. Len(commands)
               /\ command_queue'[b][j] = commands[j - Len(command_queue[b])]
               /\ command_queue'[b][j].request = request
      <3>1. ASSUME NEW i \in 1 .. j - 1, IsAccess(command_queue'[b][i]), IsAccess(command_queue'[b][j])
            PROVE  command_queue'[b][i].request.id < request.id
        <4>1. CASE i \in 1 .. Len(command_queue[b]) /\ command_queue'[b][i] = command_queue[b][i]
          BY <1>6, <4>1 DEF Queued
        <4>2. CASE /\ i - Len(command_queue[b]) \in 1 .. Len(commands)
                   /\ command_queue'[b][i] = commands[i - Len(command_queue[b])]
          <5>1. i - Len(command_queue[b]) \in 1 .. (j - Len(command_queue[b])) - 1
            BY <1>8, <2>3, <4>2
          <5> QED BY <1>3, <2>3, <3>1, <4>2, <5>1
        <4> QED BY <1>9, <2>1, <4>1, <4>2
      <3>2. request.bank = b
        BY <2>3 DEF o
      <3> QED BY <1>6, <2>3, <3>1, <3>2
    <2> QED BY <1>9, <2>2, <2>3
  <1>13. \A x \in Gone' \union Queued' : x.id <= requests'
    BY <1>1, <1>4, <1>6, <1>10 DEF Ordered
  <1> QED BY <1>5, <1>11, <1>12, <1>13 DEF Ordered

\* Two accesses of one rank return in the order in which they run: the rules between
\* them outweigh the difference of their durations, if a burst takes any time.
LEMMA AccessesReturnApart ==
    ASSUME TypeInv, T["tBURST"] >= 1, NEW b \in Banks, Ready(b), IsAccess(Front(b)),
           NEW t \in RequestTypes
    PROVE  rank_last[b[1]][t] + getDuration(t) < cycle + getDuration(Front(b).type)
  <1>1. b[1] \in Ranks /\ t \in CommandTypes /\ cycle \in Int
    BY DEF Banks, RequestTypes, CommandTypes, TypeInv, Typed
  <1>2. rank_last[b[1]] \in [CommandTypes -> Int]
    BY <1>1 DEF TypeInv, Typed
  <1>3. rank_last[b[1]][t] \in Int
    BY <1>1, <1>2
  <1>4. /\ T["tCWD"] \in Nat /\ T["tBURST"] \in Nat /\ T["tWTR"] \in Nat /\ T["tCAS"] \in Nat
        /\ T["tRTRS"] \in Nat /\ T["tCCD"] \in Nat
    BY ParameterAssumption DEF Parameters
  <1>5. /\ timings["RRsa"] = Larger(T["tBURST"], T["tCCD"])
        /\ timings["WRsa"] = T["tCWD"] + T["tBURST"] + T["tWTR"]
        /\ timings["RWaa"] = T["tCAS"] + T["tBURST"] + T["tRTRS"] - T["tCWD"]
        /\ timings["WWsa"] = Larger(T["tBURST"], T["tCCD"])
    BY DEF timings
  <1>6. /\ getDuration("Read") = T["tCAS"] + T["tBURST"]
        /\ getDuration("Write") = T["tCWD"] + T["tBURST"] + T["tWTR"]
    BY DEF getDuration
  <1>7. /\ getTiming("RRsa") >= 1 /\ getTiming("WWsa") >= 1
        /\ getTiming("RRsa") \in Int /\ getTiming("WWsa") \in Int
        /\ getTiming("WRsa") >= T["tCWD"] + T["tBURST"] + T["tWTR"] /\ getTiming("WRsa") \in Int
        /\ getTiming("RWaa") >= T["tCAS"] + T["tBURST"] + T["tRTRS"] - T["tCWD"]
        /\ getTiming("RWaa") \in Int
    BY <1>4, <1>5 DEF getTiming, Larger
  <1>8. \A at \in ReadyCycles(Front(b).type, b) : cycle >= at
    BY DEF Ready
  <1>9. CASE Front(b).type = "Read"
    <2>1. /\ cycle >= rank_last[b[1]]["Read"] + getTiming("RRsa")
          /\ cycle >= rank_last[b[1]]["Write"] + getTiming("WRsa")
      BY <1>8, <1>9 DEF ReadyCycles
    <2>2. CASE t = "Read"
      BY <1>1, <1>3, <1>4, <1>6, <1>7, <1>9, <2>1, <2>2
    <2>3. CASE t = "Write"
      BY <1>1, <1>3, <1>4, <1>6, <1>7, <1>9, <2>1, <2>3
    <2> QED BY <2>2, <2>3 DEF RequestTypes
  <1>10. CASE Front(b).type = "Write"
    <2>1. /\ cycle >= rank_last[b[1]]["Write"] + getTiming("WWsa")
          /\ cycle >= rank_last[b[1]]["Read"] + getTiming("RWaa")
      BY <1>1, <1>8, <1>10 DEF ReadyCycles
    <2>2. CASE t = "Read"
      BY <1>1, <1>3, <1>4, <1>6, <1>7, <1>10, <2>1, <2>2
    <2>3. CASE t = "Write"
      BY <1>1, <1>3, <1>4, <1>6, <1>7, <1>10, <2>1, <2>3
    <2> QED BY <2>2, <2>3 DEF RequestTypes
  <1> QED BY <1>9, <1>10 DEF IsAccess, RequestTypes

LEMMA OrderedRun ==
    ASSUME TypeInv, LastIsLatest, TypedRest, Ordered, T["tBURST"] >= 1,
           NEW o \in Banks, RunScheduler(o), Ready(o)
    PROVE  Ordered'
  <1> DEFINE command == Front(o)
             return == [command |-> command, at |-> cycle + getDuration(command.type)]
  <1>1. /\ UNCHANGED <<cycle, requests, incoming_requests, finished>>
        /\ command_queue' = [command_queue EXCEPT ![o] = Tail(@)]
        /\ returns' = returns \union {return}
        /\ rank_last' = [rank_last EXCEPT ![o[1]][command.type] = cycle]
    BY DEF RunScheduler, RunFrontCommand, controllerVars
  <1>2. o \in BanksWaiting
    BY SchedulerFindsCommand DEF BanksWaiting
  <1>3. /\ command = command_queue[o][1] /\ 1 \in 1 .. Len(command_queue[o])
        /\ command \in Commands /\ command.type \in CommandTypes /\ command.request \in Requests
        /\ o[1] \in Ranks
    BY <1>2, FrontIsFirst, FrontType, SchedulerFindsCommand DEF Banks
  <1>4. return.command = command /\ return.at = cycle + getDuration(command.type)
    OBVIOUS
  <1>5. cycle \in Nat /\ \A type \in CommandTypes : getDuration(type) \in Nat
    BY DurationType DEF TypeInv, Typed
  <1> HIDE DEF command, return
  <1>6. Accesses' = Accesses \union (IF IsAccess(command) THEN {return} ELSE {})
    BY <1>1, <1>4 DEF Accesses, IsAccess
  <1>7. \A b \in Banks : \A i \in 1 .. Len(command_queue'[b]) :
            IF b = o THEN /\ i + 1 \in 1 .. Len(command_queue[b])
                          /\ command_queue'[b][i] = command_queue[b][i + 1]
            ELSE i \in 1 .. Len(command_queue[b]) /\ command_queue'[b][i] = command_queue[b][i]
    <2> TAKE b \in Banks
    <2> TAKE i \in 1 .. Len(command_queue'[b])
    <2>1. CASE b # o
      BY <1>1, <2>1 DEF TypeInv, Typed
    <2>2. CASE b = o
      <3>1. /\ command_queue'[b] = Tail(command_queue[b]) /\ command_queue[b] \in Seq(Commands)
            /\ Len(command_queue[b]) >= 1
        BY <1>1, <1>3, <2>2 DEF TypeInv, Typed
      <3>2. i + 1 \in 1 .. Len(command_queue[b]) /\ command_queue'[b][i] = command_queue[b][i + 1]
        BY <3>1
      <3> QED BY <2>2, <3>2
    <2> QED BY <2>1, <2>2
  <1>8. Queued' \subseteq Queued
    <2> SUFFICES ASSUME NEW x \in Queued'
                 PROVE  x \in Queued
      OBVIOUS
    <2>1. PICK b \in Banks : \E i \in 1 .. Len(command_queue'[b]) :
                                  x = command_queue'[b][i].request
      BY DEF Queued
    <2>2. \E i \in 1 .. Len(command_queue[b]) : x = command_queue[b][i].request
      BY <1>7, <2>1
    <2> QED BY <2>2 DEF Queued
  <1>9. command.request \in Queued /\ command.request.bank = o
    BY <1>3 DEF Queued, Ordered, QueueOrder
  <1>10. Gone' = Gone \union (IF IsAccess(command) THEN {command.request} ELSE {})
    BY <1>1, <1>4, <1>6 DEF Gone
  <1>11. (\A x \in Gone' \union Queued' : x.id <= requests') /\ IncomingOrder'
    BY <1>1, <1>8, <1>9, <1>10 DEF Ordered, IncomingOrder
  <1>12. QueueOrder'
    <2> SUFFICES ASSUME NEW b \in Banks, NEW j \in 1 .. Len(command_queue'[b])
                 PROVE  /\ command_queue'[b][j].request.bank = b
                        /\ IsAccess(command_queue'[b][j]) =>
                               /\ \A i \in 1 .. j - 1 :
                                      IsAccess(command_queue'[b][i]) =>
                                          command_queue'[b][i].request.id
                                              < command_queue'[b][j].request.id
                               /\ \A x \in Gone' : x.bank = b =>
                                      x.id < command_queue'[b][j].request.id
      BY DEF QueueOrder, IsAccess
    <2>1. CASE b # o
      <3>1. command_queue'[b] = command_queue[b]
        BY <1>1, <2>1 DEF TypeInv, Typed
      <3>2. \A x \in Gone' : x.bank = b => x \in Gone
        BY <1>9, <1>10, <2>1
      <3> QED BY <3>1, <3>2 DEF Ordered, QueueOrder
    <2>2. CASE b = o
      <3>1. /\ command_queue[b] \in Seq(Commands)
            /\ command_queue'[b][j] = command_queue[b][j + 1]
            /\ j + 1 \in 1 .. Len(command_queue[b]) /\ 1 \in 1 .. (j + 1) - 1
            /\ \A i \in 1 .. j - 1 : /\ i + 1 \in 1 .. (j + 1) - 1
                                     /\ i \in 1 .. Len(command_queue'[b])
        BY <1>1, <1>7, <2>2 DEF TypeInv, Typed
      <3>2. \A i \in 1 .. j - 1 : command_queue'[b][i] = command_queue[b][i + 1]
        BY <1>7, <2>2, <3>1
      <3>3. /\ command_queue[b][j + 1].request.bank = b
            /\ IsAccess(command_queue[b][j + 1]) =>
                   /\ \A i \in 1 .. (j + 1) - 1 :
                          IsAccess(command_queue[b][i]) =>
                              command_queue[b][i].request.id < command_queue[b][j + 1].request.id
                   /\ \A x \in Gone : x.bank = b =>
                          x.id < command_queue[b][j + 1].request.id
        BY <3>1 DEF Ordered, QueueOrder
      <3> QED BY <1>3, <1>10, <2>2, <3>1, <3>2, <3>3
    <2> QED BY <2>1, <2>2
  \* The accesses in flight are of requests made before, and return before this one.
  <1>13. ASSUME IsAccess(command), NEW r \in Accesses, r.command.request.bank = o
         PROVE  r.command.request.id < command.request.id /\ r.at < return.at
    <2>1. r.command.request \in Gone
      BY DEF Gone
    <2>2. r.command.request.id < command.request.id
      BY <1>3, <1>13, <2>1 DEF Ordered, QueueOrder
    <2>3. r.command.type \in RequestTypes /\ r.at \in Nat /\ r.command.type \in CommandTypes
      BY GoneAndQueuedType DEF Accesses, IsAccess
    <2>4. r.at <= rank_last[o[1]][r.command.type] + getDuration(r.command.type)
      BY <1>13 DEF Ordered, ReturnOrder
    <2>5. rank_last[o[1]][r.command.type] + getDuration(r.command.type)
              < cycle + getDuration(command.type)
      BY <1>13, <2>3, AccessesReturnApart DEF command
    <2>6. rank_last[o[1]] \in [CommandTypes -> Int]
      BY <1>3 DEF TypeInv, Typed
    <2>7. rank_last[o[1]][r.command.type] \in Int
      BY <2>3, <2>6
    <2>8. r.at < return.at
      BY <1>3, <1>4, <1>5, <2>3, <2>4, <2>5, <2>7
    <2> QED BY <2>2, <2>8
  <1>14. ReturnOrder'
    <2> SUFFICES ASSUME NEW r \in Accesses'
                 PROVE  /\ r.at <= rank_last'[r.command.request.bank[1]][r.command.type]
                                       + getDuration(r.command.type)
                        /\ \A s \in Accesses' :
                               r # s /\ r.command.request.bank = s.command.request.bank
                                     /\ r.at <= s.at =>
                                   r.command.request.id < s.command.request.id
                        /\ \A i \in 1 .. Len(finished) :
                               finished[i].bank = r.command.request.bank =>
                                   finished[i].id < r.command.request.id
      BY <1>1 DEF ReturnOrder, getDuration
    <2>1. \A q \in Ranks, type \in CommandTypes :
              /\ rank_last[q][type] \in Int /\ rank_last'[q][type] \in Int
              /\ rank_last'[q][type] = IF q = o[1] /\ type = command.type THEN cycle
                                       ELSE rank_last[q][type]
              /\ rank_last[q][type] <= rank_last'[q][type]
      <3>1. rank_last \in [Ranks -> [CommandTypes -> Int]] /\ cycle \in Int
        BY DEF TypeInv, Typed
      <3> QED BY <1>1, <1>3, <3>1 DEF LastIsLatest
    <2>2. CASE r \in Accesses
      <3>1. /\ r.at \in Nat /\ r.command.type \in CommandTypes
            /\ r.command.request.bank[1] \in Ranks
        BY <2>2, GoneAndQueuedType DEF Accesses
      <3>2. r.at <= rank_last'[r.command.request.bank[1]][r.command.type]
                        + getDuration(r.command.type)
        <4> DEFINE last == rank_last[r.command.request.bank[1]][r.command.type]
                   last2 == rank_last'[r.command.request.bank[1]][r.command.type]
                   duration == getDuration(r.command.type)
        <4>1. r.at <= last + duration
          BY <2>2 DEF Ordered, ReturnOrder
        <4>2. last \in Int /\ last2 \in Int /\ last <= last2 /\ duration \in Nat
          BY <1>5, <2>1, <3>1
        <4> HIDE DEF last, last2, duration
        <4>3. r.at <= last2 + duration
          BY <3>1, <4>1, <4>2
        <4> QED BY <4>3 DEF last2, duration
      <3>3. ASSUME NEW s \in Accesses', r # s, r.at <= s.at,
                   r.command.request.bank = s.command.request.bank
            PROVE  r.command.request.id < s.command.request.id
        <4>1. CASE s \in Accesses
          BY <2>2, <3>3, <4>1 DEF Ordered, ReturnOrder
        <4>2. CASE s = return /\ IsAccess(command)
          BY <1>4, <1>9, <1>13, <2>2, <3>3, <4>2
        <4> QED BY <1>6, <4>1, <4>2
      <3> QED BY <2>2, <3>2, <3>3 DEF Ordered, ReturnOrder
    <2>3. CASE r = return /\ IsAccess(command)
      <3>1. r.at <= rank_last'[r.command.request.bank[1]][r.command.type]
                        + getDuration(r.command.type)
        BY <1>3, <1>4, <1>5, <1>9, <2>1, <2>3
      <3>2. ASSUME NEW s \in Accesses', r # s, r.at <= s.at,
                   r.command.request.bank = s.command.request.bank
            PROVE  FALSE
        <4>1. s \in Accesses /\ s.at < return.at
          BY <1>4, <1>6, <1>9, <1>13, <2>3, <3>2
        <4>2. s.at \in Nat /\ return.at \in Nat
          BY <1>3, <1>4, <1>5, <4>1, GoneAndQueuedType DEF Accesses
        <4> QED BY <2>3, <3>2, <4>1, <4>2
      <3>3. \A i \in 1 .. Len(finished) : finished[i] \in Gone
        BY DEF Gone
      <3>4. \A i \in 1 .. Len(finished) :
                finished[i].bank = o => finished[i].id < command.request.id
        BY <1>3, <2>3, <3>3 DEF Ordered, QueueOrder
      <3> QED BY <1>4, <1>9, <2>3, <3>1, <3>2, <3>4
    <2> QED BY <1>6, <2>2, <2>3
  <1>15. FinishInOrder'
    BY <1>1 DEF Ordered, FinishInOrder
  <1> QED BY <1>11, <1>12, <1>14, <1>15 DEF Ordered

LEMMA OrderedReturn ==
    ASSUME TypeInv, TypedRest, NoneOverdue, Ordered, NEW r \in returns, CommandReturns(r)
    PROVE  Ordered'
  <1> DEFINE request == r.command.request
  <1>1. /\ UNCHANGED <<cycle, requests, incoming_requests, command_queue, rank_last>>
        /\ returns' = returns \ {r} /\ r.at = cycle
        /\ finished' = IF IsAccess(r.command) THEN Append(finished, request) ELSE finished
    BY DEF CommandReturns, controllerVars, bankVars, channelVars, IsAccess
  <1>2. request \in Requests /\ request.id \in Nat /\ finished \in Seq(Requests)
    BY GoneAndQueuedType DEF TypedRest
  <1> HIDE DEF request
  <1>3. Queued' = Queued /\ Accesses' = Accesses \ {r}
    BY <1>1 DEF Queued, Accesses
  <1>4. \A i \in 1 .. Len(finished') :
            \/ i \in 1 .. Len(finished) /\ finished'[i] = finished[i]
            \/ i = Len(finished) + 1 /\ finished'[i] = request /\ IsAccess(r.command)
    BY <1>1, <1>2
  <1>5. Gone' \subseteq Gone
    <2> SUFFICES ASSUME NEW x \in Gone' PROVE x \in Gone
      OBVIOUS
    <2>1. (\E i \in 1 .. Len(finished') : x = finished'[i])
          \/ \E s \in Accesses' : x = s.command.request
      BY DEF Gone
    <2>2. IsAccess(r.command) => request \in Gone
      BY DEF Gone, Accesses, request
    <2> QED BY <1>3, <1>4, <2>1, <2>2 DEF Gone
  <1>6. (\A x \in Gone' \union Queued' : x.id <= requests') /\ IncomingOrder' /\ QueueOrder'
    BY <1>1, <1>3, <1>5 DEF Ordered, IncomingOrder, QueueOrder, IsAccess
  <1>7. \A s \in Accesses : s.at \in Nat /\ s.at >= cycle
    BY GoneAndQueuedType DEF Accesses, NoneOverdue, Due
  <1>8. ReturnOrder'
    <2> SUFFICES ASSUME NEW s \in Accesses', NEW i \in 1 .. Len(finished'),
                        finished'[i].bank = s.command.request.bank
                 PROVE  finished'[i].id < s.command.request.id
      BY <1>1, <1>3 DEF Ordered, ReturnOrder, getDuration
    <2>1. CASE i \in 1 .. Len(finished) /\ finished'[i] = finished[i]
      BY <1>3, <2>1 DEF Ordered, ReturnOrder
    <2>2. CASE finished'[i] = request /\ IsAccess(r.command)
      <3>1. r \in Accesses /\ s \in Accesses /\ r # s
        BY <1>3, <2>2 DEF Accesses
      <3>2. r.at <= s.at
        BY <1>1, <1>7, <3>1
      <3> QED BY <2>2, <3>1, <3>2 DEF Ordered, ReturnOrder, request
    <2> QED BY <1>4, <2>1, <2>2
  <1>9. FinishInOrder'
    <2> SUFFICES ASSUME NEW j \in 1 .. Len(finished'), NEW i \in 1 .. j - 1,
                        finished'[i].bank = finished'[j].bank
                 PROVE  finished'[i].id < finished'[j].id
      BY DEF FinishInOrder
    <2>1. Len(finished) \in Nat /\ Len(finished') \in Nat /\ i \in 1 .. Len(finished')
      BY <1>1, <1>2
    <2>2. CASE j \in 1 .. Len(finished) /\ finished'[j] = finished[j]
      <3>1. i \in 1 .. Len(finished) /\ finished'[i] = finished[i]
        BY <1>4, <2>1, <2>2
      <3> QED BY <2>2, <3>1 DEF Ordered, FinishInOrder
    <2>3. CASE j = Len(finished) + 1 /\ finished'[j] = request /\ IsAccess(r.command)
      <3>1. i \in 1 .. Len(finished) /\ finished'[i] = finished[i]
        BY <1>4, <2>1, <2>3
      <3>2. r \in Accesses
        BY <2>3 DEF Accesses
      <3> QED BY <2>3, <3>1, <3>2 DEF Ordered, ReturnOrder, request
    <2> QED BY <1>4, <2>2, <2>3
  <1> QED BY <1>6, <1>8, <1>9 DEF Ordered

LEMMA OrderedStep ==
    ASSUME T["tBURST"] >= 1
    PROVE  WholeType /\ Ordered /\ [Next]_vars => Ordered'
  <1> SUFFICES ASSUME WholeType, Ordered, [Next]_vars
               PROVE  Ordered'
    OBVIOUS
  <1> USE DEF WholeType
  <1>1. ASSUME UNCHANGED <<requests, incoming_requests, command_queue, returns, rank_last, finished>>
        PROVE  Ordered'
    <2>1. Gone' = Gone /\ Queued' = Queued /\ Accesses' = Accesses
      BY <1>1 DEF Gone, Queued, Accesses
    <2> QED BY <1>1, <2>1 DEF Ordered, IncomingOrder, QueueOrder, ReturnOrder, FinishInOrder,
                              getDuration, IsAccess
  <1>2. CASE \E type \in RequestTypes, b \in Banks, row \in Rows : AddRequest(type, b, row)
    BY <1>2, OrderedAdd
  <1>3. CASE RunRequestProcessor /\ incoming_requests # <<>>
    BY <1>3, OrderedProcess
  <1>4. CASE RunRequestProcessor /\ incoming_requests = <<>>
    BY <1>1, <1>4 DEF RunRequestProcessor, channelVars, bankVars
  <1>5. CASE \E b \in Banks : RunScheduler(b) /\ Ready(b)
    BY <1>5, OrderedRun
  <1>6. CASE \E b \in Banks : RunScheduler(b) /\ ~Ready(b)
    BY <1>1, <1>6 DEF RunScheduler, controllerVars
  <1>7. CASE \E r \in returns : CommandReturns(r)
    BY <1>7, OrderedReturn
  <1>8. CASE SchedulerStops \/ Tick \/ UNCHANGED vars
    BY <1>1, <1>8 DEF SchedulerStops, Tick, vars, controllerVars, bankVars, channelVars
  <1> QED BY <1>2, <1>3, <1>4, <1>5, <1>6, <1>7, <1>8 DEF Next

\* Where a burst takes at least a cycle, the requests of every bank finish in the
\* order in which they were made, whatever the policies; and under the round robin no
\* bank runs two commands while another waits with one.
THEOREM BanksAreServedInTurn ==
    T["tBURST"] >= 1 => (Spec => []ServedInTurn)
  <1> SUFFICES ASSUME T["tBURST"] >= 1
               PROVE  Spec => []ServedInTurn
    OBVIOUS
  <1> DEFINE Inv == WholeType /\ RoundRobin /\ Ordered
  <1>1. Init => Inv
    <2> SUFFICES ASSUME Init PROVE RoundRobin /\ Ordered
      BY WholeTypeInit
    <2>1. RoundRobin
      BY DEF Init, RoundRobin
    <2>2. Accesses = {} /\ Gone = {} /\ Queued = {}
      BY DEF Init, Accesses, Gone, Queued
    <2>3. Ordered
      BY <2>2 DEF Init, Ordered, IncomingOrder, QueueOrder, ReturnOrder, FinishInOrder
    <2> QED BY <2>1, <2>3
  <1>2. Inv /\ [Next]_vars => Inv'
    BY WholeTypeStep, RoundRobinStep, OrderedStep DEF WholeType
  <1>3. Inv => ServedInTurn
    BY RoundRobinGivesTurns
       DEF WholeType, TypeInv, Typed, TypedRest, TypeOK, Ordered, ServedInTurn
  <1> QED BY <1>1, <1>2, <1>3, PTL DEF Spec
=============================================================================
