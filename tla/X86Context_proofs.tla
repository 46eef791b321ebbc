------------------------ MODULE X86Context_proofs ------------------------
(***************************************************************************)
(* Proofs about the contexts of the x86 emulator: the lists of suspended   *)
(* and zombie contexts follow their states, a context that counts on a     *)
(* host thread has one that lives and was not cancelled, and no wake-up    *)
(* is lost.                                                                *)
(***************************************************************************)
EXTENDS X86Context, LoopLemmas

(* The inductive invariant, stated of a world and of the set of contexts that exist. *)

Waiting == {"Nanosleep", "Read", "Poll", "Waitpid", "Sigsuspend", "Futex"}
Flags   == {"Running", "Suspended", "Finished", "Zombie", "Handler", "Callback"} \cup Waiting
Phases  == {"run", "stopped", "aborted", "undefined", "bound"}

Fields == [state : SUBSET Flags, parent : {None} \cup Contexts, group_parent : {None} \cup Contexts,
           exit_signal : {None, SIGCHLD}, pending : SUBSET Signals,
           blocked : SUBSET Signals, backup : SUBSET Signals, active : BOOLEAN,
           thread : {None} \cup Threads, expired : BOOLEAN, pid : {None} \cup Contexts]

ThreadFields == [context : Contexts, at : {"start", "sleep", "poll", "end"}, cancelled : BOOLEAN]
ThreadMaps   == UNION {[D -> ThreadFields] : D \in SUBSET Threads}

Worlds == [context : [Contexts -> Fields], suspended : Seq(Contexts), zombies : Seq(Contexts),
           threads : ThreadMaps, force : BOOLEAN, ready : 0 .. MaxReady, phase : Phases]

\* A context waits for one thing at most, and then it is suspended.
OneReason(st) == \A f \in st \cap Waiting : "Suspended" \in st /\ \A g \in st \cap Waiting : g = f

FieldsOK(r) == r.state = Normal(r.state) /\ OneReason(r.state)

\* The contexts in a state that the emulator keeps a list of.
In(w, flag) == {c \in Contexts : flag \in w.context[c].state}

\* CanCount, in a world.
Counts(w, c) == /\ w.context[c].thread \in DOMAIN w.threads
                /\ w.threads[w.context[c].thread].context = c
                /\ w.threads[w.context[c].thread].cancelled = FALSE

WorldOK(w, E) == /\ w \in Worlds
                 /\ Range(w.suspended) = In(w, "Suspended")
                 /\ Range(w.zombies) = In(w, "Zombie")
                 /\ \A c \in Contexts : w.context[c].active = TRUE => Counts(w, c)
                 /\ \A c \in Contexts : c \in E => FieldsOK(w.context[c])
                 /\ \A c \in Contexts : c \notin E => w.context[c] = Blank

\* The event that a context waits for is announced, or has not happened.
Watched(w, c) ==
    /\ w.context[c].state \cap {"Nanosleep", "Read", "Poll"} # {} =>
          w.context[c].active = TRUE /\ Counts(w, c)
    /\ "Waitpid" \in w.context[c].state =>
          \A x \in In(w, "Zombie") : ~ (w.context[x].parent = c /\ w.context[c].pid \in {None, x})
    /\ "Sigsuspend" \in w.context[c].state => w.context[c].pending \ w.context[c].blocked = {}

\* Only contexts of the list exist, and there are no more than were created.
Sizes == /\ created \in 1 .. MaxContexts
         /\ contexts \in Seq(Contexts) /\ Range(contexts) \subseteq 1 .. created
         /\ Len(contexts) <= created
         /\ turn \in 1 .. MaxContexts + 1

Inv == /\ Sizes
       /\ \E E \in SUBSET Contexts : WorldOK(World, E) /\ (phase = "run" => E = Range(contexts))
       /\ phase = "run" /\ ~force => \A c \in Contexts : Watched(World, c)

---------------------------------------------------------------------------
(* What Without and Listed leave in a list. *)

\* Append puts a context at the end.
LEMMA Appended ==
    ASSUME NEW s \in Seq(Contexts), NEW c \in Contexts
    PROVE  /\ Append(s, c) \in Seq(Contexts)
           /\ Range(Append(s, c)) = Range(s) \cup {c}
           /\ Len(Append(s, c)) = Len(s) + 1
<1> DEFINE t == Append(s, c)
<1>1. t \in Seq(Contexts) /\ Len(t) = Len(s) + 1 /\ Len(s) \in Nat
  OBVIOUS
<1>2. DOMAIN s = 1 .. Len(s) /\ DOMAIN t = 1 .. Len(s) + 1
  OBVIOUS
<1>3. t[Len(s) + 1] = c /\ \A i \in 1 .. Len(s) : t[i] = s[i]
  OBVIOUS
<1> HIDE DEF t
<1>4. ASSUME NEW x \in Range(t) PROVE x \in Range(s) \cup {c}
  <2>1. PICK i \in 1 .. Len(s) + 1 : t[i] = x
    BY <1>2 DEF Range
  <2>2. i = Len(s) + 1 \/ i \in 1 .. Len(s)
    BY <1>1
  <2> QED
    BY <1>2, <1>3, <2>1, <2>2 DEF Range
<1>5. ASSUME NEW x \in Range(s) PROVE x \in Range(t)
  <2>1. PICK i \in 1 .. Len(s) : s[i] = x
    BY <1>2 DEF Range
  <2>2. i \in 1 .. Len(s) + 1
    BY <1>1
  <2> QED
    BY <1>2, <1>3, <2>1, <2>2 DEF Range
<1>6. c \in Range(t)
  <2>1. Len(s) + 1 \in 1 .. Len(s) + 1
    BY <1>1
  <2> QED
    BY <1>2, <1>3, <2>1 DEF Range
<1>7. Range(t) = Range(s) \cup {c}
  BY <1>4, <1>5, <1>6
<1> QED
  BY <1>1, <1>7 DEF t

\* Without, round by round.
Removes(f, list, set) ==
    /\ Without(list, set) = f[Len(list)]
    /\ f[0] = <<>>
    /\ \A i \in 1 .. Len(list) :
          f[i] = IF list[i] \in set THEN f[i - 1] ELSE Append(f[i - 1], list[i])

LEMMA WithoutRuns ==
    ASSUME NEW list \in Seq(Contexts), NEW set
    PROVE  \E f : Removes(f, list, set)
<1> DEFINE n          == Len(list)
           step(i, s) == IF list[i] \in set THEN s ELSE Append(s, list[i])
           body(f, i) == IF i = 0 THEN <<>> ELSE step(i, f[i - 1])
           kept       == CHOOSE f : f = [i \in 0 .. n |-> body(f, i)]
           round      == [i \in 1 .. n |-> [s \in Seq(Contexts) |-> step(i, s)]]
<1>1. n \in Nat /\ \A i \in 1 .. n : list[i] \in Contexts
  OBVIOUS
<1>2. Without(list, set) = kept[n]
  BY DEF Without
<1> HIDE DEF n
<1>3. round \in [1 .. n -> [Seq(Contexts) -> Seq(Contexts)]]
  <2>1. \A i \in 1 .. n : \A s \in Seq(Contexts) : step(i, s) \in Seq(Contexts)
    BY <1>1
  <2> HIDE DEF step
  <2> QED
    BY <2>1
<1>4. PICK f \in [0 .. n -> Seq(Contexts)] :
            f[0] = <<>> /\ \A i \in 1 .. n : f[i] = round[i][f[i - 1]]
  <2>1. <<>> \in Seq(Contexts)
    OBVIOUS
  <2> HIDE DEF round
  <2>2. PICK f : Loops(f, n, Seq(Contexts), <<>>, round)
    BY <1>1, <1>3, <2>1, LoopRuns
  <2> QED
    BY <2>2 DEF Loops
<1>5. ASSUME NEW i \in 0 .. n PROVE f[i] = body(f, i)
  <2>1. CASE i = 0
    BY <1>4, <2>1
  <2>2. CASE i # 0
    <3>1. i \in 1 .. n /\ i - 1 \in 0 .. n
      BY <1>1, <2>2
    <3>2. f[i - 1] \in Seq(Contexts)
      BY <3>1
    <3>3. round[i][f[i - 1]] = step(i, f[i - 1])
      <4> HIDE DEF step
      <4> QED
        BY <3>1, <3>2
    <3> HIDE DEF step, round
    <3> QED
      BY <1>4, <2>2, <3>1, <3>3
  <2> QED
    BY <2>1, <2>2
<1> HIDE DEF step
<1>6. kept = [i \in 0 .. n |-> body(kept, i)]
  <2>1. f = [i \in 0 .. n |-> body(f, i)]
    <3> HIDE DEF body
    <3> QED
      BY <1>5
  <2> HIDE DEF body
  <2> QED
    BY <2>1
<1>7. \A i \in 0 .. n : kept[i] = body(kept, i)
  <2> HIDE DEF body, kept
  <2> QED
    BY <1>6
<1> HIDE DEF kept
<1>8. kept[0] = <<>> /\ \A i \in 1 .. n : kept[i] = step(i, kept[i - 1])
  <2>1. 0 \in 0 .. n /\ \A i \in 1 .. n : i \in 0 .. n /\ i # 0
    BY <1>1
  <2> QED
    BY <1>7, <2>1
<1> QED
  BY <1>2, <1>8 DEF n, step, Removes

\* Without leaves the contexts that are not in the set.
LEMMA WithoutFacts ==
    ASSUME NEW list \in Seq(Contexts), NEW set
    PROVE  /\ Without(list, set) \in Seq(Contexts)
           /\ Range(Without(list, set)) = Range(list) \ set
           /\ Len(Without(list, set)) <= Len(list)
<1> DEFINE n == Len(list)
<1>1. PICK f : Removes(f, list, set)
  BY WithoutRuns
<1>2. n \in Nat /\ DOMAIN list = 1 .. n /\ \A i \in 1 .. n : list[i] \in Contexts
  OBVIOUS
<1>3. /\ Without(list, set) = f[n]
      /\ f[0] = <<>>
      /\ \A i \in 1 .. n : f[i] = IF list[i] \in set THEN f[i - 1] ELSE Append(f[i - 1], list[i])
  BY <1>1 DEF Removes
<1> HIDE DEF n
<1> DEFINE seen(i) == {list[j] : j \in 1 .. i}
           good(i) == f[i] \in Seq(Contexts) /\ Range(f[i]) = seen(i) \ set /\ Len(f[i]) <= i
           B       == {i \in 0 .. n : good(i)}
<1>4. good(0)
  <2>1. <<>> \in Seq(Contexts) /\ Range(<<>>) = {} /\ Len(<<>>) = 0
    BY DEF Range
  <2>2. seen(0) = {}
    OBVIOUS
  <2> QED
    BY <1>3, <2>1, <2>2
<1>5. ASSUME NEW k \in 1 .. n, good(k - 1) PROVE good(k)
  <2>1. seen(k) = seen(k - 1) \cup {list[k]}
    <3>1. \A j \in 1 .. k : j \in 1 .. k - 1 \/ j = k
      OBVIOUS
    <3>2. k \in 1 .. k /\ \A j \in 1 .. k - 1 : j \in 1 .. k
      OBVIOUS
    <3> QED
      BY <3>1, <3>2
  <2> HIDE DEF seen
  <2>2. Len(f[k - 1]) \in Nat /\ Len(f[k - 1]) <= k - 1
    BY <1>5
  <2>3. CASE list[k] \in set
    <3>1. f[k] = f[k - 1]
      BY <1>3, <2>3
    <3>2. seen(k) \ set = seen(k - 1) \ set
      BY <2>1, <2>3
    <3>3. Len(f[k]) <= k
      BY <2>2, <3>1
    <3> QED
      BY <1>5, <3>1, <3>2, <3>3
  <2>4. CASE list[k] \notin set
    <3>1. f[k] = Append(f[k - 1], list[k])
      BY <1>3, <2>4
    <3>2. /\ f[k] \in Seq(Contexts) /\ Range(f[k]) = Range(f[k - 1]) \cup {list[k]}
          /\ Len(f[k]) = Len(f[k - 1]) + 1
      BY <1>2, <1>5, <3>1, Appended
    <3>3. seen(k) \ set = (seen(k - 1) \ set) \cup {list[k]}
      BY <2>1, <2>4
    <3>4. Len(f[k]) <= k
      BY <2>2, <3>2
    <3> QED
      BY <1>5, <3>2, <3>3, <3>4
  <2> QED
    BY <2>3, <2>4
<1> HIDE DEF good
<1>6. 0 \in B /\ \A i \in 1 .. n : i - 1 \in B => i \in B
  <2>1. 0 \in 0 .. n /\ \A i \in 1 .. n : i \in 0 .. n
    BY <1>2
  <2> QED
    BY <1>4, <1>5, <2>1
<1>7. good(n)
  <2>1. n \in 0 .. n
    BY <1>2
  <2>2. n \in B
    <3> HIDE DEF B
    <3> QED
      BY <1>2, <1>6, <2>1, UpTo
  <2> QED
    BY <2>2
<1>8. Range(list) = seen(n)
  BY <1>2 DEF Range
<1> QED
  BY <1>3, <1>7, <1>8 DEF good, n

\* Listed makes the list hold the context or not, as a flag is in a state or not.
ListedBy(list, c, flag, st) == Listed(list, c, flag \in st)

LEMMA ListedFacts ==
    ASSUME NEW list \in Seq(Contexts), NEW c \in Contexts, NEW flag, NEW st
    PROVE  /\ ListedBy(list, c, flag, st) \in Seq(Contexts)
           /\ flag \in st => Range(ListedBy(list, c, flag, st)) = Range(list) \cup {c}
           /\ flag \notin st => Range(ListedBy(list, c, flag, st)) = Range(list) \ {c}
<1>1. CASE flag \in st /\ c \in Range(list)
  <2>1. Range(list) = Range(list) \cup {c}
    BY <1>1
  <2> QED
    BY <1>1, <2>1 DEF Listed, ListedBy
<1>2. CASE flag \in st /\ c \notin Range(list)
  BY <1>2, Appended DEF Listed, ListedBy
<1>3. CASE flag \notin st
  BY <1>3, WithoutFacts DEF Listed, ListedBy
<1> QED
  BY <1>1, <1>2, <1>3

---------------------------------------------------------------------------
(* UpdateState. *)

LEMMA NormalFacts ==
    ASSUME NEW st \in SUBSET Flags
    PROVE  /\ Normal(st) \in SUBSET Flags /\ Normal(st) # {}
           /\ Normal(Normal(st)) = Normal(st)
           /\ OneReason(st) => OneReason(Normal(st))
           /\ "Suspended" \in Normal(st) => "Zombie" \notin Normal(st) /\ "Running" \notin Normal(st)
           /\ "Zombie" \in Normal(st) => "Zombie" \in st
           /\ "Suspended" \in Normal(st) => "Suspended" \in st
           /\ Normal(st) \cap Waiting \subseteq st
<1>1. CASE "Finished" \in st
  <2>1. Normal(st) = {"Finished"}
    BY <1>1 DEF Normal
  <2>2. Normal({"Finished"}) = {"Finished"}
    BY DEF Normal
  <2> QED
    BY <2>1, <2>2 DEF OneReason, Waiting, Flags
<1>2. CASE "Finished" \notin st /\ "Zombie" \in st
  <2>1. Normal(st) = {"Zombie"}
    BY <1>2 DEF Normal
  <2>2. Normal({"Zombie"}) = {"Zombie"}
    BY DEF Normal
  <2> QED
    BY <1>2, <2>1, <2>2 DEF OneReason, Waiting, Flags
<1>3. CASE "Finished" \notin st /\ "Zombie" \notin st /\ "Suspended" \in st
  <2>1. Normal(st) = st \ {"Running"}
    BY <1>3 DEF Normal
  <2>2. Normal(st \ {"Running"}) = st \ {"Running"}
    BY <1>3 DEF Normal
  <2>3. (st \ {"Running"}) \cap Waiting = st \cap Waiting
    BY DEF Waiting
  <2>4. "Suspended" \in st \ {"Running"}
    BY <1>3
  <2>5. OneReason(st) => OneReason(st \ {"Running"})
    BY <2>3, <2>4 DEF OneReason
  <2>6. st \ {"Running"} # {}
    BY <2>4
  <2> QED
    BY <1>3, <2>1, <2>2, <2>3, <2>5, <2>6
<1>4. CASE "Finished" \notin st /\ "Zombie" \notin st /\ "Suspended" \notin st
  <2>1. Normal(st) = st \cup {"Running"}
    BY <1>4 DEF Normal
  <2>2. Normal(st \cup {"Running"}) = st \cup {"Running"}
    BY <1>4 DEF Normal
  <2>3. (st \cup {"Running"}) \cap Waiting = st \cap Waiting
    BY DEF Waiting
  <2>4. "Suspended" \notin st \cup {"Running"} /\ "Zombie" \notin st \cup {"Running"}
    BY <1>4
  <2>5. OneReason(st) => OneReason(st \cup {"Running"})
    BY <1>4, <2>3 DEF OneReason
  <2>6. st \cup {"Running"} # {} /\ st \cup {"Running"} \in SUBSET Flags
    BY DEF Flags
  <2> QED
    BY <1>4, <2>1, <2>2, <2>3, <2>4, <2>5, <2>6
<1> QED
  BY <1>1, <1>2, <1>3, <1>4

\* The fields of r but its state are those of q.
Resembles(r, q) ==
    /\ r.parent = q.parent /\ r.group_parent = q.group_parent /\ r.exit_signal = q.exit_signal
    /\ r.pending = q.pending /\ r.blocked = q.blocked
    /\ r.backup = q.backup /\ r.active = q.active /\ r.thread = q.thread
    /\ r.expired = q.expired /\ r.pid = q.pid

\* The effect of UpdateState.
Updated(u, w, c, st) ==
    /\ u \in Worlds
    /\ u.threads = w.threads /\ u.force = w.force /\ u.ready = w.ready /\ u.phase = w.phase
    /\ \A d \in Contexts : d # c => u.context[d] = w.context[d]
    /\ u.context[c].state = Normal(st)
    /\ Resembles(u.context[c], w.context[c])
    /\ "Suspended" \in Normal(st) => Range(u.suspended) = Range(w.suspended) \cup {c}
    /\ "Suspended" \notin Normal(st) => Range(u.suspended) = Range(w.suspended) \ {c}
    /\ "Zombie" \in Normal(st) => Range(u.zombies) = Range(w.zombies) \cup {c}
    /\ "Zombie" \notin Normal(st) => Range(u.zombies) = Range(w.zombies) \ {c}

LEMMA UpdateFacts ==
    ASSUME NEW w \in Worlds, NEW c \in Contexts, NEW st \in SUBSET Flags
    PROVE  Updated(UpdateState(w, c, st), w, c, st)
<1> DEFINE new == Normal(st)
           r   == [w.context[c] EXCEPT !.state = new]
           s   == ListedBy(w.suspended, c, "Suspended", new)
           z   == ListedBy(w.zombies, c, "Zombie", new)
           v   == [w EXCEPT !.context[c] = r]
           u   == UpdateState(w, c, st)
<1>1. w.context[c] \in Fields /\ w.suspended \in Seq(Contexts) /\ w.zombies \in Seq(Contexts)
  BY DEF Worlds
<1>2. new \in SUBSET Flags
  BY NormalFacts
<1> HIDE DEF new
<1>3. r \in Fields /\ r.state = new /\ Resembles(r, w.context[c])
  BY <1>1, <1>2 DEF Fields, Resembles
<1>4. /\ s \in Seq(Contexts)
      /\ "Suspended" \in new => Range(s) = Range(w.suspended) \cup {c}
      /\ "Suspended" \notin new => Range(s) = Range(w.suspended) \ {c}
  BY <1>1, ListedFacts
<1>5. /\ z \in Seq(Contexts)
      /\ "Zombie" \in new => Range(z) = Range(w.zombies) \cup {c}
      /\ "Zombie" \notin new => Range(z) = Range(w.zombies) \ {c}
  BY <1>1, ListedFacts
<1>6. u = [w EXCEPT !.context[c] = r, !.suspended = s, !.zombies = z]
  BY DEF UpdateState, ListedBy, new
<1> HIDE DEF r, s, z, u
<1>7. /\ u \in Worlds /\ u.suspended = s /\ u.zombies = z
      /\ u.threads = w.threads /\ u.force = w.force /\ u.ready = w.ready /\ u.phase = w.phase
      /\ u.context[c] = r /\ \A d \in Contexts : d # c => u.context[d] = w.context[d]
  BY <1>3, <1>4, <1>5, <1>6 DEF Worlds
<1> QED
  BY <1>3, <1>4, <1>5, <1>7 DEF new, u, Updated

\* A context that waits for nothing needs no watch.
LEMMA NotWaiting ==
    ASSUME NEW w, NEW c, w.context[c].state \cap Waiting = {}
    PROVE  Watched(w, c)
BY DEF Watched, Waiting

\* A watch lasts while the context, its host thread and its parenthood are left alone
\* and no zombie comes up.
LEMMA WatchLasts ==
    ASSUME NEW w, NEW u, NEW d, Watched(w, d), u.context[d] = w.context[d],
           w.context[d].active = TRUE /\ Counts(w, d) => Counts(u, d),
           \A x \in In(u, "Zombie") : x \in In(w, "Zombie") /\ u.context[x].parent = w.context[x].parent
    PROVE  Watched(u, d)
<1>1. w.context[d].state \cap {"Nanosleep", "Read", "Poll"} # {} => u.context[d].active = TRUE /\ Counts(u, d)
  BY DEF Watched
<1>2. "Waitpid" \in w.context[d].state =>
          \A x \in In(u, "Zombie") : ~ (u.context[x].parent = d /\ u.context[d].pid \in {None, x})
  BY DEF Watched
<1>3. "Sigsuspend" \in w.context[d].state => u.context[d].pending \ u.context[d].blocked = {}
  BY DEF Watched
<1> QED
  BY <1>1, <1>2, <1>3 DEF Watched

\* UpdateState keeps the lists in step with the states.
LEMMA UpdateKeeps ==
    ASSUME NEW E, NEW w, WorldOK(w, E), NEW c \in Contexts, c \in E,
           NEW st \in SUBSET Flags, OneReason(st)
    PROVE  WorldOK(UpdateState(w, c, st), E)
<1> DEFINE u == UpdateState(w, c, st)
<1>0. /\ w \in Worlds /\ Range(w.suspended) = In(w, "Suspended") /\ Range(w.zombies) = In(w, "Zombie")
      /\ \A d \in Contexts : w.context[d].active = TRUE => Counts(w, d)
      /\ \A d \in Contexts : d \in E => FieldsOK(w.context[d])
      /\ \A d \in Contexts : d \notin E => w.context[d] = Blank
  BY DEF WorldOK
<1>1. /\ u \in Worlds
      /\ u.threads = w.threads
      /\ \A d \in Contexts : d # c => u.context[d] = w.context[d]
      /\ u.context[c].state = Normal(st)
      /\ u.context[c].active = w.context[c].active /\ u.context[c].thread = w.context[c].thread
      /\ "Suspended" \in Normal(st) => Range(u.suspended) = Range(w.suspended) \cup {c}
      /\ "Suspended" \notin Normal(st) => Range(u.suspended) = Range(w.suspended) \ {c}
      /\ "Zombie" \in Normal(st) => Range(u.zombies) = Range(w.zombies) \cup {c}
      /\ "Zombie" \notin Normal(st) => Range(u.zombies) = Range(w.zombies) \ {c}
  <2>1. Updated(u, w, c, st)
    BY <1>0, UpdateFacts
  <2> HIDE DEF u
  <2> QED
    BY <2>1 DEF Updated, Resembles
<1>2. Normal(Normal(st)) = Normal(st) /\ OneReason(Normal(st))
  BY NormalFacts
<1> HIDE DEF u
<1>3. Range(u.suspended) = In(u, "Suspended")
  <2>1. CASE "Suspended" \in Normal(st)
    BY <1>0, <1>1, <2>1 DEF In
  <2>2. CASE "Suspended" \notin Normal(st)
    BY <1>0, <1>1, <2>2 DEF In
  <2> QED
    BY <2>1, <2>2
<1>4. Range(u.zombies) = In(u, "Zombie")
  <2>1. CASE "Zombie" \in Normal(st)
    BY <1>0, <1>1, <2>1 DEF In
  <2>2. CASE "Zombie" \notin Normal(st)
    BY <1>0, <1>1, <2>2 DEF In
  <2> QED
    BY <2>1, <2>2
<1>5. ASSUME NEW d \in Contexts, d \in E PROVE FieldsOK(u.context[d])
  BY <1>0, <1>1, <1>2, <1>5 DEF FieldsOK
<1>6. ASSUME NEW d \in Contexts, u.context[d].active = TRUE PROVE Counts(u, d)
  <2>1. w.context[d].active = TRUE /\ u.context[d].thread = w.context[d].thread
    BY <1>1, <1>6
  <2> QED
    BY <1>0, <1>1, <2>1 DEF Counts
<1>7. ASSUME NEW d \in Contexts, d \notin E PROVE u.context[d] = Blank
  BY <1>0, <1>1, <1>7
<1> QED
  BY <1>1, <1>3, <1>4, <1>5, <1>6, <1>7 DEF WorldOK, u

\* UpdateState disturbs no watch when it makes no zombie.
LEMMA UpdateWatches ==
    ASSUME NEW w \in Worlds, NEW c \in Contexts, NEW st \in SUBSET Flags, "Zombie" \notin Normal(st),
           NEW d \in Contexts, Watched(w, d), d # c \/ Normal(st) \cap Waiting = {}
    PROVE  Watched(UpdateState(w, c, st), d)
<1> DEFINE u == UpdateState(w, c, st)
<1>1. /\ u.threads = w.threads
      /\ \A x \in Contexts : x # c => u.context[x] = w.context[x]
      /\ u.context[c].state = Normal(st)
  BY UpdateFacts DEF Updated
<1> HIDE DEF u
<1>2. CASE d = c
  BY <1>1, <1>2, NotWaiting DEF u
<1>3. CASE d # c
  <2>1. u.context[d] = w.context[d]
    BY <1>1, <1>3
  <2>2. Counts(w, d) => Counts(u, d)
    BY <1>1, <2>1 DEF Counts
  <2>3. \A x \in In(u, "Zombie") : x \in In(w, "Zombie") /\ u.context[x].parent = w.context[x].parent
    BY <1>1 DEF In
  <2>4. Watched(u, d)
    BY <2>1, <2>2, <2>3, WatchLasts
  <2> QED
    BY <2>4 DEF u
<1> QED
  BY <1>2, <1>3

---------------------------------------------------------------------------
(* The small steps that operations are made of. *)

\* What WorldOK says of one context.
LEMMA OfContext ==
    ASSUME NEW E, NEW w, WorldOK(w, E), NEW c \in Contexts
    PROVE  /\ w \in Worlds /\ w.context[c] \in Fields /\ w.context[c].state \in SUBSET Flags
           /\ OneReason(w.context[c].state)
           /\ w.context[c].state # {} => c \in E
           /\ c \in E => w.context[c].state = Normal(w.context[c].state)
<1>1. w \in Worlds /\ w.context[c] \in Fields /\ w.context[c].state \in SUBSET Flags
  BY DEF WorldOK, Worlds, Fields
<1>2. Blank.state = {} /\ OneReason({})
  BY DEF Blank, OneReason
<1>3. c \in E => FieldsOK(w.context[c])
  BY DEF WorldOK
<1>4. c \notin E => w.context[c] = Blank
  BY DEF WorldOK
<1> QED
  BY <1>1, <1>2, <1>3, <1>4 DEF FieldsOK

\* The contexts, lists and threads of two worlds are the same.
Same(w, u) == /\ u.context = w.context /\ u.suspended = w.suspended
              /\ u.zombies = w.zombies /\ u.threads = w.threads

LEMMA SameKeeps ==
    ASSUME NEW E, NEW w, WorldOK(w, E), NEW u \in Worlds, Same(w, u)
    PROVE  WorldOK(u, E) /\ \A c \in Contexts : Watched(w, c) => Watched(u, c)
<1>1. u.context = w.context /\ u.suspended = w.suspended /\ u.zombies = w.zombies /\ u.threads = w.threads
  BY DEF Same
<1>2. In(u, "Suspended") = In(w, "Suspended") /\ In(u, "Zombie") = In(w, "Zombie")
  BY <1>1 DEF In
<1>3. \A c \in Contexts : Counts(u, c) <=> Counts(w, c)
  BY <1>1 DEF Counts
<1>4. WorldOK(u, E)
  BY <1>1, <1>2, <1>3 DEF WorldOK
<1>5. ASSUME NEW c \in Contexts, Watched(w, c) PROVE Watched(u, c)
  <2>1. Counts(w, c) => Counts(u, c)
    BY <1>3
  <2>2. \A x \in In(u, "Zombie") : x \in In(w, "Zombie") /\ u.context[x].parent = w.context[x].parent
    BY <1>1, <1>2
  <2>3. u.context[c] = w.context[c]
    BY <1>1
  <2> QED
    BY <1>5, <2>1, <2>2, <2>3, WatchLasts
<1> QED
  BY <1>4, <1>5

\* ProcessEventsSchedule, and the end of the program.
LEMMA ScheduleKeeps ==
    ASSUME NEW E, NEW w, WorldOK(w, E)
    PROVE  WorldOK(Schedule(w), E) /\ Schedule(w).force = TRUE /\ Schedule(w).phase = w.phase
<1>1. w \in Worlds
  BY DEF WorldOK
<1>2. /\ Schedule(w) \in Worlds /\ Same(w, Schedule(w))
      /\ Schedule(w).force = TRUE /\ Schedule(w).phase = w.phase
  BY <1>1 DEF Worlds, Schedule, Same
<1> QED
  BY <1>2, SameKeeps

LEMMA AbortKeeps ==
    ASSUME NEW E, NEW w, WorldOK(w, E), NEW why \in Phases
    PROVE  /\ WorldOK(Abort(w, why), E) /\ Same(w, Abort(w, why))
           /\ Abort(w, why).force = w.force /\ Abort(w, why).phase = why
<1>1. w \in Worlds
  BY DEF WorldOK
<1>2. /\ Abort(w, why) \in Worlds /\ Same(w, Abort(w, why))
      /\ Abort(w, why).force = w.force /\ Abort(w, why).phase = why
  BY <1>1 DEF Worlds, Abort, Same
<1> QED
  BY <1>2, SameKeeps

\* Fields of a context that say nothing of its state or its host thread.
Put(w, c, r) == [w EXCEPT !.context[c] = r]

LEMMA PutFacts ==
    ASSUME NEW w \in Worlds, NEW c \in Contexts, NEW r \in Fields
    PROVE  /\ Put(w, c, r) \in Worlds /\ Put(w, c, r).context[c] = r
           /\ \A d \in Contexts : d # c => Put(w, c, r).context[d] = w.context[d]
           /\ Put(w, c, r).threads = w.threads /\ Put(w, c, r).suspended = w.suspended
           /\ Put(w, c, r).zombies = w.zombies /\ Put(w, c, r).force = w.force
           /\ Put(w, c, r).phase = w.phase /\ Put(w, c, r).ready = w.ready
BY DEF Worlds, Put

LEMMA PutKeeps ==
    ASSUME NEW E, NEW w, WorldOK(w, E), NEW c \in Contexts, c \in E, NEW r \in Fields,
           r.state = w.context[c].state, r.active = w.context[c].active, r.thread = w.context[c].thread
    PROVE  WorldOK(Put(w, c, r), E)
<1> DEFINE u == Put(w, c, r)
<1>0. /\ w \in Worlds /\ Range(w.suspended) = In(w, "Suspended") /\ Range(w.zombies) = In(w, "Zombie")
      /\ \A d \in Contexts : w.context[d].active = TRUE => Counts(w, d)
      /\ \A d \in Contexts : d \in E => FieldsOK(w.context[d])
      /\ \A d \in Contexts : d \notin E => w.context[d] = Blank
  BY DEF WorldOK
<1>1. /\ u \in Worlds /\ u.context[c] = r /\ \A d \in Contexts : d # c => u.context[d] = w.context[d]
      /\ u.threads = w.threads /\ u.suspended = w.suspended /\ u.zombies = w.zombies
  BY <1>0, PutFacts
<1> HIDE DEF u
<1>2. \A d \in Contexts : /\ u.context[d].state = w.context[d].state
                          /\ u.context[d].active = w.context[d].active
                          /\ u.context[d].thread = w.context[d].thread
  BY <1>1
<1>3. Range(u.suspended) = In(u, "Suspended") /\ Range(u.zombies) = In(u, "Zombie")
  BY <1>0, <1>1, <1>2 DEF In
<1>4. ASSUME NEW d \in Contexts, u.context[d].active = TRUE PROVE Counts(u, d)
  <2>1. w.context[d].active = TRUE
    BY <1>2, <1>4
  <2>2. Counts(w, d)
    BY <1>0, <2>1
  <2> QED
    BY <1>1, <1>2, <2>2 DEF Counts
<1>5. ASSUME NEW d \in Contexts, d \in E PROVE FieldsOK(u.context[d])
  BY <1>0, <1>2, <1>5 DEF FieldsOK
<1>6. ASSUME NEW d \in Contexts, d \notin E PROVE u.context[d] = Blank
  BY <1>0, <1>1, <1>6
<1> QED
  BY <1>1, <1>3, <1>4, <1>5, <1>6 DEF WorldOK, u

LEMMA PutWatches ==
    ASSUME NEW w \in Worlds, NEW c \in Contexts, NEW r \in Fields,
           r.state = w.context[c].state, r.parent = w.context[c].parent,
           NEW d \in Contexts, d # c, Watched(w, d)
    PROVE  Watched(Put(w, c, r), d)
<1> DEFINE u == Put(w, c, r)
<1>1. /\ u.context[c] = r /\ \A x \in Contexts : x # c => u.context[x] = w.context[x]
      /\ u.threads = w.threads
  BY PutFacts
<1> HIDE DEF u
<1>2. u.context[d] = w.context[d]
  BY <1>1
<1>3. Counts(w, d) => Counts(u, d)
  BY <1>1, <1>2 DEF Counts
<1>4. \A x \in In(u, "Zombie") : x \in In(w, "Zombie") /\ u.context[x].parent = w.context[x].parent
  BY <1>1 DEF In
<1>5. Watched(u, d)
  BY <1>2, <1>3, <1>4, WatchLasts
<1> QED
  BY <1>5 DEF u

\* setState and clearState.
LEMMA EndKeeps ==
    ASSUME NEW E, NEW w, WorldOK(w, E), NEW c \in Contexts, c \in E,
           NEW flags \in SUBSET {"Finished", "Zombie", "Handler"}
    PROVE  WorldOK(SetState(w, c, flags), E)
<1> DEFINE st == w.context[c].state
<1>1. st \in SUBSET Flags /\ OneReason(st)
  BY OfContext
<1> HIDE DEF st
<1>2. st \cup flags \in SUBSET Flags /\ (st \cup flags) \cap Waiting = st \cap Waiting
  BY <1>1 DEF Flags, Waiting
<1>3. OneReason(st \cup flags)
  BY <1>1, <1>2 DEF OneReason
<1> QED
  BY <1>2, <1>3, UpdateKeeps DEF SetState, st

LEMMA SuspendKeeps ==
    ASSUME NEW E, NEW w, WorldOK(w, E), NEW c \in Contexts, c \in E,
           w.context[c].state \cap Waiting = {}, NEW why \in Waiting,
           NEW flags, flags = {"Suspended", why} \/ flags = {"Suspended", "Callback", why}
    PROVE  WorldOK(SetState(w, c, flags), E)
<1> DEFINE st == w.context[c].state
<1>1. st \in SUBSET Flags
  BY OfContext
<1>2. st \cap Waiting = {}
  OBVIOUS
<1> HIDE DEF st
<1>3. st \cup flags \in SUBSET Flags
  BY <1>1 DEF Flags
<1>4. (st \cup flags) \cap Waiting = {why}
  BY <1>2 DEF Waiting
<1>5. "Suspended" \in st \cup flags
  OBVIOUS
<1>6. OneReason(st \cup flags)
  BY <1>4, <1>5 DEF OneReason
<1> QED
  BY <1>3, <1>6, UpdateKeeps DEF SetState, st

LEMMA ReturnKeeps ==
    ASSUME NEW E, NEW w, WorldOK(w, E), NEW c \in Contexts, c \in E
    PROVE  WorldOK(ReturnFromSignalHandler(w, c), E)
<1> DEFINE st == w.context[c].state
<1>1. st \in SUBSET Flags /\ OneReason(st)
  BY OfContext
<1> HIDE DEF st
<1>2. st \ {"Handler"} \in SUBSET Flags /\ (st \ {"Handler"}) \cap Waiting = st \cap Waiting
  BY <1>1 DEF Flags, Waiting
<1>3. OneReason(st \ {"Handler"})
  BY <1>1, <1>2 DEF OneReason
<1> QED
  BY <1>2, <1>3, UpdateKeeps DEF ReturnFromSignalHandler, ClearState, st

---------------------------------------------------------------------------
(* Host threads. *)

LEMMA ThreadFacts ==
    ASSUME NEW th \in ThreadMaps
    PROVE  /\ DOMAIN th \subseteq Threads /\ \A t \in DOMAIN th : th[t] \in ThreadFields
           /\ th = [t \in DOMAIN th |-> th[t]]
<1>1. PICK D \in SUBSET Threads : th \in [D -> ThreadFields]
  BY DEF ThreadMaps
<1> QED
  BY <1>1

LEMMA ThreadMap ==
    ASSUME NEW D \in SUBSET Threads, NEW th \in [D -> ThreadFields]
    PROVE  th \in ThreadMaps
BY DEF ThreadMaps

\* A world with other fields for a context and other host threads.
With(w, c, r, th) == [w EXCEPT !.threads = th, !.context[c] = r]

LEMMA WithFacts ==
    ASSUME NEW w \in Worlds, NEW c \in Contexts, NEW r \in Fields, NEW th \in ThreadMaps
    PROVE  /\ With(w, c, r, th) \in Worlds /\ With(w, c, r, th).context[c] = r
           /\ \A d \in Contexts : d # c => With(w, c, r, th).context[d] = w.context[d]
           /\ With(w, c, r, th).threads = th /\ With(w, c, r, th).suspended = w.suspended
           /\ With(w, c, r, th).zombies = w.zombies /\ With(w, c, r, th).force = w.force
           /\ With(w, c, r, th).phase = w.phase
BY DEF Worlds, With

\* A change of host threads is fine when the others still count on theirs.
LEMMA WithKeeps ==
    ASSUME NEW E, NEW w, WorldOK(w, E), NEW c \in Contexts, c \in E, NEW r \in Fields,
           r.state = w.context[c].state, NEW th \in ThreadMaps,
           r.active = TRUE => Counts(With(w, c, r, th), c),
           \A d \in Contexts : d # c /\ Counts(w, d) => Counts(With(w, c, r, th), d)
    PROVE  WorldOK(With(w, c, r, th), E)
<1> DEFINE u == With(w, c, r, th)
<1>0. /\ w \in Worlds /\ Range(w.suspended) = In(w, "Suspended") /\ Range(w.zombies) = In(w, "Zombie")
      /\ \A d \in Contexts : w.context[d].active = TRUE => Counts(w, d)
      /\ \A d \in Contexts : d \in E => FieldsOK(w.context[d])
      /\ \A d \in Contexts : d \notin E => w.context[d] = Blank
  BY DEF WorldOK
<1>1. /\ u \in Worlds /\ u.context[c] = r /\ \A d \in Contexts : d # c => u.context[d] = w.context[d]
      /\ u.suspended = w.suspended /\ u.zombies = w.zombies
  BY <1>0, WithFacts
<1>2. /\ r.active = TRUE => Counts(u, c)
      /\ \A d \in Contexts : d # c /\ Counts(w, d) => Counts(u, d)
  OBVIOUS
<1> HIDE DEF u
<1>3. \A d \in Contexts : u.context[d].state = w.context[d].state
  BY <1>1
<1>4. Range(u.suspended) = In(u, "Suspended") /\ Range(u.zombies) = In(u, "Zombie")
  BY <1>0, <1>1, <1>3 DEF In
<1>5. ASSUME NEW d \in Contexts, u.context[d].active = TRUE PROVE Counts(u, d)
  <2>1. CASE d = c
    BY <1>1, <1>2, <1>5, <2>1
  <2>2. CASE d # c
    <3>1. w.context[d].active = TRUE
      BY <1>1, <1>5, <2>2
    <3> QED
      BY <1>0, <1>2, <2>2, <3>1
  <2> QED
    BY <2>1, <2>2
<1>6. ASSUME NEW d \in Contexts, d \in E PROVE FieldsOK(u.context[d])
  BY <1>0, <1>3, <1>6 DEF FieldsOK
<1>7. ASSUME NEW d \in Contexts, d \notin E PROVE u.context[d] = Blank
  BY <1>0, <1>1, <1>7
<1> QED
  BY <1>1, <1>4, <1>5, <1>6, <1>7 DEF WorldOK, u

LEMMA WithWatches ==
    ASSUME NEW w \in Worlds, NEW c \in Contexts, NEW r \in Fields, NEW th \in ThreadMaps,
           r.state = w.context[c].state, r.parent = w.context[c].parent,
           NEW d \in Contexts, d # c, Counts(w, d) => Counts(With(w, c, r, th), d), Watched(w, d)
    PROVE  Watched(With(w, c, r, th), d)
<1> DEFINE u == With(w, c, r, th)
<1>1. /\ u.context[c] = r /\ \A x \in Contexts : x # c => u.context[x] = w.context[x]
  BY WithFacts
<1>2. Counts(w, d) => Counts(u, d)
  OBVIOUS
<1> HIDE DEF u
<1>3. u.context[d] = w.context[d]
  BY <1>1
<1>4. \A x \in In(u, "Zombie") : x \in In(w, "Zombie") /\ u.context[x].parent = w.context[x].parent
  BY <1>1 DEF In
<1>5. Watched(u, d)
  BY <1>2, <1>3, <1>4, WatchLasts
<1> QED
  BY <1>5 DEF u

\* What ProcessEvents does for context c leaves the other contexts watched, schedules no
\* events and does not bring back a program that is gone.
Round(w, u, c, E) == /\ WorldOK(u, E) /\ u.force = w.force
                     /\ u.phase = "run" => w.phase = "run"
                     /\ \A d \in Contexts : d # c /\ Watched(w, d) => Watched(u, d)

LEMMA RoundAfter ==
    ASSUME NEW E, NEW c, NEW w, NEW u, NEW v, Round(w, u, c, E), Round(u, v, c, E)
    PROVE  Round(w, v, c, E)
BY DEF Round

\* pthread_create: the context counts on the new thread.
LEMMA LaunchRound ==
    ASSUME NEW E, NEW w, WorldOK(w, E), NEW c \in Contexts, c \in E
    PROVE  /\ Round(w, Launch(w, c), c, E)
           /\ Launch(w, c).phase = "run" => Launch(w, c).context[c].active = TRUE
           /\ Launch(w, c).context[c].state = w.context[c].state
<1> DEFINE free == Threads \ DOMAIN w.threads
           t    == CHOOSE x \in free : \A y \in free : x <= y
           r    == [w.context[c] EXCEPT !.active = TRUE, !.thread = t]
           e    == [context |-> c, at |-> "start", cancelled |-> FALSE]
           th   == [x \in DOMAIN w.threads \cup {t} |-> IF x = t THEN e ELSE w.threads[x]]
           u    == With(w, c, r, th)
<1>1. w \in Worlds /\ w.context[c] \in Fields /\ w.threads \in ThreadMaps /\ w.context \in [Contexts -> Fields]
  BY DEF WorldOK, Worlds
<1>2. CASE free = {}
  <2>1. Launch(w, c) = Abort(w, "bound") /\ "bound" \in Phases
    BY <1>2 DEF Launch, Phases
  <2>2. /\ WorldOK(Abort(w, "bound"), E) /\ Same(w, Abort(w, "bound"))
        /\ Abort(w, "bound").force = w.force /\ Abort(w, "bound").phase = "bound"
    BY <2>1, AbortKeeps
  <2>3. \A d \in Contexts : Watched(w, d) => Watched(Abort(w, "bound"), d)
    <3>1. Abort(w, "bound") \in Worlds
      BY <2>2 DEF WorldOK
    <3> QED
      BY <2>2, <3>1, SameKeeps
  <2> QED
    BY <2>1, <2>2, <2>3 DEF Round, Same
<1>3. CASE free # {}
  <2>1. t \in free
    <3>1. free \in SUBSET Nat
      BY ContextAssumption DEF Threads
    <3> HIDE DEF free
    <3>2. \E x \in free : \A y \in free : x <= y
      BY <1>3, <3>1, LeastOf
    <3> QED
      BY <3>2
  <2>2. t \in Threads /\ t \notin DOMAIN w.threads
    BY <2>1
  <2> HIDE DEF t
  <2>3. r \in Fields /\ r.state = w.context[c].state /\ r.parent = w.context[c].parent
        /\ r.active = TRUE /\ r.thread = t
    BY <1>1, <2>2 DEF Fields
  <2>4. e \in ThreadFields /\ e.context = c /\ e.cancelled = FALSE
    BY DEF ThreadFields
  <2>5. DOMAIN w.threads \subseteq Threads /\ \A x \in DOMAIN w.threads : w.threads[x] \in ThreadFields
    BY <1>1, ThreadFacts
  <2>6. Launch(w, c) = u
    <3>1. [w EXCEPT !.threads = th].context = w.context
      BY <1>1 DEF Worlds
    <3> HIDE DEF th
    <3> QED
      BY <1>3, <3>1 DEF Launch, With, t, th
  <2> HIDE DEF e, r
  <2>7. th \in [DOMAIN w.threads \cup {t} -> ThreadFields]
    BY <2>4, <2>5
  <2>8. th \in ThreadMaps
    <3>1. DOMAIN w.threads \cup {t} \in SUBSET Threads
      BY <2>2, <2>5
    <3> HIDE DEF th
    <3> QED
      BY <2>7, <3>1, ThreadMap
  <2>9. DOMAIN th = DOMAIN w.threads \cup {t} /\ th[t] = e /\ \A x \in DOMAIN w.threads : th[x] = w.threads[x]
    BY <2>2
  <2> HIDE DEF th
  <2>10. /\ u \in Worlds /\ u.context[c] = r /\ u.threads = th /\ u.force = w.force /\ u.phase = w.phase
         /\ \A d \in Contexts : d # c => u.context[d] = w.context[d]
    BY <1>1, <2>3, <2>8, WithFacts
  <2>11. Counts(u, c)
    BY <2>3, <2>4, <2>9, <2>10 DEF Counts
  <2>12. \A d \in Contexts : d # c /\ Counts(w, d) => Counts(u, d)
    BY <2>9, <2>10 DEF Counts
  <2>13. WorldOK(u, E)
    BY <2>3, <2>8, <2>11, <2>12, WithKeeps
  <2>14. \A d \in Contexts : d # c /\ Watched(w, d) => Watched(u, d)
    BY <1>1, <2>3, <2>8, <2>12, WithWatches
  <2> HIDE DEF u
  <2> QED
    BY <2>3, <2>6, <2>10, <2>13, <2>14 DEF Round
<1> QED
  BY <1>2, <1>3

\* HostThreadSuspendCancel: nobody else counted on the thread.
LEMMA CancelKeeps ==
    ASSUME NEW E, NEW w, WorldOK(w, E), NEW c \in Contexts, c \in E
    PROVE  WorldOK(HostThreadSuspendCancel(w, c), E) /\ HostThreadSuspendCancel(w, c).force = TRUE
<1> DEFINE t  == w.context[c].thread
           r  == [w.context[c] EXCEPT !.active = FALSE, !.thread = None]
           th == [w.threads EXCEPT ![t].cancelled = TRUE]
           u  == With(w, c, r, th)
<1>1. w \in Worlds /\ w.context[c] \in Fields /\ w.threads \in ThreadMaps /\ w.context \in [Contexts -> Fields]
  BY DEF WorldOK, Worlds
<1>2. w.context[c].active \in BOOLEAN /\ (w.context[c].active = TRUE => Counts(w, c))
  BY <1>1 DEF WorldOK, Fields
<1>3. CASE w.context[c].active = FALSE
  <2>1. HostThreadSuspendCancel(w, c) = Schedule(w)
    BY <1>3 DEF HostThreadSuspendCancel
  <2> QED
    BY <2>1, ScheduleKeeps
<1>4. CASE w.context[c].active = TRUE
  <2>1. t \in DOMAIN w.threads /\ w.threads[t].context = c
    BY <1>2, <1>4 DEF Counts
  <2>2. r \in Fields /\ r.state = w.context[c].state /\ r.active = FALSE
    BY <1>1 DEF Fields
  <2>3. /\ DOMAIN w.threads \subseteq Threads /\ \A x \in DOMAIN w.threads : w.threads[x] \in ThreadFields
        /\ w.threads = [x \in DOMAIN w.threads |-> w.threads[x]]
    BY <1>1, ThreadFacts
  <2>4. HostThreadSuspendCancel(w, c) = Schedule(u)
    <3>1. [w EXCEPT !.threads = th].context = w.context
      BY <1>1 DEF Worlds
    <3> HIDE DEF th
    <3> QED
      BY <1>4, <2>1, <3>1 DEF HostThreadSuspendCancel, With, th
  <2> HIDE DEF r
  <2>5. /\ DOMAIN th = DOMAIN w.threads /\ \A x \in DOMAIN w.threads : x # t => th[x] = w.threads[x]
        /\ th \in [DOMAIN w.threads -> ThreadFields]
    <3>0. w.threads[t] \in ThreadFields
      BY <2>1, <2>3
    <3> HIDE DEF t
    <3>1. [w.threads[t] EXCEPT !.cancelled = TRUE] \in ThreadFields
      BY <3>0 DEF ThreadFields
    <3>2. th = [w.threads EXCEPT ![t] = [w.threads[t] EXCEPT !.cancelled = TRUE]]
      OBVIOUS
    <3> QED
      BY <2>1, <2>3, <3>1, <3>2
  <2>6. th \in ThreadMaps
    <3> HIDE DEF th
    <3> QED
      BY <2>3, <2>5, ThreadMap
  <2> HIDE DEF th
  <2>7. /\ u.threads = th /\ \A d \in Contexts : d # c => u.context[d] = w.context[d]
    BY <1>1, <2>2, <2>6, WithFacts
  <2>8. ASSUME NEW d \in Contexts, d # c, Counts(w, d) PROVE Counts(u, d)
    <3>1. w.context[d].thread # t
      BY <2>1, <2>8 DEF Counts
    <3> HIDE DEF u
    <3> QED
      BY <2>5, <2>7, <2>8, <3>1 DEF Counts
  <2>9. WorldOK(u, E)
    BY <2>2, <2>6, <2>8, WithKeeps
  <2> HIDE DEF u
  <2> QED
    BY <2>4, <2>9, ScheduleKeeps
<1> QED
  BY <1>2, <1>3, <1>4

---------------------------------------------------------------------------
(* ProcessEvents. *)

LEMMA StateFacts ==
    ASSUME NEW st \in SUBSET Flags, st = Normal(st)
    PROVE  /\ "Suspended" \in st => "Finished" \notin st /\ "Zombie" \notin st /\ "Running" \notin st
           /\ "Running" \in st => "Suspended" \notin st /\ "Finished" \notin st /\ "Zombie" \notin st
<1>1. CASE "Finished" \in st
  <2>1. st = {"Finished"}
    BY <1>1 DEF Normal
  <2> QED
    BY <2>1
<1>2. CASE "Finished" \notin st /\ "Zombie" \in st
  <2>1. st = {"Zombie"}
    BY <1>2 DEF Normal
  <2> QED
    BY <2>1
<1>3. CASE "Finished" \notin st /\ "Zombie" \notin st /\ "Suspended" \in st
  <2>1. st = st \ {"Running"}
    BY <1>3 DEF Normal
  <2> QED
    BY <1>3, <2>1
<1>4. CASE "Finished" \notin st /\ "Zombie" \notin st /\ "Suspended" \notin st
  BY <1>4
<1> QED
  BY <1>1, <1>2, <1>3, <1>4

LEMMA PutRound ==
    ASSUME NEW E, NEW w, WorldOK(w, E), NEW c \in Contexts, c \in E, NEW r \in Fields,
           r.state = w.context[c].state, r.active = w.context[c].active,
           r.thread = w.context[c].thread, r.parent = w.context[c].parent
    PROVE  Round(w, Put(w, c, r), c, E) /\ Put(w, c, r).context[c] = r
<1>1. w \in Worlds
  BY DEF WorldOK
<1>2. WorldOK(Put(w, c, r), E)
  BY PutKeeps
<1>3. /\ Put(w, c, r).force = w.force /\ Put(w, c, r).phase = w.phase
      /\ Put(w, c, r).context[c] = r
  BY <1>1, PutFacts
<1>4. \A d \in Contexts : d # c /\ Watched(w, d) => Watched(Put(w, c, r), d)
  BY <1>1, PutWatches
<1> QED
  BY <1>2, <1>3, <1>4 DEF Round

LEMMA UpdateRound ==
    ASSUME NEW E, NEW w, WorldOK(w, E), NEW x \in Contexts, x \in E, NEW st \in SUBSET Flags, OneReason(st),
           "Zombie" \notin Normal(st), NEW c \in Contexts, x = c \/ Normal(st) \cap Waiting = {}
    PROVE  /\ Round(w, UpdateState(w, x, st), c, E)
           /\ UpdateState(w, x, st).context[x].state = Normal(st)
           /\ \A d \in Contexts : d # x => UpdateState(w, x, st).context[d] = w.context[d]
<1> DEFINE u == UpdateState(w, x, st)
<1>1. w \in Worlds
  BY DEF WorldOK
<1>2. WorldOK(u, E)
  BY UpdateKeeps
<1>3. /\ u.force = w.force /\ u.phase = w.phase /\ u.context[x].state = Normal(st)
      /\ \A d \in Contexts : d # x => u.context[d] = w.context[d]
  <2>1. Updated(u, w, x, st)
    BY <1>1, UpdateFacts
  <2> HIDE DEF u
  <2> QED
    BY <2>1 DEF Updated
<1>4. ASSUME NEW d \in Contexts, d # c, Watched(w, d) PROVE Watched(u, d)
  <2>1. d # x \/ Normal(st) \cap Waiting = {}
    BY <1>4
  <2> QED
    BY <1>1, <1>4, <2>1, UpdateWatches
<1> HIDE DEF u
<1>5. Round(w, u, c, E)
  BY <1>2, <1>3, <1>4 DEF Round
<1> QED
  BY <1>3, <1>5 DEF u

\* Suspended, and not in a futex: the call-back function may wake the context up.
Sleeps(w, c) == "Suspended" \in w.context[c].state /\ "Futex" \notin w.context[c].state

LEMMA HandlerRound ==
    ASSUME NEW E, NEW w, WorldOK(w, E), NEW c \in Contexts, c \in E, NEW sig,
           "Zombie" \notin w.context[c].state
    PROVE  /\ Round(w, RunSignalHandler(w, c, sig), c, E)
           /\ Sleeps(w, c) => Sleeps(RunSignalHandler(w, c, sig), c)
           /\ w.context[c].state \cap Waiting = {} => RunSignalHandler(w, c, sig).context[c].state \cap Waiting = {}
<1> DEFINE r  == [w.context[c] EXCEPT !.pending = @ \ {sig}]
           v  == Put(w, c, r)
           st == w.context[c].state
           h  == st \cup {"Handler"}
           a  == Abort(w, "aborted")
           u  == UpdateState(v, c, h)
<1>1. /\ w.context[c] \in Fields /\ st \in SUBSET Flags /\ OneReason(st) /\ st = Normal(st)
  BY OfContext
<1>2. /\ r \in Fields /\ r.state = st /\ r.active = w.context[c].active
      /\ r.thread = w.context[c].thread /\ r.parent = w.context[c].parent
  BY <1>1 DEF Fields
<1>3. \/ RunSignalHandler(w, c, sig) = v
      \/ RunSignalHandler(w, c, sig) = a
      \/ RunSignalHandler(w, c, sig) = SetState(v, c, {"Handler"})
  BY DEF RunSignalHandler, Put
<1> HIDE DEF r
<1>4. Round(w, v, c, E) /\ v.context[c] = r
  BY <1>2, PutRound
<1>5. WorldOK(v, E)
  BY <1>4 DEF Round
<1> HIDE DEF v
<1>6. SetState(v, c, {"Handler"}) = u
  BY <1>2, <1>4 DEF SetState
<1>7. Round(w, a, c, E) /\ a.context[c] = w.context[c]
  <2>1. "aborted" \in Phases /\ "aborted" # "run"
    BY DEF Phases
  <2>2. WorldOK(a, E) /\ Same(w, a) /\ a.force = w.force /\ a.phase = "aborted"
    BY <2>1, AbortKeeps
  <2> HIDE DEF a
  <2>3. a \in Worlds
    BY <2>2 DEF WorldOK
  <2>4. \A d \in Contexts : Watched(w, d) => Watched(a, d)
    BY <2>2, <2>3, SameKeeps
  <2>5. a.context[c] = w.context[c]
    BY <2>2 DEF Same
  <2> QED
    BY <2>1, <2>2, <2>4, <2>5 DEF Round
<1> HIDE DEF a
<1>8. /\ h \in SUBSET Flags /\ h \cap Waiting = st \cap Waiting
      /\ "Suspended" \in st => "Suspended" \in h /\ "Finished" \notin h /\ "Zombie" \notin h
      /\ "Zombie" \notin h
  BY <1>1, StateFacts DEF Flags, Waiting
<1>9. "Suspended" \in st => "Suspended" \in Normal(h)
  BY <1>8 DEF Normal
<1> HIDE DEF h, st
<1>10. OneReason(h)
  <2>1. \A f \in st \cap Waiting : "Suspended" \in st /\ \A g \in st \cap Waiting : g = f
    BY <1>1 DEF OneReason
  <2> QED
    BY <1>8, <2>1 DEF OneReason
<1>11. "Zombie" \notin Normal(h) /\ Normal(h) \cap Waiting \subseteq h
  BY <1>8, NormalFacts
<1>12. Round(v, u, c, E) /\ u.context[c].state = Normal(h)
  BY <1>5, <1>8, <1>10, <1>11, UpdateRound
<1> HIDE DEF u
<1>13. Round(w, u, c, E)
  BY <1>4, <1>12, RoundAfter
<1>14. Normal(h) \cap Waiting \subseteq st \cap Waiting
  BY <1>8, <1>11
<1>15. "Futex" \in Normal(h) => "Futex" \in st
  BY <1>14 DEF Waiting
<1>16. CASE RunSignalHandler(w, c, sig) = v
  BY <1>2, <1>4, <1>16 DEF Sleeps, st
<1>17. CASE RunSignalHandler(w, c, sig) = a
  BY <1>7, <1>17 DEF Sleeps
<1>18. CASE RunSignalHandler(w, c, sig) = u
  <2>1. Sleeps(w, c) => Sleeps(u, c)
    BY <1>9, <1>12, <1>15 DEF Sleeps, st
  <2>2. st \cap Waiting = {} => u.context[c].state \cap Waiting = {}
    BY <1>12, <1>14
  <2> QED
    BY <1>13, <1>18, <2>1, <2>2 DEF st
<1> QED
  BY <1>3, <1>6, <1>16, <1>17, <1>18

LEMMA IntrRound ==
    ASSUME NEW E, NEW w, WorldOK(w, E), NEW c \in Contexts, Sleeps(w, c)
    PROVE  /\ Round(w, CheckSignalHandlerIntr(w, c), c, E)
           /\ Sleeps(CheckSignalHandlerIntr(w, c), c)
<1> DEFINE u == RunSignalHandler(w, c, FirstSignal(w, c))
           a == Abort(w, "aborted")
<1>1. c \in E /\ "Zombie" \notin w.context[c].state
  <2>1. w.context[c].state \in SUBSET Flags /\ "Suspended" \in w.context[c].state
    BY OfContext DEF Sleeps
  <2>2. c \in E /\ w.context[c].state = Normal(w.context[c].state)
    BY <2>1, OfContext
  <2> QED
    BY <2>1, <2>2, StateFacts
<1>2. Round(w, u, c, E) /\ Sleeps(u, c)
  BY <1>1, HandlerRound
<1>3. Round(w, a, c, E) /\ Sleeps(a, c)
  <2>1. "aborted" \in Phases /\ "aborted" # "run"
    BY DEF Phases
  <2>2. WorldOK(a, E) /\ Same(w, a) /\ a.force = w.force /\ a.phase = "aborted"
    BY <2>1, AbortKeeps
  <2> HIDE DEF a
  <2>3. a \in Worlds
    BY <2>2 DEF WorldOK
  <2>4. \A d \in Contexts : Watched(w, d) => Watched(a, d)
    BY <2>2, <2>3, SameKeeps
  <2>5. Sleeps(a, c)
    BY <2>2 DEF Same, Sleeps
  <2> QED
    BY <2>1, <2>2, <2>4, <2>5 DEF Round
<1>4. CheckSignalHandlerIntr(w, c) = u \/ CheckSignalHandlerIntr(w, c) = a
  BY DEF CheckSignalHandlerIntr
<1> HIDE DEF u, a
<1> QED
  BY <1>2, <1>3, <1>4

\* Context::Wakeup: the context waits for nothing any more.
LEMMA WakeupRound ==
    ASSUME NEW E, NEW w, WorldOK(w, E), NEW c \in Contexts, Sleeps(w, c)
    PROVE  Round(w, Wakeup(w, c), c, E) /\ Watched(Wakeup(w, c), c)
<1> DEFINE r  == [w.context[c] EXCEPT !.expired = FALSE, !.pid = None, !.backup = {}]
           v  == Put(w, c, r)
           st == w.context[c].state
           fl == {"Callback", "Suspended", "Nanosleep", "Read", "Poll", "Waitpid", "Sigsuspend"}
           h  == st \ fl
           u  == UpdateState(v, c, h)
<1>1. "Suspended" \in st /\ "Futex" \notin st
  BY DEF Sleeps
<1>2. w.context[c] \in Fields /\ st \in SUBSET Flags /\ c \in E /\ st = Normal(st)
  BY <1>1, OfContext
<1>3. /\ r \in Fields /\ r.state = st /\ r.active = w.context[c].active
      /\ r.thread = w.context[c].thread /\ r.parent = w.context[c].parent
  BY <1>2 DEF Fields
<1>4. Wakeup(w, c) = ClearState(v, c, fl)
  BY DEF Wakeup, Put
<1> HIDE DEF r
<1>5. Round(w, v, c, E) /\ v.context[c] = r
  BY <1>2, <1>3, PutRound
<1>6. WorldOK(v, E)
  BY <1>5 DEF Round
<1> HIDE DEF v
<1>7. Wakeup(w, c) = u
  BY <1>3, <1>4, <1>5 DEF ClearState
<1>8. h \in SUBSET Flags /\ h \cap Waiting = {} /\ "Zombie" \notin h
  BY <1>1, <1>2, StateFacts DEF Waiting
<1> HIDE DEF h, st
<1>9. OneReason(h)
  BY <1>8 DEF OneReason
<1>10. "Zombie" \notin Normal(h) /\ Normal(h) \cap Waiting = {}
  <2>1. Normal(h) \cap Waiting \subseteq h /\ ("Zombie" \in Normal(h) => "Zombie" \in h)
    BY <1>8, NormalFacts
  <2> QED
    BY <1>8, <2>1
<1>11. Round(v, u, c, E) /\ u.context[c].state = Normal(h)
  BY <1>2, <1>6, <1>8, <1>9, <1>10, UpdateRound
<1> HIDE DEF u
<1>12. Round(w, u, c, E)
  BY <1>5, <1>11, RoundAfter
<1>13. Watched(u, c)
  BY <1>10, <1>11, NotWaiting
<1> QED
  BY <1>7, <1>12, <1>13

\* After its turn in ProcessEvents a context is awake, or what it waits for is watched.
Looked(w, u, c, E) == Round(w, u, c, E) /\ (u.phase = "run" => Watched(u, c))

LEMMA LookedAfter ==
    ASSUME NEW E, NEW c, NEW w, NEW u, NEW v, Round(w, u, c, E), Looked(u, v, c, E)
    PROVE  Looked(w, v, c, E)
BY RoundAfter DEF Looked

\* A context that waits is suspended, and waits for one thing.
LEMMA WaitsForOne ==
    ASSUME NEW E, NEW w, WorldOK(w, E), NEW c \in Contexts, NEW f \in Waiting, f \in w.context[c].state
    PROVE  /\ c \in E /\ "Suspended" \in w.context[c].state
           /\ f # "Futex" => Sleeps(w, c)
           /\ \A g \in Waiting : g \in w.context[c].state => g = f
<1>1. OneReason(w.context[c].state) /\ c \in E
  BY OfContext
<1>2. "Suspended" \in w.context[c].state /\ \A g \in Waiting : g \in w.context[c].state => g = f
  BY <1>1 DEF OneReason
<1>3. f # "Futex" => "Futex" \notin w.context[c].state
  BY <1>2 DEF Waiting
<1> QED
  BY <1>1, <1>2, <1>3 DEF Sleeps

\* Who waits in nanosleep, read or poll and has an active thread is watched.
LEMMA ThreadWatches ==
    ASSUME NEW E, NEW w, WorldOK(w, E), NEW c \in Contexts, NEW f \in {"Nanosleep", "Read", "Poll"},
           f \in w.context[c].state, w.context[c].active = TRUE
    PROVE  Watched(w, c)
<1>1. Counts(w, c)
  BY DEF WorldOK
<1>2. f \in Waiting /\ f # "Waitpid" /\ f # "Sigsuspend" /\ "Waitpid" \in Waiting /\ "Sigsuspend" \in Waiting
  BY DEF Waiting
<1>3. "Waitpid" \notin w.context[c].state /\ "Sigsuspend" \notin w.context[c].state
  BY <1>2, WaitsForOne
<1> QED
  BY <1>1, <1>3 DEF Watched

LEMMA StayRound ==
    ASSUME NEW E, NEW w, WorldOK(w, E), NEW c
    PROVE  Round(w, w, c, E)
BY DEF Round

LEMMA LaunchLooks ==
    ASSUME NEW E, NEW w, WorldOK(w, E), NEW c \in Contexts, NEW f \in {"Nanosleep", "Read", "Poll"},
           f \in w.context[c].state
    PROVE  Looked(w, Launch(w, c), c, E)
<1> DEFINE u == Launch(w, c)
<1>1. f \in Waiting
  BY DEF Waiting
<1>2. c \in E
  BY <1>1, WaitsForOne
<1>3. /\ Round(w, u, c, E) /\ u.context[c].state = w.context[c].state
      /\ u.phase = "run" => u.context[c].active = TRUE
  BY <1>2, LaunchRound
<1> HIDE DEF u
<1>4. WorldOK(u, E)
  BY <1>3 DEF Round
<1>5. u.phase = "run" => Watched(u, c)
  BY <1>3, <1>4, ThreadWatches
<1> QED
  BY <1>3, <1>5 DEF Looked, u

LEMMA WakeupLooks ==
    ASSUME NEW E, NEW w, WorldOK(w, E), NEW c \in Contexts, Sleeps(w, c)
    PROVE  Looked(w, Wakeup(w, c), c, E)
BY WakeupRound DEF Looked

LEMMA IntrLooks ==
    ASSUME NEW E, NEW w, WorldOK(w, E), NEW c \in Contexts, Sleeps(w, c)
    PROVE  Looked(w, Wakeup(CheckSignalHandlerIntr(w, c), c), c, E)
<1> DEFINE v == CheckSignalHandlerIntr(w, c)
<1>1. Round(w, v, c, E) /\ Sleeps(v, c)
  BY IntrRound
<1> HIDE DEF v
<1>2. WorldOK(v, E)
  BY <1>1 DEF Round
<1>3. Looked(v, Wakeup(v, c), c, E)
  BY <1>1, <1>2, WakeupLooks
<1>4. Looked(w, Wakeup(v, c), c, E)
  BY <1>1, <1>3, LookedAfter
<1> QED
  BY <1>4 DEF v

LEMMA NanosleepLooks ==
    ASSUME NEW E, NEW w, WorldOK(w, E), NEW c \in Contexts, "Nanosleep" \in w.context[c].state
    PROVE  Looked(w, NanosleepCanWakeup(w, c), c, E)
<1>1. "Nanosleep" \in Waiting /\ "Nanosleep" # "Futex"
  BY DEF Waiting
<1>2. Sleeps(w, c)
  BY <1>1, WaitsForOne
<1>3. w.context[c].active = TRUE => Looked(w, w, c, E)
  BY ThreadWatches, StayRound DEF Looked
<1>4. Looked(w, Wakeup(w, c), c, E) /\ Looked(w, Launch(w, c), c, E)
  BY <1>2, WakeupLooks, LaunchLooks
<1>5. w.context[c].active \in BOOLEAN
  BY DEF WorldOK, Worlds, Fields
<1>6. \/ NanosleepCanWakeup(w, c) = w /\ w.context[c].active = TRUE
      \/ NanosleepCanWakeup(w, c) \in {Wakeup(w, c), Launch(w, c)}
  BY <1>5 DEF NanosleepCanWakeup
<1> QED
  BY <1>3, <1>4, <1>6

LEMMA PollLooks ==
    ASSUME NEW E, NEW w, WorldOK(w, E), NEW c \in Contexts, "Poll" \in w.context[c].state
    PROVE  Looked(w, PollCanWakeup(w, c), c, E)
<1>1. "Poll" \in Waiting /\ "Poll" # "Futex"
  BY DEF Waiting
<1>2. Sleeps(w, c)
  BY <1>1, WaitsForOne
<1>3. w.context[c].active = TRUE => Looked(w, w, c, E)
  BY ThreadWatches, StayRound DEF Looked
<1>4. /\ Looked(w, Wakeup(w, c), c, E) /\ Looked(w, Launch(w, c), c, E)
      /\ Looked(w, Wakeup(CheckSignalHandlerIntr(w, c), c), c, E)
  BY <1>2, WakeupLooks, LaunchLooks, IntrLooks
<1>5. w.context[c].active \in BOOLEAN
  BY DEF WorldOK, Worlds, Fields
<1>6. \/ PollCanWakeup(w, c) = w /\ w.context[c].active = TRUE
      \/ PollCanWakeup(w, c) \in {Wakeup(w, c), Launch(w, c), Wakeup(CheckSignalHandlerIntr(w, c), c)}
  BY <1>5 DEF PollCanWakeup
<1> QED
  BY <1>3, <1>4, <1>6

\* The data that a context reads is gone.
Taken(w) == [w EXCEPT !.ready = @ - 1]

LEMMA TakenRound ==
    ASSUME NEW E, NEW w, WorldOK(w, E), w.ready > 0, NEW c
    PROVE  Round(w, Taken(w), c, E) /\ Same(w, Taken(w))
<1>1. w \in Worlds /\ w.ready \in 0 .. MaxReady
  BY DEF WorldOK, Worlds
<1>2. w.ready - 1 \in 0 .. MaxReady
  BY <1>1, ContextAssumption
<1>3. Taken(w) \in Worlds /\ Same(w, Taken(w)) /\ Taken(w).force = w.force /\ Taken(w).phase = w.phase
  BY <1>1, <1>2 DEF Taken, Same, Worlds
<1>4. WorldOK(Taken(w), E) /\ \A d \in Contexts : Watched(w, d) => Watched(Taken(w), d)
  BY <1>3, SameKeeps
<1> QED
  BY <1>3, <1>4 DEF Round

LEMMA ReadLooks ==
    ASSUME NEW E, NEW w, WorldOK(w, E), NEW c \in Contexts, "Read" \in w.context[c].state
    PROVE  Looked(w, ReadCanWakeup(w, c), c, E)
<1>1. "Read" \in Waiting /\ "Read" # "Futex"
  BY DEF Waiting
<1>2. Sleeps(w, c)
  BY <1>1, WaitsForOne
<1>3. w.context[c].active = TRUE => Looked(w, w, c, E)
  BY ThreadWatches, StayRound DEF Looked
<1>4. Looked(w, Launch(w, c), c, E) /\ Looked(w, Wakeup(CheckSignalHandlerIntr(w, c), c), c, E)
  BY <1>2, LaunchLooks, IntrLooks
<1>5. ASSUME w.ready > 0 PROVE Looked(w, Wakeup(Taken(w), c), c, E)
  <2>1. Round(w, Taken(w), c, E) /\ Same(w, Taken(w))
    BY <1>5, TakenRound
  <2>2. WorldOK(Taken(w), E) /\ Sleeps(Taken(w), c)
    BY <1>2, <2>1 DEF Round, Same, Sleeps
  <2>3. Looked(Taken(w), Wakeup(Taken(w), c), c, E)
    BY <2>2, WakeupLooks
  <2> QED
    BY <2>1, <2>3, LookedAfter
<1>6. w.context[c].active \in BOOLEAN
  BY DEF WorldOK, Worlds, Fields
<1>7. \/ ReadCanWakeup(w, c) = w /\ w.context[c].active = TRUE
      \/ ReadCanWakeup(w, c) \in {Launch(w, c), Wakeup(CheckSignalHandlerIntr(w, c), c)}
      \/ ReadCanWakeup(w, c) = Wakeup(Taken(w), c) /\ w.ready > 0
  BY <1>6 DEF ReadCanWakeup, Taken
<1> QED
  BY <1>3, <1>4, <1>5, <1>7

\* getZombie finds one of them.
LEMMA FirstIsOne ==
    ASSUME NEW list \in Seq(Contexts), NEW set \in SUBSET Range(list), set # {}
    PROVE  FirstOf(list, set) \in set
<1> DEFINE at == {i \in DOMAIN list : list[i] \in set}
           k  == CHOOSE i \in at : \A j \in at : i <= j
<1>1. at # {}
  BY DEF Range
<1>2. at \in SUBSET Nat
  OBVIOUS
<1>3. \E i \in at : \A j \in at : i <= j
  <2> HIDE DEF at
  <2> QED
    BY <1>1, <1>2, LeastOf
<1>4. k \in at
  <2> HIDE DEF at
  <2> QED
    BY <1>3
<1> QED
  BY <1>4 DEF FirstOf

\* waitpid: the zombie that was found finishes.
LEMMA ZombieEnds ==
    ASSUME NEW E, NEW w, WorldOK(w, E), NEW z \in In(w, "Zombie"), NEW c \in Contexts
    PROVE  /\ Round(w, SetState(w, z, {"Finished"}), c, E)
           /\ \A d \in Contexts : d # z => SetState(w, z, {"Finished"}).context[d] = w.context[d]
           /\ \A d \in Contexts : Watched(w, d) => Watched(SetState(w, z, {"Finished"}), d)
<1> DEFINE st == w.context[z].state
           h  == st \cup {"Finished"}
           u  == UpdateState(w, z, h)
<1>1. z \in Contexts /\ "Zombie" \in st
  BY DEF In
<1>2. z \in E /\ st \in SUBSET Flags /\ OneReason(st) /\ w \in Worlds
  BY <1>1, OfContext
<1>3. SetState(w, z, {"Finished"}) = u
  BY DEF SetState
<1>4. h \cap Waiting = st \cap Waiting /\ ("Suspended" \in st => "Suspended" \in h)
  BY <1>2 DEF Waiting
<1>5. Normal(h) = {"Finished"}
  BY DEF Normal
<1>6. h \in SUBSET Flags
  BY <1>2 DEF Flags
<1> HIDE DEF h, st
<1>7. OneReason(h)
  <2>1. \A f \in st \cap Waiting : "Suspended" \in st /\ \A g \in st \cap Waiting : g = f
    BY <1>2 DEF OneReason
  <2> QED
    BY <1>4, <2>1 DEF OneReason
<1>8. "Zombie" \notin Normal(h) /\ Normal(h) \cap Waiting = {}
  BY <1>5 DEF Waiting
<1>9. Round(w, u, c, E) /\ \A d \in Contexts : d # z => u.context[d] = w.context[d]
  BY <1>1, <1>2, <1>6, <1>7, <1>8, UpdateRound
<1>10. \A d \in Contexts : Watched(w, d) => Watched(u, d)
  BY <1>1, <1>2, <1>6, <1>8, UpdateWatches
<1> HIDE DEF u
<1> QED
  BY <1>3, <1>9, <1>10

LEMMA WaitpidLooks ==
    ASSUME NEW E, NEW w, WorldOK(w, E), NEW c \in Contexts, "Waitpid" \in w.context[c].state
    PROVE  Looked(w, WaitpidCanWakeup(w, c), c, E)
<1> DEFINE found == ZombiesOf(w, c, w.context[c].pid)
           z     == FirstOf(w.zombies, found)
           v     == SetState(w, z, {"Finished"})
<1>1. "Waitpid" \in Waiting /\ "Waitpid" # "Futex"
  BY DEF Waiting
<1>2. Sleeps(w, c) /\ c \in E /\ \A g \in Waiting : g \in w.context[c].state => g = "Waitpid"
  BY <1>1, WaitsForOne
<1>3. w.zombies \in Seq(Contexts) /\ Range(w.zombies) = In(w, "Zombie")
  BY DEF WorldOK, Worlds
<1>4. CASE found = {}
  <2>1. WaitpidCanWakeup(w, c) = w
    BY <1>4 DEF WaitpidCanWakeup
  <2>2. {"Nanosleep", "Read", "Poll", "Sigsuspend"} \cap w.context[c].state = {}
    BY <1>2 DEF Waiting
  <2>3. \A x \in In(w, "Zombie") : ~ (w.context[x].parent = c /\ w.context[c].pid \in {None, x})
    BY <1>3, <1>4 DEF ZombiesOf
  <2>4. Watched(w, c)
    BY <2>2, <2>3 DEF Watched
  <2> QED
    BY <2>1, <2>4, StayRound DEF Looked
<1>5. CASE found # {}
  <2>1. WaitpidCanWakeup(w, c) = Wakeup(v, c)
    BY <1>5 DEF WaitpidCanWakeup
  <2>2. found \in SUBSET Range(w.zombies)
    BY DEF ZombiesOf
  <2> HIDE DEF found
  <2>3. z \in In(w, "Zombie")
    <3>1. z \in found
      BY <1>3, <1>5, <2>2, FirstIsOne
    <3> QED
      BY <1>3, <2>2, <3>1
  <2>4. z # c
    <3>1. "Zombie" \in w.context[z].state
      BY <2>3 DEF In
    <3>2. w.context[c].state \in SUBSET Flags /\ w.context[c].state = Normal(w.context[c].state)
      BY <1>2, OfContext
    <3>3. "Zombie" \notin w.context[c].state
      BY <1>2, <3>2, StateFacts DEF Sleeps
    <3> QED
      BY <3>1, <3>3
  <2> HIDE DEF z
  <2>5. Round(w, v, c, E) /\ v.context[c] = w.context[c]
    BY <2>3, <2>4, ZombieEnds
  <2> HIDE DEF v
  <2>6. WorldOK(v, E) /\ Sleeps(v, c)
    BY <1>2, <2>5 DEF Round, Sleeps
  <2>7. Looked(v, Wakeup(v, c), c, E)
    BY <2>6, WakeupLooks
  <2> QED
    BY <2>1, <2>5, <2>7, LookedAfter
<1> QED
  BY <1>4, <1>5

LEMMA SigsuspendLooks ==
    ASSUME NEW E, NEW w, WorldOK(w, E), NEW c \in Contexts, "Sigsuspend" \in w.context[c].state
    PROVE  Looked(w, SigsuspendCanWakeup(w, c), c, E)
<1> DEFINE v == CheckSignalHandlerIntr(w, c)
           b == w.context[c].backup
           r == [v.context[c] EXCEPT !.blocked = b]
           u == Put(v, c, r)
<1>1. "Sigsuspend" \in Waiting /\ "Sigsuspend" # "Futex"
  BY DEF Waiting
<1>2. Sleeps(w, c) /\ c \in E /\ \A g \in Waiting : g \in w.context[c].state => g = "Sigsuspend"
  BY <1>1, WaitsForOne
<1>3. CASE Unblocked(w, c) = {}
  <2>1. SigsuspendCanWakeup(w, c) = w
    BY <1>3 DEF SigsuspendCanWakeup
  <2>2. {"Nanosleep", "Read", "Poll", "Waitpid"} \cap w.context[c].state = {}
    BY <1>2 DEF Waiting
  <2>3. Watched(w, c)
    BY <1>3, <2>2 DEF Watched, Unblocked
  <2> QED
    BY <2>1, <2>3, StayRound DEF Looked
<1>4. CASE Unblocked(w, c) # {}
  <2>1. SigsuspendCanWakeup(w, c) = Wakeup(u, c)
    BY <1>4 DEF SigsuspendCanWakeup, Put
  <2>2. Round(w, v, c, E) /\ Sleeps(v, c)
    BY <1>2, IntrRound
  <2> HIDE DEF v
  <2>3. WorldOK(v, E)
    BY <2>2 DEF Round
  <2>4. v.context[c] \in Fields /\ b \in SUBSET Signals
    <3>1. w.context[c] \in Fields /\ v.context[c] \in Fields
      BY <2>3, OfContext
    <3> QED
      BY <3>1 DEF Fields
  <2> HIDE DEF b
  <2>5. /\ r \in Fields /\ r.state = v.context[c].state /\ r.active = v.context[c].active
        /\ r.thread = v.context[c].thread /\ r.parent = v.context[c].parent
    BY <2>4 DEF Fields
  <2> HIDE DEF r
  <2>6. Round(v, u, c, E) /\ u.context[c] = r
    BY <1>2, <2>3, <2>5, PutRound
  <2> HIDE DEF u
  <2>7. WorldOK(u, E) /\ Sleeps(u, c)
    BY <2>2, <2>5, <2>6 DEF Round, Sleeps
  <2>8. Looked(u, Wakeup(u, c), c, E)
    BY <2>7, WakeupLooks
  <2>9. Looked(v, Wakeup(u, c), c, E)
    BY <2>6, <2>8, LookedAfter
  <2> QED
    BY <2>1, <2>2, <2>9, LookedAfter
<1> QED
  BY <1>3, <1>4

\* One round of the first loop of ProcessEvents.
LEMMA CanWakeupLooks ==
    ASSUME NEW E, NEW w, WorldOK(w, E), NEW c \in Contexts
    PROVE  Looked(w, CanWakeup(w, c), c, E)
<1> DEFINE st == w.context[c].state
           v  == CanWakeup(w, c)
<1>1. \/ v = NanosleepCanWakeup(w, c) /\ "Nanosleep" \in st
      \/ v = ReadCanWakeup(w, c) /\ "Read" \in st
      \/ v = PollCanWakeup(w, c) /\ "Poll" \in st
      \/ v = WaitpidCanWakeup(w, c) /\ "Waitpid" \in st
      \/ v = SigsuspendCanWakeup(w, c) /\ "Sigsuspend" \in st
      \/ v = w /\ st \cap {"Nanosleep", "Read", "Poll", "Waitpid", "Sigsuspend"} = {}
  BY DEF CanWakeup, Is
<1> HIDE DEF v
<1>2. CASE v = w /\ st \cap {"Nanosleep", "Read", "Poll", "Waitpid", "Sigsuspend"} = {}
  <2>1. Watched(w, c)
    BY <1>2 DEF Watched
  <2> QED
    BY <1>2, <2>1, StayRound DEF Looked, v
<1>3. Looked(w, v, c, E)
  BY <1>1, <1>2, NanosleepLooks, ReadLooks, PollLooks, WaitpidLooks, SigsuspendLooks DEF v
<1> QED
  BY <1>3 DEF v

\* The first loop, round by round.
OKWorlds(E) == {w \in Worlds : WorldOK(w, E)}

Looks(f, w, list) == /\ LookAtSuspended(w, list) = f[Len(list)]
                     /\ f[0] = w
                     /\ \A i \in 1 .. Len(list) : f[i] = CanWakeup(f[i - 1], list[i])

LEMMA LookRuns ==
    ASSUME NEW E, NEW w, WorldOK(w, E), NEW list \in Seq(Contexts)
    PROVE  \E f : Looks(f, w, list)
<1> DEFINE n          == Len(list)
           S          == OKWorlds(E)
           body(f, i) == IF i = 0 THEN w ELSE CanWakeup(f[i - 1], list[i])
           after      == CHOOSE f : f = [i \in 0 .. n |-> body(f, i)]
           round      == [i \in 1 .. n |-> [u \in S |-> CanWakeup(u, list[i])]]
<1>1. n \in Nat /\ \A i \in 1 .. n : list[i] \in Contexts
  OBVIOUS
<1>2. LookAtSuspended(w, list) = after[n]
  BY DEF LookAtSuspended
<1> HIDE DEF n
<1>3. round \in [1 .. n -> [S -> S]]
  <2>1. ASSUME NEW i \in 1 .. n, NEW u \in S PROVE CanWakeup(u, list[i]) \in S
    <3>1. WorldOK(u, E)
      BY DEF OKWorlds
    <3>2. Looked(u, CanWakeup(u, list[i]), list[i], E)
      BY <1>1, <3>1, CanWakeupLooks
    <3> QED
      BY <3>2 DEF Looked, Round, OKWorlds, WorldOK
  <2> HIDE DEF S
  <2> QED
    BY <2>1
<1>4. w \in S
  BY DEF OKWorlds, WorldOK
<1> HIDE DEF S
<1>5. PICK f \in [0 .. n -> S] : f[0] = w /\ \A i \in 1 .. n : f[i] = round[i][f[i - 1]]
  <2> HIDE DEF round
  <2>1. PICK f : Loops(f, n, S, w, round)
    BY <1>1, <1>3, <1>4, LoopRuns
  <2> QED
    BY <2>1 DEF Loops
<1>6. ASSUME NEW i \in 0 .. n PROVE f[i] = body(f, i)
  <2>1. CASE i = 0
    BY <1>5, <2>1
  <2>2. CASE i # 0
    <3>1. i \in 1 .. n /\ i - 1 \in 0 .. n
      BY <1>1, <2>2
    <3>2. f[i - 1] \in S
      BY <3>1
    <3>3. round[i][f[i - 1]] = CanWakeup(f[i - 1], list[i])
      BY <3>1, <3>2
    <3> HIDE DEF round
    <3> QED
      BY <1>5, <2>2, <3>1, <3>3
  <2> QED
    BY <2>1, <2>2
<1>7. after = [i \in 0 .. n |-> body(after, i)]
  <2>1. f = [i \in 0 .. n |-> body(f, i)]
    <3> HIDE DEF body
    <3> QED
      BY <1>6
  <2> HIDE DEF body
  <2> QED
    BY <2>1
<1>8. \A i \in 0 .. n : after[i] = body(after, i)
  <2> HIDE DEF body, after
  <2> QED
    BY <1>7
<1> HIDE DEF after
<1>9. after[0] = w /\ \A i \in 1 .. n : after[i] = CanWakeup(after[i - 1], list[i])
  <2>1. 0 \in 0 .. n /\ \A i \in 1 .. n : i \in 0 .. n /\ i # 0
    BY <1>1
  <2> QED
    BY <1>8, <2>1
<1> QED
  BY <1>2, <1>9 DEF n, Looks

\* After the first loop of ProcessEvents the contexts of the list are watched, and so
\* are those that were.
LEMMA LookFacts ==
    ASSUME NEW E, NEW w, WorldOK(w, E), NEW list \in Seq(Contexts)
    PROVE  LET u == LookAtSuspended(w, list)
           IN  /\ WorldOK(u, E) /\ u.force = w.force
               /\ u.phase = "run" => \A c \in Contexts : c \in Range(list) \/ Watched(w, c) => Watched(u, c)
<1> DEFINE n == Len(list)
<1>1. PICK f : Looks(f, w, list)
  BY LookRuns
<1>2. n \in Nat /\ DOMAIN list = 1 .. n /\ \A i \in 1 .. n : list[i] \in Contexts
  OBVIOUS
<1>3. /\ LookAtSuspended(w, list) = f[n] /\ f[0] = w
      /\ \A i \in 1 .. n : f[i] = CanWakeup(f[i - 1], list[i])
  BY <1>1 DEF Looks
<1> HIDE DEF n
<1> DEFINE seen(i) == {list[j] : j \in 1 .. i}
           good(i) == /\ WorldOK(f[i], E) /\ f[i].force = w.force
                      /\ f[i].phase = "run" =>
                            \A c \in Contexts : c \in seen(i) \/ Watched(w, c) => Watched(f[i], c)
           B       == {i \in 0 .. n : good(i)}
<1>4. good(0)
  <2>1. seen(0) = {}
    OBVIOUS
  <2> HIDE DEF seen
  <2> QED
    BY <1>3, <2>1
<1>5. ASSUME NEW k \in 1 .. n, good(k - 1) PROVE good(k)
  <2>1. seen(k) = seen(k - 1) \cup {list[k]}
    <3>1. \A j \in 1 .. k : j \in 1 .. k - 1 \/ j = k
      OBVIOUS
    <3>2. k \in 1 .. k /\ \A j \in 1 .. k - 1 : j \in 1 .. k
      OBVIOUS
    <3> QED
      BY <3>1, <3>2
  <2> HIDE DEF seen
  <2>2. PICK u : u = f[k - 1]
    OBVIOUS
  <2>3. PICK v : v = f[k]
    OBVIOUS
  <2>4. /\ WorldOK(u, E) /\ u.force = w.force
        /\ u.phase = "run" => \A c \in Contexts : c \in seen(k - 1) \/ Watched(w, c) => Watched(u, c)
    BY <1>5, <2>2
  <2>5. list[k] \in Contexts /\ v = CanWakeup(u, list[k])
    BY <1>2, <1>3, <2>2, <2>3
  <2>6. Looked(u, v, list[k], E)
    BY <2>4, <2>5, CanWakeupLooks
  <2>7. /\ WorldOK(v, E) /\ v.force = u.force
        /\ v.phase = "run" => u.phase = "run" /\ Watched(v, list[k])
        /\ \A d \in Contexts : d # list[k] /\ Watched(u, d) => Watched(v, d)
    BY <2>6 DEF Looked, Round
  <2>8. ASSUME v.phase = "run", NEW c \in Contexts, c \in seen(k) \/ Watched(w, c) PROVE Watched(v, c)
    <3>1. CASE c = list[k]
      BY <2>7, <2>8, <3>1
    <3>2. CASE c # list[k]
      <4>1. c \in seen(k - 1) \/ Watched(w, c)
        BY <2>1, <2>8, <3>2
      <4> QED
        BY <2>4, <2>7, <2>8, <3>2, <4>1
    <3> QED
      BY <3>1, <3>2
  <2> QED
    BY <2>3, <2>4, <2>7, <2>8
<1> HIDE DEF good
<1>6. 0 \in B /\ \A i \in 1 .. n : i - 1 \in B => i \in B
  <2>1. 0 \in 0 .. n /\ \A i \in 1 .. n : i \in 0 .. n
    BY <1>2
  <2> QED
    BY <1>4, <1>5, <2>1
<1>7. good(n)
  <2>1. n \in 0 .. n
    BY <1>2
  <2>2. n \in B
    <3> HIDE DEF B
    <3> QED
      BY <1>2, <1>6, <2>1, UpTo
  <2> QED
    BY <2>2
<1>8. Range(list) = seen(n)
  BY <1>2 DEF Range
<1> HIDE DEF seen
<1>9. PICK u : u = LookAtSuspended(w, list)
  OBVIOUS
<1>10. /\ WorldOK(u, E) /\ u.force = w.force
       /\ u.phase = "run" => \A c \in Contexts : c \in Range(list) \/ Watched(w, c) => Watched(u, c)
  BY <1>3, <1>7, <1>8, <1>9 DEF good
<1> QED
  BY <1>9, <1>10

\* A step that leaves every context watched that was.
Quiet(w, u, E) == /\ WorldOK(u, E) /\ u.force = w.force
                  /\ u.phase = "run" => w.phase = "run"
                  /\ \A d \in Contexts : Watched(w, d) => Watched(u, d)

\* One round of the second loop of ProcessEvents.
HandlerOf(w, c) == IF Is(w, c, "Running") THEN CheckSignalHandler(w, c) ELSE w

LEMMA HandlerQuiet ==
    ASSUME NEW E, NEW w, WorldOK(w, E), NEW c \in Contexts
    PROVE  Quiet(w, HandlerOf(w, c), E)
<1> DEFINE st == w.context[c].state
           u  == RunSignalHandler(w, c, FirstSignal(w, c))
<1>1. HandlerOf(w, c) = w \/ (HandlerOf(w, c) = u /\ "Running" \in st)
  BY DEF HandlerOf, CheckSignalHandler, Is
<1>2. Quiet(w, w, E)
  BY DEF Quiet
<1>3. ASSUME "Running" \in st PROVE Quiet(w, u, E)
  <2>1. c \in E /\ st \in SUBSET Flags /\ st = Normal(st) /\ OneReason(st)
    BY <1>3, OfContext
  <2>2. "Zombie" \notin st /\ "Suspended" \notin st
    BY <1>3, <2>1, StateFacts
  <2>3. st \cap Waiting = {}
    BY <2>1, <2>2 DEF OneReason
  <2>4. Round(w, u, c, E) /\ u.context[c].state \cap Waiting = {}
    BY <2>1, <2>2, <2>3, HandlerRound
  <2> HIDE DEF u
  <2>5. Watched(u, c)
    BY <2>4, NotWaiting
  <2> QED
    BY <2>4, <2>5 DEF Quiet, Round
<1> HIDE DEF u
<1> QED
  BY <1>1, <1>2, <1>3

\* The second loop, round by round.
Handles(f, w, list) ==
    /\ RunHandlers(w, list) = f[Len(list)]
    /\ f[0] = w
    /\ \A i \in 1 .. Len(list) : f[i] = HandlerOf(f[i - 1], list[i])

LEMMA HandlersRun ==
    ASSUME NEW E, NEW w, WorldOK(w, E), NEW list \in Seq(Contexts)
    PROVE  \E f : Handles(f, w, list)
<1> DEFINE n          == Len(list)
           S          == OKWorlds(E)
           body(f, i) == IF i = 0 THEN w ELSE HandlerOf(f[i - 1], list[i])
           after      == CHOOSE f : f = [i \in 0 .. n |-> body(f, i)]
           round      == [i \in 1 .. n |-> [u \in S |-> HandlerOf(u, list[i])]]
<1>1. n \in Nat /\ \A i \in 1 .. n : list[i] \in Contexts
  OBVIOUS
<1>2. RunHandlers(w, list) = after[n]
  BY DEF RunHandlers, HandlerOf
<1> HIDE DEF n
<1>3. round \in [1 .. n -> [S -> S]]
  <2>1. ASSUME NEW i \in 1 .. n, NEW u \in S PROVE HandlerOf(u, list[i]) \in S
    <3>1. WorldOK(u, E)
      BY DEF OKWorlds
    <3>2. WorldOK(HandlerOf(u, list[i]), E)
      BY <1>1, <3>1, HandlerQuiet DEF Quiet
    <3> QED
      BY <3>2 DEF OKWorlds, WorldOK
  <2> HIDE DEF S
  <2> QED
    BY <2>1
<1>4. w \in S
  BY DEF OKWorlds, WorldOK
<1> HIDE DEF S
<1>5. PICK f \in [0 .. n -> S] : f[0] = w /\ \A i \in 1 .. n : f[i] = round[i][f[i - 1]]
  <2> HIDE DEF round
  <2>1. PICK f : Loops(f, n, S, w, round)
    BY <1>1, <1>3, <1>4, LoopRuns
  <2> QED
    BY <2>1 DEF Loops
<1>6. ASSUME NEW i \in 0 .. n PROVE f[i] = body(f, i)
  <2>1. CASE i = 0
    BY <1>5, <2>1
  <2>2. CASE i # 0
    <3>1. i \in 1 .. n /\ i - 1 \in 0 .. n
      BY <1>1, <2>2
    <3>2. f[i - 1] \in S
      BY <3>1
    <3>3. round[i][f[i - 1]] = HandlerOf(f[i - 1], list[i])
      BY <3>1, <3>2
    <3> HIDE DEF round
    <3> QED
      BY <1>5, <2>2, <3>1, <3>3
  <2> QED
    BY <2>1, <2>2
<1>7. after = [i \in 0 .. n |-> body(after, i)]
  <2>1. f = [i \in 0 .. n |-> body(f, i)]
    <3> HIDE DEF body
    <3> QED
      BY <1>6
  <2> HIDE DEF body
  <2> QED
    BY <2>1
<1>8. \A i \in 0 .. n : after[i] = body(after, i)
  <2> HIDE DEF body, after
  <2> QED
    BY <1>7
<1> HIDE DEF after
<1>9. after[0] = w /\ \A i \in 1 .. n : after[i] = HandlerOf(after[i - 1], list[i])
  <2>1. 0 \in 0 .. n /\ \A i \in 1 .. n : i \in 0 .. n /\ i # 0
    BY <1>1
  <2> QED
    BY <1>8, <2>1
<1> QED
  BY <1>2, <1>9 DEF n, Handles

\* The second loop of ProcessEvents leaves every context watched.
LEMMA HandlersQuiet ==
    ASSUME NEW E, NEW w, WorldOK(w, E), NEW list \in Seq(Contexts)
    PROVE  Quiet(w, RunHandlers(w, list), E)
<1> DEFINE n == Len(list)
<1>1. PICK f : Handles(f, w, list)
  BY HandlersRun
<1>2. n \in Nat /\ \A i \in 1 .. n : list[i] \in Contexts
  OBVIOUS
<1>3. /\ RunHandlers(w, list) = f[n] /\ f[0] = w
      /\ \A i \in 1 .. n : f[i] = HandlerOf(f[i - 1], list[i])
  BY <1>1 DEF Handles
<1> HIDE DEF n
<1> DEFINE B == {i \in 0 .. n : Quiet(w, f[i], E)}
<1>4. Quiet(w, f[0], E)
  BY <1>3 DEF Quiet
<1>5. ASSUME NEW k \in 1 .. n, Quiet(w, f[k - 1], E) PROVE Quiet(w, f[k], E)
  <2>1. PICK u : u = f[k - 1]
    OBVIOUS
  <2>2. WorldOK(u, E)
    BY <1>5, <2>1 DEF Quiet
  <2>3. Quiet(u, HandlerOf(u, list[k]), E)
    BY <1>2, <2>2, HandlerQuiet
  <2>4. f[k] = HandlerOf(u, list[k])
    BY <1>3, <2>1
  <2> QED
    BY <1>5, <2>1, <2>3, <2>4 DEF Quiet
<1>6. 0 \in B /\ \A i \in 1 .. n : i - 1 \in B => i \in B
  <2>1. 0 \in 0 .. n /\ \A i \in 1 .. n : i \in 0 .. n
    BY <1>2
  <2> QED
    BY <1>4, <1>5, <2>1
<1>7. n \in B
  <2>1. n \in 0 .. n
    BY <1>2
  <2> HIDE DEF B
  <2> QED
    BY <1>2, <1>6, <2>1, UpTo
<1> QED
  BY <1>3, <1>7

\* ProcessEvents: when events were scheduled, every context is watched afterwards.
LEMMA ProcessKeeps ==
    ASSUME NEW E, NEW w, WorldOK(w, E), NEW list \in Seq(Contexts)
    PROVE  LET u == ProcessEvents(w, list)
           IN  /\ WorldOK(u, E)
               /\ w.force = TRUE /\ u.phase = "run" => \A c \in Contexts : Watched(u, c)
               /\ w.force = FALSE => u = w
<1> DEFINE v  == [w EXCEPT !.force = FALSE]
           l  == LookAtSuspended(v, w.suspended)
           u  == RunHandlers(l, list)
<1>1. w \in Worlds /\ w.force \in BOOLEAN /\ w.suspended \in Seq(Contexts)
  BY DEF WorldOK, Worlds
<1>2. CASE w.force = FALSE
  BY <1>2 DEF ProcessEvents
<1>3. CASE w.force = TRUE
  <2>1. v \in Worlds /\ Same(w, v)
    BY <1>1 DEF Worlds, Same
  <2>2. ProcessEvents(w, list) = u
    BY <1>3 DEF ProcessEvents
  <2> HIDE DEF v
  <2>3. WorldOK(v, E)
    BY <2>1, SameKeeps
  <2>4. \A c \in Contexts : c \notin Range(w.suspended) => Watched(v, c)
    <3> SUFFICES ASSUME NEW c \in Contexts, c \notin Range(w.suspended) PROVE Watched(v, c)
      OBVIOUS
    <3>1. OneReason(w.context[c].state) /\ "Suspended" \notin w.context[c].state
      BY OfContext DEF WorldOK, In
    <3>2. w.context[c].state \cap Waiting = {}
      BY <3>1 DEF OneReason
    <3>3. v.context[c].state \cap Waiting = {}
      BY <2>1, <3>2 DEF Same
    <3> QED
      BY <3>3, NotWaiting
  <2>5. /\ WorldOK(l, E)
        /\ l.phase = "run" => \A c \in Contexts : c \in Range(w.suspended) \/ Watched(v, c) => Watched(l, c)
    BY <1>1, <2>3, LookFacts
  <2> HIDE DEF l
  <2>6. l.phase = "run" => \A c \in Contexts : Watched(l, c)
    BY <2>4, <2>5
  <2>7. Quiet(l, u, E)
    BY <2>5, HandlersQuiet
  <2> HIDE DEF u
  <2>8. WorldOK(u, E) /\ (u.phase = "run" => \A c \in Contexts : Watched(u, c))
    BY <2>6, <2>7 DEF Quiet
  <2> QED
    BY <1>3, <2>2, <2>8
<1> QED
  BY <1>1, <1>2, <1>3

---------------------------------------------------------------------------
(* Futexes, and the end of contexts. *)

\* FutexWake: the contexts woken up wait for nothing, the others are left alone.
LEMMA FutexQuiet ==
    ASSUME NEW E, NEW w, WorldOK(w, E), NEW count
    PROVE  Quiet(w, FutexWake(w, count), E)
<1> DEFINE first  == {i \in Sleepers(w) : Cardinality({j \in Sleepers(w) : j < i}) < count}
           woken  == {w.suspended[i] : i \in first}
           new(c) == Normal(w.context[c].state \ {"Futex", "Suspended"})
           r(c)   == [w.context[c] EXCEPT !.state = new(c)]
           cx     == [c \in Contexts |-> IF c \notin woken THEN w.context[c] ELSE r(c)]
           s      == Without(w.suspended, woken)
           u      == FutexWake(w, count)
<1>0. /\ w \in Worlds /\ Range(w.suspended) = In(w, "Suspended") /\ Range(w.zombies) = In(w, "Zombie")
      /\ \A d \in Contexts : w.context[d].active = TRUE => Counts(w, d)
      /\ \A d \in Contexts : d \in E => FieldsOK(w.context[d])
      /\ \A d \in Contexts : d \notin E => w.context[d] = Blank
      /\ w.suspended \in Seq(Contexts)
  BY DEF WorldOK, Worlds
<1>1. u = [w EXCEPT !.context = cx, !.suspended = s]
  BY DEF FutexWake
<1>2. \A c \in woken : c \in Contexts /\ "Futex" \in w.context[c].state
  <2>1. \A i \in Sleepers(w) : w.suspended[i] \in Contexts /\ "Futex" \in w.context[w.suspended[i]].state
    BY <1>0 DEF Sleepers, Is
  <2>2. first \subseteq Sleepers(w)
    OBVIOUS
  <2> HIDE DEF first
  <2> QED
    BY <2>1, <2>2
<1> HIDE DEF woken
<1>3. ASSUME NEW c \in woken
      PROVE  /\ c \in E /\ r(c) \in Fields /\ r(c).state = new(c) /\ Resembles(r(c), w.context[c])
             /\ new(c) = Normal(new(c)) /\ new(c) \cap Waiting = {}
             /\ "Suspended" \notin new(c) /\ "Zombie" \notin new(c) /\ "Zombie" \notin w.context[c].state
  <2> DEFINE st == w.context[c].state
             h  == st \ {"Futex", "Suspended"}
  <2>1. c \in Contexts /\ "Futex" \in st /\ "Futex" \in Waiting
    BY <1>2 DEF Waiting
  <2>2. c \in E /\ "Suspended" \in st /\ \A g \in Waiting : g \in st => g = "Futex"
    BY <2>1, WaitsForOne
  <2>3. w.context[c] \in Fields /\ st \in SUBSET Flags /\ st = Normal(st)
    BY <2>1, <2>2, OfContext
  <2>4. "Zombie" \notin st
    BY <2>2, <2>3, StateFacts
  <2>5. h \in SUBSET Flags /\ h \cap Waiting = {} /\ "Suspended" \notin h /\ "Zombie" \notin h
    BY <2>2, <2>3, <2>4
  <2> HIDE DEF h
  <2>6. /\ Normal(h) \in SUBSET Flags /\ Normal(Normal(h)) = Normal(h) /\ Normal(h) \cap Waiting \subseteq h
        /\ "Suspended" \notin Normal(h) /\ "Zombie" \notin Normal(h)
    BY <2>5, NormalFacts
  <2>7. Normal(h) \cap Waiting = {}
    BY <2>5, <2>6
  <2>8. new(c) = Normal(h)
    BY DEF h
  <2> HIDE DEF new
  <2>9. r(c) \in Fields /\ r(c).state = new(c) /\ Resembles(r(c), w.context[c])
    BY <2>3, <2>6, <2>8 DEF Fields, Resembles
  <2> QED
    BY <2>2, <2>4, <2>6, <2>7, <2>8, <2>9
<1> HIDE DEF r, new
<1>4. cx \in [Contexts -> Fields]
  <2>1. \A c \in Contexts : w.context[c] \in Fields
    BY <1>0 DEF Worlds
  <2> QED
    BY <1>3, <2>1
<1>5. \A c \in Contexts : IF c \in woken THEN cx[c] = r(c) ELSE cx[c] = w.context[c]
  OBVIOUS
<1>6. s \in Seq(Contexts) /\ Range(s) = Range(w.suspended) \ woken
  BY <1>0, WithoutFacts
<1> HIDE DEF u, cx, s
<1>7. /\ u \in Worlds /\ u.context = cx /\ u.suspended = s /\ u.zombies = w.zombies
      /\ u.threads = w.threads /\ u.force = w.force /\ u.phase = w.phase
  BY <1>0, <1>1, <1>4, <1>6 DEF Worlds
<1>8. \A c \in Contexts : /\ c \notin woken => u.context[c] = w.context[c]
                          /\ u.context[c].active = w.context[c].active
                          /\ u.context[c].thread = w.context[c].thread
                          /\ u.context[c].parent = w.context[c].parent
  BY <1>3, <1>5, <1>7 DEF Resembles
<1>9. \A c \in woken : /\ c \in Contexts /\ c \in E /\ u.context[c].state = Normal(u.context[c].state)
                       /\ u.context[c].state \cap Waiting = {}
                       /\ "Suspended" \notin u.context[c].state /\ "Zombie" \notin u.context[c].state
                       /\ "Zombie" \notin w.context[c].state
  BY <1>2, <1>3, <1>5, <1>7
<1>10. Range(u.suspended) = In(u, "Suspended")
  BY <1>0, <1>6, <1>7, <1>8, <1>9 DEF In
<1>11. Range(u.zombies) = In(u, "Zombie") /\ In(u, "Zombie") = In(w, "Zombie")
  BY <1>0, <1>7, <1>8, <1>9 DEF In
<1>12. \A d \in Contexts : Counts(w, d) => Counts(u, d)
  BY <1>7, <1>8 DEF Counts
<1>13. ASSUME NEW d \in Contexts, u.context[d].active = TRUE PROVE Counts(u, d)
  <2>1. w.context[d].active = TRUE
    BY <1>8, <1>13
  <2> QED
    BY <1>0, <1>12, <2>1
<1>14. ASSUME NEW d \in Contexts, d \in E PROVE FieldsOK(u.context[d])
  <2>1. CASE d \in woken
    BY <1>9, <2>1 DEF FieldsOK, OneReason
  <2>2. CASE d \notin woken
    BY <1>0, <1>8, <1>14, <2>2
  <2> QED
    BY <2>1, <2>2
<1>15. ASSUME NEW d \in Contexts, d \notin E PROVE u.context[d] = Blank
  BY <1>0, <1>8, <1>9, <1>15
<1>16. WorldOK(u, E)
  BY <1>7, <1>10, <1>11, <1>13, <1>14, <1>15 DEF WorldOK
<1>17. ASSUME NEW d \in Contexts, Watched(w, d) PROVE Watched(u, d)
  <2>1. CASE d \in woken
    BY <1>9, <2>1, NotWaiting
  <2>2. CASE d \notin woken
    <3>1. u.context[d] = w.context[d]
      BY <1>8, <2>2
    <3>2. \A x \in In(u, "Zombie") : x \in In(w, "Zombie") /\ u.context[x].parent = w.context[x].parent
      BY <1>8, <1>11 DEF In
    <3> QED
      BY <1>12, <1>17, <3>1, <3>2, WatchLasts
  <2> QED
    BY <2>1, <2>2
<1>18. Quiet(w, u, E)
  BY <1>7, <1>16, <1>17 DEF Quiet
<1> QED
  BY <1>18 DEF u

\* The children of a context that ends lose their parent.
LEMMA OrphanKeeps ==
    ASSUME NEW E, NEW w, WorldOK(w, E), Range(contexts) \subseteq E, Range(contexts) \subseteq Contexts, NEW c
    PROVE  WorldOK(Orphan(w, c), E)
<1> DEFINE children == {x \in Range(contexts) : w.context[x].parent = c}
           new(x)   == IF "Zombie" \in w.context[x].state THEN {"Finished"} ELSE w.context[x].state
           r(x)     == [w.context[x] EXCEPT !.parent = None, !.state = new(x)]
           cx       == [x \in Contexts |-> IF x \notin children THEN w.context[x] ELSE r(x)]
           z        == Without(w.zombies, children)
           u        == Orphan(w, c)
<1>0. /\ w \in Worlds /\ Range(w.suspended) = In(w, "Suspended") /\ Range(w.zombies) = In(w, "Zombie")
      /\ \A d \in Contexts : w.context[d].active = TRUE => Counts(w, d)
      /\ \A d \in Contexts : d \in E => FieldsOK(w.context[d])
      /\ \A d \in Contexts : d \notin E => w.context[d] = Blank
      /\ w.zombies \in Seq(Contexts)
  BY DEF WorldOK, Worlds
<1>1. u = [w EXCEPT !.context = cx, !.zombies = z]
  <2>1. \A x \in children : w.context[x] \in Fields
    BY <1>0 DEF Worlds
  <2>2. \A x \in children : [w.context[x] EXCEPT !.parent = None].state = w.context[x].state
    BY <2>1 DEF Fields
  <2> QED
    BY <2>2 DEF Orphan
<1>2. \A x \in children : x \in Contexts /\ x \in E
  OBVIOUS
<1> HIDE DEF children
<1>3. ASSUME NEW x \in children
      PROVE  /\ r(x) \in Fields /\ r(x).state = new(x) /\ r(x).active = w.context[x].active
             /\ r(x).thread = w.context[x].thread /\ new(x) = Normal(new(x)) /\ OneReason(new(x))
             /\ "Suspended" \in new(x) <=> "Suspended" \in w.context[x].state
             /\ "Zombie" \notin new(x)
  <2> DEFINE st == w.context[x].state
  <2>1. w.context[x] \in Fields /\ st \in SUBSET Flags /\ st = Normal(st) /\ OneReason(st)
    BY <1>2, OfContext
  <2>2. Normal({"Finished"}) = {"Finished"} /\ OneReason({"Finished"})
    BY DEF Normal, OneReason, Waiting
  <2>3. "Zombie" \in st => "Suspended" \notin st
    BY <2>1, StateFacts
  <2>4. new(x) \in SUBSET Flags /\ new(x) = Normal(new(x)) /\ OneReason(new(x)) /\ "Zombie" \notin new(x)
    BY <2>1, <2>2 DEF Flags
  <2>5. "Suspended" \in new(x) <=> "Suspended" \in st
    BY <2>3
  <2> HIDE DEF new
  <2>6. /\ r(x) \in Fields /\ r(x).state = new(x) /\ r(x).active = w.context[x].active
        /\ r(x).thread = w.context[x].thread
    BY <2>1, <2>4 DEF Fields
  <2> QED
    BY <2>4, <2>5, <2>6
<1> HIDE DEF r, new
<1>4. cx \in [Contexts -> Fields]
  <2>1. \A x \in Contexts : w.context[x] \in Fields
    BY <1>0 DEF Worlds
  <2> QED
    BY <1>3, <2>1
<1>5. \A x \in Contexts : IF x \in children THEN cx[x] = r(x) ELSE cx[x] = w.context[x]
  OBVIOUS
<1>6. z \in Seq(Contexts) /\ Range(z) = Range(w.zombies) \ children
  BY <1>0, WithoutFacts
<1> HIDE DEF u, cx, z
<1>7. /\ u \in Worlds /\ u.context = cx /\ u.zombies = z /\ u.suspended = w.suspended
      /\ u.threads = w.threads
  BY <1>0, <1>1, <1>4, <1>6 DEF Worlds
<1>8. \A x \in Contexts : /\ x \notin children => u.context[x] = w.context[x]
                          /\ u.context[x].active = w.context[x].active
                          /\ u.context[x].thread = w.context[x].thread
                          /\ "Suspended" \in u.context[x].state <=> "Suspended" \in w.context[x].state
  BY <1>3, <1>5, <1>7
<1>9. \A x \in children : FieldsOK(u.context[x]) /\ "Zombie" \notin u.context[x].state
  BY <1>2, <1>3, <1>5, <1>7 DEF FieldsOK
<1>10. Range(u.suspended) = In(u, "Suspended")
  BY <1>0, <1>7, <1>8 DEF In
<1>11. Range(u.zombies) = In(u, "Zombie")
  BY <1>0, <1>6, <1>7, <1>8, <1>9 DEF In
<1>12. ASSUME NEW d \in Contexts, u.context[d].active = TRUE PROVE Counts(u, d)
  <2>1. Counts(w, d)
    BY <1>0, <1>8, <1>12
  <2> QED
    BY <1>7, <1>8, <2>1 DEF Counts
<1>13. ASSUME NEW d \in Contexts, d \in E PROVE FieldsOK(u.context[d])
  BY <1>0, <1>8, <1>9, <1>13
<1>14. ASSUME NEW d \in Contexts, d \notin E PROVE u.context[d] = Blank
  BY <1>0, <1>2, <1>8, <1>14
<1>15. WorldOK(u, E)
  BY <1>7, <1>10, <1>11, <1>12, <1>13, <1>14 DEF WorldOK
<1> QED
  BY <1>15 DEF u

\* Context::Finish.
LEMMA FinishKeeps ==
    ASSUME NEW E, NEW w, WorldOK(w, E), contexts \in Seq(Contexts), E = Range(contexts),
           NEW c \in Contexts, c \in E, NEW clear_child_tid \in BOOLEAN
    PROVE  /\ WorldOK(Finish(w, c, clear_child_tid), E)
           /\ Finish(w, c, clear_child_tid).force = TRUE
<1> DEFINE parent   == w.context[c].parent
           signal   == w.context[c].exit_signal
           orphaned == Orphan(HostThreadSuspendCancel(w, c), c)
           r        == [orphaned.context[parent] EXCEPT !.pending = @ \cup {signal}]
           told     == IF signal = None \/ parent = None THEN orphaned
                       ELSE IF Dangling(parent) THEN Abort(orphaned, "undefined")
                       ELSE [orphaned EXCEPT !.context[parent].pending = @ \cup {signal}]
           woken    == IF clear_child_tid THEN FutexWake(told, 1) ELSE told
           returned == ReturnFromSignalHandler(woken, c)
           end      == {IF parent # None THEN "Zombie" ELSE "Finished"}
<1>1. Finish(w, c, clear_child_tid) = Schedule(SetState(returned, c, end))
  BY DEF Finish
<1>2. Range(contexts) \subseteq Contexts
  BY DEF Range
<1>3. parent \in {None} \cup Contexts /\ signal \in {None, SIGCHLD}
  BY OfContext DEF Fields
<1>4. WorldOK(orphaned, E)
  <2>1. WorldOK(HostThreadSuspendCancel(w, c), E)
    BY CancelKeeps
  <2> QED
    BY <1>2, <2>1, OrphanKeeps
<1> HIDE DEF orphaned, parent, signal
<1>5. WorldOK(told, E)
  <2>1. CASE signal = None \/ parent = None
    BY <1>4, <2>1
  <2>2. CASE ~ (signal = None \/ parent = None) /\ Dangling(parent)
    <3>1. "undefined" \in Phases
      BY DEF Phases
    <3> QED
      BY <1>4, <2>2, <3>1, AbortKeeps
  <2>3. CASE ~ (signal = None \/ parent = None) /\ ~ Dangling(parent)
    <3>1. parent \in Contexts /\ parent \in E
      BY <1>2, <2>3 DEF Dangling, Exists
    <3>2. signal \in Signals
      BY <1>3, <2>3, ContextAssumption
    <3>3. orphaned.context[parent] \in Fields
      BY <1>4, <3>1, OfContext
    <3>4. /\ r \in Fields /\ r.state = orphaned.context[parent].state
          /\ r.active = orphaned.context[parent].active /\ r.thread = orphaned.context[parent].thread
      BY <3>2, <3>3 DEF Fields
    <3>5. told = Put(orphaned, parent, r)
      BY <2>3 DEF Put
    <3> HIDE DEF r, told
    <3>6. WorldOK(Put(orphaned, parent, r), E)
      BY <1>4, <3>1, <3>4, PutKeeps
    <3> QED
      BY <3>5, <3>6
  <2> HIDE DEF told
  <2> QED
    BY <2>1, <2>2, <2>3
<1> HIDE DEF told
<1>6. WorldOK(woken, E)
  <2>1. WorldOK(FutexWake(told, 1), E)
    BY <1>5, FutexQuiet DEF Quiet
  <2> QED
    BY <1>5, <2>1
<1> HIDE DEF woken
<1>7. WorldOK(returned, E)
  BY <1>6, ReturnKeeps
<1> HIDE DEF returned
<1>8. end \in SUBSET {"Finished", "Zombie", "Handler"}
  OBVIOUS
<1> HIDE DEF end
<1>9. WorldOK(SetState(returned, c, end), E)
  BY <1>7, <1>8, EndKeeps
<1> QED
  BY <1>1, <1>9, ScheduleKeeps

\* One round of the loop of FinishGroup.
LEMMA MemberKeeps ==
    ASSUME NEW E, NEW w, WorldOK(w, E), NEW c \in Contexts, c \in E, NEW leader
    PROVE  WorldOK(FinishMember(w, c, leader), E)
<1> DEFINE w1  == IF Is(w, c, "Zombie") THEN SetState(w, c, {"Finished"}) ELSE w
           v   == ReturnFromSignalHandler(w1, c)
           w2  == HostThreadSuspendCancel(v, c)
           end == {IF c = leader /\ w.context[c].parent # None THEN "Zombie" ELSE "Finished"}
<1>1. FinishMember(w, c, leader) = SetState(w2, c, end)
  BY DEF FinishMember
<1>2. WorldOK(w1, E)
  <2>1. WorldOK(SetState(w, c, {"Finished"}), E)
    BY EndKeeps
  <2> QED
    BY <2>1
<1> HIDE DEF w1
<1>3. WorldOK(v, E)
  BY <1>2, ReturnKeeps
<1> HIDE DEF v
<1>4. WorldOK(w2, E)
  BY <1>3, CancelKeeps
<1> HIDE DEF w2
<1>5. end \in SUBSET {"Finished", "Zombie", "Handler"}
  OBVIOUS
<1> HIDE DEF end
<1> QED
  BY <1>1, <1>4, <1>5, EndKeeps

MemberOf(w, c, group, leader) == IF c \in group THEN FinishMember(w, c, leader) ELSE w

LEMMA MemberOfKeeps ==
    ASSUME NEW E, NEW w, WorldOK(w, E), NEW c \in Contexts, c \in E, NEW group, NEW leader
    PROVE  WorldOK(MemberOf(w, c, group, leader), E)
BY MemberKeeps DEF MemberOf

\* The loop of FinishGroup, round by round.
Finishes(f, w, list, group, leader) ==
    /\ FinishMembers(w, group, leader) = f[Len(list)]
    /\ f[0] = w
    /\ \A i \in 1 .. Len(list) : f[i] = MemberOf(f[i - 1], list[i], group, leader)

LEMMA MembersRun ==
    ASSUME NEW E, NEW w, WorldOK(w, E), contexts \in Seq(Contexts), Range(contexts) \subseteq E,
           NEW group, NEW leader
    PROVE  \E f : Finishes(f, w, contexts, group, leader)
<1> DEFINE list       == contexts
           n          == Len(list)
           S          == OKWorlds(E)
           body(f, i) == IF i = 0 THEN w ELSE MemberOf(f[i - 1], list[i], group, leader)
           after      == CHOOSE f : f = [i \in 0 .. n |-> body(f, i)]
           round      == [i \in 1 .. n |-> [u \in S |-> MemberOf(u, list[i], group, leader)]]
<1>1. n \in Nat /\ \A i \in 1 .. n : list[i] \in Contexts /\ list[i] \in E
  BY DEF Range
<1>2. FinishMembers(w, group, leader) = after[n]
  BY DEF FinishMembers, MemberOf
<1> HIDE DEF n, list
<1>3. round \in [1 .. n -> [S -> S]]
  <2>1. ASSUME NEW i \in 1 .. n, NEW u \in S PROVE MemberOf(u, list[i], group, leader) \in S
    <3>1. WorldOK(u, E)
      BY DEF OKWorlds
    <3>2. WorldOK(MemberOf(u, list[i], group, leader), E)
      BY <1>1, <3>1, MemberOfKeeps
    <3> QED
      BY <3>2 DEF OKWorlds, WorldOK
  <2> HIDE DEF S
  <2> QED
    BY <2>1
<1>4. w \in S
  BY DEF OKWorlds, WorldOK
<1> HIDE DEF S
<1>5. PICK f \in [0 .. n -> S] : f[0] = w /\ \A i \in 1 .. n : f[i] = round[i][f[i - 1]]
  <2> HIDE DEF round
  <2>1. PICK f : Loops(f, n, S, w, round)
    BY <1>1, <1>3, <1>4, LoopRuns
  <2> QED
    BY <2>1 DEF Loops
<1>6. ASSUME NEW i \in 0 .. n PROVE f[i] = body(f, i)
  <2>1. CASE i = 0
    BY <1>5, <2>1
  <2>2. CASE i # 0
    <3>1. i \in 1 .. n /\ i - 1 \in 0 .. n
      BY <1>1, <2>2
    <3>2. f[i - 1] \in S
      BY <3>1
    <3>3. round[i][f[i - 1]] = MemberOf(f[i - 1], list[i], group, leader)
      BY <3>1, <3>2
    <3> HIDE DEF round
    <3> QED
      BY <1>5, <2>2, <3>1, <3>3
  <2> QED
    BY <2>1, <2>2
<1>7. after = [i \in 0 .. n |-> body(after, i)]
  <2>1. f = [i \in 0 .. n |-> body(f, i)]
    <3> HIDE DEF body
    <3> QED
      BY <1>6
  <2> HIDE DEF body
  <2> QED
    BY <2>1
<1>8. \A i \in 0 .. n : after[i] = body(after, i)
  <2> HIDE DEF body, after
  <2> QED
    BY <1>7
<1> HIDE DEF after
<1>9. after[0] = w /\ \A i \in 1 .. n : after[i] = MemberOf(after[i - 1], list[i], group, leader)
  <2>1. 0 \in 0 .. n /\ \A i \in 1 .. n : i \in 0 .. n /\ i # 0
    BY <1>1
  <2> QED
    BY <1>8, <2>1
<1> QED
  BY <1>2, <1>9 DEF n, list, Finishes

LEMMA MembersKeep ==
    ASSUME NEW E, NEW w, WorldOK(w, E), contexts \in Seq(Contexts), Range(contexts) \subseteq E,
           NEW group, NEW leader
    PROVE  WorldOK(FinishMembers(w, group, leader), E)
<1> DEFINE n == Len(contexts)
<1>1. PICK f : Finishes(f, w, contexts, group, leader)
  BY MembersRun
<1>2. n \in Nat /\ \A i \in 1 .. n : contexts[i] \in Contexts /\ contexts[i] \in E
  BY DEF Range
<1>3. /\ FinishMembers(w, group, leader) = f[n] /\ f[0] = w
      /\ \A i \in 1 .. n : f[i] = MemberOf(f[i - 1], contexts[i], group, leader)
  BY <1>1 DEF Finishes
<1> HIDE DEF n
<1> DEFINE B == {i \in 0 .. n : WorldOK(f[i], E)}
<1>4. ASSUME NEW k \in 1 .. n, WorldOK(f[k - 1], E) PROVE WorldOK(f[k], E)
  <2>1. WorldOK(MemberOf(f[k - 1], contexts[k], group, leader), E)
    BY <1>2, <1>4, MemberOfKeeps
  <2> QED
    BY <1>3, <2>1
<1>5. 0 \in B /\ \A i \in 1 .. n : i - 1 \in B => i \in B
  <2>1. 0 \in 0 .. n /\ \A i \in 1 .. n : i \in 0 .. n
    BY <1>2
  <2> QED
    BY <1>3, <1>4, <2>1
<1>6. n \in B
  <2>1. n \in 0 .. n
    BY <1>2
  <2> HIDE DEF B
  <2> QED
    BY <1>2, <1>5, <2>1, UpTo
<1> QED
  BY <1>3, <1>6

\* Context::FinishGroup.
LEMMA FinishGroupKeeps ==
    ASSUME NEW E, NEW w, WorldOK(w, E), contexts \in Seq(Contexts), E = Range(contexts),
           NEW c \in Contexts, c \in E
    PROVE  /\ WorldOK(FinishGroup(w, c), E)
           /\ \/ FinishGroup(w, c) = w
              \/ FinishGroup(w, c).force = TRUE
              \/ FinishGroup(w, c).phase # "run"
<1> DEFINE leader == IF w.context[c].group_parent = None THEN c ELSE w.context[c].group_parent
           group  == {x \in Range(contexts) : x = leader \/ w.context[x].group_parent = leader}
           m      == FinishMembers(w, group, leader)
<1>1. FinishGroup(w, c) \in {Abort(w, "undefined"), w, Schedule(m)}
  BY DEF FinishGroup
<1>2. WorldOK(Abort(w, "undefined"), E) /\ Abort(w, "undefined").phase # "run"
  <2>1. "undefined" \in Phases /\ "undefined" # "run"
    BY DEF Phases
  <2> QED
    BY <2>1, AbortKeeps
<1> HIDE DEF leader, group
<1>3. WorldOK(m, E)
  BY MembersKeep
<1> HIDE DEF m
<1>4. WorldOK(Schedule(m), E) /\ Schedule(m).force = TRUE
  BY <1>3, ScheduleKeeps
<1> QED
  BY <1>1, <1>2, <1>4

---------------------------------------------------------------------------
(* Every action keeps the invariant. *)

\* The parts of the state, as World gives them.
LEMMA WorldIs ==
    /\ World.context = context /\ World.suspended = suspended /\ World.zombies = zombies
    /\ World.threads = threads /\ World.force = force /\ World.ready = ready /\ World.phase = phase
BY DEF World

\* While the program runs, the contexts of the list are those that exist.
LEMMA InvRuns ==
    ASSUME Inv, phase = "run"
    PROVE  /\ WorldOK(World, Range(contexts)) /\ Range(contexts) \in SUBSET Contexts
           /\ contexts \in Seq(Contexts) /\ Sizes /\ force \in BOOLEAN
           /\ force = FALSE => \A c \in Contexts : Watched(World, c)
<1>1. PICK E \in SUBSET Contexts : WorldOK(World, E) /\ (phase = "run" => E = Range(contexts))
  BY DEF Inv
<1>2. WorldOK(World, Range(contexts)) /\ Range(contexts) \in SUBSET Contexts
  BY <1>1
<1>3. World.force \in BOOLEAN
  BY <1>2 DEF WorldOK, Worlds
<1> QED
  BY <1>2, <1>3, WorldIs DEF Inv, Sizes

\* What Becomes makes of a world.
Good(w) == w.phase = "run" /\ w.force = FALSE => \A c \in Contexts : Watched(w, c)

LEMMA BecomesKeeps ==
    ASSUME Inv, phase = "run", NEW F \in SUBSET Contexts, NEW w, WorldOK(w, F), Good(w), Becomes(w)
    PROVE  /\ \E E \in SUBSET Contexts : WorldOK(World', E) /\ (phase' = "run" => E = F)
           /\ phase' = "run" /\ ~force' => \A c \in Contexts : Watched(World', c)
<1>0. w \in Worlds /\ w.force \in BOOLEAN
  BY DEF WorldOK, Worlds
<1>1. /\ World'.context = context' /\ World'.suspended = suspended' /\ World'.zombies = zombies'
      /\ World'.threads = threads' /\ World'.force = force' /\ World'.ready = ready' /\ World'.phase = phase'
  BY DEF World
<1>2. CASE w.phase = "run"
  <2>1. /\ context' = w.context /\ suspended' = w.suspended /\ zombies' = w.zombies
        /\ threads' = w.threads /\ force' = w.force /\ ready' = w.ready /\ phase' = w.phase
    BY <1>2 DEF Becomes
  <2>2. World' \in Worlds
    BY <1>0, <2>1 DEF World, Worlds
  <2>3. Same(w, World')
    BY <1>1, <2>1 DEF Same
  <2>4. WorldOK(World', F) /\ \A c \in Contexts : Watched(w, c) => Watched(World', c)
    BY <2>2, <2>3, SameKeeps
  <2>5. ~ force' => \A c \in Contexts : Watched(World', c)
    BY <1>0, <1>2, <2>1, <2>4 DEF Good
  <2> QED
    BY <2>4, <2>5
<1>3. CASE w.phase # "run"
  <2>1. /\ phase' = w.phase
        /\ UNCHANGED <<context, suspended, zombies, threads, force, ready>>
    BY <1>3 DEF Becomes
  <2>2. WorldOK(World, Range(contexts)) /\ Range(contexts) \in SUBSET Contexts
    BY InvRuns
  <2>3. World' \in Worlds
    <3>1. World \in Worlds
      BY <2>2 DEF WorldOK
    <3>2. w.phase \in Phases
      BY <1>0 DEF Worlds
    <3> QED
      BY <2>1, <3>1, <3>2 DEF World, Worlds
  <2>4. Same(World, World')
    BY <1>1, <2>1, WorldIs DEF Same
  <2>5. WorldOK(World', Range(contexts))
    BY <2>2, <2>3, <2>4, SameKeeps
  <2> QED
    BY <1>3, <2>1, <2>2, <2>5
<1> QED
  BY <1>2, <1>3

\* The context that executes an instruction exists and waits for nothing.
LEMMA ExecutesFacts ==
    ASSUME Inv, NEW c, NEW call, Executes(c, call)
    PROVE  /\ phase = "run" /\ c \in Contexts /\ c \in Range(contexts)
           /\ context[c].state \cap Waiting = {} /\ "Zombie" \notin context[c].state
           /\ turn' \in 1 .. MaxContexts + 1
<1>1. phase = "run"
  BY DEF Executes
<1>2. PICK i \in ToRun : contexts[i] = c /\ turn' = i + 1
  BY DEF Executes
<1>3. /\ WorldOK(World, Range(contexts)) /\ contexts \in Seq(Contexts)
      /\ Len(contexts) <= created /\ created \in 1 .. MaxContexts /\ turn \in 1 .. MaxContexts + 1
  BY <1>1, InvRuns DEF Sizes
<1>4. i \in turn .. Len(contexts) /\ "Running" \in context[c].state
  BY <1>2 DEF ToRun, Running
<1>5. i \in 1 .. Len(contexts) /\ i + 1 \in 1 .. MaxContexts + 1
  <2>1. Len(contexts) \in Nat /\ MaxContexts \in Nat
    BY <1>3, ContextAssumption
  <2> QED
    BY <1>3, <1>4, <2>1
<1>6. c \in Contexts /\ c \in Range(contexts)
  BY <1>2, <1>3, <1>5 DEF Range
<1>7. /\ context[c].state \in SUBSET Flags /\ context[c].state = Normal(context[c].state)
      /\ OneReason(context[c].state)
  BY <1>3, <1>6, OfContext, WorldIs
<1>8. "Suspended" \notin context[c].state /\ "Zombie" \notin context[c].state
  BY <1>4, <1>7, StateFacts
<1>9. context[c].state \cap Waiting = {}
  BY <1>7, <1>8 DEF OneReason
<1> QED
  BY <1>1, <1>2, <1>5, <1>6, <1>8, <1>9

LEMMA CallKeeps ==
    ASSUME Inv, NEW c, NEW call, Executes(c, call), NEW w, Call(w),
           WorldOK(w, Range(contexts)), Good(w)
    PROVE  Inv'
<1>1. phase = "run" /\ turn' \in 1 .. MaxContexts + 1
  BY ExecutesFacts
<1>2. Sizes /\ Range(contexts) \in SUBSET Contexts
  BY <1>1, InvRuns
<1>3. Becomes(w) /\ UNCHANGED <<contexts, created>>
  BY DEF Call
<1>4. Sizes'
  BY <1>1, <1>2, <1>3 DEF Sizes
<1>5. /\ \E E \in SUBSET Contexts : WorldOK(World', E) /\ (phase' = "run" => E = Range(contexts))
      /\ phase' = "run" /\ ~force' => \A x \in Contexts : Watched(World', x)
  BY <1>1, <1>2, <1>3, BecomesKeeps
<1> QED
  BY <1>3, <1>4, <1>5 DEF Inv

\* Context::Suspend.
LEMMA SuspendGood ==
    ASSUME NEW E, NEW w, WorldOK(w, E), NEW c \in Contexts, c \in E,
           w.context[c].state \cap Waiting = {}, NEW why \in Waiting
    PROVE  WorldOK(Suspend(w, c, why), E) /\ Good(Suspend(w, c, why))
<1> DEFINE v == SetState(w, c, {"Suspended", "Callback", why})
<1>1. WorldOK(v, E)
  BY SuspendKeeps
<1>2. Suspend(w, c, why) = Schedule(v)
  BY DEF Suspend
<1> HIDE DEF v
<1>3. WorldOK(Schedule(v), E) /\ Schedule(v).force = TRUE
  BY <1>1, ScheduleKeeps
<1> QED
  BY <1>2, <1>3 DEF Good

\* The same, after the arguments of the call were noted in the fields of the context.
LEMMA SuspendPutGood ==
    ASSUME NEW E, NEW w, WorldOK(w, E), NEW c \in Contexts, c \in E,
           w.context[c].state \cap Waiting = {}, NEW why \in Waiting, NEW r \in Fields,
           r.state = w.context[c].state, r.active = w.context[c].active, r.thread = w.context[c].thread
    PROVE  WorldOK(Suspend(Put(w, c, r), c, why), E) /\ Good(Suspend(Put(w, c, r), c, why))
<1> DEFINE v == Put(w, c, r)
<1>1. WorldOK(v, E)
  BY PutKeeps
<1>2. v.context[c] = r
  BY OfContext, PutFacts
<1> HIDE DEF v
<1>3. WorldOK(Suspend(v, c, why), E) /\ Good(Suspend(v, c, why))
  BY <1>1, <1>2, SuspendGood
<1> QED
  BY <1>3 DEF v

LEMMA ExitKeeps ==
    ASSUME Inv, NEW c, Exit(c)
    PROVE  Inv'
<1>1. PICK clear_child_tid \in BOOLEAN :
          Executes(c, "exit") /\ Call(Finish(World, c, clear_child_tid))
  BY DEF Exit
<1> DEFINE u == Finish(World, c, clear_child_tid)
<1>2. phase = "run" /\ c \in Contexts /\ c \in Range(contexts)
  BY <1>1, ExecutesFacts
<1>3. WorldOK(World, Range(contexts)) /\ contexts \in Seq(Contexts)
  BY <1>2, InvRuns
<1>4. WorldOK(u, Range(contexts)) /\ u.force = TRUE
  BY <1>2, <1>3, FinishKeeps
<1>5. Good(u)
  BY <1>4 DEF Good
<1> QED
  BY <1>1, <1>4, <1>5, CallKeeps

LEMMA ExitGroupKeeps ==
    ASSUME Inv, NEW c, ExitGroup(c)
    PROVE  Inv'
<1> DEFINE u == FinishGroup(World, c)
<1>1. Executes(c, "exit_group") /\ Call(u)
  BY DEF ExitGroup
<1>2. phase = "run" /\ c \in Contexts /\ c \in Range(contexts)
  BY <1>1, ExecutesFacts
<1>3. /\ WorldOK(World, Range(contexts)) /\ contexts \in Seq(Contexts)
      /\ force = FALSE => \A x \in Contexts : Watched(World, x)
  BY <1>2, InvRuns
<1>4. WorldOK(u, Range(contexts)) /\ (u = World \/ u.force = TRUE \/ u.phase # "run")
  BY <1>2, <1>3, FinishGroupKeeps
<1> HIDE DEF u
<1>5. Good(u)
  BY <1>3, <1>4, WorldIs DEF Good
<1> QED
  BY <1>1, <1>4, <1>5, CallKeeps

\* nanosleep and poll note that their time is not over.
LEMMA SleepGood ==
    ASSUME Inv, NEW c, NEW call, Executes(c, call), NEW why \in Waiting
    PROVE  /\ WorldOK(Suspend([World EXCEPT !.context[c].expired = FALSE], c, why), Range(contexts))
           /\ Good(Suspend([World EXCEPT !.context[c].expired = FALSE], c, why))
<1> DEFINE r == [World.context[c] EXCEPT !.expired = FALSE]
<1>1. phase = "run" /\ c \in Contexts /\ c \in Range(contexts) /\ World.context[c].state \cap Waiting = {}
  BY ExecutesFacts, WorldIs
<1>2. WorldOK(World, Range(contexts))
  BY <1>1, InvRuns
<1>3. World.context[c] \in Fields
  BY <1>1, <1>2, OfContext
<1>4. /\ r \in Fields /\ r.state = World.context[c].state /\ r.active = World.context[c].active
      /\ r.thread = World.context[c].thread
  BY <1>3 DEF Fields
<1>5. [World EXCEPT !.context[c].expired = FALSE] = Put(World, c, r)
  BY DEF Put
<1> HIDE DEF r
<1>6. /\ WorldOK(Suspend(Put(World, c, r), c, why), Range(contexts))
      /\ Good(Suspend(Put(World, c, r), c, why))
  BY <1>1, <1>2, <1>4, SuspendPutGood
<1> QED
  BY <1>5, <1>6

LEMMA NanosleepKeeps ==
    ASSUME Inv, NEW c, Nanosleep(c)
    PROVE  Inv'
<1> DEFINE u == Suspend([World EXCEPT !.context[c].expired = FALSE], c, "Nanosleep")
<1>1. Executes(c, "nanosleep") /\ Call(u) /\ "Nanosleep" \in Waiting
  BY DEF Nanosleep, Waiting
<1>2. WorldOK(u, Range(contexts)) /\ Good(u)
  BY <1>1, SleepGood
<1> HIDE DEF u
<1> QED
  BY <1>1, <1>2, CallKeeps

LEMMA PollKeeps ==
    ASSUME Inv, NEW c, Poll(c)
    PROVE  Inv'
<1> DEFINE u == Suspend([World EXCEPT !.context[c].expired = FALSE], c, "Poll")
<1>1. Executes(c, "poll") /\ Call(u) /\ "Poll" \in Waiting
  BY DEF Poll, Waiting
<1>2. WorldOK(u, Range(contexts)) /\ Good(u)
  BY <1>1, SleepGood
<1> HIDE DEF u
<1> QED
  BY <1>1, <1>2, CallKeeps

LEMMA ReadKeeps ==
    ASSUME Inv, NEW c, Read(c)
    PROVE  Inv'
<1>1. /\ Executes(c, "read") /\ "Read" \in Waiting
      /\ \/ ready > 0 /\ Call([World EXCEPT !.ready = @ - 1])
         \/ Call(Suspend(World, c, "Read"))
  BY DEF Read, Waiting
<1>2. phase = "run" /\ c \in Contexts /\ c \in Range(contexts) /\ World.context[c].state \cap Waiting = {}
  BY <1>1, ExecutesFacts, WorldIs
<1>3. /\ WorldOK(World, Range(contexts))
      /\ force = FALSE => \A x \in Contexts : Watched(World, x)
  BY <1>2, InvRuns
<1>4. CASE ready > 0 /\ Call([World EXCEPT !.ready = @ - 1])
  <2>1. [World EXCEPT !.ready = @ - 1] = Taken(World) /\ World.ready > 0
    BY <1>4, WorldIs DEF Taken
  <2>2. Round(World, Taken(World), c, Range(contexts)) /\ Same(World, Taken(World))
    BY <1>3, <2>1, TakenRound
  <2>3. WorldOK(Taken(World), Range(contexts)) /\ Taken(World).force = World.force
    BY <2>2 DEF Round
  <2>4. Taken(World) \in Worlds
    BY <2>3 DEF WorldOK
  <2>5. \A x \in Contexts : Watched(World, x) => Watched(Taken(World), x)
    BY <1>3, <2>2, <2>4, SameKeeps
  <2>6. Good(Taken(World))
    BY <1>3, <2>3, <2>5, WorldIs DEF Good
  <2> QED
    BY <1>1, <1>4, <2>1, <2>3, <2>6, CallKeeps
<1>5. CASE Call(Suspend(World, c, "Read"))
  <2>1. WorldOK(Suspend(World, c, "Read"), Range(contexts)) /\ Good(Suspend(World, c, "Read"))
    BY <1>1, <1>2, <1>3, SuspendGood
  <2> QED
    BY <1>1, <1>5, <2>1, CallKeeps
<1> QED
  BY <1>1, <1>4, <1>5

LEMMA WaitpidKeeps ==
    ASSUME Inv, NEW c, NEW pid \in {None} \cup {x \in Range(contexts) : context[x].parent = c}, Waitpid(c, pid)
    PROVE  Inv'
<1> DEFINE found == ZombiesOf(World, c, pid)
           z     == FirstOf(zombies, found)
           r     == [World.context[c] EXCEPT !.pid = pid]
<1>1. /\ Executes(c, "waitpid") /\ "Waitpid" \in Waiting
      /\ \/ found # {} /\ Call(SetState(World, z, {"Finished"}))
         \/ Call(Suspend(Put(World, c, r), c, "Waitpid"))
  BY DEF Waitpid, Waiting, Put
<1>2. phase = "run" /\ c \in Contexts /\ c \in Range(contexts) /\ World.context[c].state \cap Waiting = {}
  BY <1>1, ExecutesFacts, WorldIs
<1>3. /\ WorldOK(World, Range(contexts)) /\ Range(contexts) \in SUBSET Contexts
      /\ force = FALSE => \A x \in Contexts : Watched(World, x)
  BY <1>2, InvRuns
<1>4. CASE found # {} /\ Call(SetState(World, z, {"Finished"}))
  <2>1. zombies \in Seq(Contexts) /\ Range(zombies) = In(World, "Zombie")
    BY <1>3, WorldIs DEF WorldOK, Worlds
  <2>2. found \in SUBSET Range(zombies)
    BY WorldIs DEF ZombiesOf
  <2> HIDE DEF found
  <2>3. z \in found
    BY <1>4, <2>1, <2>2, FirstIsOne
  <2>4. z \in In(World, "Zombie")
    BY <2>1, <2>2, <2>3
  <2> HIDE DEF z
  <2> DEFINE u == SetState(World, z, {"Finished"})
  <2>5. Round(World, u, c, Range(contexts)) /\ \A x \in Contexts : Watched(World, x) => Watched(u, x)
    BY <1>2, <1>3, <2>4, ZombieEnds
  <2>6. Call(u)
    BY <1>4
  <2> HIDE DEF u
  <2>7. WorldOK(u, Range(contexts)) /\ Good(u)
    BY <1>3, <2>5, WorldIs DEF Round, Good
  <2> QED
    BY <1>1, <2>6, <2>7, CallKeeps
<1>5. CASE Call(Suspend(Put(World, c, r), c, "Waitpid"))
  <2>1. World.context[c] \in Fields /\ pid \in {None} \cup Contexts
    BY <1>2, <1>3, OfContext
  <2>2. /\ r \in Fields /\ r.state = World.context[c].state /\ r.active = World.context[c].active
        /\ r.thread = World.context[c].thread
    BY <2>1 DEF Fields
  <2> HIDE DEF r
  <2> DEFINE u == Suspend(Put(World, c, r), c, "Waitpid")
  <2>3. WorldOK(u, Range(contexts)) /\ Good(u)
    BY <1>1, <1>2, <1>3, <2>2, SuspendPutGood
  <2>4. Call(u)
    BY <1>5
  <2> HIDE DEF u
  <2> QED
    BY <1>1, <2>3, <2>4, CallKeeps
<1> QED
  BY <1>1, <1>4, <1>5

\* Calls that end with ProcessEventsSchedule and ProcessEvents.
LEMMA ProcessedKeeps ==
    ASSUME Inv, NEW c, NEW call, Executes(c, call), NEW w, CallAndProcess(w),
           WorldOK(w, Range(contexts))
    PROVE  Inv'
<1> DEFINE v == Schedule(w)
           u == ProcessEvents(v, contexts)
<1>1. phase = "run"
  BY ExecutesFacts
<1>2. contexts \in Seq(Contexts)
  BY <1>1, InvRuns
<1>3. WorldOK(v, Range(contexts)) /\ v.force = TRUE
  BY ScheduleKeeps
<1>4. Call(u)
  BY DEF CallAndProcess
<1> HIDE DEF v
<1>5. WorldOK(u, Range(contexts)) /\ (u.phase = "run" => \A x \in Contexts : Watched(u, x))
  BY <1>2, <1>3, ProcessKeeps
<1> HIDE DEF u
<1>6. Good(u)
  BY <1>5 DEF Good
<1> QED
  BY <1>4, <1>5, <1>6, CallKeeps

LEMMA KillKeeps ==
    ASSUME Inv, NEW c, NEW target \in Range(contexts), NEW sig \in Signals, Kill(c, target, sig)
    PROVE  Inv'
<1> DEFINE r == [World.context[target] EXCEPT !.pending = @ \cup {sig}]
           v == Put(World, target, r)
           u == HostThreadSuspendCancel(v, target)
<1>1. Executes(c, "kill") /\ CallAndProcess(u)
  BY DEF Kill, Put
<1>2. phase = "run"
  BY <1>1, ExecutesFacts
<1>3. WorldOK(World, Range(contexts)) /\ target \in Contexts
  BY <1>2, InvRuns
<1>4. World.context[target] \in Fields
  BY <1>3, OfContext
<1>5. /\ r \in Fields /\ r.state = World.context[target].state
      /\ r.active = World.context[target].active /\ r.thread = World.context[target].thread
  BY <1>4 DEF Fields
<1> HIDE DEF r
<1>6. WorldOK(v, Range(contexts))
  BY <1>3, <1>5, PutKeeps
<1> HIDE DEF v
<1>7. WorldOK(u, Range(contexts))
  BY <1>3, <1>6, CancelKeeps
<1> HIDE DEF u
<1> QED
  BY <1>1, <1>7, ProcessedKeeps

LEMMA SigreturnKeeps ==
    ASSUME Inv, NEW c, Sigreturn(c)
    PROVE  Inv'
<1>1. Executes(c, "sigreturn") /\ CallAndProcess(ReturnFromSignalHandler(World, c))
  BY DEF Sigreturn
<1>2. phase = "run" /\ c \in Contexts /\ c \in Range(contexts)
  BY <1>1, ExecutesFacts
<1>3. WorldOK(World, Range(contexts))
  BY <1>2, InvRuns
<1>4. WorldOK(ReturnFromSignalHandler(World, c), Range(contexts))
  BY <1>2, <1>3, ReturnKeeps
<1> QED
  BY <1>1, <1>4, ProcessedKeeps

LEMMA SigprocmaskKeeps ==
    ASSUME Inv, NEW c, NEW set \in Masks, Sigprocmask(c, set)
    PROVE  Inv'
<1> DEFINE r == [World.context[c] EXCEPT !.blocked = set]
           u == Put(World, c, r)
<1>1. Executes(c, "sigprocmask") /\ CallAndProcess(u)
  BY DEF Sigprocmask, Put
<1>2. phase = "run" /\ c \in Contexts /\ c \in Range(contexts)
  BY <1>1, ExecutesFacts
<1>3. WorldOK(World, Range(contexts)) /\ set \in SUBSET Signals
  BY <1>2, InvRuns, ContextAssumption
<1>4. World.context[c] \in Fields
  BY <1>2, <1>3, OfContext
<1>5. /\ r \in Fields /\ r.state = World.context[c].state
      /\ r.active = World.context[c].active /\ r.thread = World.context[c].thread
  BY <1>3, <1>4 DEF Fields
<1> HIDE DEF r
<1>6. WorldOK(u, Range(contexts))
  BY <1>2, <1>3, <1>5, PutKeeps
<1> HIDE DEF u
<1> QED
  BY <1>1, <1>6, ProcessedKeeps

LEMMA SigsuspendKeeps ==
    ASSUME Inv, NEW c, NEW set \in Masks, Sigsuspend(c, set)
    PROVE  Inv'
<1> DEFINE r == [World.context[c] EXCEPT !.backup = context[c].blocked, !.blocked = set]
           u == Suspend(Put(World, c, r), c, "Sigsuspend")
<1>1. Executes(c, "sigsuspend") /\ CallAndProcess(u) /\ "Sigsuspend" \in Waiting
  BY DEF Sigsuspend, Put, Waiting
<1>2. phase = "run" /\ c \in Contexts /\ c \in Range(contexts) /\ World.context[c].state \cap Waiting = {}
  BY <1>1, ExecutesFacts, WorldIs
<1>3. WorldOK(World, Range(contexts)) /\ set \in SUBSET Signals
  BY <1>2, InvRuns, ContextAssumption
<1>4. World.context[c] \in Fields /\ context[c] = World.context[c]
  BY <1>2, <1>3, OfContext, WorldIs
<1>5. /\ r \in Fields /\ r.state = World.context[c].state
      /\ r.active = World.context[c].active /\ r.thread = World.context[c].thread
  BY <1>3, <1>4 DEF Fields
<1> HIDE DEF r
<1>6. WorldOK(u, Range(contexts))
  BY <1>1, <1>2, <1>3, <1>5, SuspendPutGood
<1> HIDE DEF u
<1> QED
  BY <1>1, <1>6, ProcessedKeeps

LEMMA FutexWaitKeeps ==
    ASSUME Inv, NEW c, FutexWait(c)
    PROVE  Inv'
<1> DEFINE st == World.context[c].state
           h  == st \cup {"Suspended", "Futex"}
           u  == UpdateState(World, c, h)
<1>1. Executes(c, "futex") /\ Call(SetState(World, c, {"Suspended", "Futex"})) /\ "Futex" \in Waiting
  BY DEF FutexWait, Waiting
<1>2. /\ phase = "run" /\ c \in Contexts /\ c \in Range(contexts)
      /\ World.context[c].state \cap Waiting = {} /\ "Zombie" \notin World.context[c].state
  BY <1>1, ExecutesFacts, WorldIs
<1>3. /\ WorldOK(World, Range(contexts))
      /\ force = FALSE => \A x \in Contexts : Watched(World, x)
  BY <1>2, InvRuns
<1>4. WorldOK(SetState(World, c, {"Suspended", "Futex"}), Range(contexts))
  BY <1>1, <1>2, <1>3, SuspendKeeps
<1>5. SetState(World, c, {"Suspended", "Futex"}) = u
  BY DEF SetState
<1>6. st \in SUBSET Flags /\ World \in Worlds
  BY <1>2, <1>3, OfContext
<1>7. h \in SUBSET Flags /\ "Zombie" \notin h /\ h \cap Waiting = {"Futex"}
  BY <1>2, <1>6 DEF Flags, Waiting
<1> HIDE DEF st, h
<1>8. Normal(h) \cap Waiting \subseteq h /\ "Zombie" \notin Normal(h)
  BY <1>7, NormalFacts
<1>9. u.force = World.force /\ u.context[c].state = Normal(h)
  BY <1>2, <1>6, <1>7, UpdateFacts DEF Updated
<1>10. \A d \in Contexts : d # c /\ Watched(World, d) => Watched(u, d)
  BY <1>2, <1>6, <1>7, <1>8, UpdateWatches
<1> HIDE DEF u
<1>11. Watched(u, c)
  <2>1. u.context[c].state \cap {"Nanosleep", "Read", "Poll", "Waitpid", "Sigsuspend"} = {}
    BY <1>7, <1>8, <1>9 DEF Waiting
  <2> QED
    BY <2>1 DEF Watched
<1>12. Good(u)
  BY <1>3, <1>9, <1>10, <1>11, WorldIs DEF Good
<1>13. Call(u) /\ WorldOK(u, Range(contexts))
  BY <1>1, <1>4, <1>5
<1> QED
  BY <1>1, <1>12, <1>13, CallKeeps

LEMMA FutexWakeUpKeeps ==
    ASSUME Inv, NEW c, FutexWakeUp(c)
    PROVE  Inv'
<1>1. PICK count : Executes(c, "futex") /\ Call(FutexWake(World, count))
  BY DEF FutexWakeUp
<1> DEFINE u == FutexWake(World, count)
<1>2. phase = "run"
  BY <1>1, ExecutesFacts
<1>3. /\ WorldOK(World, Range(contexts))
      /\ force = FALSE => \A x \in Contexts : Watched(World, x)
  BY <1>2, InvRuns
<1>4. Quiet(World, u, Range(contexts))
  BY <1>3, FutexQuiet
<1>5. Call(u)
  BY <1>1
<1> HIDE DEF u
<1>6. WorldOK(u, Range(contexts)) /\ Good(u)
  BY <1>3, <1>4, WorldIs DEF Quiet, Good
<1> QED
  BY <1>1, <1>5, <1>6, CallKeeps

LEMMA ComputeKeeps ==
    ASSUME Inv, NEW c, Compute(c)
    PROVE  Inv'
<1>1. Executes(c, "compute") /\ Call(World)
  BY DEF Compute
<1>2. phase = "run"
  BY <1>1, ExecutesFacts
<1>3. /\ WorldOK(World, Range(contexts))
      /\ force = FALSE => \A x \in Contexts : Watched(World, x)
  BY <1>2, InvRuns
<1>4. Good(World)
  BY <1>3, WorldIs DEF Good
<1> QED
  BY <1>1, <1>3, <1>4, CallKeeps

\* A context that is created runs, and nobody waited for it.
LEMMA EnterKeeps ==
    ASSUME NEW E, NEW w, WorldOK(w, E), NEW c \in Contexts, c \notin E, NEW r \in Fields,
           r.state = {"Running"}, r.active = FALSE
    PROVE  /\ WorldOK(Put(w, c, r), E \cup {c})
           /\ \A d \in Contexts : Watched(w, d) => Watched(Put(w, c, r), d)
<1> DEFINE u == Put(w, c, r)
<1>0. /\ w \in Worlds /\ Range(w.suspended) = In(w, "Suspended") /\ Range(w.zombies) = In(w, "Zombie")
      /\ \A d \in Contexts : w.context[d].active = TRUE => Counts(w, d)
      /\ \A d \in Contexts : d \in E => FieldsOK(w.context[d])
      /\ \A d \in Contexts : d \notin E => w.context[d] = Blank
  BY DEF WorldOK
<1>1. /\ u \in Worlds /\ u.context[c] = r /\ \A d \in Contexts : d # c => u.context[d] = w.context[d]
      /\ u.threads = w.threads /\ u.suspended = w.suspended /\ u.zombies = w.zombies
  BY <1>0, PutFacts
<1> HIDE DEF u
<1>2. w.context[c].state = {}
  BY <1>0 DEF Blank
<1>3. In(u, "Suspended") = In(w, "Suspended") /\ In(u, "Zombie") = In(w, "Zombie")
  BY <1>1, <1>2 DEF In
<1>4. \A d \in Contexts : d # c /\ Counts(w, d) => Counts(u, d)
  BY <1>1 DEF Counts
<1>5. ASSUME NEW d \in Contexts, u.context[d].active = TRUE PROVE Counts(u, d)
  <2>1. d # c
    BY <1>1, <1>5
  <2>2. w.context[d].active = TRUE
    BY <1>1, <1>5, <2>1
  <2> QED
    BY <1>0, <1>4, <2>1, <2>2
<1>6. FieldsOK(r)
  BY DEF FieldsOK, Normal, OneReason, Waiting
<1>7. ASSUME NEW d \in Contexts, d \in E \cup {c} PROVE FieldsOK(u.context[d])
  BY <1>0, <1>1, <1>6, <1>7
<1>8. ASSUME NEW d \in Contexts, d \notin E \cup {c} PROVE u.context[d] = Blank
  BY <1>0, <1>1, <1>8
<1>9. WorldOK(u, E \cup {c})
  BY <1>0, <1>1, <1>3, <1>5, <1>7, <1>8 DEF WorldOK
<1>10. ASSUME NEW d \in Contexts, Watched(w, d) PROVE Watched(u, d)
  <2>1. CASE d = c
    <3>1. u.context[d].state \cap Waiting = {}
      BY <1>1, <2>1 DEF Waiting
    <3> QED
      BY <3>1, NotWaiting
  <2>2. CASE d # c
    <3>1. u.context[d] = w.context[d]
      BY <1>1, <2>2
    <3>2. Counts(w, d) => Counts(u, d)
      BY <1>4, <2>2
    <3>3. \A x \in In(w, "Zombie") : x \in Contexts /\ x # c
      BY <1>2 DEF In
    <3>4. \A x \in In(u, "Zombie") : x \in In(w, "Zombie") /\ u.context[x].parent = w.context[x].parent
      BY <1>1, <1>3, <3>3
    <3> QED
      BY <1>10, <3>1, <3>2, <3>4, WatchLasts
  <2> QED
    BY <2>1, <2>2
<1> QED
  BY <1>9, <1>10 DEF u

\* Fields of a child.
Child(c, thread) ==
    [Blank EXCEPT !.state = {"Running"}, !.parent = c,
                  !.exit_signal = IF thread THEN None ELSE SIGCHLD,
                  !.group_parent = IF ~thread THEN None
                                   ELSE IF context[c].group_parent # None
                                        THEN context[c].group_parent ELSE c]

LEMMA CloneKeeps ==
    ASSUME Inv, NEW c, NEW thread \in BOOLEAN, Clone(c, thread)
    PROVE  Inv'
<1> DEFINE child == created + 1
           r     == Child(c, thread)
           u     == Put(World, child, r)
           call  == IF thread THEN "clone_thread" ELSE "fork"
<1>1. /\ Executes(c, call) /\ created < MaxContexts /\ created' = child
      /\ contexts' = Append(contexts, child) /\ Becomes(u)
  BY DEF Clone, Put, Child
<1> HIDE DEF call
<1>2. phase = "run" /\ c \in Contexts /\ turn' \in 1 .. MaxContexts + 1
  BY <1>1, ExecutesFacts
<1>3. /\ WorldOK(World, Range(contexts)) /\ contexts \in Seq(Contexts)
      /\ Range(contexts) \in SUBSET Contexts
      /\ created \in 1 .. MaxContexts /\ Range(contexts) \subseteq 1 .. created
      /\ Len(contexts) <= created
      /\ force = FALSE => \A d \in Contexts : Watched(World, d)
  BY <1>2, InvRuns DEF Sizes
<1>4. child \in Contexts /\ child \notin Range(contexts) /\ child \in 1 .. MaxContexts
  BY <1>1, <1>3, ContextAssumption DEF Contexts
<1>5. /\ r \in Fields /\ r.state = {"Running"} /\ r.active = FALSE
  <2>1. context[c].group_parent \in {None} \cup Contexts
    BY <1>2, <1>3, OfContext, WorldIs DEF Fields
  <2>2. "Running" \in Flags
    BY DEF Flags
  <2> QED
    BY <1>2, <2>1, <2>2 DEF Child, Fields, Blank
<1> HIDE DEF r
<1>6. /\ WorldOK(u, Range(contexts) \cup {child})
      /\ \A d \in Contexts : Watched(World, d) => Watched(u, d)
  BY <1>3, <1>4, <1>5, EnterKeeps
<1>7. u.force = force
  <2>1. World \in Worlds
    BY <1>3 DEF WorldOK
  <2> QED
    BY <1>4, <1>5, <2>1, PutFacts, WorldIs
<1> HIDE DEF u, child
<1>8. Good(u)
  BY <1>3, <1>6, <1>7 DEF Good
<1>9. /\ contexts' \in Seq(Contexts) /\ Range(contexts') = Range(contexts) \cup {child}
      /\ Len(contexts') = Len(contexts) + 1
  BY <1>1, <1>3, <1>4, Appended
<1>10. Range(contexts') \in SUBSET Contexts
  BY <1>3, <1>4, <1>9
<1>11. /\ \E E \in SUBSET Contexts : WorldOK(World', E) /\ (phase' = "run" => E = Range(contexts'))
       /\ phase' = "run" /\ ~force' => \A d \in Contexts : Watched(World', d)
  <2>1. WorldOK(u, Range(contexts'))
    BY <1>6, <1>9
  <2> QED
    BY <1>1, <1>2, <1>8, <1>10, <2>1, BecomesKeeps
<1>12. Sizes'
  <2>1. Len(contexts) \in Nat /\ MaxContexts \in Nat
    BY <1>3, ContextAssumption
  <2>2. created' \in 1 .. MaxContexts /\ Len(contexts') <= created'
    BY <1>1, <1>3, <1>4, <1>9, <2>1 DEF child
  <2>3. Range(contexts') \subseteq 1 .. created'
    BY <1>1, <1>3, <1>9 DEF child
  <2> QED
    BY <1>2, <1>9, <2>2, <2>3 DEF Sizes
<1> QED
  BY <1>11, <1>12 DEF Inv

\* The finished contexts are freed: they are in no list, and nobody waits for them.
Freed(w, set) == [w EXCEPT !.context = [c \in Contexts |-> IF c \in set THEN Blank ELSE w.context[c]]]

LEMMA FreedKeeps ==
    ASSUME NEW E, NEW w, WorldOK(w, E), NEW set \in SUBSET Contexts,
           \A c \in set : "Finished" \in w.context[c].state
    PROVE  /\ WorldOK(Freed(w, set), E \ set) /\ Freed(w, set).force = w.force
           /\ \A d \in Contexts : Watched(w, d) => Watched(Freed(w, set), d)
<1> DEFINE u == Freed(w, set)
<1>0. /\ w \in Worlds /\ Range(w.suspended) = In(w, "Suspended") /\ Range(w.zombies) = In(w, "Zombie")
      /\ \A d \in Contexts : w.context[d].active = TRUE => Counts(w, d)
      /\ \A d \in Contexts : d \in E => FieldsOK(w.context[d])
      /\ \A d \in Contexts : d \notin E => w.context[d] = Blank
  BY DEF WorldOK
<1>1. Blank \in Fields /\ Blank.state = {} /\ Blank.active = FALSE
  BY DEF Blank, Fields
<1>2. /\ u \in Worlds /\ u.threads = w.threads /\ u.suspended = w.suspended /\ u.zombies = w.zombies
      /\ u.force = w.force
      /\ \A d \in Contexts : u.context[d] = IF d \in set THEN Blank ELSE w.context[d]
  BY <1>0, <1>1 DEF Worlds, Freed
<1> HIDE DEF u
<1>3. ASSUME NEW d \in set
      PROVE  "Suspended" \notin w.context[d].state /\ "Zombie" \notin w.context[d].state
  <2>1. /\ w.context[d].state \in SUBSET Flags /\ w.context[d].state = Normal(w.context[d].state)
    BY OfContext
  <2>2. w.context[d].state = {"Finished"}
    BY <2>1 DEF Normal
  <2> QED
    BY <2>2
<1>4. In(u, "Suspended") = In(w, "Suspended") /\ In(u, "Zombie") = In(w, "Zombie")
  BY <1>1, <1>2, <1>3 DEF In
<1>5. \A d \in Contexts : d \notin set => (Counts(w, d) => Counts(u, d))
  BY <1>2 DEF Counts
<1>6. ASSUME NEW d \in Contexts, u.context[d].active = TRUE PROVE Counts(u, d)
  <2>1. d \notin set
    BY <1>1, <1>2, <1>6
  <2>2. w.context[d].active = TRUE
    BY <1>2, <1>6, <2>1
  <2> QED
    BY <1>0, <1>5, <2>1, <2>2
<1>7. ASSUME NEW d \in Contexts, d \in E \ set PROVE FieldsOK(u.context[d])
  BY <1>0, <1>2, <1>7
<1>8. ASSUME NEW d \in Contexts, d \notin E \ set PROVE u.context[d] = Blank
  BY <1>0, <1>2, <1>8
<1>9. WorldOK(u, E \ set)
  BY <1>0, <1>2, <1>4, <1>6, <1>7, <1>8 DEF WorldOK
<1>10. ASSUME NEW d \in Contexts, Watched(w, d) PROVE Watched(u, d)
  <2>1. CASE d \in set
    <3>1. u.context[d].state \cap Waiting = {}
      BY <1>1, <1>2, <2>1
    <3> QED
      BY <3>1, NotWaiting
  <2>2. CASE d \notin set
    <3>1. u.context[d] = w.context[d]
      BY <1>2, <2>2
    <3>2. Counts(w, d) => Counts(u, d)
      BY <1>5, <2>2
    <3>3. \A x \in In(w, "Zombie") : x \in Contexts /\ x \notin set
      BY <1>3 DEF In
    <3>4. \A x \in In(u, "Zombie") : x \in In(w, "Zombie") /\ u.context[x].parent = w.context[x].parent
      BY <1>2, <1>4, <3>3
    <3> QED
      BY <1>10, <3>1, <3>2, <3>4, WatchLasts
  <2> QED
    BY <2>1, <2>2
<1> QED
  BY <1>2, <1>9, <1>10 DEF u

LEMMA EndOfRoundKeeps ==
    ASSUME Inv, EndOfRound
    PROVE  Inv'
<1> DEFINE finished == {c \in Range(contexts) : Is(World, c, "Finished")}
           left     == Without(contexts, finished)
           freed    == Freed(World, finished)
           u        == ProcessEvents(freed, left)
<1>1. /\ phase = "run" /\ contexts' = left /\ turn' = 1 /\ Becomes(u)
      /\ created' = created
  BY WorldIs DEF EndOfRound, Freed
<1>2. /\ WorldOK(World, Range(contexts)) /\ contexts \in Seq(Contexts)
      /\ Range(contexts) \in SUBSET Contexts
      /\ created \in 1 .. MaxContexts /\ Range(contexts) \subseteq 1 .. created
      /\ Len(contexts) <= created
      /\ force = FALSE => \A d \in Contexts : Watched(World, d)
  BY <1>1, InvRuns DEF Sizes
<1>3. finished \in SUBSET Contexts /\ \A c \in finished : "Finished" \in World.context[c].state
  BY <1>2 DEF Is
<1> HIDE DEF finished
<1>4. /\ left \in Seq(Contexts) /\ Range(left) = Range(contexts) \ finished
      /\ Len(left) <= Len(contexts)
  BY <1>2, WithoutFacts
<1> HIDE DEF left
<1>5. /\ WorldOK(freed, Range(left)) /\ freed.force = force
      /\ \A d \in Contexts : Watched(World, d) => Watched(freed, d)
  <2>1. /\ WorldOK(freed, Range(contexts) \ finished) /\ freed.force = World.force
        /\ \A d \in Contexts : Watched(World, d) => Watched(freed, d)
    BY <1>2, <1>3, FreedKeeps
  <2> HIDE DEF freed
  <2> QED
    BY <1>4, <2>1, WorldIs
<1> HIDE DEF freed
<1>6. /\ WorldOK(u, Range(left))
      /\ freed.force = TRUE /\ u.phase = "run" => \A c \in Contexts : Watched(u, c)
      /\ freed.force = FALSE => u = freed
  BY <1>4, <1>5, ProcessKeeps
<1> HIDE DEF u
<1>7. freed.force \in BOOLEAN
  BY <1>5 DEF WorldOK, Worlds
<1>8. Good(u)
  BY <1>2, <1>5, <1>6, <1>7 DEF Good
<1>9. Range(left) \in SUBSET Contexts
  BY <1>2, <1>4
<1>10. /\ \E E \in SUBSET Contexts : WorldOK(World', E) /\ (phase' = "run" => E = Range(left))
       /\ phase' = "run" /\ ~force' => \A d \in Contexts : Watched(World', d)
  BY <1>1, <1>6, <1>8, <1>9, BecomesKeeps
<1>11. Sizes'
  <2>1. Len(contexts) \in Nat /\ Len(left) \in Nat /\ MaxContexts \in Nat
    BY <1>2, <1>4, ContextAssumption
  <2> QED
    BY <1>1, <1>2, <1>4, <2>1 DEF Sizes
<1> QED
  BY <1>1, <1>10, <1>11 DEF Inv

\* The last context is gone.
LEMMA StopKeeps ==
    ASSUME Inv, Stop
    PROVE  Inv'
<1>1. /\ phase = "run" /\ phase' = "stopped"
      /\ UNCHANGED <<contexts, context, suspended, zombies, threads, force, ready, created, turn>>
  BY DEF Stop
<1>2. WorldOK(World, Range(contexts)) /\ Range(contexts) \in SUBSET Contexts /\ Sizes
  BY <1>1, InvRuns
<1>3. World' \in Worlds
  <2>1. World \in Worlds
    BY <1>2 DEF WorldOK
  <2> QED
    BY <1>1, <2>1 DEF World, Worlds, Phases
<1>4. Same(World, World')
  BY <1>1 DEF Same, World
<1>5. WorldOK(World', Range(contexts))
  BY <1>2, <1>3, <1>4, SameKeeps
<1>6. Sizes'
  BY <1>1, <1>2 DEF Sizes
<1> QED
  BY <1>1, <1>2, <1>5, <1>6 DEF Inv

\* Nothing that Inv speaks of changes.
LEMMA StutterKeeps ==
    ASSUME Inv, UNCHANGED vars
    PROVE  Inv'
<1>1. UNCHANGED <<contexts, context, suspended, zombies, threads, force, ready, created, turn, phase>>
  BY DEF vars
<1>2. World' = World
  BY <1>1 DEF World
<1>3. Sizes'
  BY <1>1 DEF Inv, Sizes
<1>4. PICK E \in SUBSET Contexts : WorldOK(World, E) /\ (phase = "run" => E = Range(contexts))
  BY DEF Inv
<1>5. WorldOK(World', E)
  BY <1>2, <1>4
<1>6. phase' = "run" /\ ~force' => \A c \in Contexts : Watched(World', c)
  BY <1>1, <1>2 DEF Inv
<1> QED
  BY <1>1, <1>3, <1>4, <1>5, <1>6 DEF Inv

\* A step outside the main thread.
LEMMA OutsideKeeps ==
    ASSUME Inv, phase = "run", NEW w, WorldOK(w, Range(contexts)), Good(w), Becomes(w),
           UNCHANGED <<contexts, created, turn>>
    PROVE  Inv'
<1>1. Range(contexts) \in SUBSET Contexts /\ Sizes
  BY InvRuns
<1>2. /\ \E E \in SUBSET Contexts : WorldOK(World', E) /\ (phase' = "run" => E = Range(contexts))
      /\ phase' = "run" /\ ~force' => \A c \in Contexts : Watched(World', c)
  BY <1>1, BecomesKeeps
<1>3. Sizes'
  BY <1>1 DEF Sizes
<1> QED
  BY <1>2, <1>3 DEF Inv

\* A world with other host threads.
Threaded(w, th) == [w EXCEPT !.threads = th]

LEMMA ThreadedKeeps ==
    ASSUME NEW E, NEW w, WorldOK(w, E), NEW th \in ThreadMaps,
           \A d \in Contexts : Counts(w, d) => Counts(Threaded(w, th), d)
    PROVE  /\ WorldOK(Threaded(w, th), E) /\ Threaded(w, th).force = w.force
           /\ \A d \in Contexts : Watched(w, d) => Watched(Threaded(w, th), d)
<1> DEFINE u == Threaded(w, th)
<1>0. /\ w \in Worlds /\ Range(w.suspended) = In(w, "Suspended") /\ Range(w.zombies) = In(w, "Zombie")
      /\ \A d \in Contexts : w.context[d].active = TRUE => Counts(w, d)
  BY DEF WorldOK
<1>1. /\ u \in Worlds /\ u.context = w.context /\ u.suspended = w.suspended /\ u.zombies = w.zombies
      /\ u.force = w.force
  BY <1>0 DEF Worlds, Threaded
<1>2. \A d \in Contexts : Counts(w, d) => Counts(u, d)
  OBVIOUS
<1> HIDE DEF u
<1>3. In(u, "Suspended") = In(w, "Suspended") /\ In(u, "Zombie") = In(w, "Zombie")
  BY <1>1 DEF In
<1>4. \A d \in Contexts : u.context[d].active = TRUE => Counts(u, d)
  BY <1>0, <1>1, <1>2
<1>5. WorldOK(u, E)
  BY <1>0, <1>1, <1>3, <1>4 DEF WorldOK
<1>6. ASSUME NEW d \in Contexts, Watched(w, d) PROVE Watched(u, d)
  <2>1. Counts(w, d) => Counts(u, d)
    BY <1>2
  <2>2. \A x \in In(u, "Zombie") : x \in In(w, "Zombie") /\ u.context[x].parent = w.context[x].parent
    BY <1>1, <1>3
  <2>3. u.context[d] = w.context[d]
    BY <1>1
  <2> QED
    BY <1>6, <2>1, <2>2, <2>3, WatchLasts
<1> QED
  BY <1>1, <1>5, <1>6 DEF u

\* A host thread that reads the state of its context, and goes on.
LEMMA GoesToKeeps ==
    ASSUME Inv, phase = "run", NEW t \in DOMAIN threads, NEW at \in {"sleep", "poll", "end"},
           GoesTo(t, at)
    PROVE  Inv'
<1>1. /\ WorldOK(World, Range(contexts)) /\ force \in BOOLEAN
      /\ force = FALSE => \A d \in Contexts : Watched(World, d)
  BY InvRuns
<1>2. UNCHANGED <<contexts, created, turn>>
  BY DEF GoesTo
<1>3. CASE ~ Exists(ThreadContext(t))
  <2> DEFINE u == Abort(World, "undefined")
  <2>1. Becomes(u)
    BY <1>3 DEF GoesTo
  <2>2. WorldOK(u, Range(contexts)) /\ u.phase = "undefined"
    BY <1>1, AbortKeeps DEF Phases
  <2> HIDE DEF u
  <2>3. Good(u)
    BY <2>2 DEF Good
  <2> QED
    BY <1>2, <2>1, <2>2, <2>3, OutsideKeeps
<1>4. CASE Exists(ThreadContext(t))
  <2> DEFINE e  == [threads[t] EXCEPT !.at = at]
             th == [threads EXCEPT ![t] = e]
             u  == Threaded(World, th)
  <2>1. Becomes(u)
    BY <1>4, WorldIs DEF GoesTo, Threaded
  <2>2. threads \in ThreadMaps
    BY <1>1, WorldIs DEF WorldOK, Worlds
  <2>3. DOMAIN threads \in SUBSET Threads /\ threads \in [DOMAIN threads -> ThreadFields]
    BY <2>2, ThreadFacts
  <2>4. e \in ThreadFields /\ e.context = threads[t].context /\ e.cancelled = threads[t].cancelled
    BY <2>3 DEF ThreadFields
  <2> HIDE DEF e
  <2>5. /\ th \in [DOMAIN threads -> ThreadFields]
        /\ \A x \in DOMAIN threads : /\ th[x].context = threads[x].context
                                     /\ th[x].cancelled = threads[x].cancelled
    BY <2>3, <2>4
  <2> HIDE DEF th
  <2>6. th \in ThreadMaps
    BY <2>3, <2>5, ThreadMap
  <2>7. u.context = World.context /\ u.threads = th
    <3>1. World \in Worlds
      BY <1>1 DEF WorldOK
    <3> QED
      BY <3>1 DEF Worlds, Threaded
  <2>8. \A d \in Contexts : Counts(World, d) => Counts(u, d)
    BY <2>5, <2>7, WorldIs DEF Counts
  <2>9. /\ WorldOK(u, Range(contexts)) /\ u.force = World.force
        /\ \A d \in Contexts : Watched(World, d) => Watched(u, d)
    BY <1>1, <2>6, <2>8, ThreadedKeeps
  <2> HIDE DEF u
  <2>10. Good(u)
    BY <1>1, <2>9, WorldIs DEF Good
  <2> QED
    BY <1>2, <2>1, <2>9, <2>10, OutsideKeeps
<1> QED
  BY <1>3, <1>4

LEMMA StartKeeps ==
    ASSUME Inv, NEW t, Start(t)
    PROVE  Inv'
<1> DEFINE at == CASE "Nanosleep" \in Waits(t) -> "sleep"
                   [] Waits(t) \cap {"Read", "Poll"} # {} -> "poll"
                   [] OTHER -> "end"
<1>1. phase = "run" /\ t \in DOMAIN threads /\ GoesTo(t, at)
  BY DEF Start, Thread
<1>2. at \in {"sleep", "poll", "end"}
  OBVIOUS
<1> QED
  BY <1>1, <1>2, GoesToKeeps

LEMMA SleepOverKeeps ==
    ASSUME Inv, NEW t, SleepOver(t)
    PROVE  Inv'
<1> DEFINE at == IF Waits(t) \cap {"Read", "Poll"} # {} THEN "poll" ELSE "end"
<1>1. phase = "run" /\ t \in DOMAIN threads /\ GoesTo(t, at)
  BY DEF SleepOver, Thread
<1>2. at \in {"sleep", "poll", "end"}
  OBVIOUS
<1> QED
  BY <1>1, <1>2, GoesToKeeps

LEMMA PollOverKeeps ==
    ASSUME Inv, NEW t, PollOver(t)
    PROVE  Inv'
<1>1. phase = "run" /\ t \in DOMAIN threads /\ GoesTo(t, "end")
  BY DEF PollOver, Thread
<1> QED
  BY <1>1, GoesToKeeps

\* A cancelled thread dies: nobody counted on it.
LEMMA DiesKeeps ==
    ASSUME Inv, NEW t, Dies(t)
    PROVE  Inv'
<1> DEFINE D  == DOMAIN threads \ {t}
           th == [x \in D |-> threads[x]]
           u  == Threaded(World, th)
<1>1. /\ phase = "run" /\ t \in DOMAIN threads /\ threads[t].cancelled /\ threads' = th
      /\ UNCHANGED <<contexts, context, suspended, zombies, force, ready, created, turn, phase>>
  BY DEF Dies
<1>2. /\ WorldOK(World, Range(contexts)) /\ force \in BOOLEAN
      /\ force = FALSE => \A d \in Contexts : Watched(World, d)
  BY <1>1, InvRuns
<1>3. threads \in ThreadMaps /\ World \in Worlds
  BY <1>2, WorldIs DEF WorldOK, Worlds
<1>4. D \in SUBSET Threads /\ th \in [D -> ThreadFields]
  BY <1>3, ThreadFacts
<1>5. th \in ThreadMaps
  BY <1>4, ThreadMap
<1>6. \A x \in DOMAIN threads : x # t => x \in DOMAIN th /\ th[x] = threads[x]
  OBVIOUS
<1> HIDE DEF th, D
<1>7. /\ u.context = World.context /\ u.suspended = World.suspended /\ u.zombies = World.zombies
      /\ u.threads = th /\ u.force = World.force /\ u.ready = World.ready /\ u.phase = World.phase
  BY <1>3 DEF Worlds, Threaded
<1>8. ASSUME NEW d \in Contexts, Counts(World, d) PROVE Counts(u, d)
  <2>1. /\ context[d].thread \in DOMAIN threads /\ threads[context[d].thread].context = d
        /\ threads[context[d].thread].cancelled = FALSE
    BY <1>8, WorldIs DEF Counts
  <2>2. context[d].thread # t
    BY <1>1, <2>1
  <2> QED
    BY <1>6, <1>7, <2>1, <2>2, WorldIs DEF Counts
<1>9. /\ WorldOK(u, Range(contexts)) /\ u.force = World.force
      /\ \A d \in Contexts : Watched(World, d) => Watched(u, d)
  BY <1>2, <1>5, <1>8, ThreadedKeeps
<1>10. Becomes(u)
  BY <1>1, <1>7, WorldIs DEF Becomes
<1> HIDE DEF u
<1>11. Good(u)
  BY <1>2, <1>9, WorldIs DEF Good
<1> QED
  BY <1>1, <1>9, <1>10, <1>11, OutsideKeeps

\* The last lines of a host thread: its context counts on it no more, nor on a
\* successor whose field it clears, and events are scheduled.
LEMMA EndsKeeps ==
    ASSUME Inv, NEW t, Ends(t)
    PROVE  Inv'
<1>1. phase = "run" /\ t \in DOMAIN threads /\ UNCHANGED <<contexts, created, turn>>
  BY DEF Ends, Thread
<1>2. WorldOK(World, Range(contexts))
  BY <1>1, InvRuns
<1>3. CASE ~ Exists(ThreadContext(t))
  <2> DEFINE u == Abort(World, "undefined")
  <2>1. Becomes(u)
    BY <1>3 DEF Ends
  <2>2. WorldOK(u, Range(contexts)) /\ u.phase = "undefined"
    BY <1>2, AbortKeeps DEF Phases
  <2> HIDE DEF u
  <2>3. Good(u)
    BY <2>2 DEF Good
  <2> QED
    BY <1>1, <2>1, <2>2, <2>3, OutsideKeeps
<1>4. CASE Exists(ThreadContext(t))
  <2> DEFINE c  == threads[t].context
             r  == [World.context[c] EXCEPT !.active = FALSE, !.thread = None]
             D  == DOMAIN threads \ {t}
             th == [x \in D |-> threads[x]]
             v  == With(World, c, r, th)
             u  == Schedule(v)
  <2>1. threads \in ThreadMaps /\ World \in Worlds
    BY <1>2, WorldIs DEF WorldOK, Worlds
  <2>2. D \in SUBSET Threads /\ th \in [D -> ThreadFields] /\ c \in Contexts
    BY <1>1, <2>1, ThreadFacts DEF ThreadFields
  <2>3. th \in ThreadMaps
    BY <2>2, ThreadMap
  <2>4. c \in Range(contexts)
    BY <1>4 DEF Exists, ThreadContext
  <2>5. LastLines(World, t) = u
    BY WorldIs DEF LastLines, With
  <2>6. Becomes(u)
    BY <1>4, <2>5 DEF Ends
  <2>7. World.context[c] \in Fields
    BY <1>2, <2>2, OfContext
  <2>8. r \in Fields /\ r.state = World.context[c].state /\ r.active = FALSE
    BY <2>7 DEF Fields
  <2>9. \A x \in DOMAIN threads : x # t => x \in DOMAIN th /\ th[x] = threads[x]
    OBVIOUS
  <2>10. threads[t].context = c
    OBVIOUS
  <2> HIDE DEF r, th, D, c
  <2>11. v.threads = th /\ \A d \in Contexts : d # c => v.context[d] = World.context[d]
    BY <2>1, <2>2, <2>3, <2>8, WithFacts
  <2>12. ASSUME NEW d \in Contexts, d # c, Counts(World, d) PROVE Counts(v, d)
    <3>1. /\ context[d].thread \in DOMAIN threads /\ threads[context[d].thread].context = d
          /\ threads[context[d].thread].cancelled = FALSE
      BY <2>12, WorldIs DEF Counts
    <3>2. context[d].thread # t
      BY <2>10, <2>12, <3>1
    <3>3. v.context[d] = context[d]
      BY <2>11, <2>12, WorldIs
    <3> QED
      BY <2>9, <2>11, <3>1, <3>2, <3>3 DEF Counts
  <2>13. WorldOK(v, Range(contexts))
    BY <1>2, <2>2, <2>3, <2>4, <2>8, <2>12, WithKeeps
  <2> HIDE DEF v
  <2>14. WorldOK(u, Range(contexts)) /\ u.force = TRUE
    BY <2>13, ScheduleKeeps
  <2> HIDE DEF u
  <2>15. Good(u)
    BY <2>14 DEF Good
  <2> QED
    BY <1>1, <2>6, <2>14, <2>15, OutsideKeeps
<1> QED
  BY <1>3, <1>4

\* Time passes: the host thread of the context will tell.
LEMMA ExpireKeeps ==
    ASSUME Inv, NEW c \in Contexts, Expire(c)
    PROVE  Inv'
<1> DEFINE q == World.context[c]
           r == [q EXCEPT !.expired = TRUE]
           u == Put(World, c, r)
<1>1. /\ phase = "run" /\ context[c].state \cap {"Nanosleep", "Poll"} # {}
      /\ context' = [context EXCEPT ![c] = r]
      /\ UNCHANGED <<contexts, suspended, zombies, threads, force, ready, created, turn, phase>>
  BY WorldIs DEF Expire
<1>2. /\ WorldOK(World, Range(contexts)) /\ force \in BOOLEAN
      /\ force = FALSE => \A d \in Contexts : Watched(World, d)
  BY <1>1, InvRuns
<1>3. World \in Worlds /\ q \in Fields /\ c \in Range(contexts)
  BY <1>1, <1>2, OfContext, WorldIs
<1>4. /\ r \in Fields /\ r.state = q.state /\ r.active = q.active /\ r.thread = q.thread
      /\ r.parent = q.parent /\ r.pid = q.pid /\ r.pending = q.pending /\ r.blocked = q.blocked
  BY <1>3 DEF Fields
<1>5. u.context = [World.context EXCEPT ![c] = r]
  BY <1>3 DEF Worlds, Put
<1> HIDE DEF r
<1>6. WorldOK(u, Range(contexts))
  BY <1>2, <1>3, <1>4, PutKeeps
<1>7. /\ u.context[c] = r /\ \A d \in Contexts : d # c => u.context[d] = World.context[d]
      /\ u.threads = World.threads /\ u.suspended = World.suspended
      /\ u.zombies = World.zombies /\ u.force = World.force
      /\ u.phase = World.phase /\ u.ready = World.ready
  BY <1>3, <1>4, PutFacts
<1>8. \A d \in Contexts : d # c /\ Watched(World, d) => Watched(u, d)
  BY <1>3, <1>4, PutWatches
<1>9. Becomes(u)
  BY <1>1, <1>5, <1>7, WorldIs DEF Becomes
<1> HIDE DEF u
<1>10. ASSUME Watched(World, c) PROVE Watched(u, c)
  <2>1. Counts(World, c) => Counts(u, c)
    BY <1>4, <1>7 DEF Counts
  <2>2. \A x \in In(u, "Zombie") : x \in In(World, "Zombie") /\ u.context[x].parent = World.context[x].parent
    BY <1>4, <1>7 DEF In
  <2>3. u.context[c].state \cap {"Nanosleep", "Read", "Poll"} # {} =>
            u.context[c].active = TRUE /\ Counts(u, c)
    BY <1>4, <1>7, <1>10, <2>1 DEF Watched
  <2>4. "Waitpid" \in u.context[c].state =>
            \A x \in In(u, "Zombie") : ~ (u.context[x].parent = c /\ u.context[c].pid \in {None, x})
    BY <1>4, <1>7, <1>10, <2>2 DEF Watched
  <2>5. "Sigsuspend" \in u.context[c].state => u.context[c].pending \ u.context[c].blocked = {}
    BY <1>4, <1>7, <1>10 DEF Watched
  <2> QED
    BY <2>3, <2>4, <2>5 DEF Watched
<1>11. Good(u)
  BY <1>2, <1>7, <1>8, <1>10, WorldIs DEF Good
<1> QED
  BY <1>1, <1>6, <1>9, <1>11, OutsideKeeps

LEMMA DataArrivesKeeps ==
    ASSUME Inv, DataArrives
    PROVE  Inv'
<1> DEFINE u == [World EXCEPT !.ready = ready + 1]
<1>1. /\ phase = "run" /\ ready < MaxReady /\ ready' = ready + 1
      /\ UNCHANGED <<contexts, context, suspended, zombies, threads, force, created, turn, phase>>
  BY DEF DataArrives
<1>2. /\ WorldOK(World, Range(contexts)) /\ force \in BOOLEAN
      /\ force = FALSE => \A d \in Contexts : Watched(World, d)
  BY <1>1, InvRuns
<1>3. World \in Worlds /\ ready \in 0 .. MaxReady
  BY <1>2, WorldIs DEF WorldOK, Worlds
<1>4. ready + 1 \in 0 .. MaxReady
  BY <1>1, <1>3, ContextAssumption
<1>5. u \in Worlds /\ Same(World, u) /\ u.force = force /\ u.ready = ready + 1 /\ u.phase = phase
  BY <1>3, <1>4, WorldIs DEF Worlds, Same
<1> HIDE DEF u
<1>6. WorldOK(u, Range(contexts)) /\ \A c \in Contexts : Watched(World, c) => Watched(u, c)
  BY <1>2, <1>5, SameKeeps
<1>7. Good(u)
  BY <1>2, <1>5, <1>6 DEF Good
<1>8. Becomes(u)
  BY <1>1, <1>5, WorldIs DEF Becomes, Same
<1> QED
  BY <1>1, <1>6, <1>7, <1>8, OutsideKeeps

---------------------------------------------------------------------------
(* The invariant, and what it says. *)

LEMMA InvInit == Init => Inv
<1> SUFFICES ASSUME Init PROVE Inv
  OBVIOUS
<1> DEFINE first == [Blank EXCEPT !.state = {"Running"}]
<1>1. /\ contexts = <<1>> /\ suspended = <<>> /\ zombies = <<>> /\ threads = <<>> /\ force = FALSE
      /\ ready = 0 /\ created = 1 /\ turn = 1 /\ phase = "run"
      /\ context = [c \in Contexts |-> IF c = 1 THEN first ELSE Blank]
  BY DEF Init
<1>2. /\ MaxContexts \in Nat /\ MaxContexts >= 1 /\ MaxReady \in Nat /\ 1 \in Contexts
  BY ContextAssumption DEF Contexts
<1>3. /\ first \in Fields /\ first.state = {"Running"} /\ first.active = FALSE
      /\ Blank \in Fields /\ Blank.state = {} /\ Blank.active = FALSE
  BY DEF Blank, Fields, Flags
<1>4. Range(contexts) = {1} /\ contexts \in Seq(Contexts) /\ Len(contexts) = 1
  BY <1>1, <1>2 DEF Range
<1> HIDE DEF first
<1>5. /\ context \in [Contexts -> Fields]
      /\ \A c \in Contexts : /\ context[c].active = FALSE
                             /\ context[c].state \in {{}, {"Running"}}
                             /\ c # 1 => context[c] = Blank
      /\ context[1].state = {"Running"}
  BY <1>1, <1>2, <1>3
<1>6. World \in Worlds
  <2>1. threads \in ThreadMaps
    <3>1. threads \in [{} -> ThreadFields]
      BY <1>1
    <3> QED
      BY <3>1, ThreadMap
  <2>2. suspended \in Seq(Contexts) /\ zombies \in Seq(Contexts)
    BY <1>1
  <2>3. ready \in 0 .. MaxReady
    BY <1>1, <1>2
  <2>4. force \in BOOLEAN
    BY <1>1
  <2>5. phase \in Phases
    BY <1>1 DEF Phases
  <2> QED
    BY <1>5, <2>1, <2>2, <2>3, <2>4, <2>5 DEF World, Worlds
<1>7. Range(suspended) = {} /\ Range(zombies) = {}
  BY <1>1 DEF Range
<1>8. In(World, "Suspended") = {} /\ In(World, "Zombie") = {}
  BY <1>5, WorldIs DEF In
<1>9. FieldsOK(context[1])
  BY <1>5 DEF FieldsOK, Normal, OneReason, Waiting
<1>10. WorldOK(World, {1})
  BY <1>2, <1>5, <1>6, <1>7, <1>8, <1>9, WorldIs DEF WorldOK
<1>11. ASSUME NEW c \in Contexts PROVE Watched(World, c)
  <2>1. World.context[c].state \cap Waiting = {}
    BY <1>5, WorldIs DEF Waiting
  <2> QED
    BY <2>1, NotWaiting
<1>12. Sizes
  BY <1>1, <1>2, <1>4 DEF Sizes
<1>13. {1} \in SUBSET Contexts
  BY <1>2
<1> QED
  BY <1>4, <1>10, <1>11, <1>12, <1>13 DEF Inv

LEMMA CallsKeep ==
    ASSUME Inv, NEW c \in Contexts, SystemCall(c)
    PROVE  Inv'
<1>1. CASE Exit(c)
  BY <1>1, ExitKeeps
<1>2. CASE ExitGroup(c)
  BY <1>2, ExitGroupKeeps
<1>3. CASE Nanosleep(c)
  BY <1>3, NanosleepKeeps
<1>4. CASE Read(c)
  BY <1>4, ReadKeeps
<1>5. CASE Poll(c)
  BY <1>5, PollKeeps
<1>6. CASE Sigreturn(c)
  BY <1>6, SigreturnKeeps
<1>7. CASE FutexWait(c)
  BY <1>7, FutexWaitKeeps
<1>8. CASE FutexWakeUp(c)
  BY <1>8, FutexWakeUpKeeps
<1>9. CASE Compute(c)
  BY <1>9, ComputeKeeps
<1>10. CASE Clone(c, TRUE) \/ Clone(c, FALSE)
  BY <1>10, CloneKeeps
<1>11. ASSUME NEW pid \in {None} \cup {x \in Range(contexts) : context[x].parent = c}, Waitpid(c, pid)
       PROVE  Inv'
  BY <1>11, WaitpidKeeps
<1>12. ASSUME NEW target \in Range(contexts), NEW sig \in Signals \ {SIGCHLD}, Kill(c, target, sig)
       PROVE  Inv'
  BY <1>12, KillKeeps
<1>13. ASSUME NEW set \in Masks, Sigprocmask(c, set) \/ Sigsuspend(c, set)
       PROVE  Inv'
  BY <1>13, SigprocmaskKeeps, SigsuspendKeeps
<1> QED
  BY <1>1, <1>2, <1>3, <1>4, <1>5, <1>6, <1>7, <1>8, <1>9, <1>10, <1>11, <1>12, <1>13 DEF SystemCall

LEMMA InvStep == Inv /\ [Next]_vars => Inv'
<1> SUFFICES ASSUME Inv, [Next]_vars PROVE Inv'
  OBVIOUS
<1>1. CASE MainThread
  <2>1. CASE \E c \in Contexts : SystemCall(c)
    BY <2>1, CallsKeep
  <2>2. CASE EndOfRound
    BY <2>2, EndOfRoundKeeps
  <2>3. CASE Stop
    BY <2>3, StopKeeps
  <2> QED
    BY <1>1, <2>1, <2>2, <2>3 DEF MainThread
<1>2. ASSUME NEW t \in Threads, HostThread(t) PROVE Inv'
  BY <1>2, StartKeeps, SleepOverKeeps, PollOverKeeps, DiesKeeps, EndsKeeps DEF HostThread
<1>3. ASSUME NEW c \in Contexts, Expire(c) PROVE Inv'
  BY <1>3, ExpireKeeps
<1>4. CASE DataArrives
  BY <1>4, DataArrivesKeeps
<1>5. CASE UNCHANGED vars
  BY <1>5, StutterKeeps
<1> QED
  BY <1>1, <1>2, <1>3, <1>4, <1>5 DEF Next

LEMMA InvTypes == Inv => TypeOK
<1> SUFFICES ASSUME Inv PROVE TypeOK
  OBVIOUS
<1>1. PICK E \in SUBSET Contexts : WorldOK(World, E)
  BY DEF Inv
<1>2. /\ context \in [Contexts -> Fields] /\ threads \in ThreadMaps /\ force \in BOOLEAN
      /\ ready \in 0 .. MaxReady /\ phase \in Phases
  BY <1>1, WorldIs DEF WorldOK, Worlds
<1>3. ASSUME NEW c \in Contexts
      PROVE  /\ context[c].state = Normal(context[c].state) \/ context[c] = Blank
             /\ context[c].pending \subseteq Signals
             /\ context[c].thread \in {None} \cup Threads
  <2>1. context[c] = Blank \/ FieldsOK(context[c])
    BY <1>1, WorldIs DEF WorldOK
  <2>2. context[c].state = Normal(context[c].state) \/ context[c] = Blank
    BY <2>1 DEF FieldsOK
  <2>3. context[c].pending \subseteq Signals /\ context[c].thread \in {None} \cup Threads
    BY <1>2 DEF Fields
  <2> QED
    BY <2>2, <2>3
<1>4. Range(suspended) = {c \in Contexts : "Suspended" \in context[c].state}
  BY <1>1, WorldIs DEF WorldOK, In
<1>5. Range(zombies) = {c \in Contexts : "Zombie" \in context[c].state}
  BY <1>1, WorldIs DEF WorldOK, In
<1>6. DOMAIN threads \subseteq Threads
  BY <1>2, ThreadFacts
<1>7. Range(contexts) \subseteq 1 .. created /\ turn \in 1 .. MaxContexts + 1
  BY DEF Inv, Sizes
<1>8. phase \in {"run", "stopped", "aborted", "undefined", "bound"}
  BY <1>2 DEF Phases
<1> QED
  BY <1>2, <1>3, <1>4, <1>5, <1>6, <1>7, <1>8 DEF TypeOK

\* Counts is CanCount for a context whose thread is active.
LEMMA CountsOn ==
    ASSUME NEW c, context[c].active = TRUE, Counts(World, c)
    PROVE  CanCount(c)
BY WorldIs DEF Counts, CanCount

LEMMA InvCounts == Inv => CancelFindsItsThread
<1> SUFFICES ASSUME Inv, NEW c \in Contexts, context[c].active PROVE CanCount(c)
  BY DEF CancelFindsItsThread
<1>1. PICK E \in SUBSET Contexts : WorldOK(World, E)
  BY DEF Inv
<1>2. context[c].active \in BOOLEAN
  BY <1>1, OfContext, WorldIs DEF Fields
<1>3. context[c].active = TRUE
  BY <1>2
<1>4. Counts(World, c)
  BY <1>1, <1>3, WorldIs DEF WorldOK
<1> QED
  BY <1>3, <1>4, CountsOn

LEMMA InvWatches == Inv => NoLostWakeup
<1> SUFFICES ASSUME Inv, phase = "run", ~force, NEW c \in Range(suspended)
             PROVE  /\ context[c].state \cap {"Nanosleep", "Read", "Poll"} # {} => CanCount(c)
                    /\ "Waitpid" \in context[c].state => ZombiesOf(World, c, context[c].pid) = {}
                    /\ "Sigsuspend" \in context[c].state => Unblocked(World, c) = {}
  BY DEF NoLostWakeup
<1>1. WorldOK(World, Range(contexts))
  BY InvRuns
<1>2. Range(suspended) = In(World, "Suspended") /\ Range(zombies) = In(World, "Zombie")
  BY <1>1, WorldIs DEF WorldOK
<1>3. c \in Contexts
  BY <1>2 DEF In
<1>4. Watched(World, c)
  BY <1>3 DEF Inv
<1>5. context[c].state \cap {"Nanosleep", "Read", "Poll"} # {} => CanCount(c)
  BY <1>4, CountsOn, WorldIs DEF Watched
<1>6. "Waitpid" \in context[c].state => ZombiesOf(World, c, context[c].pid) = {}
  BY <1>2, <1>4, WorldIs DEF Watched, ZombiesOf
<1>7. "Sigsuspend" \in context[c].state => Unblocked(World, c) = {}
  BY <1>4, WorldIs DEF Watched, Unblocked
<1> QED
  BY <1>5, <1>6, <1>7

---------------------------------------------------------------------------
(* Theorems. *)

\* For any numbers of contexts, host threads, calls and signals: the lists
\* suspended_contexts and zombie_contexts hold the contexts in those states, and
\* host_thread_suspend_active tells of a thread that is alive, was launched for this
\* context and was not cancelled, so that the pthread_cancel of
\* Context::HostThreadSuspendCancel finds it.
THEOREM ContextsHostThreads == Spec => []HostThreadsAreFound
<1>1. Init => Inv
  BY InvInit
<1>2. Inv /\ [Next]_vars => Inv'
  BY InvStep
<1>3. Inv => HostThreadsAreFound
  BY InvTypes, InvCounts DEF HostThreadsAreFound
<1> QED
  BY <1>1, <1>2, <1>3, PTL DEF Spec

\* For any numbers of contexts, host threads, calls and signals: when no call of
\* Emulator::ProcessEvents is due, every context suspended in nanosleep, read or poll has
\* a live host thread that will schedule one, no child that a waitpid waits for is a
\* zombie, and no unblocked signal of a sigsuspend is pending.
THEOREM ContextsNoLostWakeup == Spec => []NoLostWakeup
<1>1. Init => Inv
  BY InvInit
<1>2. Inv /\ [Next]_vars => Inv'
  BY InvStep
<1>3. Inv => NoLostWakeup
  BY InvWatches
<1> QED
  BY <1>1, <1>2, <1>3, PTL DEF Spec
=============================================================================
