-------------------------- MODULE Takeover_proofs ---------------------------
(***************************************************************************)
(* Proofs about FutureWorkers, GoalContracts and Takeover, for any         *)
(* workers, callers, goal messages, interactions and bounds.               *)
(*                                                                         *)
(* The specification checked by TLC lets workers and goal messages pause   *)
(* for each other; nothing here depends on that: the theorems are about    *)
(* AnySpec, where they interleave freely, and Spec implies it.             *)
(***************************************************************************)
EXTENDS Takeover, WellFoundedInduction, TLAPS

AnyNext == WorkerSteps \/ GoalSteps \/ OtherSteps
AnySpec == Init /\ [][AnyNext]_vars

Events == Lifecycle \cup {"transition_rejected"}

(***************************************************************************)
(* The latest of some events.                                              *)
(***************************************************************************)
Below == {ss \in Nat \X Nat : ss[1] < ss[2]}

LEMMA LeastNumber ==
    ASSUME NEW S \in SUBSET Nat, S # {}
    PROVE  \E n \in S : \A m \in S : n <= m
<1>1. IsWellFoundedOn(Below, Nat)
  BY NatLessThanWellFounded DEF OpToRel, Below
<1>2. PICK n \in S : \A m \in S : <<m, n>> \notin Below
  BY <1>1, WFMin
<1>3. \A m \in S : ~(m < n)
  <2> SUFFICES ASSUME NEW m \in S, m < n PROVE FALSE
    OBVIOUS
  <2>1. <<m, n>> \in Nat \X Nat /\ <<m, n>>[1] = m /\ <<m, n>>[2] = n
    OBVIOUS
  <2> QED BY <1>2, <2>1 DEF Below
<1> QED BY <1>3

LEMMA LatestExists ==
    ASSUME NEW B \in Nat, NEW S \in SUBSET (0 .. B), S # {}
    PROVE  Max(S) \in S /\ \A m \in S : m <= Max(S)
<1> DEFINE T == {B - n : n \in S}
<1>1. T \in SUBSET Nat /\ T # {}
  <2>1. \A n \in S : B - n \in Nat
    OBVIOUS
  <2> QED BY <2>1
<1> HIDE DEF T
<1>2. PICK t \in T : \A m \in T : t <= m
  BY <1>1, LeastNumber
<1>3. PICK n \in S : t = B - n
  BY DEF T
<1>4. \A m \in S : B - n <= B - m
  BY <1>2, <1>3 DEF T
<1>5. \A m \in S : n >= m
  BY <1>4
<1>6. \E x \in S : \A y \in S : x >= y
  BY <1>5
<1> QED BY <1>6 DEF Max

Stands(log, i) == log[i] # "transition_rejected"

LEMMA LatestIs ==
    ASSUME NEW log \in Seq(Events), NEW n \in Nat
    PROVE  /\ LatestUpTo(log, n) \in 0..n
           /\ LatestUpTo(log, n) > 0 => Stands(log, LatestUpTo(log, n))
           /\ \A i \in 1..n : Stands(log, i) => i <= LatestUpTo(log, n)
<1> DEFINE S == {0} \cup {i \in 1..n : log[i] # "transition_rejected"}
<1>1. S \in SUBSET (0..n) /\ S # {}
  OBVIOUS
<1>2. Max(S) \in S /\ \A m \in S : m <= Max(S)
  BY <1>1, LatestExists
<1>3. LatestUpTo(log, n) = Max(S)
  BY DEF LatestUpTo
<1> HIDE DEF S
<1>4. \A i : i \in S <=> i = 0 \/ (i \in 1..n /\ log[i] # "transition_rejected")
  BY DEF S
<1> QED BY <1>2, <1>3, <1>4 DEF Stands

\* A later event changes nothing about the state before it.
LEMMA PastStays ==
    ASSUME NEW log \in Seq(Events), NEW e \in Events, NEW n \in 0..Len(log)
    PROVE  /\ LatestUpTo(Append(log, e), n) = LatestUpTo(log, n)
           /\ StateAsOf(Append(log, e), n) = StateAsOf(log, n)
<1>1. \A i \in 1..n : Append(log, e)[i] = log[i]
  OBVIOUS
<1>2. {i \in 1..n : Append(log, e)[i] # "transition_rejected"}
        = {i \in 1..n : log[i] # "transition_rejected"}
  BY <1>1
<1>3. LatestUpTo(Append(log, e), n) = LatestUpTo(log, n)
  BY <1>2 DEF LatestUpTo
<1>4. LatestUpTo(log, n) \in 0..n
  BY LatestIs
<1> QED BY <1>1, <1>3, <1>4 DEF StateAsOf

LEMMA AppendRefusal ==
    ASSUME NEW log \in Seq(Events)
    PROVE  /\ Latest(Append(log, "transition_rejected")) = Latest(log)
           /\ CurrentState(Append(log, "transition_rejected")) = CurrentState(log)
<1> DEFINE new == Append(log, "transition_rejected")
<1>1. new \in Seq(Events) /\ Len(new) = Len(log) + 1 /\ new[Len(new)] = "transition_rejected"
      /\ \A i \in 1..Len(log) : new[i] = log[i]
  BY DEF Events
<1> HIDE DEF new
<1>2. {i \in 1..Len(new) : new[i] # "transition_rejected"}
        = {i \in 1..Len(log) : log[i] # "transition_rejected"}
  <2>1. Len(log) \in Nat
    OBVIOUS
  <2>2. 1..Len(new) = 1..Len(log) \cup {Len(new)}
    BY <1>1, <2>1
  <2> QED BY <1>1, <2>2
<1>3. Latest(new) = Latest(log)
  BY <1>2 DEF Latest, LatestUpTo
<1>4. Latest(log) \in 0..Len(log)
  BY LatestIs DEF Latest
<1>5. Latest(log) > 0 => new[Latest(log)] = log[Latest(log)]
  BY <1>1, <1>4
<1>6. CurrentState(new) = CurrentState(log)
  BY <1>3, <1>4, <1>5 DEF CurrentState, StateAsOf, Latest
<1> QED BY <1>3, <1>6 DEF new

LEMMA AppendTransition ==
    ASSUME NEW log \in Seq(Events), NEW e \in Lifecycle
    PROVE  /\ Latest(Append(log, e)) = Len(log) + 1
           /\ CurrentState(Append(log, e)) = StateAfter(e)
<1>1. e # "transition_rejected"
  BY DEF Lifecycle, Repeatable, Terminal
<1> DEFINE new == Append(log, e)
<1>2. new \in Seq(Events) /\ Len(new) = Len(log) + 1 /\ new[Len(log) + 1] = e /\ Len(log) \in Nat
  BY DEF Events
<1> HIDE DEF new
<1>3. /\ Latest(new) \in 0..Len(new)
      /\ \A i \in 1..Len(new) : Stands(new, i) => i <= Latest(new)
  BY <1>2, LatestIs DEF Latest
<1>4. Latest(new) = Len(log) + 1
  BY <1>1, <1>2, <1>3 DEF Stands
<1>5. CurrentState(new) = StateAfter(e)
  BY <1>2, <1>4 DEF CurrentState, StateAsOf, Latest
<1> QED BY <1>4, <1>5 DEF new

(***************************************************************************)
(* The life cycle of a worker.                                             *)
(***************************************************************************)
LogTypeOK ==
    /\ wlog \in [Workers -> Seq(Events)]
    /\ call \in [Callers -> [worker : Workers, event : Lifecycle, seen : Nat] \cup {NoCall}]
    /\ overlapped \subseteq Workers

\* LifecycleInOrder, for one worker.
Orderly(w) ==
    \A j \in 1..Len(wlog[w]) :
        wlog[w][j] # "transition_rejected" =>
            /\ wlog[w][j] \in Allowed(StateAsOf(wlog[w], j - 1))
            /\ \A i \in 1..(j - 1) : wlog[w][i] \notin Terminal
            /\ wlog[w][j] = "completed" => \E i \in 1..(j - 1) : wlog[w][i] = "started"

\* What a caller was allowed still is, unless a transition was written since.
CallFits(c) ==
    call[c] # NoCall =>
        /\ call[c].seen <= Len(wlog[call[c].worker])
        /\ call[c].seen = Latest(wlog[call[c].worker]) =>
               /\ Admits(call[c].worker, call[c].event)
               /\ call[c].event = "completed" => Started(call[c].worker)

WorkersInv ==
    /\ LogTypeOK
    /\ \A w \in Workers \ overlapped : Orderly(w)
    /\ \A c \in Callers : CallFits(c)

Ended(w) == CurrentState(wlog[w]) \in Terminal

\* A worker that has ended has ended for ever.
EndsStay == \A w \in Workers \ overlapped' : Ended(w) => Ended(w)'

Appends(w, e) == wlog' = [wlog EXCEPT ![w] = Append(@, e)]

LEMMA NothingAfterTheEnd == \A s \in Terminal : Allowed(s) = {} /\ StateAfter(s) = s
  BY DEF Terminal, Allowed, StateAfter, Repeatable

LEMMA LogAppends ==
    ASSUME LogTypeOK, NEW w \in Workers, NEW e \in Events, Appends(w, e)
    PROVE  /\ wlog' \in [Workers -> Seq(Events)]
           /\ wlog[w] \in Seq(Events) /\ wlog'[w] = Append(wlog[w], e)
           /\ \A v \in Workers \ {w} : wlog'[v] = wlog[v]
<1>1. wlog[w] \in Seq(Events) /\ Append(wlog[w], e) \in Seq(Events)
  BY DEF LogTypeOK
<1> QED BY <1>1 DEF LogTypeOK, Appends

\* An event that the table allows keeps the log in order.
LEMMA OrderlyAppend ==
    ASSUME LogTypeOK, NEW w \in Workers, NEW e \in Events, Appends(w, e), Orderly(w),
           e # "transition_rejected" =>
               e \in Allowed(CurrentState(wlog[w])) /\ (e = "completed" => Started(w))
    PROVE  Orderly(w)'
<1>1. PICK log \in Seq(Events) : log = wlog[w] /\ wlog'[w] = Append(log, e)
  BY LogAppends
<1>2. PICK n \in Nat : n = Len(log)
  BY <1>1
<1>3. Len(wlog'[w]) = n + 1 /\ wlog'[w][n + 1] = e /\ \A i \in 1..n : wlog'[w][i] = log[i]
  BY <1>1, <1>2
<1>4. \A j \in 1..(n + 1) : StateAsOf(wlog'[w], j - 1) = StateAsOf(log, j - 1)
  <2> SUFFICES ASSUME NEW j \in 1..(n + 1)
               PROVE  StateAsOf(wlog'[w], j - 1) = StateAsOf(log, j - 1)
    OBVIOUS
  <2>1. j - 1 \in 0..Len(log)
    BY <1>2
  <2> QED BY <1>1, <2>1, PastStays
<1>5. ASSUME NEW j \in 1..n, wlog'[w][j] # "transition_rejected"
      PROVE  /\ wlog'[w][j] \in Allowed(StateAsOf(wlog'[w], j - 1))
             /\ \A i \in 1..(j - 1) : wlog'[w][i] \notin Terminal
             /\ wlog'[w][j] = "completed" => \E i \in 1..(j - 1) : wlog'[w][i] = "started"
  <2>1. wlog'[w][j] = log[j] /\ \A i \in 1..(j - 1) : wlog'[w][i] = log[i]
    BY <1>3, <1>5
  <2>2. /\ log[j] \in Allowed(StateAsOf(log, j - 1))
        /\ \A i \in 1..(j - 1) : log[i] \notin Terminal
        /\ log[j] = "completed" => \E i \in 1..(j - 1) : log[i] = "started"
    BY <1>1, <1>2, <1>5, <2>1 DEF Orderly
  <2>3. StateAsOf(wlog'[w], j - 1) = StateAsOf(log, j - 1)
    BY <1>4, <1>5
  <2> QED BY <2>1, <2>2, <2>3
<1>6. ASSUME e # "transition_rejected"
      PROVE  /\ e \in Allowed(StateAsOf(wlog'[w], n))
             /\ \A i \in 1..n : wlog'[w][i] \notin Terminal
             /\ e = "completed" => \E i \in 1..n : wlog'[w][i] = "started"
  <2>1. StateAsOf(wlog'[w], n) = CurrentState(log)
    <3>1. n + 1 \in 1..(n + 1) /\ (n + 1) - 1 = n
      OBVIOUS
    <3> QED BY <1>2, <1>4, <3>1 DEF CurrentState
  <2>2. PICK l \in 0..n : /\ l = LatestUpTo(log, n)
                          /\ l > 0 => Stands(log, l)
                          /\ \A i \in 1..n : Stands(log, i) => i <= l
    BY <1>2, LatestIs
  <2>3. ASSUME NEW i \in 1..n, log[i] \in Terminal PROVE FALSE
    <3>1. Stands(log, i)
      BY <2>3 DEF Stands, Terminal
    <3>2. i <= l /\ l \in 1..n /\ Stands(log, l)
      BY <2>2, <2>3, <3>1
    <3>3. i = l
      <4>1. i < l => log[i] \notin Terminal
        BY <1>1, <1>2, <3>2 DEF Orderly, Stands
      <4> QED BY <2>3, <3>2, <4>1
    <3>4. CurrentState(log) = StateAfter(log[i])
      BY <1>2, <2>2, <3>2, <3>3 DEF CurrentState, StateAsOf
    <3>5. Allowed(CurrentState(log)) = {}
      BY <2>3, <3>4, NothingAfterTheEnd
    <3> QED BY <1>1, <1>6, <3>5
  <2>4. e = "completed" => \E i \in 1..n : log[i] = "started"
    BY <1>1, <1>2, <1>6 DEF Started, Contains
  <2> QED BY <1>1, <1>3, <1>6, <2>1, <2>3, <2>4
<1>7. ASSUME NEW j \in 1..Len(wlog'[w]), wlog'[w][j] # "transition_rejected"
      PROVE  /\ wlog'[w][j] \in Allowed(StateAsOf(wlog'[w], j - 1))
             /\ \A i \in 1..(j - 1) : wlog'[w][i] \notin Terminal
             /\ wlog'[w][j] = "completed" => \E i \in 1..(j - 1) : wlog'[w][i] = "started"
  <2>1. j \in 1..n \/ (j = n + 1 /\ j - 1 = n)
    BY <1>3, <1>7
  <2>2. CASE j \in 1..n
    BY <1>5, <1>7, <2>2
  <2>3. CASE j = n + 1 /\ j - 1 = n
    <3>1. wlog'[w][j] = e
      BY <1>3, <2>3
    <3>2. e # "transition_rejected"
      BY <1>7, <3>1
    <3> QED BY <1>6, <2>3, <3>1, <3>2
  <2> QED BY <2>1, <2>2, <2>3
<1> QED BY <1>7 DEF Orderly
\* Refusals and transitions of other workers do not touch what c was allowed; and
\* a transition of its own worker makes its reading an old one.
LEMMA CallStays ==
    ASSUME LogTypeOK, LogTypeOK', NEW c \in Callers, CallFits(c), call'[c] = call[c],
           NEW w \in Workers, NEW e \in Events, Appends(w, e)
    PROVE  CallFits(c)'
<1> SUFFICES ASSUME call[c] # NoCall PROVE CallFits(c)'
  BY DEF CallFits
<1>1. PICK k \in [worker : Workers, event : Lifecycle, seen : Nat] : k = call[c]
  BY DEF LogTypeOK
<1>2. PICK v \in Workers : v = k.worker
  BY <1>1
<1>3. /\ k.seen <= Len(wlog[v])
      /\ k.seen = Latest(wlog[v]) =>
             Admits(v, k.event) /\ (k.event = "completed" => Started(v))
  BY <1>1, <1>2 DEF CallFits
<1>4. wlog[v] \in Seq(Events) /\ k.seen \in Nat
  BY <1>1 DEF LogTypeOK
<1>5. /\ k.seen <= Len(wlog'[v])
      /\ k.seen = Latest(wlog'[v]) =>
             Admits(v, k.event)' /\ (k.event = "completed" => Started(v)')
  <2>1. CASE v # w
    <3>1. wlog'[v] = wlog[v]
      BY <2>1, LogAppends
    <3> QED BY <1>3, <3>1 DEF Admits, Started
  <2>2. CASE v = w /\ e = "transition_rejected"
    <3>1. wlog'[v] = Append(wlog[v], "transition_rejected")
      BY <2>2, LogAppends
    <3>2. /\ Latest(wlog'[v]) = Latest(wlog[v])
          /\ CurrentState(wlog'[v]) = CurrentState(wlog[v])
      BY <1>4, <3>1, AppendRefusal
    <3>3. Started(v) => Started(v)'
      BY <1>4, <3>1 DEF Started, Contains
    <3>4. Admits(v, k.event) => Admits(v, k.event)'
      BY <3>2 DEF Admits
    <3>5. k.seen <= Len(wlog'[v])
      BY <1>3, <1>4, <3>1
    <3> QED BY <1>3, <3>2, <3>3, <3>4, <3>5
  <2>3. CASE v = w /\ e # "transition_rejected"
    <3>1. wlog'[v] = Append(wlog[v], e) /\ e \in Lifecycle
      BY <2>3, LogAppends DEF Events
    <3>2. Latest(wlog'[v]) = Len(wlog[v]) + 1
      BY <1>4, <3>1, AppendTransition
    <3> QED BY <1>3, <1>4, <3>1, <3>2
  <2> QED BY <2>1, <2>2, <2>3
<1>6. call'[c] = k
  BY <1>1
<1> QED BY <1>2, <1>5, <1>6 DEF CallFits

\* A check reads the log: a caller is allowed what the table allows now.
LEMMA AdmitKeeps ==
    ASSUME WorkersInv, NEW c \in Callers, NEW w \in Workers, NEW e \in Lifecycle, Admit(c, w, e)
    PROVE  /\ WorkersInv' /\ UNCHANGED <<wlog, overlapped>>
           /\ call'[c] = [worker |-> w, event |-> e, seen |-> Latest(wlog[w])]
           /\ \A d \in Callers \ {c} : call'[d] = call[d]
<1>1. /\ Admits(w, e) /\ (e = "completed" => Started(w)) /\ UNCHANGED <<wlog, overlapped>>
      /\ call' = [call EXCEPT ![c] = [worker |-> w, event |-> e, seen |-> Latest(wlog[w])]]
  BY DEF Admit
<1>2. PICK n \in Nat : n = Latest(wlog[w]) /\ n <= Len(wlog[w])
  <2>1. wlog[w] \in Seq(Events)
    BY DEF WorkersInv, LogTypeOK
  <2>2. Latest(wlog[w]) \in 0..Len(wlog[w]) /\ Len(wlog[w]) \in Nat
    BY <2>1, LatestIs DEF Latest
  <2> QED BY <2>2
<1>3. PICK k \in [worker : Workers, event : Lifecycle, seen : Nat] :
          k = [worker |-> w, event |-> e, seen |-> n]
  OBVIOUS
<1>4. /\ call' = [call EXCEPT ![c] = k] /\ call'[c] = k
      /\ \A d \in Callers \ {c} : call'[d] = call[d]
  BY <1>1, <1>2, <1>3 DEF WorkersInv, LogTypeOK
<1>5. LogTypeOK'
  BY <1>1, <1>4 DEF WorkersInv, LogTypeOK
<1>6. \A v \in Workers \ overlapped' : Orderly(v)'
  BY <1>1 DEF WorkersInv, Orderly
<1>7. CallFits(c)'
  BY <1>1, <1>2, <1>3, <1>4 DEF CallFits, Admits, Started
<1>8. ASSUME NEW d \in Callers, d # c PROVE CallFits(d)'
  BY <1>1, <1>4, <1>8 DEF WorkersInv, CallFits, Admits, Started
<1> QED BY <1>1, <1>2, <1>3, <1>4, <1>5, <1>6, <1>7, <1>8 DEF WorkersInv

LEMMA RefuseKeeps ==
    ASSUME WorkersInv, NEW c \in Callers, NEW w \in Workers, NEW e \in Lifecycle, Refuse(c, w, e)
    PROVE  WorkersInv' /\ UNCHANGED <<call, overlapped>> /\ EndsStay
<1>1. /\ UNCHANGED <<call, overlapped>>
      /\ wlog' = wlog \/ Appends(w, "transition_rejected")
  BY DEF Refuse, Appends
<1>2. CASE wlog' = wlog
  BY <1>1, <1>2 DEF WorkersInv, LogTypeOK, Orderly, CallFits, Admits, Started, EndsStay, Ended
<1>3. CASE Appends(w, "transition_rejected")
  <2>1. LogTypeOK /\ "transition_rejected" \in Events
    BY DEF WorkersInv, Events
  <2>2. LogTypeOK'
    BY <1>1, <1>3, <2>1, LogAppends DEF LogTypeOK
  <2>3. ASSUME NEW d \in Callers PROVE CallFits(d)'
    BY <1>1, <1>3, <2>1, <2>2, CallStays DEF WorkersInv
  <2>4. ASSUME NEW v \in Workers \ overlapped' PROVE Orderly(v)'
    <3>1. Orderly(v)
      BY <1>1 DEF WorkersInv
    <3>2. CASE v = w
      BY <1>3, <2>1, <3>1, <3>2, OrderlyAppend
    <3>3. CASE v # w
      <4>1. wlog'[v] = wlog[v]
        BY <1>3, <2>1, <3>3, LogAppends
      <4> QED BY <3>1, <4>1 DEF Orderly
    <3> QED BY <3>2, <3>3
  <2>5. EndsStay
    <3>1. wlog[w] \in Seq(Events) /\ wlog'[w] = Append(wlog[w], "transition_rejected")
          /\ \A v \in Workers \ {w} : wlog'[v] = wlog[v]
      BY <1>3, <2>1, LogAppends
    <3>2. CurrentState(wlog'[w]) = CurrentState(wlog[w])
      BY <3>1, AppendRefusal
    <3> QED BY <3>1, <3>2 DEF EndsStay, Ended
  <2> QED BY <1>1, <2>2, <2>3, <2>4, <2>5 DEF WorkersInv
<1> QED BY <1>1, <1>2, <1>3

\* An event is written: it was allowed, or its worker is set apart.
LEMMA WriteKeeps ==
    ASSUME WorkersInv, NEW c \in Callers, WriteEvent(c)
    PROVE  /\ WorkersInv' /\ EndsStay /\ overlapped \subseteq overlapped'
           /\ call' = [call EXCEPT ![c] = NoCall]
           /\ wlog' = wlog \/ Appends(call[c].worker, call[c].event)
           /\ WriteConflicts(c) \/ Appends(call[c].worker, call[c].event)
<1>1. LogTypeOK
  BY DEF WorkersInv
<1>2. PICK k \in [worker : Workers, event : Lifecycle, seen : Nat] : k = call[c]
  BY <1>1 DEF LogTypeOK, WriteEvent
<1>3. PICK w \in Workers : w = k.worker
  BY <1>2
<1>4. PICK e \in Lifecycle : e = k.event
  BY <1>2
<1>5. /\ call[c] # NoCall /\ call' = [call EXCEPT ![c] = NoCall]
      /\ \/ WriteConflicts(c) /\ UNCHANGED <<wlog, overlapped>>
         \/ /\ Appends(w, e)
            /\ overlapped' = IF Latest(wlog[w]) = k.seen THEN overlapped ELSE overlapped \cup {w}
  BY <1>2, <1>3, <1>4 DEF WriteEvent, Appends
<1>6. call' \in [Callers -> [worker : Workers, event : Lifecycle, seen : Nat] \cup {NoCall}]
      /\ call'[c] = NoCall /\ \A d \in Callers \ {c} : call'[d] = call[d]
  BY <1>1, <1>5 DEF LogTypeOK
<1>7. CallFits(c)'
  BY <1>6 DEF CallFits
<1>8. CASE UNCHANGED <<wlog, overlapped>>
  <2>1. LogTypeOK'
    BY <1>1, <1>6, <1>8 DEF LogTypeOK
  <2>2. ASSUME NEW d \in Callers, d # c PROVE CallFits(d)'
    BY <1>6, <1>8, <2>2 DEF WorkersInv, CallFits, Admits, Started
  <2>3. \A v \in Workers \ overlapped' : Orderly(v)'
    BY <1>8 DEF WorkersInv, Orderly
  <2>4. EndsStay
    BY <1>8 DEF EndsStay, Ended
  <2>5. WriteConflicts(c) \/ Appends(call[c].worker, call[c].event)
    BY <1>2, <1>3, <1>4, <1>5
  <2>6. WorkersInv'
    BY <1>7, <2>1, <2>2, <2>3 DEF WorkersInv
  <2> QED BY <1>5, <1>8, <2>4, <2>5, <2>6
<1>9. CASE /\ Appends(w, e)
           /\ overlapped' = IF Latest(wlog[w]) = k.seen THEN overlapped ELSE overlapped \cup {w}
  <2>1. e \in Events /\ overlapped \subseteq overlapped' /\ overlapped' \subseteq Workers
    BY <1>1, <1>9 DEF Events, LogTypeOK
  <2>2. LogTypeOK'
    BY <1>1, <1>6, <1>9, <2>1, LogAppends DEF LogTypeOK
  <2>3. ASSUME NEW d \in Callers, d # c PROVE CallFits(d)'
    <3>1. CallFits(d) /\ call'[d] = call[d]
      BY <1>6, <2>3 DEF WorkersInv
    <3> QED BY <1>1, <1>9, <2>1, <2>2, <3>1, CallStays
  <2>4. w \notin overlapped' =>
            e \in Allowed(CurrentState(wlog[w])) /\ (e = "completed" => Started(w))
    BY <1>2, <1>3, <1>4, <1>5, <1>9 DEF WorkersInv, CallFits, Admits
  <2>5. ASSUME NEW v \in Workers \ overlapped' PROVE Orderly(v)' /\ (Ended(v) => Ended(v)')
    <3>1. Orderly(v)
      BY <2>1, <2>5 DEF WorkersInv
    <3>2. CASE v = w
      <4>1. Orderly(v)'
        BY <1>1, <1>9, <2>1, <2>4, <2>5, <3>1, <3>2, OrderlyAppend
      <4>2. ~Ended(v)
        BY <2>4, <2>5, <3>2, NothingAfterTheEnd DEF Ended
      <4> QED BY <4>1, <4>2
    <3>3. CASE v # w
      <4>1. wlog'[v] = wlog[v]
        BY <1>1, <1>9, <2>1, <3>3, LogAppends
      <4> QED BY <3>1, <4>1 DEF Orderly, Ended
    <3> QED BY <3>2, <3>3
  <2> QED BY <1>2, <1>3, <1>4, <1>5, <1>7, <1>9, <2>1, <2>2, <2>3, <2>5 DEF WorkersInv, EndsStay
<1> QED BY <1>5, <1>8, <1>9

\* A restart forgets what was allowed.
LEMMA ForgetKeeps ==
    ASSUME WorkersInv, UNCHANGED <<wlog, overlapped>>, call' = [c \in Callers |-> NoCall]
    PROVE  WorkersInv' /\ EndsStay
<1>1. LogTypeOK'
  BY DEF WorkersInv, LogTypeOK
<1>2. \A c \in Callers : CallFits(c)'
  BY DEF CallFits
<1>3. \A v \in Workers \ overlapped' : Orderly(v)'
  BY DEF WorkersInv, Orderly
<1> QED BY <1>1, <1>2, <1>3 DEF WorkersInv, EndsStay, Ended

(***************************************************************************)
(* The goal contract of the parent session.                                *)
(***************************************************************************)
\* A handler that is about to write the version it read has not written before,
\* and nobody skipped a version since.
ToWrite(m) ==
    message[m].step = "write" =>
        /\ message[m].version \in 1..(Len(goals) + 1)
        /\ m = Legacy => message[m].version = 1
        /\ m # Legacy => \A i \in 1..Len(goals) : goals[i].by # m

GoalsInv == GoalsTypeOK /\ GoalsAreOnRecord /\ \A m \in Messages : ToWrite(m)

\* Contract events are only ever appended.
GoalsGrow ==
    /\ Len(goals) <= Len(goals')
    /\ \A i \in 1..Len(goals) : goals'[i] = goals[i]

LEMMA ElementIn == ASSUME NEW S, NEW s \in Seq(S), NEW i \in 1..Len(s) PROVE s[i] \in S
  OBVIOUS

LEMMA VersionIsLength == ASSUME GoalsInv PROVE Version = Len(goals)
<1>1. goals \in Seq([by : Messages, version : Nat])
  BY DEF GoalsInv, GoalsTypeOK
<1>2. CASE goals = <<>>
  BY <1>2 DEF Version
<1>3. CASE goals # <<>>
  <2>1. Len(goals) \in 1..Len(goals)
    BY <1>1, <1>3
  <2> QED BY <1>3, <2>1 DEF Version, GoalsInv, GoalsAreOnRecord
<1> QED BY <1>2, <1>3

LEMMA StepIsAState ==
    \A s \in {"new", "write", "sync", "done", "failed", "lost"}, v \in Nat :
        /\ AtStep(s, v).step = s /\ AtStep(s, v).version = v
        /\ AtStep(s, v) \in [step : {"new", "write", "sync", "done", "failed", "lost"},
                             version : Nat]
  BY DEF AtStep

MessageSteps == {"new", "write", "sync", "done", "failed", "lost"}

\* What the contract must hold for a handler at a step with a version.
Supports(m, s, v) ==
    /\ s \in {"sync", "done"} => v \in 1..Len(goals) /\ goals[v].by = m
    /\ s = "write" => /\ v \in 1..(Len(goals) + 1)
                      /\ m = Legacy => v = 1
                      /\ m # Legacy => \A i \in 1..Len(goals) : goals[i].by # m

\* A handler moves on while the contract stays as it is.
LEMMA HandlerMoves ==
    ASSUME GoalsInv, goals' = goals, synced' \in Nat,
           NEW m \in Messages, NEW s \in MessageSteps, NEW v \in Nat, Supports(m, s, v),
           message' = [message EXCEPT ![m] = AtStep(s, v)]
    PROVE  GoalsInv' /\ GoalsGrow
<1>1. GoalsTypeOK'
  BY StepIsAState DEF GoalsInv, GoalsTypeOK, MessageSteps
<1>2. /\ message'[m].step = s /\ message'[m].version = v
      /\ \A n \in Messages \ {m} : message'[n] = message[n]
  BY StepIsAState DEF GoalsInv, GoalsTypeOK, MessageSteps
<1>3. GoalsAreOnRecord'
  <2>1. ASSUME NEW n \in Messages, message'[n].step \in {"sync", "done"}
        PROVE  message'[n].version \in 1..Len(goals) /\ goals[message'[n].version].by = n
    <3>1. CASE n = m
      BY <1>2, <2>1, <3>1 DEF Supports
    <3>2. CASE n # m
      BY <1>2, <2>1, <3>2 DEF GoalsInv, GoalsAreOnRecord
    <3> QED BY <3>1, <3>2
  <2> QED BY <2>1 DEF GoalsInv, GoalsAreOnRecord
<1>4. ASSUME NEW n \in Messages PROVE ToWrite(n)'
  BY <1>2 DEF GoalsInv, ToWrite, Supports
<1>5. GoalsGrow
  BY DEF GoalsGrow, GoalsInv, GoalsTypeOK
<1> QED BY <1>1, <1>3, <1>4, <1>5 DEF GoalsInv

LEMMA ReadGoalKeeps ==
    ASSUME GoalsInv, NEW m \in Messages, ReadGoal(m) PROVE GoalsInv' /\ GoalsGrow
<1>1. UNCHANGED <<goals, synced>> /\ synced \in Nat /\ Len(goals) \in Nat
  BY DEF ReadGoal, GoalsInv, GoalsTypeOK
<1>2. CASE Replayed(m)
  <2>1. PICK i \in 1..Len(goals) : i \in EventOf(m) /\ i = (CHOOSE j \in EventOf(m) : TRUE)
    BY <1>2 DEF Replayed, EventOf
  <2>2. goals[i].version = i /\ goals[i].by = m
    BY <2>1 DEF EventOf, GoalsInv, GoalsAreOnRecord
  <2>3. message' = [message EXCEPT ![m] = AtStep("sync", i)]
    BY <1>2, <2>1, <2>2 DEF ReadGoal
  <2>4. Supports(m, "sync", i) /\ i \in Nat /\ "sync" \in MessageSteps
    BY <1>1, <2>2 DEF Supports, MessageSteps
  <2> QED BY <1>1, <2>3, <2>4, HandlerMoves
<1>3. CASE ~Replayed(m)
  <2>1. PICK v \in Nat : v = Version + 1 /\ v = Len(goals) + 1
    BY <1>1, VersionIsLength
  <2>2. message' = [message EXCEPT ![m] = AtStep("write", v)]
    BY <1>3, <2>1 DEF ReadGoal
  <2>3. m = Legacy => v = 1
    BY <2>1 DEF ReadGoal
  <2>4. m # Legacy => \A i \in 1..Len(goals) : goals[i].by # m
    BY <1>3 DEF Replayed, EventOf
  <2>5. Supports(m, "write", v) /\ "write" \in MessageSteps
    BY <1>1, <2>1, <2>3, <2>4 DEF Supports, MessageSteps
  <2> QED BY <1>1, <2>2, <2>5, HandlerMoves
<1> QED BY <1>2, <1>3

LEMMA WriteGoalKeeps ==
    ASSUME GoalsInv, NEW m \in Messages, WriteGoal(m) PROVE GoalsInv' /\ GoalsGrow
<1>1. PICK v \in Nat : v = message[m].version /\ v \in 1..(Len(goals) + 1)
  BY DEF GoalsInv, GoalsTypeOK, WriteGoal, ToWrite
<1>2. PICK n \in Nat : n = Len(goals)
  BY DEF GoalsInv, GoalsTypeOK
<1>3. UNCHANGED synced /\ synced \in Nat
  BY DEF WriteGoal, GoalsInv, GoalsTypeOK
<1>4. CASE VersionTaken(v)
  <2>1. message' = [message EXCEPT ![m] = AtStep("failed", 0)] /\ UNCHANGED goals
    BY <1>1, <1>4 DEF WriteGoal
  <2>2. Supports(m, "failed", 0) /\ "failed" \in MessageSteps
    BY DEF Supports, MessageSteps
  <2> QED BY <1>3, <2>1, <2>2, HandlerMoves
<1>5. CASE ~VersionTaken(v)
  <2>1. v = n + 1
    BY <1>1, <1>2, <1>5 DEF VersionTaken, GoalsInv, GoalsAreOnRecord
  <2>2. \A i \in 1..n : goals[i].by # m
    <3>1. /\ m = Legacy => v = 1
          /\ m # Legacy => \A i \in 1..n : goals[i].by # m
      BY <1>1, <1>2 DEF WriteGoal, GoalsInv, ToWrite
    <3>2. m = Legacy => n = 0
      BY <2>1, <3>1
    <3> QED BY <3>1, <3>2
  <2>3. PICK g \in [by : Messages, version : Nat] : g = [by |-> m, version |-> v]
    OBVIOUS
  <2>4. goals' = Append(goals, g)
    BY <1>1, <1>5, <2>3 DEF WriteGoal
  <2>5. /\ goals' \in Seq([by : Messages, version : Nat]) /\ Len(goals') = n + 1
        /\ goals'[n + 1] = g /\ \A i \in 1..n : goals'[i] = goals[i]
    BY <1>2, <2>4 DEF GoalsInv, GoalsTypeOK
  <2>6. PICK s \in {"done", "sync"} : message' = [message EXCEPT ![m] = AtStep(s, v)]
    BY <1>1, <1>5 DEF WriteGoal
  <2>7. GoalsTypeOK'
    BY <1>3, <2>5, <2>6, StepIsAState DEF GoalsInv, GoalsTypeOK
  <2>8. /\ message'[m].step = s /\ message'[m].version = v
        /\ \A k \in Messages \ {m} : message'[k] = message[k]
    BY <2>6, StepIsAState DEF GoalsInv, GoalsTypeOK
  <2>9. GoalsAreOnRecord'
    <3>1. \A i \in 1..(n + 1) : goals'[i].version = i
      BY <1>2, <2>1, <2>3, <2>5 DEF GoalsInv, GoalsAreOnRecord
    <3>2. ASSUME NEW i \in 1..(n + 1), NEW j \in 1..(n + 1), goals'[i].by = goals'[j].by
          PROVE  i = j
      <4>1. g.by = m
        BY <2>3
      <4>2. \A k \in 1..(n + 1) : k = n + 1 \/ k \in 1..n
        BY <1>2
      <4>3. CASE i \in 1..n /\ j \in 1..n
        BY <1>2, <2>5, <3>2, <4>3 DEF GoalsInv, GoalsAreOnRecord
      <4>4. CASE i = n + 1 \/ j = n + 1
        BY <2>2, <2>5, <3>2, <4>1, <4>2, <4>4
      <4> QED BY <4>2, <4>3, <4>4
    <3>3. ASSUME NEW k \in Messages, message'[k].step \in {"sync", "done"}
          PROVE  message'[k].version \in 1..(n + 1) /\ goals'[message'[k].version].by = k
      <4>1. CASE k = m
        BY <1>2, <2>1, <2>3, <2>5, <2>8, <4>1
      <4>2. CASE k # m
        <5>1. message[k].version \in 1..n /\ goals[message[k].version].by = k
          BY <1>2, <2>8, <3>3, <4>2 DEF GoalsInv, GoalsAreOnRecord
        <5>2. message'[k].version = message[k].version
          BY <2>8, <4>2
        <5> QED BY <1>2, <2>5, <5>1, <5>2
      <4> QED BY <4>1, <4>2
    <3> QED BY <2>5, <3>1, <3>2, <3>3 DEF GoalsAreOnRecord
  <2>10. ASSUME NEW k \in Messages PROVE ToWrite(k)'
    <3>1. CASE k = m
      BY <2>8, <3>1 DEF ToWrite
    <3>2. CASE k # m
      <4>1. \A i \in 1..(n + 1) : i \in 1..n \/ goals'[i].by # k
        BY <1>2, <2>3, <2>5, <3>2
      <4>2. ToWrite(k) /\ message'[k] = message[k]
        BY <2>8, <3>2 DEF GoalsInv
      <4>3. message[k].step = "write" => message[k].version \in 1..(n + 2)
        BY <1>2, <4>2 DEF ToWrite
      <4> QED BY <1>2, <2>5, <4>1, <4>2, <4>3 DEF ToWrite
    <3> QED BY <3>1, <3>2
  <2>11. GoalsGrow
    BY <1>2, <2>5 DEF GoalsGrow
  <2> QED BY <2>7, <2>9, <2>10, <2>11 DEF GoalsInv
<1> QED BY <1>4, <1>5

LEMMA GoalsStep == ASSUME GoalsInv, GoalsNext PROVE GoalsInv' /\ GoalsGrow
<1>1. PICK m \in Messages : ReadGoal(m) \/ WriteGoal(m) \/ SyncGoal(m) \/ Resend(m)
  BY DEF GoalsNext
<1>2. CASE SyncGoal(m)
  <2>1. PICK v \in Nat : /\ v = message[m].version /\ v \in 1..Len(goals) /\ goals[v].by = m
                         /\ synced' \in {synced, v} /\ synced \in Nat
    BY <1>2 DEF SyncGoal, GoalsInv, GoalsTypeOK, GoalsAreOnRecord
  <2>2. PICK u \in [step : {"new", "write", "sync", "done", "failed", "lost"}, version : Nat] :
            u = message[m]
    BY DEF GoalsInv, GoalsTypeOK
  <2>3. [u EXCEPT !.step = "done"] = AtStep("done", v)
    BY <2>1, <2>2 DEF AtStep
  <2>4. message' = [message EXCEPT ![m] = AtStep("done", v)]
    BY <1>2, <2>2, <2>3 DEF SyncGoal
  <2>5. Supports(m, "done", v) /\ "done" \in MessageSteps
    BY <2>1 DEF Supports, MessageSteps
  <2>6. goals' = goals
    BY <1>2 DEF SyncGoal
  <2> QED BY <2>1, <2>4, <2>5, <2>6, HandlerMoves
<1>3. CASE Resend(m)
  <2>1. /\ message' = [message EXCEPT ![m] = AtStep("new", 0)]
        /\ UNCHANGED <<goals, synced>> /\ synced \in Nat
    BY <1>3 DEF Resend, GoalsInv, GoalsTypeOK
  <2>2. Supports(m, "new", 0) /\ "new" \in MessageSteps
    BY DEF Supports, MessageSteps
  <2> QED BY <2>1, <2>2, HandlerMoves
<1> QED BY <1>1, <1>2, <1>3, ReadGoalKeeps, WriteGoalKeeps

LEMMA GoalsStay ==
    ASSUME GoalsInv, UNCHANGED goals, UNCHANGED synced, MessagesLost \/ UNCHANGED message
    PROVE  GoalsInv' /\ GoalsGrow
<1>1. \A m \in Messages : \/ message'[m] = message[m]
                          \/ message'[m] = AtStep("lost", 0)
  BY DEF MessagesLost
<1>2. message' \in [Messages -> [step : {"new", "write", "sync", "done", "failed", "lost"},
                                 version : Nat]]
  BY <1>1, StepIsAState DEF MessagesLost, GoalsInv, GoalsTypeOK
<1>3. \A m \in Messages : message'[m].step \in {"sync", "done", "write"} => message'[m] = message[m]
  BY <1>1, StepIsAState
<1>4. GoalsAreOnRecord'
  BY <1>3 DEF GoalsInv, GoalsAreOnRecord
<1>5. \A m \in Messages : ToWrite(m)'
  BY <1>3 DEF GoalsInv, ToWrite
<1>6. GoalsGrow
  BY DEF GoalsGrow, GoalsInv, GoalsTypeOK
<1> QED BY <1>2, <1>4, <1>5, <1>6 DEF GoalsInv, GoalsTypeOK

(***************************************************************************)
(* What a recovery holds.                                                  *)
(***************************************************************************)
BoxTypeOK ==
    /\ box \in [Families -> Seq({"pending", "delivered", "delivery_failed", "superseded"})]
    /\ \A f \in Families : Len(box[f]) > 0
    /\ announced \in [Families -> Nat]
    /\ cut \subseteq Families

RecTypeOK ==
    /\ rec \in [Recoverers -> RecoveryState \cup {NoRecovery}]
    /\ sweep \in [Callers -> SUBSET (Workers \X Lifecycle)]
    /\ adopted \subseteq [id : Nat, packet : Nat, goal : Messages]
    /\ recoveries \in Nat /\ crashes \in Nat

\* The records a recovery has still to supersede, and the one it is at, are there.
AtRecords(u) ==
    /\ \A x \in u.stale : x[2] \in 1..Len(box[x[1]])
    /\ u.step \in {"supersede", "reissue"} =>
           u.now \in Interactions /\ u.now[2] \in 1..Len(box[u.now[1]])

\* The newest context that is called superseded has a successor, or the recovery
\* that announced it is about to write one.
Succeeded(f) ==
    \/ announced[f] < Len(box[f])
    \/ \E r \in MidReissue : rec[r].now = <<f, announced[f]>>

BoxInv ==
    /\ BoxTypeOK
    /\ \A r \in Recoverers : rec[r] # NoRecovery => AtRecords(rec[r])
    /\ \A f \in Families \ cut : Succeeded(f)

\* A recovery that adopts has the version its packet names.
AtContract(u) == u.step = "adopt" => u.contract = u.packet /\ u.contract \in 1..Len(goals)

ContractInv ==
    /\ \A r \in Recoverers : rec[r] # NoRecovery => AtContract(rec[r])
    /\ ChildGoalIsThePackets

\* The workers a recovery has scanned have ended, or are still to be settled.
Endings == {"cancelled", "rejected"}

Settling(r, w) ==
    \/ \E x \in sweep[r] : x[1] = w
    \/ call[r] # NoCall /\ call[r].worker = w

SettlesOnly(r) ==
    /\ \A x \in sweep[r] : x[2] \in Endings
    /\ call[r] # NoCall => call[r].event \in Endings /\ rec[r].step = "workers"

AtWorkers(r) ==
    rec[r].step \in {"workers", "adopt"} =>
        \A w \in rec[r].scanned \ (rec[r].hidden \cup overlapped) :
            Ended(w) \/ (rec[r].step = "workers" /\ Settling(r, w))

SettleInv == \A r \in Recoverers : SettlesOnly(r) /\ AtWorkers(r)

TakeoverInv == RecTypeOK /\ WorkersInv /\ GoalsInv /\ BoxInv /\ ContractInv /\ SettleInv

Moves(r, u) == rec' = [rec EXCEPT ![r] = u]

LEMMA NoRecoveryIsIdle == NoRecovery.step = "idle" /\ \A u \in RecoveryState : u # NoRecovery
<1>1. NoRecovery.step = "idle"
  BY DEF NoRecovery
<1> QED BY <1>1 DEF RecoveryState

LEMMA InRecovery ==
    ASSUME RecTypeOK, NEW r \in Recoverers, rec[r].step # "idle"
    PROVE  rec[r] \in RecoveryState /\ rec[r] # NoRecovery
  BY NoRecoveryIsIdle DEF RecTypeOK

LEMMA MovesOne ==
    ASSUME RecTypeOK, NEW r \in Recoverers, NEW u \in RecoveryState \cup {NoRecovery}, Moves(r, u)
    PROVE  /\ rec' \in [Recoverers -> RecoveryState \cup {NoRecovery}] /\ rec'[r] = u
           /\ \A q \in Recoverers \ {r} : rec'[q] = rec[q]
  BY DEF RecTypeOK, Moves

\* Records are only added to the outbox.
BoxGrows == \A f \in Families : Len(box[f]) <= Len(box'[f])

LEMMA AtRecordsStays ==
    ASSUME NEW u \in RecoveryState, AtRecords(u), BoxTypeOK, BoxTypeOK', BoxGrows
    PROVE  AtRecords(u)'
<1>1. \A f \in Families : \A i : i \in 1..Len(box[f]) => i \in 1..Len(box'[f])
  BY DEF BoxTypeOK, BoxGrows
<1>2. \A x \in u.stale : x[1] \in Families
  BY DEF RecoveryState, Interactions
<1>3. u.step \in {"supersede", "reissue"} => u.now[1] \in Families
  BY DEF AtRecords, Interactions
<1> QED BY <1>1, <1>2, <1>3 DEF AtRecords

LEMMA BoxGrowsBySelf ==
    ASSUME BoxTypeOK, UNCHANGED <<box, announced, cut>> PROVE BoxTypeOK' /\ BoxGrows
  BY DEF BoxTypeOK, BoxGrows

\* A recovery that is not about to write a successor moves on; the outbox rests.
LEMMA BoxRests ==
    ASSUME RecTypeOK, BoxInv, NEW r \in Recoverers, NEW u \in RecoveryState \cup {NoRecovery},
           Moves(r, u), rec[r].step \notin {"supersede", "reissue"},
           u # NoRecovery => AtRecords(u), UNCHANGED <<box, announced, cut>>
    PROVE  BoxInv'
<1>1. /\ rec'[r] = u /\ rec' \in [Recoverers -> RecoveryState \cup {NoRecovery}]
      /\ \A q \in Recoverers \ {r} : rec'[q] = rec[q]
  BY MovesOne
<1>2. BoxTypeOK' /\ BoxGrows
  BY BoxGrowsBySelf DEF BoxInv
<1>3. ASSUME NEW q \in Recoverers, rec'[q] # NoRecovery PROVE AtRecords(rec[q])'
  <2>1. CASE q = r
    BY <1>1, <1>3, <2>1 DEF AtRecords
  <2>2. CASE q # r
    BY <1>1, <1>3, <2>2 DEF BoxInv, AtRecords
  <2> QED BY <2>1, <2>2
<1>4. ASSUME NEW f \in Families \ cut' PROVE Succeeded(f)'
  <2>1. Succeeded(f)
    BY <1>4 DEF BoxInv
  <2>2. \A q \in MidReissue : q \in MidReissue' /\ rec'[q] = rec[q]
    BY <1>1 DEF MidReissue
  <2> QED BY <2>1, <2>2 DEF Succeeded
<1> QED BY <1>2, <1>3, <1>4 DEF BoxInv

LEMMA BoxStays ==
    ASSUME BoxInv, UNCHANGED <<rec, box, announced, cut>> PROVE BoxInv'
  BY DEF BoxInv, BoxTypeOK, AtRecords, Succeeded, MidReissue

LEMMA ContractStays ==
    ASSUME RecTypeOK, GoalsInv, GoalsInv', GoalsGrow, ContractInv, adopted' = adopted,
           \A q \in Recoverers : rec'[q] = rec[q] \/ rec'[q] = NoRecovery
                                 \/ (rec'[q] \in RecoveryState /\ rec'[q].step # "adopt")
    PROVE  ContractInv'
<1>1. Len(goals) \in Nat /\ Len(goals') \in Nat
  BY DEF GoalsInv, GoalsTypeOK
<1>2. \A i : i \in 1..Len(goals) => i \in 1..Len(goals') /\ goals'[i] = goals[i]
  BY <1>1 DEF GoalsGrow
<1>3. \A q \in Recoverers : rec'[q] # NoRecovery => AtContract(rec[q])'
  BY <1>2 DEF ContractInv, AtContract
<1>4. ChildGoalIsThePackets'
  BY <1>2 DEF ContractInv, ChildGoalIsThePackets
<1> QED BY <1>3, <1>4 DEF ContractInv

\* The others keep what they hold of the workers.
LEMMA WorkersInHandStay ==
    ASSUME WorkersInv, NEW q \in Recoverers, SettlesOnly(q), AtWorkers(q),
           rec'[q] = rec[q], call'[q] = call[q], sweep'[q] = sweep[q],
           overlapped \subseteq overlapped', EndsStay, RecTypeOK
    PROVE  SettlesOnly(q)' /\ AtWorkers(q)'
<1>1. SettlesOnly(q)'
  BY DEF SettlesOnly
<1>2. ASSUME rec'[q].step \in {"workers", "adopt"},
             NEW w \in rec'[q].scanned \ (rec'[q].hidden \cup overlapped')
      PROVE  Ended(w)' \/ (rec'[q].step = "workers" /\ Settling(q, w)')
  <2>1. w \in Workers
    <3>1. rec[q] \in RecoveryState
      BY <1>2, InRecovery
    <3> QED BY <1>2, <3>1 DEF RecoveryState
  <2>2. Ended(w) \/ (rec[q].step = "workers" /\ Settling(q, w))
    BY <1>2 DEF AtWorkers
  <2>3. Settling(q, w) => Settling(q, w)'
    BY DEF Settling
  <2>4. Ended(w) => Ended(w)'
    BY <1>2, <2>1 DEF EndsStay
  <2> QED BY <2>2, <2>3, <2>4
<1> QED BY <1>1, <1>2 DEF AtWorkers

LEMMA WorkersRest ==
    ASSUME WorkersInv, UNCHANGED <<wlog, call, overlapped>> PROVE WorkersInv' /\ EndsStay
  BY DEF WorkersInv, LogTypeOK, Orderly, CallFits, Admits, Started, EndsStay, Ended

(***************************************************************************)
(* The steps of the workers and of the goal messages.                      *)
(***************************************************************************)
LEMMA OtherCallers == Decision \in Callers \ Recoverers /\ Runtime \in Callers \ Recoverers
                      /\ Recoverers \subseteq Callers
  BY FutureWorkersConstants, TakeoverConstants

\* A step of the workers is a check, a refusal or a write of the resident or of the
\* runtime, or a scan of the resident.
LEMMA WorkersNextKeeps ==
    ASSUME WorkersInv, RecTypeOK, WorkersNext
    PROVE  /\ WorkersInv' /\ EndsStay /\ overlapped \subseteq overlapped'
           /\ sweep' \in [Callers -> SUBSET (Workers \X Lifecycle)]
           /\ \A q \in Recoverers : call'[q] = call[q] /\ sweep'[q] = sweep[q]
<1> USE OtherCallers
<1>1. ASSUME NEW c \in {Decision, Runtime}, NEW w \in Workers, NEW e \in Lifecycle,
             Admit(c, w, e) \/ Refuse(c, w, e)
      PROVE  /\ WorkersInv' /\ EndsStay /\ overlapped \subseteq overlapped'
             /\ \A q \in Recoverers : call'[q] = call[q]
  <2>1. c \in Callers /\ c \notin Recoverers
    BY <1>1
  <2>2. CASE Admit(c, w, e)
    <3>1. /\ WorkersInv' /\ UNCHANGED <<wlog, overlapped>>
          /\ \A d \in Callers \ {c} : call'[d] = call[d]
      BY <2>1, <2>2, AdmitKeeps
    <3> QED BY <2>1, <3>1 DEF EndsStay, Ended
  <2>3. CASE Refuse(c, w, e)
    BY <2>1, <2>3, RefuseKeeps
  <2> QED BY <1>1, <2>2, <2>3
<1>2. CASE \E w \in Workers, e \in Reports : RuntimeReports(w, e)
  <2>1. PICK w \in Workers, e \in Lifecycle :
            (Admit(Runtime, w, e) \/ Refuse(Runtime, w, e)) /\ UNCHANGED sweep
    BY <1>2 DEF RuntimeReports, Reports, Lifecycle, Terminal
  <2> QED BY <1>1, <2>1 DEF RecTypeOK
<1>3. CASE \E w \in Workers : DecisionRequests(w)
  <2>1. PICK w \in Workers : Admit(Decision, w, "requested") /\ UNCHANGED sweep
    BY <1>3 DEF DecisionRequests
  <2>2. "requested" \in Lifecycle
    BY DEF Lifecycle
  <2> QED BY <1>1, <2>1, <2>2 DEF RecTypeOK
<1>4. CASE DecisionScans
  <2>1. PICK S \in SUBSET Workers :
            /\ sweep' = [sweep EXCEPT ![Decision] = {<<w, "consumed">> : w \in S}]
            /\ UNCHANGED <<wlog, call, overlapped>>
    BY <1>4 DEF DecisionScans
  <2>2. PICK new \in SUBSET (Workers \X Lifecycle) : new = {<<w, "consumed">> : w \in S}
    <3>1. "consumed" \in Lifecycle
      BY DEF Lifecycle, Terminal
    <3>2. \A w \in S : <<w, "consumed">> \in Workers \X Lifecycle
      BY <3>1
    <3>3. {<<w, "consumed">> : w \in S} \in SUBSET (Workers \X Lifecycle)
      BY <3>2
    <3> QED BY <3>3
  <2>3. WorkersInv' /\ EndsStay
    BY <2>1, WorkersRest
  <2> QED BY <2>1, <2>2, <2>3 DEF RecTypeOK
<1>5. CASE SweepNext(Decision)
  <2>1. PICK x \in sweep[Decision] :
            \/ Admit(Decision, x[1], x[2]) /\ sweep' = [sweep EXCEPT ![Decision] = @ \ {x}]
            \/ Refuse(Decision, x[1], x[2]) /\ sweep' = [sweep EXCEPT ![Decision] = {}]
    BY <1>5 DEF SweepNext
  <2>2. sweep[Decision] \subseteq Workers \X Lifecycle
    BY DEF RecTypeOK
  <2>3. x[1] \in Workers /\ x[2] \in Lifecycle
    BY <2>1, <2>2
  <2>4. PICK new \in SUBSET (Workers \X Lifecycle) : sweep' = [sweep EXCEPT ![Decision] = new]
    <3>1. sweep[Decision] \ {x} \in SUBSET (Workers \X Lifecycle)
          /\ {} \in SUBSET (Workers \X Lifecycle)
      BY <2>2
    <3> QED BY <2>1, <3>1
  <2> QED BY <1>1, <2>1, <2>3, <2>4 DEF RecTypeOK
<1>6. CASE \E c \in {Decision, Runtime} : CallerWrites(c)
  <2>1. PICK c \in {Decision, Runtime} : CallerWrites(c)
    BY <1>6
  <2>2. c \in Callers /\ c \notin Recoverers /\ WriteEvent(c)
        /\ (sweep' = [sweep EXCEPT ![c] = {}] \/ sweep' = sweep)
    BY <2>1 DEF CallerWrites
  <2>3. /\ WorkersInv' /\ EndsStay /\ overlapped \subseteq overlapped'
        /\ call' = [call EXCEPT ![c] = NoCall]
    BY <2>2, WriteKeeps
  <2>4. {} \in SUBSET (Workers \X Lifecycle)
    OBVIOUS
  <2> QED BY <2>2, <2>3, <2>4 DEF RecTypeOK, WorkersInv, LogTypeOK
<1> QED BY <1>2, <1>3, <1>4, <1>5, <1>6 DEF WorkersNext

LEMMA WorkerStepsKeep == ASSUME TakeoverInv, WorkerSteps PROVE TakeoverInv'
<1>1. /\ WorkersNext /\ UNCHANGED <<goals, message, synced>>
      /\ UNCHANGED <<rec, box, announced, cut, adopted, recoveries, crashes>>
  BY DEF WorkerSteps, goalVars, ownVars
<1>2. /\ WorkersInv' /\ EndsStay /\ overlapped \subseteq overlapped'
      /\ sweep' \in [Callers -> SUBSET (Workers \X Lifecycle)]
      /\ \A q \in Recoverers : call'[q] = call[q] /\ sweep'[q] = sweep[q]
  BY <1>1, WorkersNextKeeps DEF TakeoverInv
<1>3. RecTypeOK'
  BY <1>1, <1>2 DEF TakeoverInv, RecTypeOK
<1>4. GoalsInv' /\ GoalsGrow
  BY <1>1, GoalsStay DEF TakeoverInv
<1>5. BoxInv'
  BY <1>1, BoxStays DEF TakeoverInv
<1>6. ContractInv'
  BY <1>1, <1>4, ContractStays DEF TakeoverInv
<1>7. SettleInv'
  BY <1>1, <1>2, WorkersInHandStay DEF TakeoverInv, SettleInv
<1> QED BY <1>2, <1>3, <1>4, <1>5, <1>6, <1>7 DEF TakeoverInv

LEMMA GoalStepsKeep == ASSUME TakeoverInv, GoalSteps PROVE TakeoverInv'
<1>1. /\ GoalsNext /\ UNCHANGED <<wlog, call, sweep, overlapped>>
      /\ UNCHANGED <<rec, box, announced, cut, adopted, recoveries, crashes>>
  BY DEF GoalSteps, workerVars, ownVars
<1>2. WorkersInv' /\ EndsStay
  BY <1>1, WorkersRest DEF TakeoverInv
<1>3. RecTypeOK'
  BY <1>1 DEF TakeoverInv, RecTypeOK
<1>4. GoalsInv' /\ GoalsGrow
  BY <1>1, GoalsStep DEF TakeoverInv
<1>5. BoxInv'
  BY <1>1, BoxStays DEF TakeoverInv
<1>6. ContractInv'
  BY <1>1, <1>4, ContractStays DEF TakeoverInv
<1>7. SettleInv'
  BY <1>1, <1>2, WorkersInHandStay DEF TakeoverInv, SettleInv
<1> QED BY <1>2, <1>3, <1>4, <1>5, <1>6, <1>7 DEF TakeoverInv

(***************************************************************************)
(* The steps of a recovery.                                                *)
(***************************************************************************)
\* A recovery that is not settling workers moves on to something else than that.
LEMMA MoveKeeps ==
    ASSUME TakeoverInv, NEW r \in Recoverers, NEW u \in RecoveryState \cup {NoRecovery},
           Moves(r, u), rec[r].step # "workers", u.step \notin {"workers", "adopt"},
           UNCHANGED <<wlog, call, sweep, overlapped, goals, message, synced, crashes>>,
           recoveries' \in Nat, BoxInv', adopted' = adopted
    PROVE  TakeoverInv'
<1>1. /\ rec' \in [Recoverers -> RecoveryState \cup {NoRecovery}] /\ rec'[r] = u
      /\ \A q \in Recoverers \ {r} : rec'[q] = rec[q]
  BY MovesOne DEF TakeoverInv
<1>2. WorkersInv' /\ EndsStay
  BY WorkersRest DEF TakeoverInv
<1>3. RecTypeOK'
  BY <1>1 DEF TakeoverInv, RecTypeOK
<1>4. GoalsInv' /\ GoalsGrow
  BY GoalsStay DEF TakeoverInv
<1>5. ContractInv'
  <2>1. \A q \in Recoverers : rec'[q] = rec[q] \/ rec'[q] = NoRecovery
                              \/ (rec'[q] \in RecoveryState /\ rec'[q].step # "adopt")
    BY <1>1
  <2> QED BY <1>4, <2>1, ContractStays DEF TakeoverInv
<1>6. ASSUME NEW q \in Recoverers PROVE SettlesOnly(q)' /\ AtWorkers(q)'
  <2>1. CASE q = r
    <3>1. call[r] = NoCall /\ \A x \in sweep[r] : x[2] \in Endings
      BY DEF TakeoverInv, SettleInv, SettlesOnly
    <3> QED BY <1>1, <2>1, <3>1 DEF SettlesOnly, AtWorkers
  <2>2. CASE q # r
    BY <1>1, <1>2, <2>2, WorkersInHandStay DEF TakeoverInv, SettleInv
  <2> QED BY <2>1, <2>2
<1> QED BY <1>2, <1>3, <1>4, <1>5, <1>6 DEF TakeoverInv, SettleInv

LEMMA BeginTakeoverKeeps ==
    ASSUME TakeoverInv, NEW r \in Recoverers, NEW child \in BOOLEAN, BeginTakeover(r, child)
    PROVE  TakeoverInv'
<1>1. /\ rec[r] = NoRecovery /\ recoveries \in Nat /\ recoveries' = recoveries + 1
      /\ UNCHANGED <<wlog, call, sweep, overlapped, goals, message, synced>>
      /\ UNCHANGED <<box, announced, cut, adopted, crashes>>
  BY DEF BeginTakeover, TakeoverInv, RecTypeOK, workerVars, goalVars
<1>2. rec[r].step = "idle"
  BY <1>1, NoRecoveryIsIdle
<1>3. PICK n \in Nat : n = recoveries + 1
  BY <1>1
<1>4. PICK p \in Nat : p = synced
  BY DEF TakeoverInv, GoalsInv, GoalsTypeOK
<1>5. PICK S \in SUBSET Interactions :
          S = {<<f, Len(box[f])>> : f \in {g \in Families : Reissuable(g)}}
  <2>1. \A f \in Families : <<f, Len(box[f])>> \in Interactions
    BY DEF Interactions, TakeoverInv, BoxInv, BoxTypeOK
  <2>2. {<<f, Len(box[f])>> : f \in {g \in Families : Reissuable(g)}} \in SUBSET Interactions
    BY <2>1
  <2> QED BY <2>2
<1>6. PICK u : u = [step |-> "announce", id |-> n, packet |-> p, child |-> child, stale |-> S,
                    now |-> <<>>, scanned |-> {}, hidden |-> {}, contract |-> 0]
  OBVIOUS
<1>7. u \in RecoveryState
  BY <1>6 DEF RecoveryState
<1>8. Moves(r, u)
  BY <1>3, <1>4, <1>5, <1>6 DEF BeginTakeover, Moves
<1>9. AtRecords(u)
  <2>1. \A f \in Families : Len(box[f]) \in 1..Len(box[f])
    BY DEF TakeoverInv, BoxInv, BoxTypeOK
  <2> QED BY <1>5, <1>6, <2>1 DEF AtRecords
<1>10. BoxInv'
  BY <1>1, <1>2, <1>7, <1>8, <1>9, BoxRests DEF TakeoverInv
<1> QED BY <1>1, <1>2, <1>3, <1>6, <1>7, <1>8, <1>10, MoveKeeps

LEMMA OneChanges ==
    ASSUME BoxTypeOK, NEW f \in Families, NEW i \in 1..Len(box[f]),
           NEW s \in {"pending", "delivered", "delivery_failed", "superseded"},
           box' = [box EXCEPT ![f][i] = s], UNCHANGED cut, announced' \in [Families -> Nat]
    PROVE  BoxTypeOK' /\ BoxGrows /\ \A g \in Families : Len(box'[g]) = Len(box[g])
<1>1. PICK old \in Seq({"pending", "delivered", "delivery_failed", "superseded"}) : old = box[f]
  BY DEF BoxTypeOK
<1>2. PICK new : new = [old EXCEPT ![i] = s]
  OBVIOUS
<1>3. /\ new \in Seq({"pending", "delivered", "delivery_failed", "superseded"})
      /\ Len(new) = Len(old)
  BY <1>1, <1>2
<1>4. box' = [box EXCEPT ![f] = new]
  BY <1>1, <1>2
<1>5. \A g \in Families : Len(box'[g]) = Len(box[g]) /\ Len(box[g]) \in Nat
  BY <1>1, <1>3, <1>4 DEF BoxTypeOK
<1>6. BoxTypeOK'
  BY <1>3, <1>4, <1>5 DEF BoxTypeOK
<1> QED BY <1>5, <1>6 DEF BoxGrows

\* A recovery at an interaction: what it holds, and what it becomes.
LEMMA AnnounceKeeps ==
    ASSUME TakeoverInv, NEW r \in Recoverers, AnnounceSuperseded(r) PROVE TakeoverInv'
<1>1. PICK v \in RecoveryState : v = rec[r] /\ v.step = "announce" /\ v # NoRecovery
  BY InRecovery DEF AnnounceSuperseded, TakeoverInv
<1>2. PICK x \in v.stale :
          /\ announced' = [announced EXCEPT ![x[1]] = IF @ < x[2] THEN x[2] ELSE @]
          /\ rec' = [rec EXCEPT ![r].step = "supersede", ![r].now = x, ![r].stale = @ \ {x}]
  BY <1>1 DEF AnnounceSuperseded
<1>3. /\ UNCHANGED <<wlog, call, sweep, overlapped, goals, message, synced>>
      /\ UNCHANGED <<box, cut, adopted, recoveries, crashes>>
  BY DEF AnnounceSuperseded, workerVars, goalVars
<1>4. PICK f \in Families, i \in Nat : x = <<f, i>> /\ i \in 1..Len(box[f])
  <2>1. x \in Interactions /\ x[2] \in 1..Len(box[x[1]])
    BY <1>1, <1>2 DEF RecoveryState, TakeoverInv, BoxInv, AtRecords
  <2> QED BY <2>1 DEF Interactions
<1>5. PICK S \in SUBSET Interactions : S = v.stale \ {x}
  BY <1>1 DEF RecoveryState
<1>6. PICK u : u = [v EXCEPT !.step = "supersede", !.now = x, !.stale = S]
  OBVIOUS
<1>7. u \in RecoveryState /\ u.step = "supersede" /\ u.now = x /\ u.stale = S
  BY <1>1, <1>4, <1>6 DEF RecoveryState, Interactions
<1>8. Moves(r, u)
  BY <1>1, <1>2, <1>5, <1>6 DEF Moves
<1>9. /\ rec'[r] = u /\ \A q \in Recoverers \ {r} : rec'[q] = rec[q]
  BY <1>7, <1>8, MovesOne DEF TakeoverInv
<1>10. PICK a \in Nat : a = announced[f]
  BY DEF TakeoverInv, BoxInv, BoxTypeOK
<1>11. /\ announced' \in [Families -> Nat] /\ announced'[f] = IF a < i THEN i ELSE a
       /\ \A g \in Families \ {f} : announced'[g] = announced[g]
  <2>1. x[1] = f /\ x[2] = i
    BY <1>4
  <2>2. PICK b \in Nat : b = IF a < i THEN i ELSE a
    OBVIOUS
  <2>3. announced' = [announced EXCEPT ![f] = b]
    BY <1>2, <1>10, <2>1, <2>2
  <2> QED BY <2>2, <2>3 DEF TakeoverInv, BoxInv, BoxTypeOK
<1>12. BoxTypeOK' /\ BoxGrows
  BY <1>3, <1>11 DEF TakeoverInv, BoxInv, BoxTypeOK, BoxGrows
<1>13. ASSUME NEW q \in Recoverers, rec'[q] # NoRecovery PROVE AtRecords(rec[q])'
  <2>1. CASE q = r
    <3>1. \A y \in S : y[2] \in 1..Len(box[y[1]])
      BY <1>1, <1>5 DEF TakeoverInv, BoxInv, AtRecords
    <3>2. x \in Interactions /\ x[2] \in 1..Len(box[x[1]])
      BY <1>4 DEF Interactions
    <3> QED BY <1>3, <1>7, <1>9, <2>1, <3>1, <3>2 DEF AtRecords
  <2>2. CASE q # r
    <3>1. rec'[q] = rec[q] /\ AtRecords(rec[q])
      BY <1>9, <1>13, <2>2 DEF TakeoverInv, BoxInv
    <3> QED BY <1>3, <3>1 DEF AtRecords
  <2> QED BY <2>1, <2>2
<1>14. \A q \in MidReissue : q \in MidReissue' /\ rec'[q] = rec[q]
  BY <1>1, <1>9 DEF MidReissue
<1>15. r \in MidReissue' /\ rec'[r].now = <<f, i>>
  BY <1>4, <1>7, <1>9 DEF MidReissue
<1>16. ASSUME NEW g \in Families \ cut' PROVE Succeeded(g)'
  <2>1. Succeeded(g)
    BY <1>3, <1>16 DEF TakeoverInv, BoxInv
  <2>2. CASE announced'[g] = announced[g]
    BY <1>3, <1>14, <2>1, <2>2 DEF Succeeded
  <2>3. CASE announced'[g] # announced[g]
    <3>1. g = f /\ announced'[g] = i
      BY <1>10, <1>11, <2>3
    <3> QED BY <1>15, <3>1 DEF Succeeded
  <2> QED BY <2>2, <2>3
<1>17. BoxInv'
  BY <1>12, <1>13, <1>16 DEF BoxInv
<1>18. recoveries' \in Nat
  BY <1>3 DEF TakeoverInv, RecTypeOK
<1> QED BY <1>1, <1>3, <1>7, <1>8, <1>17, <1>18, MoveKeeps

LEMMA SupersedeKeeps ==
    ASSUME TakeoverInv, NEW r \in Recoverers, SupersedeRecord(r) PROVE TakeoverInv'
<1>1. PICK v \in RecoveryState : v = rec[r] /\ v.step = "supersede" /\ v # NoRecovery
  BY InRecovery DEF SupersedeRecord, TakeoverInv
<1>2. PICK f \in Families, i \in Nat : v.now = <<f, i>> /\ i \in 1..Len(box[f])
  <2>1. v.now \in Interactions /\ v.now[2] \in 1..Len(box[v.now[1]])
    BY <1>1 DEF TakeoverInv, BoxInv, AtRecords
  <2> QED BY <2>1 DEF Interactions
<1>3. /\ box' = [box EXCEPT ![f][i] = "superseded"]
      /\ rec' = [rec EXCEPT ![r].step = "reissue"]
      /\ UNCHANGED <<wlog, call, sweep, overlapped, goals, message, synced>>
      /\ UNCHANGED <<announced, cut, adopted, recoveries, crashes>>
  BY <1>1, <1>2 DEF SupersedeRecord, workerVars, goalVars
<1>4. PICK u : u = [v EXCEPT !.step = "reissue"]
  OBVIOUS
<1>5. u \in RecoveryState /\ u.step = "reissue" /\ u.now = v.now /\ u.stale = v.stale
  BY <1>1, <1>4 DEF RecoveryState
<1>6. Moves(r, u)
  BY <1>1, <1>3, <1>4 DEF Moves
<1>7. /\ rec'[r] = u /\ \A q \in Recoverers \ {r} : rec'[q] = rec[q]
  BY <1>5, <1>6, MovesOne DEF TakeoverInv
<1>8. BoxTypeOK' /\ BoxGrows /\ \A g \in Families : Len(box'[g]) = Len(box[g])
  <2>1. BoxTypeOK /\ announced' \in [Families -> Nat] /\ UNCHANGED cut
    BY <1>3 DEF TakeoverInv, BoxInv, BoxTypeOK
  <2> QED BY <1>2, <1>3, <2>1, OneChanges
<1>9. ASSUME NEW q \in Recoverers, rec'[q] # NoRecovery PROVE AtRecords(rec[q])'
  <2>1. CASE q = r
    <3>1. AtRecords(u)
      BY <1>1, <1>5 DEF TakeoverInv, BoxInv, AtRecords
    <3>2. AtRecords(u)'
      BY <1>5, <1>8, <3>1, AtRecordsStays DEF TakeoverInv, BoxInv
    <3> QED BY <1>7, <2>1, <3>2
  <2>2. CASE q # r
    <3>1. rec'[q] = rec[q] /\ AtRecords(rec[q]) /\ rec[q] \in RecoveryState
      BY <1>7, <1>9, <2>2 DEF TakeoverInv, BoxInv, RecTypeOK
    <3>2. PICK z \in RecoveryState : z = rec[q] /\ AtRecords(z) /\ z = rec'[q]
      BY <3>1
    <3>3. AtRecords(z)'
      BY <1>8, <3>2, AtRecordsStays DEF TakeoverInv, BoxInv
    <3> QED BY <3>2, <3>3
  <2> QED BY <2>1, <2>2
<1>10. ASSUME NEW g \in Families \ cut' PROVE Succeeded(g)'
  <2>1. Succeeded(g)
    BY <1>3, <1>10 DEF TakeoverInv, BoxInv
  <2>2. \A q \in MidReissue : q \in MidReissue' /\ rec'[q].now = rec[q].now
    BY <1>1, <1>5, <1>7 DEF MidReissue
  <2> QED BY <1>3, <1>8, <2>1, <2>2 DEF Succeeded
<1>11. BoxInv'
  BY <1>8, <1>9, <1>10 DEF BoxInv
<1>12. recoveries' \in Nat
  BY <1>3 DEF TakeoverInv, RecTypeOK
<1> QED BY <1>1, <1>3, <1>5, <1>6, <1>11, <1>12, MoveKeeps

LEMMA ReissueKeeps ==
    ASSUME TakeoverInv, NEW r \in Recoverers, ReissueRecord(r) PROVE TakeoverInv'
<1>1. PICK v \in RecoveryState : v = rec[r] /\ v.step = "reissue" /\ v # NoRecovery
  BY InRecovery DEF ReissueRecord, TakeoverInv
<1>2. PICK f \in Families, i \in Nat : v.now = <<f, i>> /\ i \in 1..Len(box[f])
  <2>1. v.now \in Interactions /\ v.now[2] \in 1..Len(box[v.now[1]])
    BY <1>1 DEF TakeoverInv, BoxInv, AtRecords
  <2> QED BY <2>1 DEF Interactions
<1>3. /\ box' = IF i + 1 \in DOMAIN box[f] THEN [box EXCEPT ![f][i + 1] = "pending"]
                ELSE [box EXCEPT ![f] = Append(@, "pending")]
      /\ rec' = [rec EXCEPT ![r].step = "announce", ![r].now = <<>>]
      /\ UNCHANGED <<wlog, call, sweep, overlapped, goals, message, synced>>
      /\ UNCHANGED <<announced, cut, adopted, recoveries, crashes>>
  BY <1>1, <1>2 DEF ReissueRecord, workerVars, goalVars
<1>4. PICK u : u = [v EXCEPT !.step = "announce", !.now = <<>>]
  OBVIOUS
<1>5. u \in RecoveryState /\ u.step = "announce" /\ u.stale = v.stale
  BY <1>1, <1>4 DEF RecoveryState
<1>6. Moves(r, u)
  BY <1>1, <1>3, <1>4 DEF Moves
<1>7. /\ rec'[r] = u /\ \A q \in Recoverers \ {r} : rec'[q] = rec[q]
  BY <1>5, <1>6, MovesOne DEF TakeoverInv
<1>8. BoxTypeOK /\ announced' \in [Families -> Nat] /\ UNCHANGED cut
  BY <1>3 DEF TakeoverInv, BoxInv, BoxTypeOK
<1>9. BoxTypeOK' /\ BoxGrows /\ i < Len(box'[f])
  <2>1. PICK old \in Seq({"pending", "delivered", "delivery_failed", "superseded"}) : old = box[f]
    BY <1>8 DEF BoxTypeOK
  <2>2. CASE i + 1 \in DOMAIN box[f]
    <3>1. i + 1 \in 1..Len(box[f])
      BY <2>1, <2>2
    <3>2. box' = [box EXCEPT ![f][i + 1] = "pending"]
      BY <1>3, <2>2
    <3>3. BoxTypeOK' /\ BoxGrows /\ Len(box'[f]) = Len(box[f])
      BY <1>2, <1>8, <3>1, <3>2, OneChanges
    <3> QED BY <2>1, <3>1, <3>3
  <2>3. CASE i + 1 \notin DOMAIN box[f]
    <3>1. i = Len(old)
      BY <1>2, <2>1, <2>3
    <3>2. PICK new \in Seq({"pending", "delivered", "delivery_failed", "superseded"}) :
              new = Append(old, "pending") /\ Len(new) = Len(old) + 1
      <4>1. /\ Append(old, "pending")
                    \in Seq({"pending", "delivered", "delivery_failed", "superseded"})
            /\ Len(Append(old, "pending")) = Len(old) + 1
        BY <2>1
      <4> QED BY <4>1
    <3>3. box' = [box EXCEPT ![f] = new]
      BY <1>3, <2>1, <2>3, <3>2
    <3>4. \A g \in Families : Len(box[g]) \in Nat /\ (g # f => box'[g] = box[g])
      BY <1>8, <3>3 DEF BoxTypeOK
    <3>5. box'[f] = new
      BY <1>8, <3>3 DEF BoxTypeOK
    <3>6. BoxTypeOK'
      BY <1>8, <3>2, <3>3, <3>4, <3>5 DEF BoxTypeOK
    <3>7. BoxGrows
      BY <2>1, <3>2, <3>4, <3>5 DEF BoxGrows
    <3> QED BY <3>1, <3>2, <3>5, <3>6, <3>7
  <2> QED BY <2>2, <2>3
<1>10. ASSUME NEW q \in Recoverers, rec'[q] # NoRecovery PROVE AtRecords(rec[q])'
  <2>1. CASE q = r
    <3>1. AtRecords(u)
      BY <1>1, <1>5 DEF TakeoverInv, BoxInv, AtRecords
    <3>2. AtRecords(u)'
      BY <1>5, <1>8, <1>9, <3>1, AtRecordsStays
    <3> QED BY <1>7, <2>1, <3>2
  <2>2. CASE q # r
    <3>1. PICK z \in RecoveryState : z = rec[q] /\ AtRecords(z) /\ z = rec'[q]
      BY <1>7, <1>10, <2>2 DEF TakeoverInv, BoxInv, RecTypeOK
    <3>2. AtRecords(z)'
      BY <1>8, <1>9, <3>1, AtRecordsStays
    <3> QED BY <3>1, <3>2
  <2> QED BY <2>1, <2>2
<1>11. ASSUME NEW g \in Families \ cut' PROVE Succeeded(g)'
  <2>1. Succeeded(g)
    BY <1>3, <1>11 DEF TakeoverInv, BoxInv
  <2>2. CASE announced[g] < Len(box[g])
    <3>1. /\ Len(box[g]) \in Nat /\ Len(box'[g]) \in Nat /\ announced[g] \in Nat
          /\ Len(box[g]) <= Len(box'[g])
      BY <1>8, <1>9 DEF BoxTypeOK, BoxGrows
    <3> QED BY <1>3, <2>2, <3>1 DEF Succeeded
  <2>3. CASE \E q \in MidReissue : rec[q].now = <<g, announced[g]>>
    <3>1. PICK q \in MidReissue : rec[q].now = <<g, announced[g]>>
      BY <2>3
    <3>2. CASE q = r
      BY <1>1, <1>2, <1>3, <1>9, <3>1, <3>2 DEF Succeeded
    <3>3. CASE q # r
      BY <1>3, <1>7, <3>1, <3>3 DEF Succeeded, MidReissue
    <3> QED BY <3>2, <3>3
  <2> QED BY <2>1, <2>2, <2>3 DEF Succeeded
<1>12. BoxInv'
  BY <1>9, <1>10, <1>11 DEF BoxInv
<1>13. recoveries' \in Nat
  BY <1>3 DEF TakeoverInv, RecTypeOK
<1> QED BY <1>1, <1>3, <1>5, <1>6, <1>12, <1>13, MoveKeeps

LEMMA DeliverKeeps ==
    ASSUME TakeoverInv, NEW f \in Families, NEW i \in Nat,
           NEW s \in {"delivered", "delivery_failed"}, Deliver(f, i, s)
    PROVE  TakeoverInv'
<1>1. /\ i \in DOMAIN box[f] /\ box' = [box EXCEPT ![f][i] = s]
      /\ UNCHANGED <<wlog, call, sweep, overlapped, goals, message, synced>>
      /\ UNCHANGED <<rec, announced, cut, adopted, recoveries, crashes>>
  BY DEF Deliver, workerVars, goalVars
<1>2. BoxTypeOK /\ announced' \in [Families -> Nat] /\ UNCHANGED cut
  BY <1>1 DEF TakeoverInv, BoxInv, BoxTypeOK
<1>3. i \in 1..Len(box[f])
  BY <1>1, <1>2 DEF BoxTypeOK
<1>4. BoxTypeOK' /\ BoxGrows /\ \A g \in Families : Len(box'[g]) = Len(box[g])
  BY <1>1, <1>2, <1>3, OneChanges
<1>5. ASSUME NEW q \in Recoverers, rec'[q] # NoRecovery PROVE AtRecords(rec[q])'
  <2>1. PICK z \in RecoveryState : z = rec[q] /\ AtRecords(z) /\ z = rec'[q]
    BY <1>1, <1>5 DEF TakeoverInv, BoxInv, RecTypeOK
  <2>2. AtRecords(z)'
    BY <1>2, <1>4, <2>1, AtRecordsStays
  <2> QED BY <2>1, <2>2
<1>6. ASSUME NEW g \in Families \ cut' PROVE Succeeded(g)'
  <2>1. Succeeded(g)
    BY <1>1, <1>6 DEF TakeoverInv, BoxInv
  <2> QED BY <1>1, <1>4, <2>1 DEF Succeeded, MidReissue
<1>7. BoxInv'
  BY <1>4, <1>5, <1>6 DEF BoxInv
<1>8. WorkersInv' /\ EndsStay
  BY <1>1, WorkersRest DEF TakeoverInv
<1>9. RecTypeOK'
  BY <1>1 DEF TakeoverInv, RecTypeOK
<1>10. GoalsInv' /\ GoalsGrow
  BY <1>1, GoalsStay DEF TakeoverInv
<1>11. ContractInv'
  BY <1>1, <1>10, ContractStays DEF TakeoverInv
<1>12. SettleInv'
  BY <1>1, <1>8, WorkersInHandStay DEF TakeoverInv, SettleInv
<1> QED BY <1>7, <1>8, <1>9, <1>10, <1>11, <1>12 DEF TakeoverInv

\* A step of a recovery that leaves the outbox and the contract alone.
LEMMA InHandKeeps ==
    ASSUME TakeoverInv, NEW r \in Recoverers, NEW u \in RecoveryState \cup {NoRecovery},
           Moves(r, u), rec[r].step \notin {"supersede", "reissue"},
           u # NoRecovery => AtRecords(u) /\ AtContract(u),
           UNCHANGED <<goals, message, synced, box, announced, cut, adopted, recoveries, crashes>>,
           WorkersInv', EndsStay, overlapped \subseteq overlapped',
           sweep' \in [Callers -> SUBSET (Workers \X Lifecycle)],
           \A q \in Recoverers \ {r} : call'[q] = call[q] /\ sweep'[q] = sweep[q],
           SettlesOnly(r)', AtWorkers(r)'
    PROVE  TakeoverInv'
<1>1. /\ rec' \in [Recoverers -> RecoveryState \cup {NoRecovery}] /\ rec'[r] = u
      /\ \A q \in Recoverers \ {r} : rec'[q] = rec[q]
  BY MovesOne DEF TakeoverInv
<1>2. RecTypeOK'
  BY <1>1 DEF TakeoverInv, RecTypeOK
<1>3. GoalsInv' /\ GoalsGrow
  BY GoalsStay DEF TakeoverInv
<1>4. BoxInv'
  BY BoxRests DEF TakeoverInv
<1>5. ContractInv'
  <2>1. \A q \in Recoverers : rec'[q] # NoRecovery => AtContract(rec[q])'
    BY <1>1 DEF TakeoverInv, ContractInv, AtContract
  <2>2. ChildGoalIsThePackets'
    BY DEF TakeoverInv, ContractInv, ChildGoalIsThePackets
  <2> QED BY <2>1, <2>2 DEF ContractInv
<1>6. ASSUME NEW q \in Recoverers, q # r PROVE SettlesOnly(q)' /\ AtWorkers(q)'
  BY <1>1, <1>6, WorkersInHandStay DEF TakeoverInv, SettleInv
<1> QED BY <1>2, <1>3, <1>4, <1>5, <1>6 DEF TakeoverInv, SettleInv

\* A worker that was requested and gets no verdict has ended, unless the last that was
\* recorded of it is a refusal.
LEMMA NoVerdict ==
    ASSUME LogTypeOK, NEW w \in Workers, Requested(w), Verdict(wlog[w]) = "none",
           Last(wlog[w]) # "transition_rejected"
    PROVE  Ended(w)
<1>1. PICK log \in Seq(Events) : log = wlog[w]
  BY DEF LogTypeOK
<1>2. PICK n \in Nat : n = Len(log) /\ n \in 1..n
  BY <1>1 DEF Requested, Contains
<1>3. Last(log) = log[n] /\ log[n] \in Events
  BY <1>1, <1>2 DEF Last
<1>4. log[n] \in Terminal
  BY <1>1, <1>3 DEF Verdict, Events, Lifecycle
<1>5. LatestUpTo(log, n) = n
  <2>1. /\ LatestUpTo(log, n) \in 0..n
        /\ \A i \in 1..n : Stands(log, i) => i <= LatestUpTo(log, n)
    BY LatestIs
  <2> QED BY <1>1, <1>2, <1>3, <2>1 DEF Stands
<1>6. CurrentState(log) = StateAfter(log[n])
  BY <1>2, <1>5 DEF CurrentState, StateAsOf
<1> QED BY <1>1, <1>4, <1>6, NothingAfterTheEnd DEF Ended

LEMMA ScanKeeps ==
    ASSUME TakeoverInv, NEW r \in Recoverers, ScanWorkers(r) PROVE TakeoverInv'
<1>1. PICK v \in RecoveryState : v = rec[r] /\ v.step = "announce" /\ v.stale = {} /\ v # NoRecovery
  BY InRecovery DEF ScanWorkers, TakeoverInv
<1>2. /\ UNCHANGED <<wlog, call, overlapped, goals, message, synced>>
      /\ UNCHANGED <<box, announced, cut, adopted, recoveries, crashes>>
  BY DEF ScanWorkers, goalVars
<1>3. recoveries' \in Nat
  BY <1>2 DEF TakeoverInv, RecTypeOK
<1>4. CASE ~v.child
  <2>1. Moves(r, NoRecovery) /\ UNCHANGED sweep
    BY <1>1, <1>4 DEF ScanWorkers, Moves
  <2>2. NoRecovery \in RecoveryState \cup {NoRecovery}
    OBVIOUS
  <2>3. BoxInv'
    BY <1>1, <1>2, <2>1, <2>2, BoxRests DEF TakeoverInv
  <2> QED BY <1>1, <1>2, <1>3, <2>1, <2>2, <2>3, MoveKeeps, NoRecoveryIsIdle
<1>5. CASE v.child
  <2>1. PICK K \in SUBSET Workers : K = {w \in Workers : Requested(w)}
    OBVIOUS
  <2>2. PICK H \in SUBSET Workers : H = {w \in K : Last(wlog[w]) = "transition_rejected"}
    OBVIOUS
  <2>3. PICK V \in SUBSET (Workers \X Endings) :
            V = {<<w, Verdict(wlog[w])>> : w \in {k \in K : Verdict(wlog[k]) # "none"}}
    <3>1. \A w \in K : Verdict(wlog[w]) # "none" => <<w, Verdict(wlog[w])>> \in Workers \X Endings
      BY DEF Verdict, Endings
    <3>2. {<<w, Verdict(wlog[w])>> : w \in {k \in K : Verdict(wlog[k]) # "none"}}
              \in SUBSET (Workers \X Endings)
      BY <3>1
    <3> QED BY <3>2
  <2>4. PICK u : u = [v EXCEPT !.step = "workers", !.scanned = K, !.hidden = H]
    OBVIOUS
  <2>5. /\ u \in RecoveryState /\ u.step = "workers" /\ u.scanned = K /\ u.hidden = H
        /\ u.stale = {}
    BY <1>1, <2>4 DEF RecoveryState
  <2>6. /\ sweep' = [sweep EXCEPT ![r] = V]
        /\ rec' = [rec EXCEPT ![r].step = "workers", ![r].scanned = K, ![r].hidden = H]
    BY <1>1, <1>5, <2>1, <2>2, <2>3 DEF ScanWorkers
  <2>7. Moves(r, u)
    BY <1>1, <2>4, <2>6 DEF Moves
  <2>8. /\ sweep' \in [Callers -> SUBSET (Workers \X Lifecycle)] /\ sweep'[r] = V
        /\ \A q \in Recoverers \ {r} : sweep'[q] = sweep[q]
    <3>1. V \in SUBSET (Workers \X Lifecycle)
      BY <2>3 DEF Endings, Lifecycle, Terminal
    <3> QED BY <2>6, <3>1, OtherCallers DEF TakeoverInv, RecTypeOK
  <2>9. WorkersInv' /\ EndsStay
    BY <1>2, WorkersRest DEF TakeoverInv
  <2>10. rec'[r] = u
    BY <2>5, <2>7, MovesOne DEF TakeoverInv
  <2>11. SettlesOnly(r)'
    <3>1. call[r] = NoCall
      BY <1>1 DEF TakeoverInv, SettleInv, SettlesOnly
    <3> QED BY <1>2, <2>3, <2>8, <3>1 DEF SettlesOnly
  <2>12. ASSUME NEW w \in K \ (H \cup overlapped) PROVE Ended(w) \/ \E x \in V : x[1] = w
    <3>1. CASE Verdict(wlog[w]) = "none"
      BY <2>1, <2>2, <2>12, <3>1, NoVerdict DEF TakeoverInv, WorkersInv
    <3>2. CASE Verdict(wlog[w]) # "none"
      <4>1. <<w, Verdict(wlog[w])>> \in V
        BY <2>3, <2>12, <3>2
      <4> QED BY <4>1
    <3> QED BY <3>1, <3>2
  <2>13. AtWorkers(r)'
    BY <1>2, <2>5, <2>8, <2>10, <2>12 DEF AtWorkers, Settling, Ended
  <2>14. AtRecords(u) /\ AtContract(u)
    BY <2>5 DEF AtRecords, AtContract
  <2> QED BY <1>1, <1>2, <2>5, <2>7, <2>8, <2>9, <2>11, <2>13, <2>14, InHandKeeps
<1> QED BY <1>4, <1>5

LEMMA NoCallIsNone ==
    \A k \in [worker : Workers, event : Lifecycle, seen : Nat] : k # NoCall
  BY DEF NoCall

\* One worker that is left of the scan: the table lets its end through, or the recovery ends.
LEMMA SettleKeeps ==
    ASSUME TakeoverInv, NEW r \in Recoverers, SettleWorker(r) PROVE TakeoverInv'
<1> r \in Callers
  BY OtherCallers
<1>1. PICK v \in RecoveryState : v = rec[r] /\ v.step = "workers" /\ v # NoRecovery
  BY InRecovery DEF SettleWorker, TakeoverInv
<1>2. /\ UNCHANGED <<goals, message, synced>>
      /\ UNCHANGED <<box, announced, cut, adopted, recoveries, crashes>> /\ call[r] = NoCall
  BY DEF SettleWorker, goalVars
<1>3. PICK x \in sweep[r] :
          \/ Admit(r, x[1], x[2]) /\ sweep' = [sweep EXCEPT ![r] = @ \ {x}]
          \/ Refuse(r, x[1], x[2]) /\ sweep' = [sweep EXCEPT ![r] = {}]
  BY DEF SettleWorker, SweepNext
<1>4. sweep[r] \subseteq Workers \X Lifecycle /\ \A y \in sweep[r] : y[2] \in Endings
  BY DEF TakeoverInv, RecTypeOK, SettleInv, SettlesOnly
<1>5. x[1] \in Workers /\ x[2] \in Lifecycle /\ x[2] \in Endings
  BY <1>3, <1>4
<1>6. PICK w \in Workers, e \in Lifecycle : w = x[1] /\ e = x[2]
  BY <1>5
<1>7. CASE Admit(r, w, e) /\ sweep' = [sweep EXCEPT ![r] = @ \ {x}]
  <2>1. /\ WorkersInv' /\ UNCHANGED <<wlog, overlapped>>
        /\ call'[r] = [worker |-> w, event |-> e, seen |-> Latest(wlog[w])]
        /\ \A d \in Callers \ {r} : call'[d] = call[d]
    BY <1>7, AdmitKeeps DEF TakeoverInv
  <2>2. call'[r].worker = w /\ call'[r].event = e
    BY <2>1
  <2>3. call'[r] # NoCall
    <3>1. DOMAIN [worker |-> w, event |-> e, seen |-> Latest(wlog[w])]
              = {"worker", "event", "seen"}
          /\ DOMAIN [worker |-> "none"] = {"worker"}
      OBVIOUS
    <3>2. "event" \notin {"worker"}
      OBVIOUS
    <3> QED BY <2>1, <3>1, <3>2 DEF NoCall
  <2>4. Moves(r, v)
    <3>1. rec' = rec
      BY <2>3 DEF SettleWorker
    <3> QED BY <1>1, <3>1 DEF Moves, TakeoverInv, RecTypeOK
  <2>5. rec'[r] = v
    BY <2>4, MovesOne DEF TakeoverInv
  <2>6. /\ sweep' \in [Callers -> SUBSET (Workers \X Lifecycle)] /\ sweep'[r] = sweep[r] \ {x}
        /\ \A q \in Recoverers \ {r} : sweep'[q] = sweep[q]
    BY <1>4, <1>7, OtherCallers DEF TakeoverInv, RecTypeOK
  <2>7. SettlesOnly(r)'
    BY <1>1, <1>4, <1>5, <1>6, <2>2, <2>5, <2>6 DEF SettlesOnly
  <2>8. ASSUME NEW k \in v.scanned \ (v.hidden \cup overlapped')
        PROVE  Ended(k)' \/ Settling(r, k)'
    <3>1. Ended(k) \/ Settling(r, k)
      BY <1>1, <2>1, <2>8 DEF TakeoverInv, SettleInv, AtWorkers
    <3>2. Ended(k) => Ended(k)'
      BY <2>1 DEF Ended
    <3>3. ASSUME NEW y \in sweep[r], y[1] = k PROVE Settling(r, k)'
      BY <1>6, <2>2, <2>3, <2>6, <3>3 DEF Settling
    <3> QED BY <1>2, <3>1, <3>2, <3>3 DEF Settling
  <2>9. AtWorkers(r)'
    BY <1>1, <2>5, <2>8 DEF AtWorkers
  <2>10. AtRecords(v) /\ AtContract(v)
    BY <1>1 DEF TakeoverInv, BoxInv, ContractInv
  <2>11. EndsStay /\ overlapped \subseteq overlapped'
    BY <2>1 DEF EndsStay, Ended
  <2>12. \A q \in Recoverers \ {r} : call'[q] = call[q] /\ sweep'[q] = sweep[q]
    BY <2>1, <2>6, OtherCallers
  <2> QED BY <1>1, <1>2, <2>1, <2>4, <2>6, <2>7, <2>9, <2>10, <2>11, <2>12, InHandKeeps
<1>8. CASE Refuse(r, w, e) /\ sweep' = [sweep EXCEPT ![r] = {}]
  <2>1. WorkersInv' /\ UNCHANGED <<call, overlapped>> /\ EndsStay
    BY <1>8, RefuseKeeps DEF TakeoverInv
  <2>2. Moves(r, NoRecovery)
    BY <1>2, <2>1 DEF SettleWorker, Moves
  <2>3. rec'[r] = NoRecovery
    BY <2>2, MovesOne DEF TakeoverInv
  <2>4. /\ sweep' \in [Callers -> SUBSET (Workers \X Lifecycle)] /\ sweep'[r] = {}
        /\ \A q \in Recoverers \ {r} : sweep'[q] = sweep[q]
    BY <1>8, OtherCallers DEF TakeoverInv, RecTypeOK
  <2>5. SettlesOnly(r)' /\ AtWorkers(r)'
    BY <1>2, <2>1, <2>3, <2>4, NoRecoveryIsIdle DEF SettlesOnly, AtWorkers
  <2> QED BY <1>1, <1>2, <2>1, <2>2, <2>4, <2>5, InHandKeeps
<1> QED BY <1>3, <1>6, <1>7, <1>8

LEMMA SettleWritesKeeps ==
    ASSUME TakeoverInv, NEW r \in Recoverers, SettleWorkerWrites(r) PROVE TakeoverInv'
<1> r \in Callers
  BY OtherCallers
<1>1. /\ WriteEvent(r) /\ UNCHANGED <<goals, message, synced>>
      /\ UNCHANGED <<box, announced, cut, adopted, recoveries, crashes>>
  BY DEF SettleWorkerWrites, CallerWrites, goalVars
<1>2. call[r] # NoCall /\ call[r].event \in Endings /\ rec[r].step = "workers"
  BY <1>1 DEF WriteEvent, TakeoverInv, SettleInv, SettlesOnly
<1>3. PICK v \in RecoveryState : v = rec[r] /\ v.step = "workers" /\ v # NoRecovery
  BY <1>2, InRecovery DEF TakeoverInv
<1>4. /\ WorkersInv' /\ EndsStay /\ overlapped \subseteq overlapped'
      /\ call' = [call EXCEPT ![r] = NoCall]
      /\ WriteConflicts(r) \/ Appends(call[r].worker, call[r].event)
  BY <1>1, WriteKeeps DEF TakeoverInv
<1>5. call'[r] = NoCall /\ \A q \in Recoverers \ {r} : call'[q] = call[q]
  BY <1>4, OtherCallers DEF TakeoverInv, WorkersInv, LogTypeOK
<1>6. PICK k \in [worker : Workers, event : Lifecycle, seen : Nat] : k = call[r]
  BY <1>2 DEF TakeoverInv, WorkersInv, LogTypeOK
<1>7. CASE WriteConflicts(r)
  <2>1. Moves(r, NoRecovery) /\ sweep' = [sweep EXCEPT ![r] = {}]
    BY <1>7 DEF SettleWorkerWrites, CallerWrites, Moves
  <2>2. rec'[r] = NoRecovery
    BY <2>1, MovesOne DEF TakeoverInv
  <2>3. /\ sweep' \in [Callers -> SUBSET (Workers \X Lifecycle)] /\ sweep'[r] = {}
        /\ \A q \in Recoverers \ {r} : sweep'[q] = sweep[q]
    BY <2>1, OtherCallers DEF TakeoverInv, RecTypeOK
  <2>4. SettlesOnly(r)' /\ AtWorkers(r)'
    BY <1>5, <2>2, <2>3, NoRecoveryIsIdle DEF SettlesOnly, AtWorkers
  <2> QED BY <1>1, <1>3, <1>4, <1>5, <2>1, <2>3, <2>4, InHandKeeps
<1>8. CASE ~WriteConflicts(r)
  <2>1. rec' = rec /\ sweep' = sweep
    BY <1>8 DEF SettleWorkerWrites, CallerWrites
  <2>2. Moves(r, v)
    BY <1>3, <2>1 DEF Moves, TakeoverInv, RecTypeOK
  <2>3. SettlesOnly(r)'
    BY <1>5, <2>1 DEF TakeoverInv, SettleInv, SettlesOnly
  <2>4. PICK w \in Workers, e \in Lifecycle : w = k.worker /\ e = k.event
    BY <1>6
  <2>5. Ended(w)'
    <3>1. Appends(w, e) /\ e \in Events /\ e \in Terminal
      BY <1>2, <1>4, <1>6, <1>8, <2>4 DEF Events, Endings, Terminal
    <3>2. wlog[w] \in Seq(Events) /\ wlog'[w] = Append(wlog[w], e)
      BY <3>1, LogAppends DEF TakeoverInv, WorkersInv
    <3>3. CurrentState(wlog'[w]) = e
      BY <3>1, <3>2, AppendTransition, NothingAfterTheEnd
    <3> QED BY <3>1, <3>3 DEF Ended
  <2>6. ASSUME NEW d \in v.scanned \ (v.hidden \cup overlapped')
        PROVE  Ended(d)' \/ Settling(r, d)'
    <3>1. Ended(d) \/ Settling(r, d)
      BY <1>3, <1>4, <2>6 DEF TakeoverInv, SettleInv, AtWorkers
    <3>2. d \in Workers
      BY <2>6 DEF RecoveryState
    <3>3. Ended(d) => Ended(d)'
      BY <2>6, <3>2, <1>4 DEF EndsStay
    <3>4. Settling(r, d) => d = w \/ Settling(r, d)'
      BY <1>6, <2>1, <2>4 DEF Settling
    <3> QED BY <2>5, <3>1, <3>3, <3>4
  <2>7. AtWorkers(r)'
    BY <1>3, <2>1, <2>6 DEF AtWorkers
  <2>8. AtRecords(v) /\ AtContract(v)
    BY <1>3 DEF TakeoverInv, BoxInv, ContractInv
  <2>9. sweep' \in [Callers -> SUBSET (Workers \X Lifecycle)]
    BY <2>1 DEF TakeoverInv, RecTypeOK
  <2> QED BY <1>1, <1>3, <1>4, <1>5, <2>1, <2>2, <2>3, <2>7, <2>8, <2>9, InHandKeeps
<1> QED BY <1>7, <1>8

LEMMA ReadContractKeeps ==
    ASSUME TakeoverInv, NEW r \in Recoverers, ReadContract(r) PROVE TakeoverInv'
<1>1. PICK v \in RecoveryState : v = rec[r] /\ v.step = "workers" /\ v # NoRecovery
  BY InRecovery DEF ReadContract, TakeoverInv
<1>2. /\ sweep[r] = {} /\ call[r] = NoCall
      /\ UNCHANGED <<wlog, call, sweep, overlapped, goals, message, synced>>
      /\ UNCHANGED <<box, announced, cut, adopted, recoveries, crashes>>
  BY DEF ReadContract, workerVars, goalVars
<1>3. WorkersInv' /\ EndsStay
  BY <1>2, WorkersRest DEF TakeoverInv
<1>4. PICK u \in RecoveryState \cup {NoRecovery} :
          /\ Moves(r, u)
          /\ u # NoRecovery => /\ u.step = "adopt" /\ u.scanned = v.scanned
                               /\ u.hidden = v.hidden /\ u.stale = v.stale
                               /\ AtContract(u)
  <2>1. CASE rec[r].packet = 0 \/ Version = 0 \/ ~Adoptable(r)
    <3>1. Moves(r, NoRecovery)
      BY <2>1 DEF ReadContract, Moves
    <3> QED BY <3>1
  <2>2. CASE ~(rec[r].packet = 0 \/ Version = 0 \/ ~Adoptable(r))
    <3>1. PICK n \in Nat : n = Version /\ n = Len(goals) /\ n = v.packet /\ n # 0
      <4>1. Version = Len(goals) /\ Len(goals) \in Nat
        BY VersionIsLength DEF TakeoverInv, GoalsInv, GoalsTypeOK
      <4> QED BY <1>1, <2>2, <4>1 DEF Adoptable
    <3>2. PICK u : u = [v EXCEPT !.step = "adopt", !.contract = n]
      OBVIOUS
    <3>3. /\ u \in RecoveryState /\ u.step = "adopt" /\ u.scanned = v.scanned
          /\ u.hidden = v.hidden /\ u.stale = v.stale /\ u.contract = n /\ u.packet = v.packet
      BY <1>1, <3>2 DEF RecoveryState
    <3>4. Moves(r, u)
      BY <1>1, <2>2, <3>1, <3>2 DEF ReadContract, Moves
    <3>5. AtContract(u)
      BY <3>1, <3>3 DEF AtContract
    <3> QED BY <3>3, <3>4, <3>5
  <2> QED BY <2>1, <2>2
<1>5. rec'[r] = u
  BY <1>4, MovesOne DEF TakeoverInv
<1>6. SettlesOnly(r)'
  BY <1>2 DEF SettlesOnly
<1>7. AtWorkers(r)'
  <2>1. \A w \in v.scanned \ (v.hidden \cup overlapped) : Ended(w)
    BY <1>1, <1>2 DEF TakeoverInv, SettleInv, AtWorkers, Settling
  <2>2. CASE u = NoRecovery
    BY <1>5, <2>2, NoRecoveryIsIdle DEF AtWorkers
  <2>3. CASE u # NoRecovery
    BY <1>2, <1>4, <1>5, <2>1, <2>3 DEF AtWorkers, Ended
  <2> QED BY <2>2, <2>3
<1>8. u # NoRecovery => AtRecords(u) /\ AtContract(u)
  BY <1>1, <1>4 DEF AtRecords, TakeoverInv, BoxInv
<1>9. sweep' \in [Callers -> SUBSET (Workers \X Lifecycle)]
  BY <1>2 DEF TakeoverInv, RecTypeOK
<1> QED BY <1>1, <1>2, <1>3, <1>4, <1>6, <1>7, <1>8, <1>9, InHandKeeps

LEMMA AdoptKeeps ==
    ASSUME TakeoverInv, NEW r \in Recoverers, AdoptContract(r) PROVE TakeoverInv'
<1>1. PICK v \in RecoveryState : v = rec[r] /\ v.step = "adopt" /\ v # NoRecovery
  BY InRecovery DEF AdoptContract, TakeoverInv
<1>2. /\ UNCHANGED <<wlog, call, sweep, overlapped, goals, message, synced>>
      /\ UNCHANGED <<box, announced, cut, recoveries, crashes>> /\ Moves(r, NoRecovery)
  BY DEF AdoptContract, workerVars, goalVars, Moves
<1>3. v.contract = v.packet /\ v.packet \in 1..Len(goals)
  BY <1>1 DEF TakeoverInv, ContractInv, AtContract
<1>4. PICK a \in [id : Nat, packet : Nat, goal : Messages] :
          /\ adopted' = adopted \cup {a}
          /\ a.packet = v.packet /\ a.goal = goals[v.packet].by
  <2>1. goals[v.packet].by \in Messages /\ v.packet \in Nat /\ v.id \in Nat
    <3>1. goals \in Seq([by : Messages, version : Nat])
      BY DEF TakeoverInv, GoalsInv, GoalsTypeOK
    <3>2. PICK n \in 1..Len(goals) : n = v.packet
      BY <1>3
    <3>3. goals[n] \in [by : Messages, version : Nat]
      BY <3>1, <3>2, ElementIn
    <3> QED BY <1>1, <3>2, <3>3 DEF RecoveryState
  <2>2. PICK a : a = [id |-> v.id, packet |-> v.packet, goal |-> goals[v.packet].by]
    OBVIOUS
  <2>3. adopted' = adopted \cup {a}
    BY <1>1, <1>3, <2>2 DEF AdoptContract
  <2> QED BY <2>1, <2>2, <2>3
<1>5. /\ rec' \in [Recoverers -> RecoveryState \cup {NoRecovery}] /\ rec'[r] = NoRecovery
      /\ \A q \in Recoverers \ {r} : rec'[q] = rec[q]
  BY <1>2, MovesOne DEF TakeoverInv
<1>6. RecTypeOK'
  <2>1. adopted' \subseteq [id : Nat, packet : Nat, goal : Messages]
    BY <1>4 DEF TakeoverInv, RecTypeOK
  <2>2. /\ sweep' \in [Callers -> SUBSET (Workers \X Lifecycle)]
        /\ recoveries' \in Nat /\ crashes' \in Nat
    BY <1>2 DEF TakeoverInv, RecTypeOK
  <2> QED BY <1>5, <2>1, <2>2 DEF RecTypeOK
<1>7. WorkersInv' /\ EndsStay
  BY <1>2, WorkersRest DEF TakeoverInv
<1>8. GoalsInv' /\ GoalsGrow
  BY <1>2, GoalsStay DEF TakeoverInv
<1>9. BoxInv'
  BY <1>1, <1>2, BoxRests DEF TakeoverInv
<1>10. ContractInv'
  <2>1. \A q \in Recoverers : rec'[q] # NoRecovery => AtContract(rec[q])'
    BY <1>2, <1>5 DEF TakeoverInv, ContractInv, AtContract
  <2>2. ChildGoalIsThePackets'
    BY <1>2, <1>3, <1>4 DEF TakeoverInv, ContractInv, ChildGoalIsThePackets
  <2> QED BY <2>1, <2>2 DEF ContractInv
<1>11. SettlesOnly(r)' /\ AtWorkers(r)'
  <2>1. call[r] = NoCall /\ \A x \in sweep[r] : x[2] \in Endings
    BY <1>1 DEF TakeoverInv, SettleInv, SettlesOnly
  <2> QED BY <1>2, <1>5, <2>1, NoRecoveryIsIdle DEF SettlesOnly, AtWorkers
<1>12. ASSUME NEW q \in Recoverers, q # r PROVE SettlesOnly(q)' /\ AtWorkers(q)'
  BY <1>2, <1>5, <1>7, <1>12, WorkersInHandStay DEF TakeoverInv, SettleInv
<1> QED BY <1>6, <1>7, <1>8, <1>9, <1>10, <1>11, <1>12 DEF TakeoverInv, SettleInv

\* A restart ends all recoveries; an interaction that one of them was at is set apart.
LEMMA CrashKeeps == ASSUME TakeoverInv, Crash PROVE TakeoverInv'
<1>1. /\ cut' = cut \cup {rec[r].now[1] : r \in MidReissue}
      /\ rec' = [r \in Recoverers |-> NoRecovery]
      /\ call' = [c \in Callers |-> NoCall] /\ sweep' = [c \in Callers |-> {}]
      /\ MessagesLost /\ crashes' = crashes + 1
      /\ UNCHANGED <<wlog, overlapped, goals, synced, box, announced, adopted, recoveries>>
  BY DEF Crash
<1>2. RecTypeOK'
  BY <1>1 DEF TakeoverInv, RecTypeOK
<1>3. WorkersInv' /\ EndsStay
  BY <1>1, ForgetKeeps DEF TakeoverInv
<1>4. GoalsInv' /\ GoalsGrow
  BY <1>1, GoalsStay DEF TakeoverInv
<1>5. BoxInv'
  <2>1. \A r \in MidReissue : rec[r].now[1] \in Families
    <3> SUFFICES ASSUME NEW r \in MidReissue PROVE rec[r].now[1] \in Families
      OBVIOUS
    <3>1. rec[r].step \in {"supersede", "reissue"}
      BY DEF MidReissue
    <3>2. rec[r] # NoRecovery
      BY <3>1, NoRecoveryIsIdle
    <3>3. rec[r].now \in Interactions
      BY <3>1, <3>2 DEF MidReissue, TakeoverInv, BoxInv, AtRecords
    <3> QED BY <3>3 DEF Interactions
  <2>2. BoxTypeOK'
    BY <1>1, <2>1 DEF TakeoverInv, BoxInv, BoxTypeOK
  <2>3. ASSUME NEW g \in Families \ cut' PROVE Succeeded(g)'
    <3>1. Succeeded(g)
      BY <1>1, <2>3 DEF TakeoverInv, BoxInv
    <3>2. ASSUME NEW q \in MidReissue, rec[q].now = <<g, announced[g]>> PROVE FALSE
      <4>1. rec[q].now[1] = g
        BY <3>2
      <4> QED BY <1>1, <2>3, <4>1
    <3> QED BY <1>1, <3>1, <3>2 DEF Succeeded
  <2>4. \A q \in Recoverers : rec'[q] = NoRecovery
    BY <1>1
  <2> QED BY <2>2, <2>3, <2>4 DEF BoxInv
<1>6. ContractInv'
  <2>1. \A q \in Recoverers : rec'[q] = NoRecovery
    BY <1>1
  <2> QED BY <1>1, <1>4, <2>1, ContractStays DEF TakeoverInv
<1>7. ASSUME NEW q \in Recoverers PROVE SettlesOnly(q)' /\ AtWorkers(q)'
  <2>1. rec'[q] = NoRecovery /\ call'[q] = NoCall /\ sweep'[q] = {}
    BY <1>1, OtherCallers
  <2> QED BY <2>1, NoRecoveryIsIdle DEF SettlesOnly, AtWorkers
<1> QED BY <1>2, <1>3, <1>4, <1>5, <1>6, <1>7 DEF TakeoverInv, SettleInv

-----------------------------------------------------------------------------

(***************************************************************************)
(* The theorems.                                                           *)
(***************************************************************************)

LEMMA Initially == Init => TakeoverInv
<1> SUFFICES ASSUME Init PROVE TakeoverInv
  OBVIOUS
<1> USE OtherCallers
<1>1. /\ wlog = [w \in Workers |-> <<>>] /\ call = [c \in Callers |-> NoCall]
      /\ sweep = [c \in Callers |-> {}] /\ overlapped = {}
      /\ goals = <<>> /\ message = [m \in Messages |-> AtStep("new", 0)] /\ synced = 0
  BY DEF Init, WorkersInit, GoalsInit
<1>2. /\ rec = [r \in Recoverers |-> NoRecovery] /\ box = [f \in Families |-> <<"pending">>]
      /\ announced = [f \in Families |-> 0] /\ cut = {} /\ adopted = {}
      /\ recoveries = 0 /\ crashes = 0
  BY DEF Init
<1>3. RecTypeOK
  BY <1>1, <1>2 DEF RecTypeOK
<1>4. WorkersInv
  <2>1. LogTypeOK
    BY <1>1 DEF LogTypeOK
  <2>2. \A w \in Workers : Orderly(w)
    BY <1>1 DEF Orderly
  <2>3. \A c \in Callers : CallFits(c)
    BY <1>1 DEF CallFits
  <2> QED BY <2>1, <2>2, <2>3 DEF WorkersInv
<1>5. GoalsInv
  <2>1. \A m \in Messages : message[m].step = "new"
    BY <1>1, StepIsAState
  <2>2. GoalsTypeOK
    BY <1>1, StepIsAState DEF GoalsTypeOK
  <2> QED BY <1>1, <2>1, <2>2 DEF GoalsInv, GoalsAreOnRecord, ToWrite
<1>6. BoxInv
  <2>1. \A f \in Families : Len(box[f]) = 1
    BY <1>2
  <2>2. BoxTypeOK
    BY <1>2, <2>1 DEF BoxTypeOK
  <2>3. \A f \in Families : Succeeded(f)
    BY <1>2, <2>1 DEF Succeeded
  <2> QED BY <1>2, <2>2, <2>3 DEF BoxInv
<1>7. ContractInv
  BY <1>2 DEF ContractInv, ChildGoalIsThePackets
<1>8. SettleInv
  BY <1>1, <1>2, NoRecoveryIsIdle DEF SettleInv, SettlesOnly, AtWorkers
<1> QED BY <1>3, <1>4, <1>5, <1>6, <1>7, <1>8 DEF TakeoverInv

LEMMA StepKeeps == ASSUME TakeoverInv, [AnyNext]_vars PROVE TakeoverInv'
<1>1. CASE WorkerSteps
  BY <1>1, WorkerStepsKeep
<1>2. CASE GoalSteps
  BY <1>2, GoalStepsKeep
<1>3. CASE \E r \in Recoverers : RecovererSteps(r)
  <2>1. PICK r \in Recoverers : RecovererSteps(r)
    BY <1>3
  <2>2. CASE \E child \in BOOLEAN : BeginTakeover(r, child)
    BY <2>2, BeginTakeoverKeeps
  <2>3. CASE AnnounceSuperseded(r)
    BY <2>3, AnnounceKeeps
  <2>4. CASE SupersedeRecord(r)
    BY <2>4, SupersedeKeeps
  <2>5. CASE ReissueRecord(r)
    BY <2>5, ReissueKeeps
  <2>6. CASE ScanWorkers(r)
    BY <2>6, ScanKeeps
  <2>7. CASE SettleWorker(r)
    BY <2>7, SettleKeeps
  <2>8. CASE SettleWorkerWrites(r)
    BY <2>8, SettleWritesKeeps
  <2>9. CASE ReadContract(r)
    BY <2>9, ReadContractKeeps
  <2>10. CASE AdoptContract(r)
    BY <2>10, AdoptKeeps
  <2> QED BY <2>1, <2>2, <2>3, <2>4, <2>5, <2>6, <2>7, <2>8, <2>9, <2>10 DEF RecovererSteps
<1>4. CASE \E f \in Families, i \in 1..(MaxRecoveries + 1), s \in {"delivered", "delivery_failed"} :
               Deliver(f, i, s)
  <2>1. PICK f \in Families, i \in 1..(MaxRecoveries + 1), s \in {"delivered", "delivery_failed"} :
            Deliver(f, i, s)
    BY <1>4
  <2>2. i \in Nat
    BY <2>1, TakeoverConstants
  <2> QED BY <2>1, <2>2, DeliverKeeps
<1>5. CASE Crash
  BY <1>5, CrashKeeps
<1>6. CASE UNCHANGED vars
  <2>1. /\ UNCHANGED <<wlog, call, sweep, overlapped, goals, message, synced>>
        /\ UNCHANGED <<rec, box, announced, cut, adopted, recoveries, crashes>>
    BY <1>6 DEF vars, workerVars, goalVars, ownVars
  <2>2. WorkersInv' /\ EndsStay
    BY <2>1, WorkersRest DEF TakeoverInv
  <2>3. GoalsInv' /\ GoalsGrow
    BY <2>1, GoalsStay DEF TakeoverInv
  <2>4. BoxInv'
    BY <2>1, BoxStays DEF TakeoverInv
  <2>5. ContractInv'
    BY <2>1, <2>3, ContractStays DEF TakeoverInv
  <2>6. SettleInv'
    BY <2>1, <2>2, WorkersInHandStay DEF TakeoverInv, SettleInv
  <2>7. RecTypeOK'
    BY <2>1 DEF TakeoverInv, RecTypeOK
  <2> QED BY <2>2, <2>3, <2>4, <2>5, <2>6, <2>7 DEF TakeoverInv
<1> QED BY <1>1, <1>2, <1>3, <1>4, <1>5, <1>6 DEF AnyNext, OtherSteps

\* The inductive invariant: the order of every worker's events and what each caller
\* was allowed; the versions of the contract and what each goal message is about to
\* write; the records each recovery is at; and that every worker a recovery has
\* scanned has ended or is among those it still has to settle.
THEOREM TakeoverInvariance == AnySpec => []TakeoverInv
<1>1. Init => TakeoverInv
  BY Initially
<1>2. TakeoverInv /\ [AnyNext]_vars => TakeoverInv'
  BY StepKeeps
<1> QED BY <1>1, <1>2, PTL DEF AnySpec

\* The specification that TLC checks, with the pauses, is one of the free one.
THEOREM PausesAreHarmless == Spec => AnySpec
<1>1. [Next]_vars => [AnyNext]_vars
  BY DEF Next, AnyNext
<1> QED BY <1>1, PTL DEF Spec, AnySpec

LEMMA InvariantGives ==
    ASSUME TakeoverInv
    PROVE  /\ TakeoverTypeOK /\ LifecycleInOrder /\ GoalsAreOnRecord
           /\ WorkersHaveEnded /\ ChildGoalIsThePackets /\ SupersededHasSuccessor
<1>1. TakeoverTypeOK
  <2>1. WorkersTypeOK
    BY DEF TakeoverInv, RecTypeOK, WorkersInv, LogTypeOK, WorkersTypeOK, Events
  <2>2. GoalsTypeOK
    BY DEF TakeoverInv, GoalsInv
  <2> QED BY <2>1, <2>2 DEF TakeoverInv, RecTypeOK, BoxInv, BoxTypeOK, TakeoverTypeOK
<1>2. LifecycleInOrder
  BY DEF TakeoverInv, WorkersInv, Orderly, LifecycleInOrder
<1>3. GoalsAreOnRecord /\ ChildGoalIsThePackets
  BY DEF TakeoverInv, GoalsInv, ContractInv
<1>4. WorkersHaveEnded
  BY DEF TakeoverInv, SettleInv, AtWorkers, Ended, WorkersHaveEnded
<1>5. ASSUME NEW f \in Families \ cut
      PROVE  announced[f] < Len(box[f]) \/ \E r \in MidReissue : rec[r].now[1] = f
  <2>1. Succeeded(f)
    BY <1>5 DEF TakeoverInv, BoxInv
  <2> QED BY <2>1 DEF Succeeded
<1> QED BY <1>1, <1>2, <1>3, <1>4, <1>5 DEF SupersededHasSuccessor

\* Type correctness of workers, contracts, records and recoveries.
THEOREM TakeoverTypeCorrect == AnySpec => []TakeoverTypeOK
  BY TakeoverInvariance, InvariantGives, PTL

\* Nothing follows the end of a worker, and a result is consumed or rejected, never
\* both, for any number of threads that check and write apart, unless an event was
\* written between the check and the append (_assert_transition_allowed).
THEOREM LifecycleIsInOrder == AnySpec => []LifecycleInOrder
  BY TakeoverInvariance, InvariantGives, PTL

\* The versions of the contract have no gap and no fork, and a message makes at most
\* one, however often it is sent again and whatever handlers overlap.
THEOREM VersionsAreOnRecord == AnySpec => []GoalsAreOnRecord
  BY TakeoverInvariance, InvariantGives, PTL

\* The workers a recovery scanned have ended before the child session is given a goal.
THEOREM WorkersEndBeforeAdoption == AnySpec => []WorkersHaveEnded
  BY TakeoverInvariance, InvariantGives, PTL

\* The goal a child session adopts is the one its handoff packet names.
THEOREM AdoptedGoalIsThePackets == AnySpec => []ChildGoalIsThePackets
  BY TakeoverInvariance, InvariantGives, PTL

\* A context the events call superseded has its successor, or gets it, or a crash came
\* between.
THEOREM SuccessorIsWritten == AnySpec => []SupersededHasSuccessor
  BY TakeoverInvariance, InvariantGives, PTL

\* All of this holds of the specification that TLC checks.
THEOREM TakeoverIsSafe ==
    Spec => [](LifecycleInOrder /\ GoalsAreOnRecord /\ WorkersHaveEnded
               /\ ChildGoalIsThePackets /\ SupersededHasSuccessor)
  BY PausesAreHarmless, TakeoverInvariance, InvariantGives, PTL

=============================================================================
