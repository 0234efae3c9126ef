----------------------------- MODULE NetInitProofs -----------------------------
(***************************************************************************)
(* Proofs about NetInit, for any set of threads.                           *)
(***************************************************************************)
EXTENDS NetInit, TLAPS

\* The library calls of one flag's initialization.
CallsOf(f) == First[f]..Last[f]

\* Where a thread inside ensure_network or ensure_http may be.
Place(t) ==
  /\ pc[t] # "idle" /\ goal[t] = "net" => at[t] = "net"
  /\ pc[t] # "idle" /\ at[t] = "http" => flag["net"] = 2
  /\ pc[t] = "wait" => flag[at[t]] # 0
  /\ pc[t] = "init" => flag[at[t]] = 1 /\ step[t] \in CallsOf(at[t])
  /\ result[t] = 0 => flag[goal[t]] = 2 /\ flag["net"] = 2
  /\ result[t] = -1 => flag[at[t]] = -1

\* At most one thread initializes a flag's libraries.
OneInitializer ==
  \A t, u \in Threads : pc[t] = "init" /\ pc[u] = "init" /\ at[t] = at[u] => t = u

\* What the flag says about the library calls.
Meaning(f) ==
  /\ flag[f] = 0 => \A i \in CallsOf(f) : calls[i] = 0
  /\ flag[f] = 2 => CallsOf(f) \subseteq up
  /\ \A i \in CallsOf(f) : calls[i] <= 1

\* The one that initializes has made the calls before its step, and no other.
Progress(t) ==
  pc[t] = "init" =>
    \A i \in CallsOf(at[t]) :
      IF i < step[t] THEN i \in up ELSE calls[i] = 0

IInv ==
  /\ TypeOK /\ OneInitializer
  /\ \A t \in Threads : Place(t) /\ Progress(t)
  /\ \A f \in Flags : Meaning(f)
  /\ InOrder

-----------------------------------------------------------------------------
\* The two flags' library calls: four for the network, then one for HTTP.
LEMMA FlagCalls ==
  /\ Flags = {"net", "http"}
  /\ CallsOf("net") = 1..4 /\ CallsOf("http") = {5}
  /\ First["net"] = 1 /\ Last["net"] = 4 /\ First["http"] = 5 /\ Last["http"] = 5
BY DEF Flags, CallsOf, First, Last

\* Nothing is initialized before the first call.
LEMMA InvInit == Init => IInv
<1> SUFFICES ASSUME Init PROVE IInv
  OBVIOUS
<1>1. TypeOK
  BY DEF Init, TypeOK, Flags, Calls
<1>2. OneInitializer /\ \A t \in Threads : Place(t) /\ Progress(t)
  BY FlagCalls DEF Init, OneInitializer, Place, Progress
<1>3. InOrder /\ \A f \in Flags : Meaning(f)
  BY FlagCalls DEF Init, InOrder, Meaning, Calls
<1> QED
  BY <1>1, <1>2, <1>3 DEF IInv

\* A call begins.
LEMMA CallStep == ASSUME IInv, NEW t \in Threads, NEW g \in Flags, Call(t, g) PROVE IInv'
<1> USE FlagCalls DEF IInv, Call, FirstEnsured
<1>1. TypeOK'
  BY DEF TypeOK
<1>2. OneInitializer'
  BY DEF OneInitializer, TypeOK
<1>3. ASSUME NEW u \in Threads PROVE Place(u)' /\ Progress(u)'
  BY DEF Place, Progress, TypeOK
<1>4. InOrder' /\ \A f \in Flags : Meaning(f)'
  BY DEF InOrder, Meaning
<1> QED
  BY <1>1, <1>2, <1>3, <1>4

\* A thread looks at the flag before the compare-and-swap.
LEMMA TestStep == ASSUME IInv, NEW t \in Threads, Test(t) PROVE IInv'
<1> USE FlagCalls DEF IInv, Test, Settle
<1>1. TypeOK'
  BY DEF TypeOK
<1>2. OneInitializer'
  BY DEF OneInitializer, TypeOK
<1>3. ASSUME NEW u \in Threads PROVE Place(u)' /\ Progress(u)'
  BY DEF Place, Progress, TypeOK
<1>4. InOrder' /\ \A f \in Flags : Meaning(f)'
  BY DEF InOrder, Meaning
<1> QED
  BY <1>1, <1>2, <1>3, <1>4

\* The compare-and-swap makes a thread the initializer only from 0.
LEMMA SwapStep == ASSUME IInv, NEW t \in Threads, Swap(t) PROVE IInv'
<1> USE FlagCalls DEF IInv, Swap, Wins
<1>1. TypeOK'
  BY DEF TypeOK, Calls
<1>2. OneInitializer'
  BY DEF OneInitializer, TypeOK, Place
<1>3. ASSUME NEW u \in Threads PROVE Place(u)'
  BY DEF Place, TypeOK
<1>4. ASSUME NEW u \in Threads PROVE Progress(u)'
  BY DEF Progress, Place, TypeOK, Meaning
<1>5. InOrder' /\ \A f \in Flags : Meaning(f)'
  BY DEF InOrder, Meaning, TypeOK
<1> QED
  BY <1>1, <1>2, <1>3, <1>4, <1>5

\* A library call of the initializer: it fails, or succeeds, and the last
\* success makes the flag ready.
LEMMA InitCallStep == ASSUME IInv, NEW t \in Threads, InitCall(t) PROVE IInv'
<1> USE FlagCalls DEF IInv, InitCall, Settle, Failed
<1>1. TypeOK'
  <2>1. step[t] \in 1..5 /\ at[t] \in Flags /\ Last[at[t]] \in 1..5
    BY DEF TypeOK, Calls
  <2>2. calls' \in [Calls -> Nat]
    BY <2>1 DEF TypeOK, Calls
  <2>3. up' \in SUBSET Calls
    BY <2>1 DEF TypeOK, Calls
  <2>5. \/ step' = step
        \/ step[t] + 1 \in Calls /\ step' = [step EXCEPT ![t] = step[t] + 1]
    <3>1. CASE step' = step
      BY <3>1
    <3>2. CASE step[t] < Last[at[t]] /\ step' = [step EXCEPT ![t] = step[t] + 1]
      <4>1. step[t] + 1 \in Calls
        BY <2>1, <3>2 DEF Calls
      <4> QED
        BY <4>1, <3>2
    <3> QED
      BY <3>1, <3>2 DEF InitCall
  <2>6. step' \in [Threads -> Calls]
    BY <2>5 DEF TypeOK
  <2>4. flag' \in [Flags -> {-1, 0, 1, 2}]
    BY DEF TypeOK
  <2> QED
    BY <2>2, <2>3, <2>4, <2>6 DEF TypeOK
<1>2. OneInitializer'
  BY DEF OneInitializer, TypeOK
<1>3. ASSUME NEW u \in Threads PROVE Place(u)'
  BY DEF Place, TypeOK, OneInitializer
<1>4. ASSUME NEW u \in Threads PROVE Progress(u)'
  BY DEF Progress, Place, TypeOK, OneInitializer, Calls
<1>5. ASSUME NEW f \in Flags PROVE Meaning(f)'
  BY DEF Meaning, Progress, Place, TypeOK, Calls
<1>6. InOrder'
  BY DEF InOrder, Meaning, Progress, Place, TypeOK, Calls
<1> QED
  BY <1>1, <1>2, <1>3, <1>4, <1>5, <1>6

\* A waiting thread finds the flag ready or failed.
LEMMA WaitStep == ASSUME IInv, NEW t \in Threads, Wait(t) PROVE IInv'
<1> USE FlagCalls DEF IInv, Wait, Waited, Settle
<1>1. TypeOK'
  BY DEF TypeOK
<1>2. OneInitializer'
  BY DEF OneInitializer, TypeOK
<1>3. ASSUME NEW u \in Threads PROVE Place(u)' /\ Progress(u)'
  BY DEF Place, Progress, TypeOK
<1>4. InOrder' /\ \A f \in Flags : Meaning(f)'
  BY DEF InOrder, Meaning
<1> QED
  BY <1>1, <1>2, <1>3, <1>4

\* The invariant is inductive.
LEMMA InvStep == IInv /\ [Next]_vars => IInv'
<1> SUFFICES ASSUME IInv, [Next]_vars PROVE IInv'
  OBVIOUS
<1>1. ASSUME NEW t \in Threads, NEW g \in Flags, Call(t, g) PROVE IInv'
  BY <1>1, CallStep
<1>2. ASSUME NEW t \in Threads, Work(t) PROVE IInv'
  BY <1>2, TestStep, SwapStep, InitCallStep, WaitStep DEF Work
<1>3. CASE UNCHANGED vars
  BY <1>3 DEF vars, IInv, TypeOK, OneInitializer, Place, Progress, Meaning, InOrder
<1> QED
  BY <1>1, <1>2, <1>3 DEF Next

\* The invariant holds in every reachable state.
THEOREM Invariance == Spec => []IInv
BY InvInit, InvStep, PTL DEF Spec

-----------------------------------------------------------------------------
\* Every reachable state has its variables in their types.
THEOREM TypeCorrect == Spec => []TypeOK
<1>1. IInv => TypeOK
  BY DEF IInv
<1> QED
  BY <1>1, Invariance, PTL

\* However many threads come at once, no library is initialized twice.
THEOREM LibrariesOnce == Spec => []InitializedOnce
<1>1. IInv => InitializedOnce
  BY FlagCalls DEF IInv, Meaning, InitializedOnce, Calls
<1> QED
  BY <1>1, Invariance, PTL

\* HTTP is never initialized before the network, nor a library before the
\* ones it needs.
THEOREM LibrariesInOrder == Spec => []InOrder
<1>1. IInv => InOrder
  BY DEF IInv
<1> QED
  BY <1>1, Invariance, PTL

\* A caller is told "ready" only when everything it needs is up, and "failed"
\* only after a failure.
THEOREM AnswersAreTrue == Spec => []Truthful
<1>1. IInv => Truthful
  <2> SUFFICES ASSUME IInv, NEW t \in Threads
               PROVE (result[t] = 0 => 1..Last[goal[t]] \subseteq up)
                     /\ (result[t] = -1 => flag[at[t]] = -1)
    BY DEF Truthful
  <2>1. Place(t) /\ goal[t] \in Flags /\ Meaning("net") /\ Meaning("http")
    BY FlagCalls DEF IInv, TypeOK
  <2> QED
    BY <2>1, FlagCalls DEF Place, Meaning
<1> QED
  BY <1>1, Invariance, PTL

-----------------------------------------------------------------------------
(***************************************************************************)
(* What EnsureReturns rests on: whoever sleeps until a flag is settled, is *)
(* waited for by nobody, and a settled flag stays so.                      *)
(***************************************************************************)

\* A flag that says so has a thread that is at its initialization.
SomeoneAtIt(f) == flag[f] = 1 => \E t \in Threads : pc[t] = "init" /\ at[t] = f

\* A library call settles the flag, or the thread stays where it is.
LEMMA CallSettles ==
  ASSUME TypeOK, NEW t \in Threads, InitCall(t), NEW f \in Flags
  PROVE  /\ at[t] # f => flag'[f] = flag[f]
         /\ at[t] = f => flag'[f] \in {-1, 2} \/ (flag' = flag /\ pc' = pc /\ at' = at)
<1>1. \/ flag' = [flag EXCEPT ![at[t]] = -1]
      \/ flag' = [flag EXCEPT ![at[t]] = 2]
      \/ flag' = flag /\ pc' = pc /\ at' = at
  BY DEF InitCall, Failed
<1>2. flag \in [Flags -> {-1, 0, 1, 2}]
  BY DEF TypeOK
<1> QED
  BY <1>1, <1>2

\* The initializer settles the flag when it leaves, and no other thread does.
LEMMA SomeoneStep ==
  ASSUME IInv, [Next]_vars, NEW f \in Flags, SomeoneAtIt(f)
  PROVE  SomeoneAtIt(f)'
<1> USE DEF SomeoneAtIt
<1>1. TypeOK /\ \A t \in Threads : Place(t)
  BY DEF IInv
<1>2. ASSUME NEW t \in Threads, NEW g \in Flags, Call(t, g) PROVE SomeoneAtIt(f)'
  BY <1>1, <1>2 DEF Call, TypeOK
<1>3. ASSUME NEW t \in Threads, Test(t) PROVE SomeoneAtIt(f)'
  BY <1>1, <1>3 DEF Test, Settle, TypeOK
<1>4. ASSUME NEW t \in Threads, Swap(t) PROVE SomeoneAtIt(f)'
  <2>1. CASE at[t] = f /\ Wins(t)
    BY <1>1, <1>4, <2>1 DEF Swap, TypeOK
  <2>2. CASE ~(at[t] = f /\ Wins(t))
    <3>1. SUFFICES ASSUME flag'[f] = 1
                   PROVE  \E u \in Threads : pc'[u] = "init" /\ at'[u] = f
      OBVIOUS
    <3>2. flag[f] = 1
      BY <1>1, <1>4, <2>2, <3>1 DEF Swap, TypeOK
    <3>3. PICK u \in Threads : pc[u] = "init" /\ at[u] = f
      BY <3>2
    <3>4. pc'[u] = "init" /\ at'[u] = f
      BY <1>1, <1>4, <3>3 DEF Swap, TypeOK
    <3> QED
      BY <3>4
  <2> QED
    BY <2>1, <2>2
<1>5. ASSUME NEW t \in Threads, InitCall(t) PROVE SomeoneAtIt(f)'
  <2>1. SUFFICES ASSUME flag'[f] = 1
                 PROVE  \E u \in Threads : pc'[u] = "init" /\ at'[u] = f
    OBVIOUS
  <2>2. flag[f] = 1 /\ (at[t] = f => pc' = pc /\ at' = at)
    <3>1. at[t] = f => pc[t] = "init" /\ flag[f] = 1
      BY <1>1, <1>5 DEF InitCall, Place
    <3> QED
      BY <1>1, <1>5, <2>1, <3>1, CallSettles
  <2>3. PICK u \in Threads : pc[u] = "init" /\ at[u] = f
    BY <2>2
  <2>4. pc'[u] = "init" /\ at'[u] = f
    <3>1. CASE at[t] = f
      BY <2>2, <2>3, <3>1
    <3>2. CASE at[t] # f
      BY <1>1, <1>5, <2>3, <3>2 DEF InitCall, Settle, TypeOK
    <3> QED
      BY <3>1, <3>2
  <2> QED
    BY <2>4
<1>6. ASSUME NEW t \in Threads, Wait(t) PROVE SomeoneAtIt(f)'
  BY <1>1, <1>6 DEF Wait, Settle, TypeOK
<1>7. CASE UNCHANGED vars
  BY <1>7 DEF vars
<1> QED
  BY <1>2, <1>3, <1>4, <1>5, <1>6, <1>7 DEF Next, Work

\* A thread that sleeps in ensure_network or ensure_http sleeps only as long as
\* another one, which does not sleep, is at the initialization.
THEOREM SleepersAreWoken ==
  Spec => [](\A t \in Threads : pc[t] = "wait" /\ flag[at[t]] = 1 =>
                \E u \in Threads : pc[u] = "init" /\ at[u] = at[t])
<1> DEFINE Attended == \A f \in Flags : SomeoneAtIt(f)
           Awaited == \A t \in Threads : pc[t] = "wait" /\ flag[at[t]] = 1 =>
                        \E u \in Threads : pc[u] = "init" /\ at[u] = at[t]
<1>1. Init => Attended
  BY DEF Init, SomeoneAtIt
<1>2. IInv /\ Attended /\ [Next]_vars => Attended'
  BY SomeoneStep
<1>3. IInv /\ Attended => Awaited
  BY DEF IInv, TypeOK, SomeoneAtIt
<1> QED
  BY <1>1, <1>2, <1>3, Invariance, PTL DEF Spec

\* A flag that is ready or failed stays so: no initialization begins again, not
\* even one that failed, and no answer is ever taken back.
THEOREM SettledForGood ==
  Spec => [][\A f \in Flags : flag[f] \in {-1, 2} => flag'[f] = flag[f]]_vars
<1>1. IInv /\ [Next]_vars
        => [\A f \in Flags : flag[f] \in {-1, 2} => flag'[f] = flag[f]]_vars
  <2> SUFFICES ASSUME IInv, Next, NEW f \in Flags, flag[f] \in {-1, 2}
               PROVE  flag'[f] = flag[f]
    OBVIOUS
  <2>1. TypeOK /\ \A t \in Threads : Place(t)
    BY DEF IInv
  <2>2. ASSUME NEW t \in Threads, Swap(t) PROVE flag'[f] = flag[f]
    BY <2>1, <2>2 DEF Swap, Wins, TypeOK
  <2>3. ASSUME NEW t \in Threads, InitCall(t) PROVE flag'[f] = flag[f]
    <3>1. at[t] # f
      BY <2>1, <2>3 DEF InitCall, Place
    <3> QED
      BY <2>1, <2>3, <3>1, CallSettles
  <2> QED
    BY <2>2, <2>3 DEF Next, Work, Call, Test, Wait
<1> QED
  BY <1>1, Invariance, PTL DEF Spec
=============================================================================
