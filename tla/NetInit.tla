------------------------------- MODULE NetInit -------------------------------
(***************************************************************************)
(* The lazy initialization of the PSP network and HTTP libraries in        *)
(* src/src/natives/http.c.  ensure_network and ensure_http may be called   *)
(* by the main thread, the player, the save and the thumbnail thread at    *)
(* the same time; a compare-and-swap elects the one that initializes, the  *)
(* others sleep until the flag is no longer 1.                             *)
(***************************************************************************)
EXTENDS Integers, FiniteSets

CONSTANTS Threads   \* the threads that use the network

Flags == {"net", "http"}

\* The library calls, in their order: sceNetInit, sceNetInetInit,
\* sceNetApctlInit and sceNetApctlAddHandler for the network, then sceHttpInit.
Calls == 1..5
First == [f \in Flags |-> IF f = "net" THEN 1 ELSE 5]
Last == [f \in Flags |-> IF f = "net" THEN 4 ELSE 5]

VARIABLES
  flag,     \* g_net_inited, g_http_inited: 0 not yet, 1 at it, 2 ready, -1 failed
  calls,    \* history: how often each library call was made
  up,       \* the library calls that succeeded
  pc,       \* per thread: idle, test, swap, init or wait
  at,       \* per thread: the flag it is ensuring
  goal,     \* per thread: the flag it was called to ensure
  step,     \* per thread: the library call it makes next
  result    \* per thread: what its last call returned, 1 before

vars == <<flag, calls, up, pc, at, goal, step, result>>

Init ==
  /\ flag = [f \in Flags |-> 0]
  /\ calls = [i \in Calls |-> 0]
  /\ up = {}
  /\ pc = [t \in Threads |-> "idle"]
  /\ at = [t \in Threads |-> "net"]
  /\ goal = [t \in Threads |-> "net"]
  /\ step = [t \in Threads |-> 1]
  /\ result = [t \in Threads |-> 1]

MutantFirstEnsured(g) == g

\* Whoever needs HTTP calls ensure_network before ensure_http.
FirstEnsured(g) == "net"

Call(t, g) ==
  /\ pc[t] = "idle"
  /\ pc' = [pc EXCEPT ![t] = "test"]
  /\ at' = [at EXCEPT ![t] = FirstEnsured(g)]
  /\ goal' = [goal EXCEPT ![t] = g]
  /\ result' = [result EXCEPT ![t] = 1]
  /\ UNCHANGED <<flag, calls, up, step>>

\* The flag is settled for thread t: go on to HTTP, or return.
Settle(t, ready) ==
  /\ IF ready /\ at[t] # goal[t]
       THEN /\ pc' = [pc EXCEPT ![t] = "test"]
            /\ at' = [at EXCEPT ![t] = "http"]
            /\ UNCHANGED result
       ELSE /\ pc' = [pc EXCEPT ![t] = "idle"]
            /\ result' = [result EXCEPT ![t] = IF ready THEN 0 ELSE -1]
            /\ UNCHANGED at
  /\ UNCHANGED goal

\* The first look at the flag, outside the compare-and-swap.
Test(t) ==
  /\ pc[t] = "test"
  /\ \/ flag[at[t]] = 2 /\ Settle(t, TRUE)
     \/ /\ flag[at[t]] # 2
        /\ pc' = [pc EXCEPT ![t] = "swap"]
        /\ UNCHANGED <<at, goal, result>>
  /\ UNCHANGED <<flag, calls, up, step>>

MutantWins(t) == flag[at[t]] \in {0, 1}

\* The compare-and-swap from 0 to 1 succeeds.
Wins(t) == flag[at[t]] = 0

Swap(t) ==
  /\ pc[t] = "swap"
  /\ IF Wins(t)
       THEN /\ flag' = [flag EXCEPT ![at[t]] = 1]
            /\ pc' = [pc EXCEPT ![t] = "init"]
            /\ step' = [step EXCEPT ![t] = First[at[t]]]
       ELSE /\ pc' = [pc EXCEPT ![t] = "wait"]
            /\ UNCHANGED <<flag, step>>
  /\ UNCHANGED <<calls, up, at, goal, result>>

MutantFailed(t) == flag
MutantKernelError(t) == [flag EXCEPT ![at[t]] = -2]   \* the library's own code

\* A failed library call is final: nothing undoes the earlier ones.
Failed(t) == [flag EXCEPT ![at[t]] = -1]

InitCall(t) ==
  /\ pc[t] = "init"
  /\ calls' = [calls EXCEPT ![step[t]] = @ + 1]
  /\ \/ /\ flag' = Failed(t)
        /\ Settle(t, FALSE)
        /\ UNCHANGED <<up, step>>
     \/ /\ up' = up \union {step[t]}
        /\ step[t] < Last[at[t]]
        /\ step' = [step EXCEPT ![t] = @ + 1]
        /\ UNCHANGED <<flag, pc, at, goal, result>>
     \/ /\ up' = up \union {step[t]}
        /\ step[t] = Last[at[t]]
        /\ flag' = [flag EXCEPT ![at[t]] = 2]
        /\ Settle(t, TRUE)
        /\ UNCHANGED step

MutantWaited(t) == TRUE

\* The waiting loop ends.
Waited(t) == flag[at[t]] # 1

Wait(t) ==
  /\ pc[t] = "wait"
  /\ Waited(t)
  /\ Settle(t, flag[at[t]] = 2)
  /\ UNCHANGED <<flag, calls, up, step>>

Work(t) == Test(t) \/ Swap(t) \/ InitCall(t) \/ Wait(t)

Next == \E t \in Threads : Work(t) \/ \E g \in Flags : Call(t, g)

Spec == Init /\ [][Next]_vars

\* A thread inside ensure_* keeps running; nobody has to call it.
FairSpec == Spec /\ \A t \in Threads : WF_vars(Work(t))

-----------------------------------------------------------------------------
(***************************************************************************)
(* What must hold.                                                         *)
(***************************************************************************)

\* Every variable has its type.
TypeOK ==
  /\ flag \in [Flags -> {-1, 0, 1, 2}]
  /\ calls \in [Calls -> Nat]
  /\ up \in SUBSET Calls
  /\ pc \in [Threads -> {"idle", "test", "swap", "init", "wait"}]
  /\ at \in [Threads -> Flags]
  /\ goal \in [Threads -> Flags]
  /\ step \in [Threads -> Calls]
  /\ result \in [Threads -> {-1, 0, 1}]

\* No library is initialized twice, however many threads come at once
\* (sceNetInit's second attempt with other arguments is part of one call).
InitializedOnce == \A i \in Calls : calls[i] <= 1

\* The libraries come up in their order: HTTP never before the network.
InOrder == \A i \in Calls : calls[i] > 0 => \A j \in 1..(i - 1) : j \in up

\* A caller told "ready" finds every library it needs up; a caller told
\* "failed" met a failure, not an initialization still under way.
Truthful ==
  \A t \in Threads :
    /\ result[t] = 0 => 1..Last[goal[t]] \subseteq up
    /\ result[t] = -1 => flag[at[t]] = -1

\* Every call returns: the one that initializes never leaves the others asleep.
EnsureReturns == \A t \in Threads : pc[t] # "idle" ~> pc[t] = "idle"
=============================================================================
