----------------------------- MODULE WorkerSlots -----------------------------
(***************************************************************************)
(* What the Dispatcher promises to the rest of the server, with no         *)
(* counters, no worker names and no condition variable.                    *)
(*                                                                         *)
(* Every worker process has the set of requests that hold a slot of it.    *)
(* A request is given to the worker the choice rule names and taken back    *)
(* from that same worker.  One client, the drain loop, may sleep: it       *)
(* sleeps only while every worker is held by somebody, and every hand-back *)
(* wakes it.  The requests it gives out are given out while a worker is    *)
(* free; the others, the Direct ones, at any time.                         *)
(***************************************************************************)
EXTENDS Naturals, FiniteSets

CONSTANTS
    Requests,       \* ids of the requests that can hold a slot
    Direct,         \* those given out past the drain loop
    Workers,        \* the worker processes
    IsPick(_, _)    \* IsPick(load, w): w is the worker to choose under load

VARIABLES
    serving,    \* serving[w]: the requests that hold a slot of worker w
    asleep      \* the drain loop sleeps until a slot is handed back

slotVars == <<serving, asleep>>

-----------------------------------------------------------------------------
SlotLoad == [w \in Workers |-> Cardinality(serving[w])]

SomeWorkerFree == \E w \in Workers : serving[w] = {}

InService(r) == \E w \in Workers : r \in serving[w]

SlotInit ==
    /\ serving = [w \in Workers |-> {}]
    /\ asleep = FALSE

Give(r) ==
    /\ ~InService(r)
    /\ \E w \in Workers :
         /\ serving' = [serving EXCEPT ![w] = @ \cup {r}]
         /\ IsPick(SlotLoad, w)

\* The drain loop gives its requests out only when it is awake and a worker is
\* free; the registration of a speaker gives its own out at any time.
DrainGive(r)  == ~asleep /\ SomeWorkerFree /\ Give(r) /\ UNCHANGED asleep
DirectGive(r) == Give(r) /\ UNCHANGED asleep

Sleep ==
    /\ ~asleep
    /\ ~SomeWorkerFree
    /\ asleep' = TRUE
    /\ UNCHANGED serving

\* Taking a request back frees its slot and wakes the drain loop.
TakeBack(r) ==
    /\ \E w \in Workers :
         /\ r \in serving[w]
         /\ serving' = [serving EXCEPT ![w] = @ \ {r}]
    /\ asleep' = FALSE

SlotNext ==
    \/ \E r \in Requests \ Direct : DrainGive(r)
    \/ \E r \in Direct : DirectGive(r)
    \/ \E r \in Requests : TakeBack(r)
    \/ Sleep

SlotSpec == SlotInit /\ [][SlotNext]_slotVars
=============================================================================
