--------------------------- MODULE WorkerTopology ----------------------------
(***************************************************************************)
(* The worker processes of one server: which ones start() spawns, what     *)
(* they are called, and how the dispatcher compares them.                  *)
(*                                                                         *)
(* A worker is the pair <<gpu, slot>>, both counted from 1; the code       *)
(* counts them from 0.  The topology is fixed once the server has started: *)
(* a worker process that dies is never replaced.                           *)
(***************************************************************************)
EXTENDS Naturals, Sequences, FiniteSets, Functions

CONSTANTS
    Requests,       \* job ids of the requests the model tells apart
    WorkersPerGpu,  \* the validated setting: WorkersPerGpu[g] workers on gpu g
    CudaAvailable   \* whether the parent process sees a CUDA device

\* The validators of WORKERS_PER_GPU let nothing else through.
ASSUME TopologyAssumption ==
    /\ WorkersPerGpu \in Seq(Nat \ {0})
    /\ WorkersPerGpu # <<>>
    /\ CudaAvailable \in BOOLEAN

Gpus == DOMAIN WorkersPerGpu

Workers == UNION { {g} \X (1 .. WorkersPerGpu[g]) : g \in Gpus }

\* The name start() gives a worker.  Without CUDA it leaves the gpu out, so
\* the workers of several "GPUs" then share their names.
WorkerId(w) == IF CudaAvailable THEN w ELSE <<0, w[2]>>

\* The order of the list start() builds, the order every loop over it takes.
SpawnedBefore(v, w) == v[1] < w[1] \/ (v[1] = w[1] /\ v[2] < w[2])

\* The first worker of the list that has a given id.
IsFirstWithId(w, id) ==
    /\ WorkerId(w) = id
    /\ \A v \in Workers : WorkerId(v) = id => ~SpawnedBefore(v, w)

UniqueIds == \A v, w \in Workers : WorkerId(v) = WorkerId(w) => v = w

-----------------------------------------------------------------------------
(* _pick_worker: min() over the list with the key (load of the worker's     *)
(* GPU, its own load).  "load" is any function from workers to counts.      *)

GpuLoad(load, gpu) == SumFunctionOnSet(load, {w \in Workers : w[1] = gpu})

\* Slip: the key of min() is the load of the GPU alone.
LighterGpu(load, v, w) == GpuLoad(load, v[1]) < GpuLoad(load, w[1])

\* Two keys are compared as tuples are: by the first place they differ in.
Lighter(load, v, w) ==
    IF GpuLoad(load, v[1]) = GpuLoad(load, w[1])
    THEN load[v] < load[w]
    ELSE GpuLoad(load, v[1]) < GpuLoad(load, w[1])

\* min() returns the first of several minima.
IsPick(load, w) ==
    \A v \in Workers \ {w} :
        \/ Lighter(load, w, v)
        \/ ~Lighter(load, v, w) /\ SpawnedBefore(w, v)
=============================================================================
