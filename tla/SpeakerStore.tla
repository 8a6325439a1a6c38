----------------------------- MODULE SpeakerStore ----------------------------
(***************************************************************************)
(* speakers.py with all that uses it: POST /v1/clone, the endpoints that   *)
(* get and delete a speaker, the preload at startup, and, as a process of  *)
(* its own, seed_studio_speakers.py.                                       *)
(*                                                                         *)
(* The store's methods run on the event loop and never suspend, so no two  *)
(* of them overlap in the server.  On disk they do not happen at once:     *)
(* register() writes three files in place, rmtree() removes file after     *)
(* file, and between any two of their steps the script takes its own, an   *)
(* error is raised or the process ends.  Whoever opens a file for writing  *)
(* empties it, and it is torn until it is closed; two writers of one file  *)
(* leave the bytes of either or of both.  A load is one step: it returns   *)
(* what was on disk at one moment or raises.                               *)
(*                                                                         *)
(* The worker that computes the latents of a clone is one of two outcomes  *)
(* here; QueueManager has the way there and back.                          *)
(***************************************************************************)
EXTENDS Naturals, FiniteSets

CONSTANTS
    Names,          \* speaker names that passed _validate_speaker_name()
    CloneRequests,  \* requests of POST /v1/clone
    NameOf,         \* NameOf[c]: the name request c asks for
    Seeded,         \* the names seed_studio_speakers.py registers
    ForceFlag,      \* its --force flag
    MaxFaults,      \* bound: errors of the disk and ends of a process
    Studio,         \* the seed script as the writer of a file
    Absent,         \* no such file, or no such record in the cache
    Torn,           \* a file that was not, or not yet, written to its end
    Mixed           \* a file that holds bytes of two writers

Writers == CloneRequests \cup {Studio}

ASSUME SpeakerStoreAssumption ==
    /\ NameOf \in [CloneRequests -> Names]
    /\ Seeded \subseteq Names
    /\ ForceFlag \in BOOLEAN
    /\ MaxFaults \in Nat
    /\ Studio \notin CloneRequests
    /\ {Absent, Torn, Mixed} \cap Writers = {}
    /\ Absent # Torn /\ Absent # Mixed /\ Torn # Mixed

VARIABLES
    dirs,       \* the names with a directory under SPEAKERS_DIR
    files,      \* files[n][f]: who wrote file f of speaker n
    cache,      \* cache[n]: who wrote the latents in the cached record of n
    tmp,        \* the clone requests whose upload is still in .tmp/
    clone,      \* clone[c]: how far the handler of request c got
    server,     \* "down", "starting" or "serving"
    unvisited,  \* the names preload_all() did not get to
    deleting,   \* the name delete() is at, if any
    left,       \* the files register() has to write, or delete() to remove
    writing,    \* the file register() has open
    seed,       \* seed[n]: how far the seed script got with n
    unlinked,   \* the names whose file the script has open was removed
    shared,     \* the processes whose open file the other one had open too
    faults      \* how many faults happened so far

disk == <<dirs, files>>
handles == <<writing, unlinked, shared>>
loop == <<server, unvisited, deleting, left>>
vars == <<dirs, files, cache, tmp, clone, server, unvisited, deleting, left, writing,
          seed, unlinked, shared, faults>>

Process == {"server", "script"}

\* The files of a speaker, in the order register() writes them.
Ref == 1
Latents == 2
Meta == 3
Files == {Ref, Latents, Meta}
None == 0

NoFiles == [f \in Files |-> Absent]

IsFile(n, f) == files[n][f] # Absent

\* exists()
Exists(n) == cache[n] # Absent \/ IsFile(n, Latents)

\* np.load() and json.load() of _load_from_disk() return what the files hold.
\* A file of two writers fails the checksums of the archive; as JSON it may parse.
Readable(n) == files[n][Latents] \notin {Torn, Mixed} /\ files[n][Meta] # Torn

MayNotLoad(n) == files[n][Latents] \in {Torn, Mixed} \/ files[n][Meta] \in {Torn, Mixed}

\* The event loop is free for the next request.
Idle ==
    /\ server = "serving"
    /\ deleting = {}
    /\ \A c \in CloneRequests : clone[c] # "writing"

CountFault == faults < MaxFaults /\ faults' = faults + 1

(* Files open for writing. *)

\* The script's stages before, while and after it writes a file.
StageBefore(f) == IF f = Latents THEN "made" ELSE "written"
StageAt(f) == IF f = Latents THEN "latents" ELSE "meta"
StageAfter(f) == IF f = Latents THEN "written" ELSE "done"

ServerHas(n, f) ==
    writing = f /\ \E c \in CloneRequests : clone[c] = "writing" /\ NameOf[c] = n

ScriptHas(n, f) ==
    n \in Seeded \ unlinked /\ f \in {Latents, Meta} /\ seed[n] = StageAt(f)

\* open(path, "w"), by p, while the other process has the file open or not.
Opens(p, n, f, contended) ==
    /\ files' = [files EXCEPT ![n][f] = Torn]
    /\ shared' = IF contended THEN Process ELSE shared \ {p}

\* What p, writing as w, leaves when it closes the file: if the other had it
\* open as well, the last bytes may be of either or of both.
Closes(p, w, n, f) ==
    /\ \E content \in {w} \cup (IF p \in shared THEN {Mixed, files[n][f]} \ {Torn} ELSE {}) :
         files' = [files EXCEPT ![n][f] = content]
    /\ shared' = shared \ {p}

-----------------------------------------------------------------------------
Init ==
    /\ dirs = {}
    /\ files = [n \in Names |-> NoFiles]
    /\ cache = [n \in Names |-> Absent]
    /\ tmp = {}
    /\ clone = [c \in CloneRequests |-> "start"]
    /\ server = "serving"
    /\ unvisited = {} /\ deleting = {} /\ left = {}
    /\ writing = None
    /\ seed = [n \in Seeded |-> "start"]
    /\ unlinked = {} /\ shared = {}
    /\ faults = 0

(* POST /v1/clone *)

\* The first check, the upload, and compute_latents() is awaited.
CloneArrives(c) ==
    /\ Idle /\ clone[c] = "start"
    /\ \/ /\ Exists(NameOf[c])
          /\ clone' = [clone EXCEPT ![c] = "409"]
          /\ UNCHANGED tmp
       \/ /\ ~Exists(NameOf[c])
          /\ clone' = [clone EXCEPT ![c] = "computing"]
          /\ tmp' = tmp \cup {c}
    /\ UNCHANGED <<disk, cache, loop, handles, seed, faults>>

\* Slip: a timeout around the latents and register(), which leaves the file
\* register() has open as it is.
TimeoutCoversRegister(c) ==
    /\ server = "serving" /\ deleting = {} /\ clone[c] \in {"computing", "writing"}
    /\ clone' = [clone EXCEPT ![c] = "500"]
    /\ left' = {} /\ writing' = None /\ shared' = shared \ {"server"}
    /\ UNCHANGED <<disk, cache, tmp, server, unvisited, deleting, unlinked, seed, faults>>

\* The worker reports an error or does not answer; the upload stays.
LatentsFail(c) ==
    /\ Idle /\ clone[c] = "computing"
    /\ clone' = [clone EXCEPT ![c] = "500"]
    /\ UNCHANGED <<disk, cache, tmp, loop, handles, seed, faults>>

\* The second check finds a speaker that was registered in the meantime.
CloneLoses(c) ==
    /\ Idle /\ clone[c] = "computing"
    /\ Exists(NameOf[c])
    /\ clone' = [clone EXCEPT ![c] = "409"]
    /\ UNCHANGED <<disk, cache, tmp, loop, handles, seed, faults>>

\* Slip: no second check after the await.
RegisterUnchecked(c) ==
    /\ Idle /\ clone[c] = "computing"
    /\ clone' = [clone EXCEPT ![c] = "writing"]
    /\ dirs' = dirs \cup {NameOf[c]}
    /\ left' = Files
    /\ UNCHANGED <<files, cache, tmp, server, unvisited, deleting, handles, seed, faults>>

\* The second check passes and register() makes the directory.
Register(c) ==
    /\ Idle /\ clone[c] = "computing"
    /\ ~Exists(NameOf[c])
    /\ clone' = [clone EXCEPT ![c] = "writing"]
    /\ dirs' = dirs \cup {NameOf[c]}
    /\ left' = Files
    /\ UNCHANGED <<files, cache, tmp, server, unvisited, deleting, handles, seed, faults>>

\* shutil.copy2(), np.savez() and json.dump() in turn: the next file is opened ...
RegisterOpens(c) ==
    /\ clone[c] = "writing" /\ writing = None
    /\ \E f \in left :
         /\ \A g \in left : f <= g
         /\ Opens("server", NameOf[c], f, ScriptHas(NameOf[c], f))
         /\ writing' = f
         /\ left' = left \ {f}
    /\ UNCHANGED <<dirs, cache, tmp, clone, server, unvisited, deleting, seed, unlinked, faults>>

\* ... and closed.
RegisterCloses(c) ==
    /\ clone[c] = "writing" /\ writing # None
    /\ Closes("server", c, NameOf[c], writing)
    /\ writing' = None
    /\ UNCHANGED <<dirs, cache, tmp, clone, loop, seed, unlinked, faults>>

\* The record is cached, and the finally block removes the upload.  If that
\* raises, the speaker is registered and the answer is an error all the same.
RegisterEnds(c) ==
    /\ clone[c] = "writing" /\ writing = None /\ left = {}
    /\ cache' = [cache EXCEPT ![NameOf[c]] = c]
    /\ \/ /\ tmp' = tmp \ {c}
          /\ clone' = [clone EXCEPT ![c] = "200"]
          /\ UNCHANGED faults
       \/ /\ CountFault
          /\ clone' = [clone EXCEPT ![c] = "500"]
          /\ UNCHANGED tmp
    /\ UNCHANGED <<disk, loop, handles, seed>>

\* A write inside register() raises: no record, the upload stays, and so do
\* the files register() got to.
RegisterRaises(c) ==
    /\ clone[c] = "writing" /\ CountFault
    /\ clone' = [clone EXCEPT ![c] = "500"]
    /\ left' = {} /\ writing' = None /\ shared' = shared \ {"server"}
    /\ UNCHANGED <<disk, cache, tmp, server, unvisited, deleting, seed, unlinked>>

(* The other endpoints *)

\* get(), from POST /v1/tts, GET /v1/speakers/{name} and the others: a miss
\* is loaded from disk.
Get(n) ==
    /\ Idle
    /\ cache[n] = Absent
    /\ IsFile(n, Latents) /\ Readable(n)
    /\ cache' = [cache EXCEPT ![n] = files[n][Latents]]
    /\ UNCHANGED <<disk, tmp, clone, loop, handles, seed, faults>>

\* Slip: the record is not evicted before rmtree().
DeleteKeepsRecord(n) ==
    /\ Idle /\ n \in dirs
    /\ deleting' = {n}
    /\ left' = {f \in Files : IsFile(n, f)}
    /\ UNCHANGED <<disk, cache, tmp, clone, server, unvisited, handles, seed, faults>>

\* Slip: the endpoint runs in a thread, and delete() next to register(), which
\* does not take _cache_lock.
DeleteInThread(n) ==
    /\ server = "serving" /\ deleting = {} /\ n \in dirs
    /\ cache' = [cache EXCEPT ![n] = Absent]
    /\ files' = [files EXCEPT ![n] = NoFiles]
    /\ UNCHANGED <<dirs, tmp, clone, loop, handles, seed, faults>>

\* delete(): the record is evicted, and rmtree() lists the directory.
DeleteBegins(n) ==
    /\ Idle /\ n \in dirs
    /\ cache' = [cache EXCEPT ![n] = Absent]
    /\ deleting' = {n}
    /\ left' = {f \in Files : IsFile(n, f)}
    /\ UNCHANGED <<disk, tmp, clone, server, unvisited, handles, seed, faults>>

\* It removes a file; who has it open goes on writing to a file without a name.
DeleteUnlinks(n) ==
    /\ n \in deleting
    /\ \E f \in left :
         /\ files' = [files EXCEPT ![n][f] = Absent]
         /\ left' = left \ {f}
         /\ unlinked' = IF ScriptHas(n, f) THEN unlinked \cup {n} ELSE unlinked
    /\ UNCHANGED <<dirs, cache, tmp, clone, server, unvisited, deleting, writing, shared,
                   seed, faults>>

\* At last it removes the directory, and raises if there is a new file in it.
DeleteEnds(n) ==
    /\ n \in deleting /\ left = {}
    /\ dirs' = IF files[n] = NoFiles THEN dirs \ {n} ELSE dirs
    /\ deleting' = {}
    /\ UNCHANGED <<files, cache, tmp, clone, server, unvisited, left, handles, seed, faults>>

\* rmtree() raises half-way.
DeleteRaises(n) ==
    /\ n \in deleting /\ CountFault
    /\ deleting' = {} /\ left' = {}
    /\ UNCHANGED <<disk, cache, tmp, clone, server, unvisited, handles, seed>>

(* The end of the server's process, and the next start *)

\* What is in memory is lost, and a file it has open stays as it is.
Down ==
    /\ server' = "down"
    /\ cache' = [n \in Names |-> Absent]
    /\ clone' = [c \in CloneRequests |->
                   IF clone[c] \in {"computing", "writing"} THEN "lost" ELSE clone[c]]
    /\ unvisited' = {} /\ deleting' = {} /\ left' = {}
    /\ writing' = None /\ shared' = shared \ {"server"}
    /\ UNCHANGED <<disk, tmp, seed, unlinked>>

ProcessEnds == server # "down" /\ CountFault /\ Down

\* SpeakerStore(), and preload_all() scans the directory: it may or may not
\* meet a name that the script adds in the meantime.
Startup ==
    /\ server = "down"
    /\ server' = "starting"
    /\ unvisited' \in {names \in SUBSET Names : dirs \subseteq names}
    /\ UNCHANGED <<disk, cache, tmp, clone, deleting, left, handles, seed, faults>>

\* Slip: a file that does not load is cached all the same.
PreloadAnything(n) ==
    /\ server = "starting" /\ n \in unvisited
    /\ cache' = [cache EXCEPT ![n] = files[n][Latents]]
    /\ unvisited' = unvisited \ {n}
    /\ UNCHANGED <<disk, tmp, clone, server, deleting, left, handles, seed, faults>>

Preload(n) ==
    /\ server = "starting" /\ n \in unvisited
    /\ IsFile(n, Latents) => Readable(n)
    /\ cache' = [cache EXCEPT ![n] = files[n][Latents]]
    /\ unvisited' = unvisited \ {n}
    /\ UNCHANGED <<disk, tmp, clone, server, deleting, left, handles, seed, faults>>

\* The lifespan fails on the first file that does not load.
PreloadRaises(n) ==
    /\ server = "starting" /\ n \in unvisited
    /\ IsFile(n, Latents) /\ MayNotLoad(n)
    /\ Down
    /\ UNCHANGED faults

StartupEnds ==
    /\ server = "starting" /\ unvisited = {}
    /\ server' = "serving"
    /\ UNCHANGED <<disk, cache, tmp, clone, unvisited, deleting, left, handles, seed, faults>>

(* seed_studio_speakers.py, one name after the other *)

AtWork(n) == n \in Seeded /\ seed[n] \in {"checked", "made", "latents", "written", "meta"}

SeedChecks(n) ==
    /\ n \in Seeded /\ seed[n] = "start"
    /\ \A m \in Names : ~AtWork(m)
    /\ seed' = [seed EXCEPT ![n] =
                  IF IsFile(n, Latents) /\ ~ForceFlag THEN "skipped" ELSE "checked"]
    /\ UNCHANGED <<disk, cache, tmp, clone, loop, handles, faults>>

SeedMakesDir(n) ==
    /\ n \in Seeded /\ seed[n] = "checked"
    /\ seed' = [seed EXCEPT ![n] = "made"]
    /\ dirs' = dirs \cup {n}
    /\ UNCHANGED <<files, cache, tmp, clone, loop, handles, faults>>

\* np.savez() or open() of a file, which raises when a delete() removed the
\* directory in the meantime.
SeedOpens(n, f) ==
    /\ n \in Seeded /\ seed[n] = StageBefore(f)
    /\ \/ /\ n \in dirs
          /\ Opens("script", n, f, ServerHas(n, f))
          /\ seed' = [seed EXCEPT ![n] = StageAt(f)]
       \/ /\ n \notin dirs
          /\ seed' = [seed EXCEPT ![n] = "error"]
          /\ UNCHANGED <<files, shared>>
    /\ UNCHANGED <<dirs, cache, tmp, clone, loop, writing, unlinked, faults>>

SeedCloses(n, f) ==
    /\ n \in Seeded /\ seed[n] = StageAt(f)
    /\ seed' = [seed EXCEPT ![n] = StageAfter(f)]
    /\ \/ n \notin unlinked /\ Closes("script", Studio, n, f)
       \/ n \in unlinked /\ shared' = shared \ {"script"} /\ UNCHANGED files
    /\ unlinked' = unlinked \ {n}
    /\ UNCHANGED <<dirs, cache, tmp, clone, loop, writing, faults>>

\* A write raises, or the script is killed.
SeedRaises(n) ==
    /\ AtWork(n) /\ CountFault
    /\ seed' = [seed EXCEPT ![n] = "error"]
    /\ shared' = shared \ {"script"} /\ unlinked' = unlinked \ {n}
    /\ UNCHANGED <<disk, cache, tmp, clone, loop, writing>>

-----------------------------------------------------------------------------
CloneStep(c) ==
    \/ CloneArrives(c) \/ LatentsFail(c) \/ CloneLoses(c)
    \/ Register(c) \/ RegisterOpens(c) \/ RegisterCloses(c)
    \/ RegisterEnds(c) \/ RegisterRaises(c)

NameStep(n) ==
    \/ Get(n)
    \/ DeleteBegins(n) \/ DeleteUnlinks(n) \/ DeleteEnds(n) \/ DeleteRaises(n)
    \/ Preload(n) \/ PreloadRaises(n)

SeedStep(n) ==
    \/ SeedChecks(n) \/ SeedMakesDir(n) \/ SeedRaises(n)
    \/ \E f \in {Latents, Meta} : SeedOpens(n, f) \/ SeedCloses(n, f)

Next ==
    \/ \E c \in CloneRequests : CloneStep(c)
    \/ \E n \in Names : NameStep(n) \/ SeedStep(n)
    \/ ProcessEnds \/ Startup \/ StartupEnds

Spec == Init /\ [][Next]_vars

-----------------------------------------------------------------------------
(* Properties *)

\* Every field has its type.
TypeOK ==
    /\ dirs \subseteq Names
    /\ files \in [Names -> [Files -> Writers \cup {Absent, Torn, Mixed}]]
    /\ cache \in [Names -> Writers \cup {Absent}]
    /\ tmp \subseteq CloneRequests
    /\ clone \in [CloneRequests ->
                    {"start", "computing", "writing", "200", "409", "500", "lost"}]
    /\ server \in {"down", "starting", "serving"}
    /\ unvisited \subseteq Names
    /\ deleting \subseteq Names
    /\ left \subseteq Files
    /\ writing \in Files \cup {None}
    /\ seed \in [Seeded -> {"start", "skipped", "checked", "made", "latents", "written",
                            "meta", "done", "error"}]
    /\ unlinked \subseteq Names
    /\ shared \subseteq Process
    /\ faults \in 0 .. MaxFaults

\* The script came to write the latents of n.
Touched(n) == n \in Seeded /\ seed[n] \in {"latents", "written", "meta", "done", "error"}

\* A speaker sounds the same before and after a restart: the latents in the
\* cache are the ones on disk, whatever clones, deletes, errors and ends of the
\* process came before.  Only the seed script can put the disk ahead of the
\* cache, and then by its own latents: never by a removal or another clone.
CacheMatchesDisk ==
    \A n \in Names :
        cache[n] # Absent =>
            \/ files[n][Latents] = cache[n]
            \/ Touched(n) /\ files[n][Latents] \in {Studio, Mixed, Torn}

\* The files that are torn although nobody is at work on them any more.
TornForGood ==
    {at \in Names \X Files :
        /\ files[at[1]][at[2]] = Torn
        /\ ~ServerHas(at[1], at[2]) /\ ~ScriptHas(at[1], at[2])}

\* Half-written files stay behind only after an error in a write or the end of
\* the process that was writing, and no more than one for each of them: however
\* register(), rmtree(), restarts and the seed script interleave, no step of one
\* leaves the other's file, or its own, short.
TornCostsAFault == Cardinality(TornForGood) <= faults

\* A registered speaker is never mixed with or replaced by another one: its
\* files stay until a delete removes them.  (The seed script may overwrite it,
\* if it is between its check of the name and its end.)
RegisteredStays ==
    [][\A c \in CloneRequests :
            /\ clone[c] # "writing" /\ ~AtWork(NameOf[c])
            /\ \A f \in Files : files[NameOf[c]][f] = c
         => \A f \in Files : files'[NameOf[c]][f] \in {c, Absent}]_vars

\* "... registered. Use it with POST /v1/tts.": when a clone is answered
\* with success its three files are on disk, whole and its own, unless the seed
\* script writes to the same name.  Nothing gets between the writes of
\* register(), which holds no lock: no delete and no other clone.
WholeWhenAnswered ==
    [][\A c \in CloneRequests :
         clone[c] # "200" /\ clone'[c] = "200" /\ ~Touched(NameOf[c])
         => \A f \in Files : files'[NameOf[c]][f] = c]_vars

\* "cannot leave the speaker in a corrupt state": when a request is over, a
\* speaker that exists() can be loaded.
ExistingLoads == Idle => \A n \in Names : Exists(n) => Readable(n)
=============================================================================
