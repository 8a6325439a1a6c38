-------------------------- MODULE SpeakerStoreProofs -------------------------
(***************************************************************************)
(* Proofs about SpeakerStore for every set of names and clone requests,    *)
(* any names of the seed script and any number of faults.                  *)
(***************************************************************************)
EXTENDS SpeakerStore, FiniteSetTheorems, TLAPS

Content == Writers \cup {Absent, Torn, Mixed}
FileSpace == [Names -> [Files -> Content]]

\* What an open or a close leaves on the disk is typed, and concerns one file.
LEMMA OneFileTypes ==
    ASSUME TypeOK, NEW n \in Names, NEW f \in Files, NEW content \in Content
    PROVE  [files EXCEPT ![n][f] = content] \in FileSpace
BY DEF TypeOK, FileSpace, Content

LEMMA OpensTypes ==
    ASSUME TypeOK, NEW p \in Process, NEW n \in Names, NEW f \in Files, NEW contended,
           Opens(p, n, f, contended)
    PROVE  /\ files' = [files EXCEPT ![n][f] = Torn]
           /\ files' \in FileSpace
           /\ shared' \subseteq Process
BY OneFileTypes DEF Opens, TypeOK, Content

LEMMA ClosesTypes ==
    ASSUME TypeOK, NEW p \in Process, NEW w \in Writers, NEW n \in Names, NEW f \in Files,
           Closes(p, w, n, f)
    PROVE  /\ files' \in FileSpace
           /\ shared' = shared \ {p}
           /\ \E content \in Content \ {Torn} :
                /\ files' = [files EXCEPT ![n][f] = content]
                /\ content = w \/ (p \in shared /\ content \in {Mixed, files[n][f]})
<1>1. files[n][f] \in Content /\ w \in Content \ {Torn} /\ Mixed \in Content \ {Torn}
  BY SpeakerStoreAssumption DEF TypeOK, Content
<1>2. PICK content \in {w} \cup (IF p \in shared THEN {Mixed, files[n][f]} \ {Torn} ELSE {}) :
        files' = [files EXCEPT ![n][f] = content]
  BY DEF Closes
<1>3. content \in Content \ {Torn}
  BY <1>1, <1>2
<1> QED
  BY <1>2, <1>3, OneFileTypes DEF Closes

\* The end of the server's process keeps the types of what it forgets.
LEMMA DownTypes ==
    ASSUME TypeOK, Down
    PROVE  /\ cache' \in [Names -> Writers \cup {Absent}]
           /\ clone' \in [CloneRequests ->
                            {"start", "computing", "writing", "200", "409", "500", "lost"}]
           /\ UNCHANGED <<dirs, files, tmp, seed, unlinked>>
<1>1. ASSUME NEW c \in CloneRequests
      PROVE  (IF clone[c] \in {"computing", "writing"} THEN "lost" ELSE clone[c])
                \in {"start", "computing", "writing", "200", "409", "500", "lost"}
  BY DEF TypeOK
<1> QED
  BY <1>1 DEF TypeOK, Down, disk

\* Every variable of the speaker store has its type initially.
LEMMA SpeakerTypesInit == Init => TypeOK
BY SpeakerStoreAssumption DEF Init, TypeOK, NoFiles, Writers, Process, Files, None

\* Every step keeps the types.
LEMMA SpeakerTypesInductive ==
    ASSUME TypeOK, [Next]_vars
    PROVE  TypeOK'
<1> USE SpeakerStoreAssumption DEF disk, loop, handles, Process
<1>0. CountFault => faults' \in 0 .. MaxFaults
  BY DEF TypeOK, CountFault
<1>1. ASSUME NEW c \in CloneRequests,
             CloneArrives(c) \/ LatentsFail(c) \/ CloneLoses(c)
      PROVE  TypeOK'
  BY <1>1 DEF TypeOK, CloneArrives, LatentsFail, CloneLoses
<1>2. ASSUME NEW c \in CloneRequests, Register(c)
      PROVE  TypeOK'
  BY <1>2 DEF TypeOK, Register
<1>3. ASSUME NEW c \in CloneRequests, RegisterOpens(c)
      PROVE  TypeOK'
  <2>1. PICK f \in left : /\ Opens("server", NameOf[c], f, ScriptHas(NameOf[c], f))
                          /\ writing' = f /\ left' = left \ {f}
    BY <1>3 DEF RegisterOpens
  <2>2. f \in Files
    BY DEF TypeOK
  <2>3. files' \in FileSpace /\ shared' \subseteq Process
    BY <2>1, <2>2, OpensTypes
  <2> QED
    BY <1>3, <2>1, <2>2, <2>3 DEF TypeOK, RegisterOpens, FileSpace, Content
<1>4. ASSUME NEW c \in CloneRequests, RegisterCloses(c)
      PROVE  TypeOK'
  <2>1. writing \in Files /\ c \in Writers
    BY <1>4 DEF TypeOK, RegisterCloses, Writers
  <2>2. files' \in FileSpace /\ shared' = shared \ {"server"}
    BY <1>4, <2>1, ClosesTypes DEF RegisterCloses
  <2> QED
    BY <1>4, <2>2 DEF TypeOK, RegisterCloses, FileSpace, Content
<1>5. ASSUME NEW c \in CloneRequests, RegisterEnds(c) \/ RegisterRaises(c)
      PROVE  TypeOK'
  <2>1. CASE RegisterEnds(c)
    <3>1. cache' \in [Names -> Writers \cup {Absent}]
      BY <2>1 DEF TypeOK, RegisterEnds, Writers
    <3>2. tmp' \subseteq CloneRequests /\ faults' \in 0 .. MaxFaults
      BY <1>0, <2>1 DEF TypeOK, RegisterEnds
    <3>3. clone' \in [CloneRequests ->
                        {"start", "computing", "writing", "200", "409", "500", "lost"}]
      BY <2>1 DEF TypeOK, RegisterEnds
    <3> QED
      BY <2>1, <3>1, <3>2, <3>3 DEF TypeOK, RegisterEnds
  <2>2. CASE RegisterRaises(c)
    BY <1>0, <2>2 DEF TypeOK, RegisterRaises
  <2> QED
    BY <1>5, <2>1, <2>2
<1>6. ASSUME NEW n \in Names, Get(n) \/ Preload(n)
      PROVE  TypeOK'
  <2>1. files[n][Latents] \in Writers \cup {Absent}
    BY <1>6 DEF TypeOK, Get, Preload, IsFile, Readable, Files, Latents
  <2> QED
    BY <1>6, <2>1 DEF TypeOK, Get, Preload
<1>7. ASSUME NEW n \in Names, DeleteBegins(n) \/ DeleteEnds(n) \/ DeleteRaises(n)
      PROVE  TypeOK'
  BY <1>0, <1>7 DEF TypeOK, DeleteBegins, DeleteEnds, DeleteRaises
<1>8. ASSUME NEW n \in Names, DeleteUnlinks(n)
      PROVE  TypeOK'
  <2>1. PICK f \in left : /\ files' = [files EXCEPT ![n][f] = Absent]
                          /\ left' = left \ {f}
    BY <1>8 DEF DeleteUnlinks
  <2>2. files' \in FileSpace
    BY <2>1, OneFileTypes DEF TypeOK, Content
  <2> QED
    BY <1>8, <2>1, <2>2 DEF TypeOK, DeleteUnlinks, FileSpace, Content
<1>9. CASE ProcessEnds
  BY <1>0, <1>9, DownTypes DEF TypeOK, ProcessEnds, Down
<1>10. ASSUME NEW n \in Names, PreloadRaises(n)
       PROVE  TypeOK'
  BY <1>10, DownTypes DEF TypeOK, PreloadRaises, Down
<1>11. CASE Startup \/ StartupEnds
  BY <1>11 DEF TypeOK, Startup, StartupEnds
<1>12. ASSUME NEW n \in Names, SeedChecks(n) \/ SeedMakesDir(n) \/ SeedRaises(n)
       PROVE  TypeOK'
  BY <1>0, <1>12 DEF TypeOK, SeedChecks, SeedMakesDir, SeedRaises
<1>13. ASSUME NEW n \in Names, NEW f \in {Latents, Meta}, SeedOpens(n, f)
       PROVE  TypeOK'
  <2>0. "script" \in Process /\ f \in Files
    BY DEF Files
  <2>1. files' \in FileSpace /\ shared' \subseteq Process
    <3>1. CASE Opens("script", n, f, ServerHas(n, f))
      BY <2>0, <3>1, OpensTypes
    <3>2. CASE UNCHANGED <<files, shared>>
      BY <3>2 DEF TypeOK, FileSpace, Content
    <3> QED
      BY <1>13, <3>1, <3>2 DEF SeedOpens
  <2>2. seed' \in [Seeded -> {"start", "skipped", "checked", "made", "latents", "written",
                              "meta", "done", "error"}]
    BY <1>13 DEF TypeOK, SeedOpens, StageAt
  <2> QED
    BY <1>13, <2>1, <2>2 DEF TypeOK, SeedOpens, FileSpace, Content
<1>14. ASSUME NEW n \in Names, NEW f \in {Latents, Meta}, SeedCloses(n, f)
       PROVE  TypeOK'
  <2>0. "script" \in Process /\ f \in Files /\ Studio \in Writers
    BY DEF Files, Writers
  <2>1. files' \in FileSpace /\ shared' \subseteq Process
    <3>1. CASE Closes("script", Studio, n, f)
      BY <2>0, <3>1, ClosesTypes DEF TypeOK
    <3>2. CASE shared' = shared \ {"script"} /\ UNCHANGED files
      BY <3>2 DEF TypeOK, FileSpace, Content
    <3> QED
      BY <1>14, <3>1, <3>2 DEF SeedCloses
  <2>2. seed' \in [Seeded -> {"start", "skipped", "checked", "made", "latents", "written",
                              "meta", "done", "error"}]
    BY <1>14 DEF TypeOK, SeedCloses, StageAfter
  <2> QED
    BY <1>14, <2>1, <2>2 DEF TypeOK, SeedCloses, FileSpace, Content
<1>15. CASE UNCHANGED vars
  BY <1>15 DEF vars, TypeOK
<1> QED
  BY <1>1, <1>2, <1>3, <1>4, <1>5, <1>6, <1>7, <1>8, <1>9, <1>10, <1>11, <1>12, <1>13, <1>14,
     <1>15 DEF Next, CloneStep, NameStep, SeedStep

\* Every variable of the speaker store has its type.
THEOREM SpeakerTypeCorrect == Spec => []TypeOK
BY SpeakerTypesInit, SpeakerTypesInductive, PTL DEF Spec

-----------------------------------------------------------------------------
(* Who is at work. *)

\* register() and delete() exclude each other and themselves, and a name either
\* of them is at work on is not cached; a handle belongs to a register().
Alone ==
    /\ \A c, d \in CloneRequests : clone[c] = "writing" /\ clone[d] = "writing" => c = d
    /\ \A c \in CloneRequests : clone[c] = "writing" =>
         server = "serving" /\ deleting = {} /\ cache[NameOf[c]] = Absent
    /\ \A n \in deleting : server = "serving" /\ deleting = {n} /\ cache[n] = Absent
    /\ writing # None => writing \notin left /\ \E c \in CloneRequests : clone[c] = "writing"
    /\ "server" \in shared => writing # None

\* The script works on one name at a time.
OneAtATime == \A m, n \in Names : AtWork(m) /\ AtWork(n) => m = n

\* Only a file it is writing can be removed under its hands.
RemovedOpen == \A n \in unlinked : n \in Seeded /\ seed[n] \in {"latents", "meta"}

\* The script and a register() both came to write files of n.
Contested(n) ==
    /\ Touched(n)
    /\ \E c \in CloneRequests :
         NameOf[c] = n /\ clone[c] \in {"writing", "200", "500", "lost"}

\* Files of two writers, and files that are going to be, are on such names only.
Contention ==
    /\ \A n \in Names, f \in Files : files[n][f] = Mixed => Contested(n)
    /\ "server" \in shared =>
         \A c \in CloneRequests : clone[c] = "writing" => Contested(NameOf[c])
    /\ "script" \in shared =>
         \A n \in Seeded : seed[n] \in {"latents", "meta"} => Contested(n)

\* How far the disk is while register() writes.
SoFar(c) ==
    /\ \/ Latents \in left /\ files[NameOf[c]][Latents] = Absent
       \/ writing = Latents /\ files[NameOf[c]][Latents] = Torn
       \/ Latents \notin left \cup {writing} /\ files[NameOf[c]][Latents] = c
       \/ Touched(NameOf[c]) /\ files[NameOf[c]][Latents] \in {Studio, Mixed, Torn}
    /\ Touched(NameOf[c]) \/ \A f \in Files \ left : f = writing \/ files[NameOf[c]][f] = c

WritesItsOwn == \A c \in CloneRequests : clone[c] = "writing" => SoFar(c)

LEMMA AloneInductive ==
    ASSUME TypeOK, Alone, [Next]_vars
    PROVE  Alone'
<1> USE SpeakerStoreAssumption DEF Alone, disk, loop, handles
<1>0. Idle => writing = None /\ "server" \notin shared
  BY DEF Idle
<1>1. ASSUME NEW c \in CloneRequests,
             CloneArrives(c) \/ LatentsFail(c) \/ CloneLoses(c)
      PROVE  Alone'
  BY <1>0, <1>1 DEF TypeOK, CloneArrives, LatentsFail, CloneLoses, Idle
<1>2. ASSUME NEW c \in CloneRequests, Register(c)
      PROVE  Alone'
  <2>1. /\ \A d \in CloneRequests : clone'[d] = "writing" => d = c
        /\ server' = "serving" /\ deleting' = {} /\ cache'[NameOf[c]] = Absent
        /\ writing' = None /\ "server" \notin shared'
    BY <1>0, <1>2 DEF TypeOK, Register, Idle, Exists
  <2> QED
    BY <2>1
<1>3. ASSUME NEW c \in CloneRequests, RegisterOpens(c)
      PROVE  Alone'
  <2>1. writing' \in Files /\ writing' \notin left'
    BY <1>3 DEF RegisterOpens, TypeOK
  <2>2. writing' # None
    BY <2>1 DEF Files, None, Ref, Latents, Meta
  <2> QED
    BY <1>3, <2>1, <2>2 DEF RegisterOpens
<1>4. ASSUME NEW c \in CloneRequests, RegisterCloses(c)
      PROVE  Alone'
  BY <1>4 DEF RegisterCloses, Closes
<1>5. ASSUME NEW c \in CloneRequests, RegisterEnds(c) \/ RegisterRaises(c)
      PROVE  Alone'
  <2>1. \A d \in CloneRequests : clone'[d] # "writing"
    BY <1>5 DEF RegisterEnds, RegisterRaises, TypeOK
  <2>2. writing' = None /\ "server" \notin shared'
    BY <1>5 DEF RegisterEnds, RegisterRaises
  <2>3. deleting' = {}
    BY <1>5 DEF RegisterEnds, RegisterRaises
  <2> QED
    BY <2>1, <2>2, <2>3
<1>6. ASSUME NEW n \in Names, Get(n)
      PROVE  Alone'
  BY <1>6 DEF Get, Idle
<1>7. ASSUME NEW n \in Names, DeleteBegins(n) \/ DeleteEnds(n) \/ DeleteRaises(n)
      PROVE  Alone'
  BY <1>0, <1>7 DEF TypeOK, DeleteBegins, DeleteEnds, DeleteRaises, Idle
<1>8. ASSUME NEW n \in Names, DeleteUnlinks(n)
      PROVE  Alone'
  BY <1>8 DEF DeleteUnlinks
<1>9. ASSUME Down PROVE Alone'
  <2>1. \A c \in CloneRequests : clone'[c] # "writing"
    BY <1>9 DEF Down, TypeOK
  <2> QED
    BY <1>9, <2>1 DEF Down
<1>10. ASSUME Startup \/ StartupEnds \/ \E n \in Names : Preload(n)
       PROVE  Alone'
  BY <1>10 DEF Preload, Startup, StartupEnds
<1>11. ASSUME NEW n \in Names, SeedChecks(n) \/ SeedMakesDir(n) \/ SeedRaises(n)
       PROVE  Alone'
  BY <1>11 DEF SeedChecks, SeedMakesDir, SeedRaises
<1>12. ASSUME NEW n \in Names, NEW f \in {Latents, Meta}, SeedOpens(n, f)
       PROVE  Alone'
  <2>1. "server" \in shared' => writing # None
    <3>1. f # None
      BY DEF None, Latents, Meta
    <3> QED
      BY <1>12, <3>1 DEF SeedOpens, Opens, ServerHas
  <2> QED
    BY <1>12, <2>1 DEF SeedOpens
<1>13. ASSUME NEW n \in Names, NEW f \in {Latents, Meta}, SeedCloses(n, f)
       PROVE  Alone'
  BY <1>13 DEF SeedCloses, Closes
<1>14. CASE UNCHANGED vars
  BY <1>14 DEF vars
<1> QED
  BY <1>1, <1>2, <1>3, <1>4, <1>5, <1>6, <1>7, <1>8, <1>9, <1>10, <1>11, <1>12, <1>13, <1>14
     DEF Next, CloneStep, NameStep, SeedStep, ProcessEnds, PreloadRaises

\* The script's progress is its own.
LEMMA OnlyTheScriptSeeds ==
    ASSUME [Next]_vars, ~\E n \in Names : SeedStep(n)
    PROVE  UNCHANGED seed
BY DEF Next, vars, disk, loop, handles, CloneStep, CloneArrives, LatentsFail, CloneLoses, Register,
       RegisterOpens, RegisterCloses, RegisterEnds, RegisterRaises, NameStep, Get, DeleteBegins,
       DeleteUnlinks, DeleteEnds, DeleteRaises, Preload, PreloadRaises, Down, ProcessEnds,
       Startup, StartupEnds

LEMMA OneAtATimeInductive ==
    ASSUME TypeOK, OneAtATime, [Next]_vars
    PROVE  OneAtATime'
<1> USE SpeakerStoreAssumption DEF OneAtATime, AtWork, disk, loop, handles
<1>1. ASSUME UNCHANGED seed PROVE OneAtATime'
  BY <1>1
<1>2. ASSUME NEW n \in Names, SeedChecks(n) PROVE OneAtATime'
  BY <1>2 DEF SeedChecks, TypeOK
<1>3. ASSUME NEW n \in Names, AtWork(n), NEW stage, seed' = [seed EXCEPT ![n] = stage]
      PROVE  OneAtATime'
  BY <1>3 DEF TypeOK
<1>4. ASSUME NEW n \in Names,
             \/ SeedMakesDir(n) \/ SeedRaises(n)
             \/ \E f \in {Latents, Meta} : SeedOpens(n, f) \/ SeedCloses(n, f)
      PROVE  OneAtATime'
  <2>1. AtWork(n) /\ \E stage : seed' = [seed EXCEPT ![n] = stage]
    BY <1>4 DEF SeedMakesDir, SeedRaises, SeedOpens, SeedCloses, StageBefore, StageAt
  <2> QED
    BY <1>3, <2>1
<1> QED
  BY <1>1, <1>2, <1>4, OnlyTheScriptSeeds DEF SeedStep

LEMMA RemovedOpenInductive ==
    ASSUME TypeOK, RemovedOpen, [Next]_vars
    PROVE  RemovedOpen'
<1> USE SpeakerStoreAssumption DEF RemovedOpen, disk, loop, handles
<1>1. ASSUME NEW n \in Names, SeedChecks(n) \/ SeedMakesDir(n)
      PROVE  RemovedOpen'
  BY <1>1 DEF SeedChecks, SeedMakesDir, TypeOK
<1>2. ASSUME NEW n \in Names, SeedRaises(n)
      PROVE  RemovedOpen'
  BY <1>2 DEF SeedRaises, TypeOK
<1>3. ASSUME NEW n \in Names, NEW f \in {Latents, Meta}, SeedOpens(n, f)
      PROVE  RemovedOpen'
  BY <1>3 DEF SeedOpens, StageBefore, TypeOK
<1>4. ASSUME NEW n \in Names, NEW f \in {Latents, Meta}, SeedCloses(n, f)
      PROVE  RemovedOpen'
  BY <1>4 DEF SeedCloses, TypeOK
<1>5. ASSUME NEW n \in Names, DeleteUnlinks(n)
      PROVE  RemovedOpen'
  BY <1>5 DEF DeleteUnlinks, ScriptHas, StageAt
<1>6. ASSUME ~\E n \in Names : SeedStep(n) \/ DeleteUnlinks(n)
      PROVE  RemovedOpen'
  <2>1. UNCHANGED seed
    BY <1>6, OnlyTheScriptSeeds
  <2>2. UNCHANGED unlinked
    BY <1>6 DEF Next, vars, CloneStep, CloneArrives, LatentsFail, CloneLoses, Register,
                RegisterOpens, RegisterCloses, RegisterEnds, RegisterRaises, NameStep, Get,
                DeleteBegins, DeleteEnds, DeleteRaises, Preload, PreloadRaises, Down,
                ProcessEnds, Startup, StartupEnds
  <2> QED
    BY <2>1, <2>2
<1> QED
  BY <1>1, <1>2, <1>3, <1>4, <1>5, <1>6 DEF SeedStep

\* The steps that write to a file or remove one; all the others leave the files
\* and who shares one alone.
LEMMA FileSteps ==
    ASSUME [Next]_vars
    PROVE  \/ UNCHANGED files /\ shared' \subseteq shared
           \/ \E c \in CloneRequests : RegisterOpens(c) \/ RegisterCloses(c)
           \/ \E n \in Names : DeleteUnlinks(n)
           \/ \E n \in Names, f \in {Latents, Meta} : SeedOpens(n, f) \/ SeedCloses(n, f)
BY DEF Next, vars, disk, loop, handles, CloneStep, CloneArrives, LatentsFail, CloneLoses, Register,
       RegisterEnds, RegisterRaises, NameStep, Get, DeleteBegins, DeleteEnds, DeleteRaises,
       Preload, PreloadRaises, Down, ProcessEnds, Startup, StartupEnds,
       SeedStep, SeedChecks, SeedMakesDir, SeedRaises

\* A name the script came to write, or the script and a clone, stays one.
LEMMA TouchedStays ==
    ASSUME TypeOK, [Next]_vars, NEW n \in Names, Touched(n)
    PROVE  Touched(n)'
<1> USE SpeakerStoreAssumption DEF disk, loop, handles
<1>1. ASSUME NEW m \in Names, SeedStep(m)
      PROVE  \/ UNCHANGED seed
             \/ /\ m \in Seeded
                /\ seed' = [seed EXCEPT ![m] = seed'[m]]
                /\ seed[m] \in {"start", "checked", "made"}
                     \/ seed'[m] \in {"latents", "written", "meta", "done", "error"}
  BY <1>1 DEF TypeOK, SeedStep, SeedChecks, SeedMakesDir, SeedRaises, AtWork, SeedOpens, SeedCloses,
              StageBefore, StageAt, StageAfter
<1>2. ASSUME NEW m \in Names, SeedStep(m)
      PROVE  Touched(n)'
  BY <1>1, <1>2 DEF Touched, TypeOK
<1> QED
  BY <1>2, OnlyTheScriptSeeds DEF Touched

\* What a step does to the clones: none comes to write but in Register.
LEMMA CloneSteps ==
    ASSUME TypeOK, [Next]_vars, NEW c \in CloneRequests
    PROVE  /\ clone[c] \in {"writing", "200", "500", "lost"}
                => clone'[c] \in {"writing", "200", "500", "lost"}
           /\ clone'[c] = "writing" => clone[c] = "writing" \/ Register(c)
           /\ clone'[c] = "200" => clone[c] = "200" \/ RegisterEnds(c)
<1> USE SpeakerStoreAssumption DEF disk, loop, handles
<1> DEFINE Later == /\ clone[c] \in {"writing", "200", "500", "lost"}
                         => clone'[c] \in {"writing", "200", "500", "lost"}
                    /\ clone'[c] = "writing" => clone[c] = "writing" \/ Register(c)
                    /\ clone'[c] = "200" => clone[c] = "200" \/ RegisterEnds(c)
<1>1. ASSUME NEW d \in CloneRequests, CloneStep(d) PROVE Later
  <2>1. CASE CloneArrives(d) \/ LatentsFail(d) \/ CloneLoses(d) \/ RegisterRaises(d)
    BY <2>1 DEF CloneArrives, LatentsFail, CloneLoses, RegisterRaises, TypeOK
  <2>2. CASE Register(d) \/ RegisterEnds(d)
    <3>1. CASE d = c
      BY <2>2, <3>1 DEF Register, RegisterEnds, TypeOK
    <3>2. CASE d # c
      BY <2>2, <3>2 DEF Register, RegisterEnds, TypeOK
    <3> QED
      BY <3>1, <3>2
  <2>3. CASE RegisterOpens(d) \/ RegisterCloses(d)
    BY <2>3 DEF RegisterOpens, RegisterCloses
  <2> QED
    BY <1>1, <2>1, <2>2, <2>3 DEF CloneStep
<1>2. ASSUME Down PROVE Later
  BY <1>2 DEF Down
<1>3. ASSUME NEW n \in Names, NameStep(n) \/ SeedStep(n), ~Down PROVE Later
  BY <1>3 DEF NameStep, Get, DeleteBegins, DeleteUnlinks, DeleteEnds, DeleteRaises, Preload,
              PreloadRaises, SeedStep, SeedChecks, SeedMakesDir, SeedRaises, SeedOpens, SeedCloses
<1>4. CASE Startup \/ StartupEnds \/ UNCHANGED vars
  BY <1>4 DEF Startup, StartupEnds, vars
<1> QED
  BY <1>1, <1>2, <1>3, <1>4 DEF Next, ProcessEnds

LEMMA ContestedStays ==
    ASSUME TypeOK, [Next]_vars, NEW n \in Names, Contested(n)
    PROVE  Contested(n)'
BY TouchedStays, CloneSteps DEF Contested

LEMMA ContentionInductive ==
    ASSUME TypeOK, Alone, OneAtATime, Contention, [Next]_vars
    PROVE  Contention'
<1> USE SpeakerStoreAssumption
<1>0. \A n \in Names : Contested(n) => Contested(n)'
  BY ContestedStays
<1>1. ASSUME NEW n \in Names, NEW f \in Files, files'[n][f] = Mixed
      PROVE  Contested(n)'
  <2>1. CASE files'[n][f] = files[n][f]
    BY <1>0, <1>1, <2>1 DEF Contention
  <2>2. ASSUME NEW c \in CloneRequests, RegisterCloses(c), files'[n][f] # files[n][f]
        PROVE  Contested(n)
    <3>1. "server" \in Process /\ c \in Writers /\ writing \in Files /\ Mixed # c
      BY <2>2 DEF RegisterCloses, TypeOK, Process, Writers
    <3>2. PICK content \in Content \ {Torn} :
            /\ files' = [files EXCEPT ![NameOf[c]][writing] = content]
            /\ content = c \/ ("server" \in shared /\ content \in {Mixed, files[NameOf[c]][writing]})
      BY <2>2, <3>1, ClosesTypes DEF RegisterCloses
    <3>3. n = NameOf[c] /\ f = writing /\ content = Mixed
      BY <1>1, <2>2, <3>1, <3>2 DEF TypeOK
    <3> QED
      BY <2>2, <3>1, <3>2, <3>3 DEF Contention, RegisterCloses
  <2>3. ASSUME NEW m \in Names, NEW g \in {Latents, Meta}, SeedCloses(m, g),
               files'[n][f] # files[n][f]
        PROVE  Contested(n)
    <3>1. "script" \in Process /\ Studio \in Writers /\ g \in Files /\ Mixed # Studio
      BY DEF Process, Writers, Files
    <3>2. PICK content \in Content \ {Torn} :
            /\ files' = [files EXCEPT ![m][g] = content]
            /\ content = Studio \/ ("script" \in shared /\ content \in {Mixed, files[m][g]})
      BY <2>3, <3>1, ClosesTypes DEF SeedCloses
    <3>3. n = m /\ f = g /\ content = Mixed
      BY <1>1, <2>3, <3>1, <3>2 DEF TypeOK
    <3>4. m \in Seeded /\ seed[m] \in {"latents", "meta"}
      BY <2>3 DEF SeedCloses, StageAt
    <3> QED
      BY <3>1, <3>2, <3>3, <3>4 DEF Contention
  <2>4. ASSUME NEW m \in Names, NEW g \in Files, NEW content \in {Torn, Absent},
               files' = [files EXCEPT ![m][g] = content]
        PROVE  files'[n][f] = files[n][f]
    BY <1>1, <2>4 DEF TypeOK
  <2>5. ASSUME NEW c \in CloneRequests, RegisterOpens(c) PROVE files'[n][f] = files[n][f]
    BY <2>4, <2>5 DEF RegisterOpens, Opens, TypeOK
  <2>6. ASSUME NEW m \in Names, DeleteUnlinks(m) PROVE files'[n][f] = files[n][f]
    BY <2>4, <2>6 DEF DeleteUnlinks, TypeOK
  <2>7. ASSUME NEW m \in Names, NEW g \in {Latents, Meta}, SeedOpens(m, g)
        PROVE  files'[n][f] = files[n][f]
    BY <2>4, <2>7 DEF SeedOpens, Opens, Files
  <2> QED
    BY <1>0, <2>1, <2>2, <2>3, <2>5, <2>6, <2>7, FileSteps
<1>2. ASSUME "server" \in shared', NEW c \in CloneRequests, clone'[c] = "writing"
      PROVE  Contested(NameOf[c])'
  <2>1. CASE "server" \in shared
    <3>1. ~Register(c)
      BY <2>1 DEF Register, Idle, Alone
    <3> QED
      BY <1>0, <1>2, <2>1, <3>1, CloneSteps DEF Contention
  <2>2. CASE "server" \notin shared
    <3>1. ASSUME NEW d \in CloneRequests, RegisterOpens(d) PROVE Contested(NameOf[c])'
      <4>1. \E f \in left : ScriptHas(NameOf[d], f)
        BY <1>2, <2>2, <3>1 DEF RegisterOpens, Opens
      <4>2. d = c /\ clone[c] = "writing"
        BY <1>2, <3>1 DEF Alone, RegisterOpens
      <4>3. Contested(NameOf[c])
        BY <4>1, <4>2 DEF Contested, Touched, ScriptHas, StageAt
      <4> QED
        BY <1>0, <4>3
    <3>2. ASSUME NEW m \in Names, NEW f \in {Latents, Meta}, SeedOpens(m, f)
          PROVE  Contested(NameOf[c])'
      <4>1. ServerHas(m, f) /\ m \in Seeded /\ seed' = [seed EXCEPT ![m] = StageAt(f)]
        BY <1>2, <2>2, <3>2 DEF SeedOpens, Opens
      <4>2. UNCHANGED clone
        BY <3>2 DEF SeedOpens
      <4>3. m = NameOf[c]
        BY <1>2, <4>1, <4>2 DEF Alone, ServerHas
      <4>4. Touched(m)'
        BY <4>1 DEF Touched, TypeOK, StageAt
      <4> QED
        BY <1>2, <4>3, <4>4 DEF Contested
    <3>3. ASSUME NEW d \in CloneRequests, RegisterCloses(d) PROVE FALSE
      BY <1>2, <2>2, <3>3 DEF RegisterCloses, Closes
    <3>4. ASSUME NEW m \in Names, NEW f \in {Latents, Meta}, DeleteUnlinks(m) \/ SeedCloses(m, f)
          PROVE  FALSE
      BY <1>2, <2>2, <3>4 DEF DeleteUnlinks, SeedCloses, Closes
    <3> QED
      BY <1>2, <2>2, <3>1, <3>2, <3>3, <3>4, FileSteps
  <2> QED
    BY <2>1, <2>2
<1>3. ASSUME "script" \in shared', NEW n \in Seeded, seed'[n] \in {"latents", "meta"}
      PROVE  Contested(n)'
  <2>0. n \in Names
    OBVIOUS
  <2>1. ASSUME NEW m \in Names, NEW f \in {Latents, Meta}, SeedOpens(m, f)
        PROVE  Contested(n)'
    <3>1. CASE m \in dirs /\ Opens("script", m, f, ServerHas(m, f))
               /\ seed' = [seed EXCEPT ![m] = StageAt(f)]
      <4>1. ServerHas(m, f)
        BY <1>3, <3>1 DEF Opens
      <4>2. AtWork(m)
        BY <2>1 DEF SeedOpens, AtWork, StageBefore
      <4>3. n = m
        BY <1>3, <2>0, <3>1, <4>2 DEF OneAtATime, AtWork, TypeOK
      <4>4. Touched(n)'
        BY <1>3 DEF Touched
      <4>5. UNCHANGED clone
        BY <2>1 DEF SeedOpens
      <4> QED
        BY <4>1, <4>3, <4>4, <4>5 DEF Contested, ServerHas
    <3>2. CASE seed' = [seed EXCEPT ![m] = "error"] /\ UNCHANGED shared
      <4>1. "script" \in shared /\ seed[n] \in {"latents", "meta"}
        BY <1>3, <3>2 DEF TypeOK
      <4> QED
        BY <1>0, <2>0, <4>1 DEF Contention
    <3> QED
      BY <2>1, <3>1, <3>2 DEF SeedOpens
  <2>2. ASSUME NEW c \in CloneRequests, RegisterOpens(c)
        PROVE  Contested(n)'
    <3>1. UNCHANGED seed
      BY <2>2 DEF RegisterOpens
    <3>2. CASE "script" \in shared
      BY <1>0, <1>3, <2>0, <3>1, <3>2 DEF Contention
    <3>3. CASE "script" \notin shared
      <4>1. PICK f \in left : ScriptHas(NameOf[c], f)
        BY <1>3, <2>2, <3>3 DEF RegisterOpens, Opens
      <4>2. n = NameOf[c]
        BY <1>3, <2>0, <3>1, <4>1 DEF OneAtATime, AtWork, ScriptHas, StageAt
      <4>3. Contested(n)
        BY <1>3, <2>2, <3>1, <4>2 DEF Contested, Touched, RegisterOpens
      <4> QED
        BY <1>0, <2>0, <4>3
    <3> QED
      BY <3>2, <3>3
  <2>3. ASSUME ~\E m \in Names, f \in {Latents, Meta} : SeedOpens(m, f),
               ~\E c \in CloneRequests : RegisterOpens(c)
        PROVE  Contested(n)'
    <3>1. "script" \in shared
      BY <1>3, <2>3, FileSteps DEF RegisterCloses, Closes, DeleteUnlinks, SeedCloses
    <3>2. seed[n] \in {"latents", "meta"}
      <4>1. ASSUME NEW m \in Names, SeedStep(m) PROVE seed[n] \in {"latents", "meta"}
        <5>1. SeedChecks(m) \/ SeedMakesDir(m) \/ SeedRaises(m)
              \/ \E f \in {Latents, Meta} : SeedCloses(m, f)
          BY <2>3, <4>1 DEF SeedStep
        <5>2. \E stage : seed' = [seed EXCEPT ![m] = stage] /\ stage \notin {"latents", "meta"}
          BY <5>1 DEF SeedChecks, SeedMakesDir, SeedRaises, SeedCloses, StageAfter
        <5> QED
          BY <1>3, <5>2 DEF TypeOK
      <4> QED
        BY <1>3, <4>1, OnlyTheScriptSeeds
    <3> QED
      BY <1>0, <2>0, <3>1, <3>2 DEF Contention
  <2> QED
    BY <2>1, <2>2, <2>3
<1> QED
  BY <1>1, <1>2, <1>3 DEF Contention

-----------------------------------------------------------------------------
(* What register() has on disk while it writes. *)

\* A step that leaves what register() has on disk and what it has left to do
\* alone keeps the agreement.
LEMMA SoFarKept ==
    ASSUME TypeOK, [Next]_vars, NEW c \in CloneRequests, SoFar(c),
           files'[NameOf[c]] = files[NameOf[c]], UNCHANGED <<left, writing>>
    PROVE  SoFar(c)'
<1>1. NameOf[c] \in Names /\ (Touched(NameOf[c]) => Touched(NameOf[c])')
  BY TouchedStays, SpeakerStoreAssumption
<1> QED
  BY <1>1 DEF SoFar

LEMMA WritesInductive ==
    ASSUME TypeOK, Alone, Contention, WritesItsOwn, [Next]_vars
    PROVE  WritesItsOwn'
<1> USE SpeakerStoreAssumption
<1> SUFFICES ASSUME NEW c \in CloneRequests, clone'[c] = "writing"
             PROVE  SoFar(c)'
  BY DEF WritesItsOwn
<1> DEFINE n == NameOf[c]
<1>0. n \in Names /\ (Touched(n) => Touched(n)')
  BY TouchedStays
<1>1. CASE Register(c)
  <2>1. left' = Files /\ files'[n][Latents] = Absent
    BY <1>1 DEF Register, Exists, IsFile
  <2> QED
    BY <2>1 DEF SoFar, Files
<1>2. CASE ~Register(c)
  <2>1. clone[c] = "writing" /\ SoFar(c)
    BY <1>2, CloneSteps DEF WritesItsOwn
  <2>2. deleting = {} /\ server = "serving" /\ \A d \in CloneRequests : clone[d] = "writing" => d = c
    BY <2>1 DEF Alone
  <2>3. CASE RegisterOpens(c)
    <3>1. PICK f \in left : /\ \A g \in left : f <= g
                            /\ files' = [files EXCEPT ![n][f] = Torn]
                            /\ writing' = f /\ left' = left \ {f}
      BY <2>3 DEF RegisterOpens, Opens
    <3>2. f \in Files /\ writing = None /\ None \notin Files
      BY <2>3 DEF TypeOK, RegisterOpens, None, Files, Ref, Latents, Meta
    <3>3. \A g \in Files : files'[n][g] = IF g = f THEN Torn ELSE files[n][g]
      BY <1>0, <3>1, <3>2 DEF TypeOK
    <3>4. Latents \in Files
      BY DEF Files
    <3> QED
      BY <1>0, <2>1, <3>1, <3>2, <3>3, <3>4 DEF SoFar
  <2>4. CASE RegisterCloses(c)
    <3>1. "server" \in Process /\ c \in Writers /\ writing \in Files /\ writing' = None
          /\ left' = left
      BY <2>4 DEF RegisterCloses, TypeOK, Process, Writers, loop
    <3>2. PICK content \in Content \ {Torn} :
            /\ files' = [files EXCEPT ![n][writing] = content]
            /\ content = c \/ ("server" \in shared /\ content \in {Mixed, files[n][writing]})
      BY <1>0, <2>4, <3>1, ClosesTypes DEF RegisterCloses
    <3>3. \A g \in Files : files'[n][g] = IF g = writing THEN content ELSE files[n][g]
      BY <1>0, <3>1, <3>2 DEF TypeOK
    <3>4. content = c \/ (Touched(n) /\ content \in {Mixed, files[n][writing]})
      BY <2>1, <3>2 DEF Contention, Contested
    <3>5. writing \notin left /\ Latents \in Files /\ None \notin Files /\ writing # None
      BY <3>1, <2>4 DEF Alone, Files, None, Ref, Latents, Meta, RegisterCloses
    <3>6. CASE writing = Latents
      BY <1>0, <2>1, <3>1, <3>2, <3>3, <3>4, <3>5, <3>6 DEF SoFar
    <3>7. CASE writing # Latents
      BY <1>0, <2>1, <3>1, <3>3, <3>4, <3>5, <3>7 DEF SoFar
    <3> QED
      BY <3>6, <3>7
  <2>5. ASSUME NEW m \in Names, NEW f \in {Latents, Meta}, SeedOpens(m, f) \/ SeedCloses(m, f)
        PROVE  SoFar(c)'
    <3>1. UNCHANGED <<left, writing>>
      BY <2>5 DEF SeedOpens, SeedCloses, loop
    <3>2. CASE files'[n] = files[n]
      BY <2>1, <3>1, <3>2, SoFarKept
    <3>3. CASE files'[n] # files[n]
      <4>1. \E content \in {Torn, Studio, Mixed, files[m][f]} :
              files' = [files EXCEPT ![m][f] = content]
        <5>1. CASE SeedOpens(m, f)
          BY <3>3, <5>1 DEF SeedOpens, Opens, Content
        <5>2. CASE SeedCloses(m, f)
          <6>1. "script" \in Process /\ Studio \in Writers /\ f \in Files
            BY DEF Process, Writers, Files
          <6>2. Closes("script", Studio, m, f)
            BY <3>3, <5>2 DEF SeedCloses
          <6> QED
            BY <6>1, <6>2, ClosesTypes
        <5> QED
          BY <2>5, <5>1, <5>2
      <4>2. m = n /\ f \in Files
        BY <1>0, <3>3, <4>1 DEF TypeOK, Files
      <4>3. Touched(n)'
        <5>1. \E stage \in {"latents", "written", "meta", "done"} :
                n \in Seeded /\ seed' = [seed EXCEPT ![n] = stage]
          BY <2>5, <3>3, <4>2 DEF SeedOpens, SeedCloses, StageAt, StageAfter
        <5> QED
          BY <5>1 DEF Touched, TypeOK
      <4>4. files'[n][Latents] \in {files[n][Latents], Torn, Studio, Mixed}
        BY <4>1, <4>2 DEF TypeOK, Files
      <4> QED
        BY <1>0, <2>1, <3>1, <4>3, <4>4 DEF SoFar
    <3> QED
      BY <3>2, <3>3
  <2>6. ASSUME NEW d \in CloneRequests, CloneStep(d), ~RegisterOpens(c), ~RegisterCloses(c)
        PROVE  SoFar(c)'
    <3>1. ~Idle
      BY <2>1 DEF Idle
    <3>2. RegisterEnds(d) \/ RegisterRaises(d) => FALSE
      <4>1. clone[d] = "writing" => d = c
        BY <2>2
      <4> QED
        BY <1>2, <2>1, <4>1 DEF RegisterEnds, RegisterRaises, TypeOK
    <3>3. RegisterOpens(d) \/ RegisterCloses(d) => FALSE
      BY <2>2, <2>6 DEF RegisterOpens, RegisterCloses
    <3> QED
      BY <2>6, <3>1, <3>2, <3>3
         DEF CloneStep, CloneArrives, LatentsFail, CloneLoses, Register
  <2>7. ASSUME NEW m \in Names, NameStep(m) PROVE SoFar(c)'
    <3>1. ~Down /\ ~Idle
      BY <2>1 DEF Down, Idle, TypeOK
    <3> QED
      BY <2>2, <2>7, <3>1 DEF NameStep, Get, DeleteBegins, DeleteUnlinks, DeleteEnds, DeleteRaises,
                              Preload, PreloadRaises
  <2>8. CASE ProcessEnds \/ Startup \/ StartupEnds
    BY <2>1, <2>2, <2>8 DEF ProcessEnds, Down, Startup, StartupEnds
  <2>9. ASSUME \/ \E m \in Names : SeedChecks(m) \/ SeedMakesDir(m) \/ SeedRaises(m)
               \/ UNCHANGED vars
        PROVE  SoFar(c)'
    BY <2>1, <2>9, SoFarKept
       DEF SeedChecks, SeedMakesDir, SeedRaises, vars, disk, loop, handles
  <2> QED
    BY <2>3, <2>4, <2>5, <2>6, <2>7, <2>8, <2>9 DEF Next, SeedStep
<1> QED
  BY <1>1, <1>2

\* The inductive invariant: types, who excludes whom, where two writers can
\* have met, and what a register() under way has on disk.
Sound == TypeOK /\ Alone /\ OneAtATime /\ RemovedOpen /\ Contention /\ WritesItsOwn

LEMMA SpeakersSound == Spec => []Sound
<1>1. Init => Sound
  BY SpeakerTypesInit, SpeakerStoreAssumption
     DEF Sound, Init, Alone, OneAtATime, RemovedOpen, AtWork, Contention, WritesItsOwn, NoFiles
<1>2. Sound /\ [Next]_vars => Sound'
  BY SpeakerTypesInductive, AloneInductive, OneAtATimeInductive,
     RemovedOpenInductive, ContentionInductive, WritesInductive DEF Sound
<1> QED
  BY <1>1, <1>2, PTL DEF Spec

-----------------------------------------------------------------------------
(* The cache and the disk. *)

LEMMA CacheInductive ==
    ASSUME Sound, CacheMatchesDisk, [Next]_vars
    PROVE  CacheMatchesDisk'
<1> USE SpeakerStoreAssumption DEF Sound
<1> SUFFICES ASSUME NEW n \in Names, cache'[n] # Absent
             PROVE  \/ files'[n][Latents] = cache'[n]
                    \/ Touched(n)' /\ files'[n][Latents] \in {Studio, Mixed, Torn}
  BY DEF CacheMatchesDisk
<1> DEFINE Follows == \/ files'[n][Latents] = cache'[n]
                      \/ Touched(n)' /\ files'[n][Latents] \in {Studio, Mixed, Torn}
<1>0. Touched(n) => Touched(n)'
  BY TouchedStays
<1>1. ASSUME cache'[n] = cache[n], files'[n][Latents] = files[n][Latents] PROVE Follows
  BY <1>0, <1>1 DEF CacheMatchesDisk
<1>2. ASSUME NEW c \in CloneRequests, RegisterOpens(c) \/ RegisterCloses(c) PROVE Follows
  <2>1. cache[NameOf[c]] = Absent /\ cache' = cache
    BY <1>2 DEF Alone, RegisterOpens, RegisterCloses
  <2>2. files'[n] = files[n]
    <3>1. n # NameOf[c]
      BY <2>1
    <3> QED
      BY <1>2, <3>1 DEF RegisterOpens, RegisterCloses, Opens, Closes, TypeOK
  <2> QED
    BY <1>1, <2>1, <2>2
<1>3. ASSUME NEW c \in CloneRequests, RegisterEnds(c) PROVE Follows
  <2>1. /\ cache' = [cache EXCEPT ![NameOf[c]] = c] /\ UNCHANGED files
        /\ left = {} /\ writing = None /\ clone[c] = "writing"
    BY <1>3 DEF RegisterEnds, disk
  <2>2. CASE n = NameOf[c]
    <3>1. SoFar(c) /\ None # Latents
      BY <2>1 DEF WritesItsOwn, None, Latents
    <3>2. cache'[n] = c
      BY <2>1, <2>2 DEF TypeOK
    <3> QED
      BY <1>0, <2>1, <2>2, <3>1, <3>2 DEF SoFar
  <2>3. CASE n # NameOf[c]
    BY <1>1, <2>1, <2>3 DEF TypeOK
  <2> QED
    BY <2>2, <2>3
<1>4. ASSUME NEW c \in CloneRequests, CloneStep(c) PROVE Follows
  BY <1>1, <1>2, <1>3, <1>4
     DEF CloneStep, CloneArrives, LatentsFail, CloneLoses, Register, RegisterRaises, disk
<1>5. ASSUME NEW m \in Names, NameStep(m) PROVE Follows
  <2>1. CASE Get(m) \/ Preload(m)
    BY <1>1, <2>1 DEF Get, Preload, TypeOK, disk
  <2>2. CASE DeleteBegins(m)
    BY <1>1, <2>2 DEF DeleteBegins, TypeOK, disk
  <2>3. CASE DeleteUnlinks(m)
    <3>1. m # n
      BY <2>3 DEF DeleteUnlinks, Alone
    <3>2. files'[n] = files[n] /\ cache' = cache
      BY <2>3, <3>1 DEF DeleteUnlinks, TypeOK
    <3> QED
      BY <1>1, <3>2
  <2>4. CASE DeleteEnds(m) \/ DeleteRaises(m)
    BY <1>1, <2>4 DEF DeleteEnds, DeleteRaises, disk
  <2>5. CASE PreloadRaises(m)
    BY <2>5 DEF PreloadRaises, Down
  <2> QED
    BY <1>5, <2>1, <2>2, <2>3, <2>4, <2>5 DEF NameStep
<1>6. ASSUME NEW m \in Names, NEW f \in {Latents, Meta}, SeedOpens(m, f) \/ SeedCloses(m, f)
      PROVE  Follows
  <2>1. cache' = cache
    BY <1>6 DEF SeedOpens, SeedCloses
  <2>2. CASE files'[n][Latents] = files[n][Latents]
    BY <1>1, <2>1, <2>2
  <2>3. CASE files'[n][Latents] # files[n][Latents]
    <3>1. m = n /\ \E stage \in {"latents", "written", "meta", "done"} :
                      n \in Seeded /\ seed' = [seed EXCEPT ![n] = stage]
      BY <1>6, <2>3 DEF SeedOpens, SeedCloses, Opens, Closes, StageAt, StageAfter, TypeOK
    <3>2. Touched(n)'
      BY <3>1 DEF Touched, TypeOK
    <3>3. \E content \in {Torn, Studio, Mixed, files[m][f]} :
            files' = [files EXCEPT ![m][f] = content]
      <4>1. CASE SeedOpens(m, f)
        BY <2>3, <4>1 DEF SeedOpens, Opens
      <4>2. CASE SeedCloses(m, f)
        <5>1. "script" \in Process /\ Studio \in Writers /\ f \in Files
          BY DEF Process, Writers, Files
        <5>2. Closes("script", Studio, m, f)
          BY <2>3, <4>2 DEF SeedCloses
        <5> QED
          BY <5>1, <5>2, ClosesTypes
      <4> QED
        BY <1>6, <4>1, <4>2
    <3>4. files'[n][Latents] \in {Torn, Studio, Mixed}
      BY <2>3, <3>1, <3>3 DEF TypeOK, Files
    <3> QED
      BY <3>2, <3>4
  <2> QED
    BY <2>2, <2>3
<1>7. ASSUME \/ \E m \in Names : SeedChecks(m) \/ SeedMakesDir(m) \/ SeedRaises(m)
             \/ UNCHANGED vars \/ Startup \/ StartupEnds
      PROVE  Follows
  BY <1>1, <1>7 DEF SeedChecks, SeedMakesDir, SeedRaises, vars, Startup, StartupEnds, disk
<1>8. CASE ProcessEnds
  BY <1>8 DEF ProcessEnds, Down
<1> QED
  BY <1>4, <1>5, <1>6, <1>7, <1>8 DEF Next, SeedStep

\* A cached record is what is on disk, through any number of clones, deletes,
\* disk errors and restarts; the seed script alone puts the disk ahead of it,
\* by its own latents, also while it writes them and when register() does too.
THEOREM CacheMatchesDiskHolds == Spec => []CacheMatchesDisk
<1>1. Init => CacheMatchesDisk
  BY DEF Init, CacheMatchesDisk
<1> QED
  BY <1>1, CacheInductive, SpeakersSound, PTL DEF Spec

-----------------------------------------------------------------------------
(* Concurrent clones and deletes. *)

\* A success means the three files are on disk, the clone's own and whole, on
\* every name the seed script does not write to.
THEOREM WholeWhenAnsweredHolds == Spec => WholeWhenAnswered
<1> DEFINE Whole(c) ==
      clone[c] # "200" /\ clone'[c] = "200" /\ ~Touched(NameOf[c])
        => \A f \in Files : files'[NameOf[c]][f] = c
<1>1. ASSUME Sound, [Next]_vars, NEW c \in CloneRequests PROVE Whole(c)
  <2> SUFFICES ASSUME clone[c] # "200", clone'[c] = "200", ~Touched(NameOf[c])
               PROVE  \A f \in Files : files'[NameOf[c]][f] = c
    OBVIOUS
  <2>1. RegisterEnds(c)
    BY <1>1, CloneSteps DEF Sound
  <2>2. SoFar(c) /\ left = {} /\ writing = None /\ UNCHANGED files
    BY <1>1, <2>1 DEF RegisterEnds, Sound, WritesItsOwn, disk
  <2>3. None \notin Files
    BY DEF None, Files, Ref, Latents, Meta
  <2> QED
    BY <2>2, <2>3 DEF SoFar
<1>2. Sound /\ [Next]_vars => [\A c \in CloneRequests : Whole(c)]_vars
  BY <1>1
<1> QED
  BY <1>2, SpeakersSound, PTL DEF Spec, WholeWhenAnswered

\* A registered speaker is never mixed with or replaced by another, unless by
\* the seed script at work on that name: only a delete takes its files.
THEOREM RegisteredStaysHolds == Spec => RegisteredStays
<1> USE SpeakerStoreAssumption
<1> DEFINE Stays(c) ==
         /\ clone[c] # "writing" /\ ~AtWork(NameOf[c])
         /\ \A f \in Files : files[NameOf[c]][f] = c
      => \A f \in Files : files'[NameOf[c]][f] \in {c, Absent}
<1>1. ASSUME Sound, [Next]_vars, NEW c \in CloneRequests PROVE Stays(c)
  <2> SUFFICES ASSUME clone[c] # "writing", ~AtWork(NameOf[c]),
                      \A f \in Files : files[NameOf[c]][f] = c
               PROVE  \A f \in Files : files'[NameOf[c]][f] \in {c, Absent}
    OBVIOUS
  <2>1. NameOf[c] \in Names /\ Latents \in Files
    BY DEF Files
  <2>2. ASSUME NEW d \in CloneRequests, RegisterOpens(d) \/ RegisterCloses(d)
        PROVE  files'[NameOf[c]] = files[NameOf[c]]
    <3>1. SoFar(d) /\ d # c
      BY <1>1, <2>2 DEF Sound, WritesItsOwn, RegisterOpens, RegisterCloses
    <3>2. {c, d} \cap {Absent, Torn, Mixed, Studio} = {}
      BY DEF Writers
    <3>3. NameOf[d] # NameOf[c]
      BY <2>1, <3>1, <3>2 DEF SoFar
    <3> QED
      BY <1>1, <2>1, <2>2, <3>3 DEF Sound, RegisterOpens, RegisterCloses, Opens, Closes, TypeOK
  <2>3. ASSUME NEW n \in Names, DeleteUnlinks(n)
        PROVE  \A f \in Files : files'[NameOf[c]][f] \in {c, Absent}
    BY <1>1, <2>1, <2>3 DEF DeleteUnlinks, Sound, TypeOK
  <2>4. ASSUME NEW n \in Names, NEW f \in {Latents, Meta}, SeedOpens(n, f) \/ SeedCloses(n, f)
        PROVE  files'[NameOf[c]] = files[NameOf[c]]
    <3>1. NameOf[c] # n
      BY <2>4 DEF SeedOpens, SeedCloses, AtWork, StageBefore, StageAt
    <3> QED
      BY <1>1, <2>1, <2>4, <3>1 DEF Sound, SeedOpens, SeedCloses, Opens, Closes, TypeOK
  <2> QED
    BY <1>1, <2>2, <2>3, <2>4, FileSteps
<1>2. Sound /\ [Next]_vars => [\A c \in CloneRequests : Stays(c)]_vars
  BY <1>1
<1> QED
  BY <1>2, SpeakersSound, PTL DEF Spec, RegisteredStays

-----------------------------------------------------------------------------
(* What an interruption can do at most. *)

FaultsCoverDamage ==
    IsFiniteSet(TornForGood) /\ Cardinality(TornForGood) <= faults

\* A step after which no further file is torn for good.
LEMMA NobodyDamaged ==
    ASSUME TypeOK, TypeOK', FaultsCoverDamage, faults <= faults',
           TornForGood' \subseteq TornForGood
    PROVE  FaultsCoverDamage'
<1>1. IsFiniteSet(TornForGood') /\ Cardinality(TornForGood') <= Cardinality(TornForGood)
  BY FS_Subset DEF FaultsCoverDamage
<1>2. /\ Cardinality(TornForGood) \in Nat /\ Cardinality(TornForGood') \in Nat
      /\ faults \in Nat /\ faults' \in Nat
  BY <1>1, FS_CardinalityType, SpeakerStoreAssumption DEF FaultsCoverDamage, TypeOK
<1> QED
  BY <1>1, <1>2 DEF FaultsCoverDamage

\* A fault, after which one more file is.
LEMMA OneDamaged ==
    ASSUME TypeOK, FaultsCoverDamage, CountFault, NEW at,
           TornForGood' \subseteq TornForGood \cup {at}
    PROVE  FaultsCoverDamage'
<1>1. IsFiniteSet(TornForGood) /\ Cardinality(TornForGood) \in Nat
  BY FS_CardinalityType DEF FaultsCoverDamage
<1>2. /\ IsFiniteSet(TornForGood \cup {at})
      /\ Cardinality(TornForGood \cup {at}) \in Nat
      /\ Cardinality(TornForGood \cup {at}) <= Cardinality(TornForGood) + 1
  BY <1>1, FS_AddElement, FS_CardinalityType
<1>3. /\ IsFiniteSet(TornForGood') /\ Cardinality(TornForGood') \in Nat
      /\ Cardinality(TornForGood') <= Cardinality(TornForGood \cup {at})
  BY <1>2, FS_Subset, FS_CardinalityType
<1>4. faults \in Nat
  BY SpeakerStoreAssumption DEF TypeOK
<1> QED
  BY <1>1, <1>2, <1>3, <1>4 DEF FaultsCoverDamage, CountFault

\* A file torn for good, spelled out.
LEMMA TornForGoodIs ==
    ASSUME NEW n \in Names, NEW f \in Files
    PROVE  <<n, f>> \in TornForGood
             <=> files[n][f] = Torn /\ ~ServerHas(n, f) /\ ~ScriptHas(n, f)
BY DEF TornForGood

\* To compare the torn files before and after a step, name by name.
LEMMA TornCompared ==
    ASSUME NEW extra,
           ASSUME NEW n \in Names, NEW f \in Files, files'[n][f] = Torn,
                  ~ServerHas(n, f)', ~ScriptHas(n, f)', <<n, f>> \notin extra
           PROVE  files[n][f] = Torn /\ ~ServerHas(n, f) /\ ~ScriptHas(n, f)
    PROVE  TornForGood' \subseteq TornForGood \cup extra
<1> SUFFICES ASSUME NEW at \in TornForGood', at \notin extra PROVE at \in TornForGood
  OBVIOUS
<1>1. PICK n \in Names, f \in Files : at = <<n, f>>
  BY DEF TornForGood
<1>2. files'[n][f] = Torn /\ ~ServerHas(n, f)' /\ ~ScriptHas(n, f)'
  BY <1>1 DEF TornForGood
<1> QED
  BY <1>1, <1>2, TornForGoodIs

\* The server has a file open only while a register() has it.
LEMMA ServerHandle ==
    ASSUME TypeOK, Alone, NEW c \in CloneRequests, clone[c] = "writing",
           NEW n, NEW f, ServerHas(n, f)
    PROVE  n = NameOf[c] /\ f = writing
BY DEF Alone, ServerHas

LEMMA DamageInductive ==
    ASSUME Sound, FaultsCoverDamage, [Next]_vars
    PROVE  FaultsCoverDamage'
<1> USE SpeakerStoreAssumption DEF Sound
<1>0. TypeOK' /\ faults \in Nat /\ None \notin Files
  BY SpeakerTypesInductive DEF TypeOK, None, Files, Ref, Latents, Meta
<1>1. ASSUME TornForGood' \subseteq TornForGood \cup {}, UNCHANGED faults \/ CountFault
      PROVE  FaultsCoverDamage'
  <2>1. faults <= faults'
    BY <1>0, <1>1 DEF CountFault
  <2> QED
    BY <1>0, <1>1, <2>1, NobodyDamaged
<1>2. ASSUME UNCHANGED <<files, writing, clone, seed, unlinked>>, UNCHANGED faults \/ CountFault
      PROVE  FaultsCoverDamage'
  <2>1. TornForGood' = TornForGood
    BY <1>2 DEF TornForGood, ServerHas, ScriptHas
  <2> QED
    BY <1>1, <1>2, <2>1
<1>3. ASSUME NEW c \in CloneRequests,
             \/ CloneArrives(c) \/ LatentsFail(c) \/ CloneLoses(c)
             \/ Register(c) \/ RegisterEnds(c)
      PROVE  FaultsCoverDamage'
  <2>1. writing = None /\ UNCHANGED <<files, writing, seed, unlinked>>
    BY <1>3 DEF CloneArrives, LatentsFail, CloneLoses, Register, RegisterEnds, Idle, Alone,
                disk, handles
  <2>2. TornForGood' \subseteq TornForGood \cup {}
    BY <1>0, <2>1, TornCompared DEF ServerHas, ScriptHas
  <2>3. UNCHANGED faults \/ CountFault
    BY <1>3 DEF CloneArrives, LatentsFail, CloneLoses, Register, RegisterEnds
  <2> QED
    BY <1>1, <2>2, <2>3
<1>4. ASSUME NEW c \in CloneRequests, RegisterOpens(c) PROVE FaultsCoverDamage'
  <2>1. PICK g \in left : files' = [files EXCEPT ![NameOf[c]][g] = Torn] /\ writing' = g
    BY <1>4 DEF RegisterOpens, Opens
  <2>2. /\ clone[c] = "writing" /\ writing = None /\ g \in Files
        /\ UNCHANGED <<clone, seed, unlinked, faults>>
    BY <1>4 DEF RegisterOpens, TypeOK
  <2>3. TornForGood' \subseteq TornForGood \cup {}
    <3> SUFFICES ASSUME NEW n \in Names, NEW f \in Files, files'[n][f] = Torn,
                        ~ServerHas(n, f)', ~ScriptHas(n, f)'
                 PROVE  files[n][f] = Torn /\ ~ServerHas(n, f) /\ ~ScriptHas(n, f)
      BY TornCompared
    <3>1. n # NameOf[c] \/ f # g
      BY <2>1, <2>2 DEF ServerHas
    <3> QED
      BY <1>0, <2>1, <2>2, <3>1 DEF ServerHas, ScriptHas, TypeOK
  <2> QED
    BY <1>1, <2>2, <2>3
<1>5. ASSUME NEW c \in CloneRequests, RegisterCloses(c) PROVE FaultsCoverDamage'
  <2>1. /\ clone[c] = "writing" /\ writing \in Files /\ writing' = None
        /\ UNCHANGED <<clone, seed, unlinked, faults>>
        /\ "server" \in Process /\ c \in Writers
    BY <1>5 DEF RegisterCloses, TypeOK, Process, Writers
  <2>2. PICK content \in Content \ {Torn} : files' = [files EXCEPT ![NameOf[c]][writing] = content]
    BY <1>5, <2>1, ClosesTypes DEF RegisterCloses
  <2>3. TornForGood' \subseteq TornForGood \cup {}
    <3> SUFFICES ASSUME NEW n \in Names, NEW f \in Files, files'[n][f] = Torn,
                        ~ServerHas(n, f)', ~ScriptHas(n, f)'
                 PROVE  files[n][f] = Torn /\ ~ServerHas(n, f) /\ ~ScriptHas(n, f)
      BY TornCompared
    <3>1. n # NameOf[c] \/ f # writing
      BY <2>1, <2>2 DEF TypeOK
    <3>2. ~ServerHas(n, f)
      BY <2>1, <3>1, ServerHandle
    <3> QED
      BY <2>1, <2>2, <3>1, <3>2 DEF ScriptHas, TypeOK
  <2> QED
    BY <1>1, <2>1, <2>3
<1>6. ASSUME NEW c \in CloneRequests, RegisterRaises(c) PROVE FaultsCoverDamage'
  <2>1. clone[c] = "writing" /\ CountFault /\ UNCHANGED <<files, seed, unlinked>>
    BY <1>6 DEF RegisterRaises, disk
  <2>2. TornForGood' \subseteq TornForGood \cup {<<NameOf[c], writing>>}
    <3> SUFFICES ASSUME NEW n \in Names, NEW f \in Files, files'[n][f] = Torn,
                        ~ScriptHas(n, f)', <<n, f>> # <<NameOf[c], writing>>
                 PROVE  files[n][f] = Torn /\ ~ServerHas(n, f) /\ ~ScriptHas(n, f)
      BY TornCompared
    <3> QED
      BY <2>1, ServerHandle DEF ScriptHas
  <2> QED
    BY <2>1, <2>2, OneDamaged
<1>7. ASSUME NEW n \in Names,
             Get(n) \/ DeleteBegins(n) \/ DeleteEnds(n) \/ DeleteRaises(n) \/ Preload(n)
      PROVE  FaultsCoverDamage'
  BY <1>2, <1>7 DEF Get, DeleteBegins, DeleteEnds, DeleteRaises, Preload, disk, handles
<1>8. ASSUME NEW m \in Names, DeleteUnlinks(m) PROVE FaultsCoverDamage'
  <2>1. PICK g \in left : /\ files' = [files EXCEPT ![m][g] = Absent]
                          /\ unlinked' = IF ScriptHas(m, g) THEN unlinked \cup {m} ELSE unlinked
    BY <1>8 DEF DeleteUnlinks
  <2>2. g \in Files /\ UNCHANGED <<clone, writing, seed, faults>>
    BY <1>8 DEF DeleteUnlinks, TypeOK
  <2>3. TornForGood' \subseteq TornForGood \cup {}
    <3> SUFFICES ASSUME NEW n \in Names, NEW f \in Files, files'[n][f] = Torn,
                        ~ServerHas(n, f)', ~ScriptHas(n, f)'
                 PROVE  files[n][f] = Torn /\ ~ServerHas(n, f) /\ ~ScriptHas(n, f)
      BY TornCompared
    <3>1. (n # m \/ f # g) /\ files[n][f] = Torn
      BY <2>1, <2>2 DEF TypeOK
    <3>2. ~ServerHas(n, f)
      BY <2>2 DEF ServerHas
    <3>3. ~ScriptHas(n, f)
      BY <2>1, <2>2, <3>1 DEF ScriptHas, StageAt
    <3> QED
      BY <3>1, <3>2, <3>3
  <2> QED
    BY <1>1, <2>2, <2>3
<1>9. CASE ProcessEnds
  <2>1. CountFault /\ UNCHANGED <<files, seed, unlinked>>
    BY <1>9 DEF ProcessEnds, Down, disk
  <2>2. CASE \E c \in CloneRequests : clone[c] = "writing"
    <3>1. PICK c \in CloneRequests : clone[c] = "writing"
      BY <2>2
    <3>2. TornForGood' \subseteq TornForGood \cup {<<NameOf[c], writing>>}
      <4> SUFFICES ASSUME NEW n \in Names, NEW f \in Files, files'[n][f] = Torn,
                          ~ScriptHas(n, f)', <<n, f>> # <<NameOf[c], writing>>
                   PROVE  files[n][f] = Torn /\ ~ServerHas(n, f) /\ ~ScriptHas(n, f)
        BY TornCompared
      <4> QED
        BY <2>1, <3>1, ServerHandle DEF ScriptHas
    <3> QED
      BY <2>1, <3>2, OneDamaged
  <2>3. CASE ~\E c \in CloneRequests : clone[c] = "writing"
    <3>1. TornForGood' \subseteq TornForGood \cup {}
      BY <2>1, <2>3, TornCompared DEF ServerHas, ScriptHas
    <3> QED
      BY <1>1, <2>1, <3>1
  <2> QED
    BY <2>2, <2>3
<1>10. ASSUME NEW n \in Names, PreloadRaises(n) PROVE FaultsCoverDamage'
  <2>1. /\ UNCHANGED <<files, seed, unlinked, faults>>
        /\ ~\E c \in CloneRequests : clone[c] = "writing"
    BY <1>10 DEF PreloadRaises, Down, Alone, disk
  <2>2. TornForGood' \subseteq TornForGood \cup {}
    BY <2>1, TornCompared DEF ServerHas, ScriptHas
  <2> QED
    BY <1>1, <2>1, <2>2
<1>11. ASSUME NEW m \in Names, SeedChecks(m) \/ SeedMakesDir(m) PROVE FaultsCoverDamage'
  <2>1. /\ UNCHANGED <<files, clone, writing, unlinked, faults>>
        /\ seed[m] \notin {"latents", "meta"}
        /\ \E stage : seed' = [seed EXCEPT ![m] = stage]
    BY <1>11 DEF SeedChecks, SeedMakesDir, disk, handles
  <2>2. TornForGood' \subseteq TornForGood \cup {}
    BY <2>1, TornCompared DEF ServerHas, ScriptHas, StageAt, TypeOK
  <2> QED
    BY <1>1, <2>1, <2>2
<1>12. ASSUME NEW m \in Names, SeedRaises(m) PROVE FaultsCoverDamage'
  <2>1. /\ CountFault /\ UNCHANGED <<files, clone, writing>>
        /\ seed' = [seed EXCEPT ![m] = "error"] /\ unlinked' = unlinked \ {m}
    BY <1>12 DEF SeedRaises, disk
  <2> DEFINE open == IF seed[m] = "latents" THEN Latents ELSE Meta
  <2>2. TornForGood' \subseteq TornForGood \cup {<<m, open>>}
    <3> SUFFICES ASSUME NEW n \in Names, NEW f \in Files, files'[n][f] = Torn,
                        ~ServerHas(n, f)', ~ScriptHas(n, f)', <<n, f>> # <<m, open>>
                 PROVE  files[n][f] = Torn /\ ~ServerHas(n, f) /\ ~ScriptHas(n, f)
      BY TornCompared
    <3>1. ~ScriptHas(n, f)
      <4>1. CASE n = m
        BY <4>1 DEF ScriptHas, StageAt
      <4>2. CASE n # m
        BY <2>1, <4>2 DEF ScriptHas, TypeOK
      <4> QED
        BY <4>1, <4>2
    <3> QED
      BY <2>1, <3>1 DEF ServerHas
  <2> QED
    BY <2>1, <2>2, OneDamaged
<1>13. ASSUME NEW m \in Names, NEW g \in {Latents, Meta}, SeedOpens(m, g)
       PROVE  FaultsCoverDamage'
  <2>1. /\ m \in Seeded /\ seed[m] \notin {"latents", "meta"} /\ g \in Files
        /\ UNCHANGED <<clone, writing, unlinked, faults>>
    BY <1>13 DEF SeedOpens, StageBefore, Files
  <2>2. CASE seed' = [seed EXCEPT ![m] = "error"] /\ UNCHANGED files
    <3>1. TornForGood' \subseteq TornForGood \cup {}
      BY <2>1, <2>2, TornCompared DEF ServerHas, ScriptHas, StageAt, TypeOK
    <3> QED
      BY <1>1, <2>1, <3>1
  <2>3. CASE seed' = [seed EXCEPT ![m] = StageAt(g)] /\ files' = [files EXCEPT ![m][g] = Torn]
    <3>1. TornForGood' \subseteq TornForGood \cup {}
      <4> SUFFICES ASSUME NEW n \in Names, NEW f \in Files, files'[n][f] = Torn,
                          ~ServerHas(n, f)', ~ScriptHas(n, f)'
                   PROVE  files[n][f] = Torn /\ ~ServerHas(n, f) /\ ~ScriptHas(n, f)
        BY TornCompared
      <4>1. n # m \/ f # g
        BY <2>1, <2>3 DEF ScriptHas, RemovedOpen, TypeOK
      <4>2. ~ScriptHas(n, f)
        BY <2>1, <2>3 DEF ScriptHas, StageAt, TypeOK
      <4> QED
        BY <2>1, <2>3, <4>1, <4>2 DEF ServerHas, TypeOK
    <3> QED
      BY <1>1, <2>1, <3>1
  <2> QED
    BY <1>13, <2>2, <2>3 DEF SeedOpens, Opens
<1>14. ASSUME NEW m \in Names, NEW g \in {Latents, Meta}, SeedCloses(m, g)
       PROVE  FaultsCoverDamage'
  <2>1. /\ m \in Seeded /\ seed[m] = StageAt(g) /\ g \in Files
        /\ seed' = [seed EXCEPT ![m] = StageAfter(g)] /\ unlinked' = unlinked \ {m}
        /\ UNCHANGED <<clone, writing, faults>>
        /\ "script" \in Process /\ Studio \in Writers
    BY <1>14 DEF SeedCloses, Files, Process, Writers
  <2>2. \/ m \notin unlinked /\ \E content \in Content \ {Torn} :
                                  files' = [files EXCEPT ![m][g] = content]
        \/ m \in unlinked /\ UNCHANGED files
    BY <1>14, <2>1, ClosesTypes DEF SeedCloses
  <2>3. TornForGood' \subseteq TornForGood \cup {}
    <3> SUFFICES ASSUME NEW n \in Names, NEW f \in Files, files'[n][f] = Torn,
                        ~ServerHas(n, f)', ~ScriptHas(n, f)'
                 PROVE  files[n][f] = Torn /\ ~ServerHas(n, f) /\ ~ScriptHas(n, f)
      BY TornCompared
    <3>1. files[n][f] = Torn
      BY <2>1, <2>2 DEF TypeOK
    <3>2. ~ServerHas(n, f)
      BY <2>1 DEF ServerHas
    <3>3. ~ScriptHas(n, f)
      <4>1. CASE n = m
        <5>1. m \in unlinked \/ f # g
          BY <2>1, <2>2, <4>1 DEF TypeOK
        <5> QED
          BY <2>1, <4>1, <5>1 DEF ScriptHas, StageAt
      <4>2. CASE n # m
        BY <2>1, <4>2 DEF ScriptHas, TypeOK
      <4> QED
        BY <4>1, <4>2
    <3> QED
      BY <3>1, <3>2, <3>3
  <2> QED
    BY <1>1, <2>1, <2>3
<1>15. CASE Startup \/ StartupEnds \/ UNCHANGED vars
  BY <1>2, <1>15 DEF Startup, StartupEnds, vars, disk, handles
<1> QED
  BY <1>3, <1>4, <1>5, <1>6, <1>7, <1>8, <1>9, <1>10, <1>11, <1>12, <1>13, <1>14, <1>15
     DEF Next, CloneStep, NameStep, SeedStep

LEMMA DamageCovered == Spec => []FaultsCoverDamage
<1>1. Init => FaultsCoverDamage
  <2> SUFFICES ASSUME Init PROVE FaultsCoverDamage
    OBVIOUS
  <2>1. TornForGood = {}
    BY SpeakerStoreAssumption DEF Init, TornForGood, NoFiles
  <2> QED
    BY <2>1, FS_EmptySet DEF Init, FaultsCoverDamage
<1> QED
  BY <1>1, DamageInductive, SpeakersSound, PTL DEF Spec

\* Every file that stays half-written cost a fault of its own, an error in a
\* write or the end of the process that wrote it: register(), delete(), restarts
\* and the seed script do not leave each other's files torn.
THEOREM TornCostsAFaultHolds == Spec => []TornCostsAFault
BY DamageCovered, PTL DEF FaultsCoverDamage, TornCostsAFault

\* While nothing fails, what is on disk under a name can be loaded whenever
\* nobody is writing it, unless both the seed script and a register() came to
\* write to that name: two writers of one file are the only other way to spoil it.
THEOREM SoundDiskLoads ==
    Spec => [](faults = 0 => \A n \in Names :
                 \/ \E f \in Files : ServerHas(n, f) \/ ScriptHas(n, f)
                 \/ Contested(n)
                 \/ ~MayNotLoad(n))
<1> DEFINE Loads(n) == \/ \E f \in Files : ServerHas(n, f) \/ ScriptHas(n, f)
                       \/ Contested(n)
                       \/ ~MayNotLoad(n)
<1>1. Sound /\ FaultsCoverDamage => (faults = 0 => \A n \in Names : Loads(n))
  <2> SUFFICES ASSUME Sound, FaultsCoverDamage, faults = 0, NEW n \in Names PROVE Loads(n)
    OBVIOUS
  <2>1. TornForGood = {}
    BY FS_CardinalityType, FS_EmptySet DEF FaultsCoverDamage
  <2>2. Latents \in Files /\ Meta \in Files
    BY DEF Files
  <2> QED
    BY <2>1, <2>2, TornForGoodIs DEF MayNotLoad, Sound, Contention
<1> QED
  BY <1>1, SpeakersSound, DamageCovered, PTL
=============================================================================
