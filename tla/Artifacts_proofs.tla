-------------------------- MODULE Artifacts_proofs --------------------------
(***************************************************************************)
(* What the compiler leaves for the device.  First the files: what         *)
(* write_atomic, cached and write_bundle_with_variants leave on disk, for  *)
(* every number of threads, processes, keys, calls, kills and power losses *)
(* and every list of bundle files.  Then the serving manifest: what        *)
(* program_envelope derives the contract and the engine take, and the      *)
(* rings that sliding_capacity sizes lose nothing a query reads, for every *)
(* graph, window, context, chunk width and page size.                      *)
(***************************************************************************)
EXTENDS ArtifactStore, ServingEnvelope, NumberLemmas, TLAPS

Busy(t) == task[t].at \in {"create", "write", "sync", "rename", "publish"}
HasTemp(t) == task[t].at \in {"write", "sync", "rename"}
Bundling(t) == Busy(t) /\ task[t].dir # CacheDir

\* Files of its bundle that a writer has under their names in its staging directory.
Done(t) ==
    IF task[t].at = "publish" THEN Len(BundleFiles) ELSE Len(BundleFiles) - Len(task[t].todo)

\* Paths and files are records, and a file is in a directory that exists.
FilesKnown ==
    /\ files = [p \in DOMAIN files |-> files[p]]
    /\ \A p \in DOMAIN files :
          /\ p = Path(p.dir, p) /\ p.dir \in dirs \cup {CacheDir}
          /\ files[p] = [by |-> files[p].by, of |-> files[p].of, whole |-> files[p].whole,
                         synced |-> files[p].synced]

\* What is published survives a power loss, too.
CacheSynced ==
    \A p \in InDir(files, CacheDir) : p.ext = <<"inferfabric-bin">> =>
        /\ files[p].whole /\ files[p].synced
        /\ files[p].of = [stem |-> p.stem, ext |-> p.ext]

OutputSynced ==
    Output \in dirs =>
        /\ InDir(files, Output) = {Path(Output, BundleFiles[k]) : k \in DOMAIN BundleFiles}
        /\ \A p \in InDir(files, Output) : files[p].whole /\ files[p].synced
        /\ \A p, q \in InDir(files, Output) : files[p].by = files[q].by

\* Where a writer is: at one file of the cache, or at the rest of a bundle in a
\* staging directory.
TaskPlaced(t) ==
    /\ task[t] = [at |-> task[t].at, dir |-> task[t].dir, todo |-> task[t].todo,
                  temp |-> task[t].temp, call |-> task[t].call]
    /\ task[t].at = "idle" \/ task[t].at = "stage" \/ Busy(t)
    /\ task[t].at = "stage" \/ Bundling(t) =>
          \E n \in Nat : task[t].dir = <<"staging", PidOf[t], n>>
    /\ Busy(t) /\ task[t].dir = CacheDir =>
          task[t].at # "publish" /\ \E k \in Keys : task[t].todo = <<CacheFile(k)>>
    /\ Bundling(t) =>
          /\ task[t].dir \in dirs
          /\ Len(task[t].todo) \in 1 .. Len(BundleFiles)
          /\ task[t].todo \in Seq([stem : STRING, ext : Seq(STRING)])
          /\ \A i \in 1 .. Len(task[t].todo) :
                task[t].todo[i] = BundleFiles[(i + Len(BundleFiles)) - Len(task[t].todo)]

\* A writer's temporary has its process id and a number its process handed out, and
\* when it is about to be renamed it is whole, synced and what its name will say.
TempOwned(t) ==
    HasTemp(t) =>
        /\ task[t].temp.dir = task[t].dir
        /\ \E n \in 0 .. nextTemp[PidOf[t]] - 1 : task[t].temp.ext = <<PidOf[t], n, "tmp">>
        /\ task[t].at = "rename" /\ task[t].temp \in DOMAIN files =>
              /\ files[task[t].temp].whole /\ files[task[t].temp].synced
              /\ files[task[t].temp].of = Head(task[t].todo)
              /\ files[task[t].temp].by = task[t].call

\* A staging directory holds what its writer has done so far, and its temporary.
Staged(t) ==
    Bundling(t) =>
        /\ \A j \in 1 .. Done(t) : Path(task[t].dir, BundleFiles[j]) \in DOMAIN files
        /\ \A p \in InDir(files, task[t].dir) :
              \/ HasTemp(t) /\ p = task[t].temp
              \/ /\ \E j \in 1 .. Done(t) : p = Path(task[t].dir, BundleFiles[j])
                 /\ files[p].whole /\ files[p].synced /\ files[p].by = task[t].call

\* No two writers share a temporary's name or a staging directory.
Apart ==
    \A t, u \in Writers : t # u =>
        /\ HasTemp(t) /\ HasTemp(u) => task[t].temp.ext # task[u].temp.ext
        /\ Bundling(t) /\ Bundling(u) => task[t].dir # task[u].dir

\* The inductive invariant.
StoreInv ==
    /\ nextTemp = [p \in Pids |-> nextTemp[p]] /\ \A p \in Pids : nextTemp[p] \in Nat
    /\ task = [t \in Writers |-> task[t]]
    /\ FilesKnown /\ CacheSynced /\ OutputSynced
    /\ \A t \in Writers : TaskPlaced(t) /\ TempOwned(t) /\ Staged(t)
    /\ Apart

\* What the directory of bundles and its files do in a step, unless a bundle is
\* published: they stay.
OutputKept ==
    /\ Output \in dirs' <=> Output \in dirs
    /\ InDir(files', Output) = InDir(files, Output)
    /\ \A p \in InDir(files, Output) : files'[p] = files[p]

OutputStays == Output \in dirs => OutputKept

\* Directories, the names of temporaries and the names of published files differ.
LEMMA Names ==
    /\ Output # CacheDir
    /\ \A p, n : <<"staging", p, n>> # CacheDir /\ <<"staging", p, n>> # Output
    /\ \A p, n : <<p, n, "tmp">> # <<"inferfabric-bin">>
    /\ Len(BundleFiles) \in Nat \ {0} /\ DOMAIN BundleFiles = 1 .. Len(BundleFiles)
    /\ \A i \in DOMAIN BundleFiles : \A p, n : BundleFiles[i].ext # <<p, n, "tmp">>
<1>1. Len(BundleFiles) \in Nat \ {0} /\ DOMAIN BundleFiles = 1 .. Len(BundleFiles)
  BY StoreAssumption
<1>2. \A i \in DOMAIN BundleFiles : \A p, n : BundleFiles[i].ext # <<p, n, "tmp">>
  <2> SUFFICES ASSUME NEW i \in DOMAIN BundleFiles, NEW p, NEW n
               PROVE  BundleFiles[i].ext # <<p, n, "tmp">>
    OBVIOUS
  <2>1. Len(<<p, n, "tmp">>) = 3
    OBVIOUS
  <2>2. Len(BundleFiles[i].ext) = 1
    BY StoreAssumption
  <2> QED
    BY <2>1, <2>2
<1>3. \A p, n : <<p, n, "tmp">> # <<"inferfabric-bin">>
  <2>1. \A p, n : Len(<<p, n, "tmp">>) = 3
    OBVIOUS
  <2>2. Len(<<"inferfabric-bin">>) = 1
    OBVIOUS
  <2> QED
    BY <2>1, <2>2
<1>4. Output # CacheDir
  BY DEF Output, CacheDir
<1>5. \A p, n : <<"staging", p, n>> # CacheDir /\ <<"staging", p, n>> # Output
  BY DEF Output, CacheDir
<1> QED
  BY <1>1, <1>2, <1>3, <1>4, <1>5

\* Where a busy writer works, and what its temporary is called.
LEMMA Places ==
    ASSUME StoreInv, NEW t \in Writers
    PROVE  /\ PidOf[t] \in Pids /\ nextTemp[PidOf[t]] \in Nat
           /\ Busy(t) => task[t].dir # Output
           /\ Bundling(t) => task[t].dir \in dirs
           /\ HasTemp(t) =>
                 /\ Busy(t) /\ task[t].temp.dir = task[t].dir
                 /\ task[t].temp.ext # <<"inferfabric-bin">>
                 /\ \A i \in DOMAIN BundleFiles : BundleFiles[i].ext # task[t].temp.ext
<1>1. TaskPlaced(t) /\ TempOwned(t)
  BY DEF StoreInv
<1>2. PidOf[t] \in Pids /\ nextTemp[PidOf[t]] \in Nat
  BY DEF StoreInv, Pids
<1>3. ASSUME Busy(t)
      PROVE  task[t].dir # Output
  <2>1. CASE task[t].dir = CacheDir
    BY <2>1, Names
  <2>2. CASE Bundling(t)
    <3>1. PICK n \in Nat : task[t].dir = <<"staging", PidOf[t], n>>
      BY <1>1, <2>2 DEF TaskPlaced
    <3> QED
      BY <3>1, Names
  <2> QED
    BY <1>3, <2>1, <2>2 DEF Bundling
<1>4. Bundling(t) => task[t].dir \in dirs
  BY <1>1 DEF TaskPlaced
<1>5. ASSUME HasTemp(t)
      PROVE  /\ Busy(t) /\ task[t].temp.dir = task[t].dir
             /\ task[t].temp.ext # <<"inferfabric-bin">>
             /\ \A i \in DOMAIN BundleFiles : BundleFiles[i].ext # task[t].temp.ext
  BY <1>1, <1>5, Names DEF TempOwned, HasTemp, Busy
<1> QED
  BY <1>2, <1>3, <1>4, <1>5

\* The bundle that is published is still exact when its files did not change.
LEMMA OutputHolds ==
    ASSUME OutputSynced, OutputKept
    PROVE  OutputSynced'
BY DEF OutputSynced, OutputKept

\* A step of one writer is judged by what it does to its own part, and by leaving
\* the files of the others alone.
LEMMA OneWriter ==
    ASSUME StoreInv, NEW t \in Writers,
           task' = [u \in Writers |-> task'[u]],
           \A u \in Writers \ {t} : task'[u] = task[u],
           nextTemp' = [p \in Pids |-> nextTemp'[p]],
           \A p \in Pids : nextTemp'[p] \in Nat /\ nextTemp[p] <= nextTemp'[p],
           FilesKnown', CacheSynced', OutputSynced',
           \A u \in Writers \ {t} : Bundling(u) =>
               /\ task[u].dir \in dirs'
               /\ \A p : p \in InDir(files', task[u].dir) <=> p \in InDir(files, task[u].dir)
               /\ \A p \in InDir(files, task[u].dir) : files'[p] = files[p],
           \A u \in Writers \ {t} : HasTemp(u) /\ task[u].temp \in DOMAIN files' =>
               /\ task[u].temp \in DOMAIN files
               /\ files'[task[u].temp] = files[task[u].temp],
           TaskPlaced(t)', TempOwned(t)', Staged(t)',
           \A u \in Writers \ {t} : HasTemp(t)' /\ HasTemp(u) => task'[t].temp.ext # task[u].temp.ext,
           \A u \in Writers \ {t} : Bundling(t)' /\ Bundling(u) => task'[t].dir # task[u].dir
    PROVE  StoreInv'
<1>1. ASSUME NEW u \in Writers, u # t
      PROVE  TaskPlaced(u)' /\ TempOwned(u)' /\ Staged(u)'
  <2>0. /\ task'[u] = task[u] /\ TaskPlaced(u) /\ TempOwned(u) /\ Staged(u)
        /\ (Busy(u)' <=> Busy(u)) /\ (HasTemp(u)' <=> HasTemp(u)) /\ (Bundling(u)' <=> Bundling(u))
        /\ Done(u)' = Done(u)
    BY <1>1 DEF StoreInv, Busy, HasTemp, Bundling, Done
  <2>1. TaskPlaced(u)'
    BY <1>1, <2>0 DEF TaskPlaced
  <2>2. TempOwned(u)'
    <3>1. /\ PidOf[u] \in Pids /\ nextTemp[PidOf[u]] \in Nat /\ nextTemp'[PidOf[u]] \in Nat
          /\ nextTemp[PidOf[u]] <= nextTemp'[PidOf[u]]
      BY Places
    <3>2. \A n \in 0 .. nextTemp[PidOf[u]] - 1 : n \in 0 .. nextTemp'[PidOf[u]] - 1
      BY <3>1
    <3> QED
      BY <1>1, <2>0, <3>2 DEF TempOwned
  <2>3. Staged(u)'
    <3> SUFFICES ASSUME Bundling(u)
                 PROVE  /\ \A j \in 1 .. Done(u) : Path(task[u].dir, BundleFiles[j]) \in DOMAIN files'
                        /\ \A p \in InDir(files', task[u].dir) :
                              \/ HasTemp(u) /\ p = task[u].temp
                              \/ /\ \E j \in 1 .. Done(u) : p = Path(task[u].dir, BundleFiles[j])
                                 /\ files'[p].whole /\ files'[p].synced /\ files'[p].by = task[u].call
      BY <2>0 DEF Staged
    <3>1. \A p : p \in InDir(files', task[u].dir) <=> p \in InDir(files, task[u].dir)
      BY <1>1
    <3>2. \A j \in 1 .. Done(u) : Path(task[u].dir, BundleFiles[j]) \in InDir(files, task[u].dir)
      BY <2>0 DEF Staged, InDir, Path
    <3>3. \A j \in 1 .. Done(u) : Path(task[u].dir, BundleFiles[j]) \in DOMAIN files'
      BY <3>1, <3>2 DEF InDir
    <3>4. \A p \in InDir(files, task[u].dir) : files'[p] = files[p]
      BY <1>1
    <3> QED
      BY <2>0, <3>1, <3>3, <3>4 DEF Staged
  <2> QED
    BY <2>1, <2>2, <2>3
<1>2. Apart'
  <2>1. \A u \in Writers \ {t} : (HasTemp(u)' <=> HasTemp(u)) /\ (Bundling(u)' <=> Bundling(u))
    BY DEF HasTemp, Bundling, Busy
  <2> QED
    BY <2>1 DEF StoreInv, Apart
<1> QED
  BY <1>1, <1>2 DEF StoreInv

\* Two live temporaries that a step of t leaves apart: t's is as it was, or its number
\* is the next one of its process.
TempFresh(t) ==
    HasTemp(t)' =>
        \/ HasTemp(t) /\ task'[t].temp = task[t].temp
        \/ task'[t].temp.ext = <<PidOf[t], nextTemp[PidOf[t]], "tmp">>

\* Outside the directory d nothing happens.
Elsewhere(d) ==
    /\ \A e : e # d => (e \in dirs' <=> e \in dirs)
    /\ \A p : p.dir # d => /\ p \in DOMAIN files' <=> p \in DOMAIN files
                           /\ p \in DOMAIN files => files'[p] = files[p]

\* The temporaries of other writers in t's directory, which is then the cache, stay.
OthersStay(t) ==
    \A u \in Writers \ {t} :
        HasTemp(u) /\ task[u].temp.dir = task[t].dir /\ task[u].temp \in DOMAIN files' =>
            task[u].temp \in DOMAIN files /\ files'[task[u].temp] = files[task[u].temp]

\* Of what a step does to the tasks and counters, what concerns the other writers.
OwnTask(t) ==
    /\ task' = [u \in Writers |-> task'[u]]
    /\ \A u \in Writers \ {t} : task'[u] = task[u]
    /\ nextTemp' = [p \in Pids |-> nextTemp'[p]]
    /\ \A p \in Pids : nextTemp'[p] \in Nat /\ nextTemp[p] <= nextTemp'[p]

\* Numbers that a process has handed out are not the next one.
LEMMA TempsApart ==
    ASSUME StoreInv, NEW t \in Writers, NEW u \in Writers, t # u, HasTemp(u), TempFresh(t), HasTemp(t)'
    PROVE  task'[t].temp.ext # task[u].temp.ext
<1>1. CASE HasTemp(t) /\ task'[t].temp = task[t].temp
  BY <1>1 DEF StoreInv, Apart
<1>2. CASE task'[t].temp.ext = <<PidOf[t], nextTemp[PidOf[t]], "tmp">>
  <2>1. PICK n \in 0 .. nextTemp[PidOf[u]] - 1 : task[u].temp.ext = <<PidOf[u], n, "tmp">>
    BY DEF StoreInv, TempOwned
  <2>2. nextTemp[PidOf[u]] \in Nat
    BY Places
  <2>3. n # nextTemp[PidOf[u]]
    BY <2>1, <2>2
  <2> QED
    BY <1>2, <2>1, <2>3
<1> QED
  BY <1>1, <1>2 DEF TempFresh

\* A step of one writer in its own directory.
LEMMA InOwnDir ==
    ASSUME StoreInv, NEW t \in Writers, Busy(t), OwnTask(t),
           Elsewhere(task[t].dir), OthersStay(t), FilesKnown', CacheSynced',
           TaskPlaced(t)', TempOwned(t)', Staged(t)', TempFresh(t),
           Bundling(t)' => Bundling(t) /\ task'[t].dir = task[t].dir
    PROVE  StoreInv' /\ OutputStays
<1> DEFINE d == task[t].dir
<1>1. d # Output
  BY Places
<1>2. OutputKept
  <2>1. \A p : p \in InDir(files', Output) <=> p \in InDir(files, Output)
    BY <1>1 DEF Elsewhere, InDir
  <2> QED
    BY <1>1, <2>1 DEF Elsewhere, OutputKept, InDir
<1>3. OutputSynced'
  BY <1>2, OutputHolds DEF StoreInv
<1>4. ASSUME NEW u \in Writers \ {t}, Bundling(u)
      PROVE  /\ task[u].dir # d /\ task[u].dir \in dirs'
             /\ \A p : p \in InDir(files', task[u].dir) <=> p \in InDir(files, task[u].dir)
             /\ \A p \in InDir(files, task[u].dir) : files'[p] = files[p]
  <2>1. task[u].dir # d
    BY <1>4 DEF StoreInv, Apart, Bundling
  <2>2. task[u].dir \in dirs
    BY <1>4, Places
  <2> QED
    BY <2>1, <2>2 DEF Elsewhere, InDir
<1>5. ASSUME NEW u \in Writers \ {t}, HasTemp(u), task[u].temp \in DOMAIN files'
      PROVE  task[u].temp \in DOMAIN files /\ files'[task[u].temp] = files[task[u].temp]
  <2>1. CASE task[u].temp.dir = d
    BY <1>5, <2>1 DEF OthersStay
  <2>2. CASE task[u].temp.dir # d
    BY <1>5, <2>2 DEF Elsewhere
  <2> QED
    BY <2>1, <2>2
<1>6. \A u \in Writers \ {t} : HasTemp(t)' /\ HasTemp(u) => task'[t].temp.ext # task[u].temp.ext
  BY TempsApart
<1>7. \A u \in Writers \ {t} : Bundling(t)' /\ Bundling(u) => task'[t].dir # task[u].dir
  BY <1>4
<1>8. StoreInv'
  BY <1>3, <1>4, <1>5, <1>6, <1>7, OneWriter DEF OwnTask
<1> QED
  BY <1>2, <1>8 DEF OutputStays

\* A writer that gives up removes a temporary of its process, by whoever, and its
\* staging directory; what is published and what others do stays.
LEMMA FailInv ==
    ASSUME StoreInv, NEW t \in Writers, Busy(t), NEW gone,
           \A q \in gone : q.dir = task[t].dir /\ \E n : q.ext = <<PidOf[t], n, "tmp">>,
           \A u \in Writers \ {t} : HasTemp(u) => task[u].temp \notin gone,
           nextTemp' = [p \in Pids |-> nextTemp'[p]],
           \A p \in Pids : nextTemp'[p] \in Nat /\ nextTemp[p] <= nextTemp'[p],
           Fail(t, Removed(files, gone))
    PROVE  StoreInv' /\ OutputStays
<1> DEFINE d == task[t].dir
           left == IF d = CacheDir THEN {} ELSE InDir(Removed(files, gone), d)
<1>1. /\ files' = Removed(Removed(files, gone), left)
      /\ dirs' = dirs \ {d}
      /\ task' = [task EXCEPT ![t] = Idle]
  BY DEF Fail
<1>2. /\ files' = [p \in DOMAIN files' |-> files'[p]]
      /\ \A p : p \in DOMAIN files' <=>
            p \in DOMAIN files /\ p \notin gone /\ (p.dir = d => d = CacheDir)
      /\ \A p \in DOMAIN files' : files'[p] = files[p]
  BY <1>1 DEF Removed, Restrict, InDir
<1> HIDE DEF left
<1>3. OwnTask(t)
  BY <1>1 DEF OwnTask, StoreInv
<1>4. task'[t] = Idle
  BY <1>1 DEF StoreInv
<1>5. ~Busy(t)' /\ ~HasTemp(t)' /\ ~Bundling(t)'
  BY <1>4 DEF Busy, HasTemp, Bundling, Idle
<1>6. Elsewhere(d)
  BY <1>1, <1>2 DEF Elsewhere
<1>7. OthersStay(t)
  BY <1>2 DEF OthersStay
<1>8. FilesKnown'
  <2>1. \A p \in DOMAIN files' : p \in DOMAIN files /\ files'[p] = files[p]
    BY <1>2
  <2>2. \A p \in DOMAIN files' : p.dir \in dirs' \cup {CacheDir}
    BY <1>1, <1>2 DEF StoreInv, FilesKnown
  <2> QED
    BY <1>2, <2>1, <2>2 DEF StoreInv, FilesKnown
<1>9. CacheSynced'
  BY <1>2 DEF StoreInv, CacheSynced, InDir
<1>10. TaskPlaced(t)' /\ TempOwned(t)' /\ Staged(t)'
  BY <1>4, <1>5 DEF TaskPlaced, TempOwned, Staged, Idle
<1>11. TempFresh(t)
  BY <1>5 DEF TempFresh
<1> QED
  BY <1>3, <1>5, <1>6, <1>7, <1>8, <1>9, <1>10, <1>11, InOwnDir

\* What a writer's own temporary is to the others.
LEMMA OwnTemp ==
    ASSUME StoreInv, NEW t \in Writers, HasTemp(t)
    PROVE  /\ Busy(t)
           /\ \A q \in {task[t].temp} : q.dir = task[t].dir /\ \E n : q.ext = <<PidOf[t], n, "tmp">>
           /\ \A u \in Writers \ {t} : HasTemp(u) => task[u].temp \notin {task[t].temp}
<1>1. TempOwned(t) /\ Apart
  BY DEF StoreInv
<1>2. PICK n \in 0 .. nextTemp[PidOf[t]] - 1 : task[t].temp.ext = <<PidOf[t], n, "tmp">>
  BY <1>1 DEF TempOwned
<1> QED
  BY <1>1, <1>2 DEF TempOwned, Apart, HasTemp, Busy

\* The name that a writer makes up for its next temporary is no live temporary's.
LEMMA NextTemp ==
    ASSUME StoreInv, NEW t \in Writers, NEW f
    PROVE  LET temp == Path(task[t].dir, TempName(f, PidOf[t], nextTemp[PidOf[t]]))
           IN  /\ temp.dir = task[t].dir /\ temp.ext = <<PidOf[t], nextTemp[PidOf[t]], "tmp">>
               /\ temp = Path(temp.dir, temp)
               /\ \A u \in Writers : HasTemp(u) => task[u].temp # temp
<1> DEFINE temp == Path(task[t].dir, TempName(f, PidOf[t], nextTemp[PidOf[t]]))
<1>1. /\ temp.dir = task[t].dir /\ temp.ext = <<PidOf[t], nextTemp[PidOf[t]], "tmp">>
      /\ temp = Path(temp.dir, temp)
  BY DEF Path, TempName
<1>2. ASSUME NEW u \in Writers, HasTemp(u)
      PROVE  task[u].temp.ext # <<PidOf[t], nextTemp[PidOf[t]], "tmp">>
  <2>1. PICK n \in 0 .. nextTemp[PidOf[u]] - 1 : task[u].temp.ext = <<PidOf[u], n, "tmp">>
    BY <1>2 DEF StoreInv, TempOwned
  <2>2. nextTemp[PidOf[u]] \in Nat
    BY Places
  <2>3. n # nextTemp[PidOf[u]]
    BY <2>1, <2>2
  <2> QED
    BY <2>1, <2>3
<1> QED
  BY <1>1, <1>2

\* A step that opens no file.
LEMMA BeginInv ==
    ASSUME StoreInv, NEW t \in Writers, OwnTask(t), files' = files,
           dirs \subseteq dirs', Output \in dirs' <=> Output \in dirs,
           TaskPlaced(t)', ~HasTemp(t)', Staged(t)',
           \A u \in Writers \ {t} : Bundling(t)' /\ Bundling(u) => task'[t].dir # task[u].dir
    PROVE  StoreInv' /\ OutputStays
<1>1. OutputKept
  BY DEF OutputKept
<1>2. OutputSynced'
  BY <1>1, OutputHolds DEF StoreInv
<1>3. FilesKnown'
  BY DEF StoreInv, FilesKnown
<1>4. CacheSynced'
  BY DEF StoreInv, CacheSynced
<1>5. TempOwned(t)'
  BY DEF TempOwned
<1>6. \A u \in Writers \ {t} : Bundling(u) =>
          /\ task[u].dir \in dirs'
          /\ \A p : p \in InDir(files', task[u].dir) <=> p \in InDir(files, task[u].dir)
          /\ \A p \in InDir(files, task[u].dir) : files'[p] = files[p]
  BY Places
<1>7. \A u \in Writers \ {t} : HasTemp(u) /\ task[u].temp \in DOMAIN files' =>
          task[u].temp \in DOMAIN files /\ files'[task[u].temp] = files[task[u].temp]
  OBVIOUS
<1>8. \A u \in Writers \ {t} : HasTemp(t)' /\ HasTemp(u) => task'[t].temp.ext # task[u].temp.ext
  OBVIOUS
<1>9. StoreInv'
  BY <1>2, <1>3, <1>4, <1>5, <1>6, <1>7, <1>8, OneWriter DEF OwnTask
<1> QED
  BY <1>1, <1>9 DEF OutputStays

\* A call of cached meets a whole artifact of its key, or none.
LEMMA CachedInv ==
    ASSUME StoreInv, NEW t \in Writers, NEW k \in Keys, Cached(t, k)
    PROVE  StoreInv' /\ OutputStays
<1> DEFINE path == Path(CacheDir, CacheFile(k))
           fresh == [at |-> "create", dir |-> CacheDir, todo |-> <<CacheFile(k)>>, temp |-> << >>, call |-> calls']
<1>1. path \in DOMAIN files => Decodes(k)
  <2> SUFFICES ASSUME path \in DOMAIN files
               PROVE  Decodes(k)
    OBVIOUS
  <2>1. /\ path \in InDir(files, CacheDir) /\ path.ext = <<"inferfabric-bin">>
        /\ [stem |-> path.stem, ext |-> path.ext] = CacheFile(k)
    BY DEF InDir, Path, CacheFile
  <2>2. files[path].whole /\ files[path].of = CacheFile(k)
    BY <2>1 DEF StoreInv, CacheSynced
  <2> QED
    BY <2>2 DEF Decodes
<1>2. task'[t] = Idle \/ task'[t] = fresh
  <2>1. task'[t] = IF path \in DOMAIN files
                   THEN [Idle EXCEPT !.at = IF Decodes(k) THEN "idle" ELSE "corrupt"] ELSE fresh
    BY DEF Cached, StoreInv
  <2>2. [Idle EXCEPT !.at = "idle"] = Idle
    BY DEF Idle
  <2> QED
    BY <1>1, <2>1, <2>2
<1> HIDE DEF path
<1>3. OwnTask(t) /\ files' = files /\ dirs' = dirs
  BY DEF Cached, OwnTask, StoreInv
<1>4. CASE task'[t] = Idle
  <2>1. ~HasTemp(t)' /\ ~Bundling(t)' /\ Staged(t)'
    BY <1>4 DEF HasTemp, Bundling, Busy, Staged, Idle
  <2>2. TaskPlaced(t)'
    BY <1>4, <2>1 DEF TaskPlaced, Idle, Busy
  <2> QED
    BY <1>3, <2>1, <2>2, BeginInv
<1>5. CASE task'[t] = fresh
  <2>1. ~HasTemp(t)' /\ ~Bundling(t)' /\ Staged(t)' /\ Busy(t)'
    BY <1>5 DEF HasTemp, Bundling, Busy, Staged
  <2>2. TaskPlaced(t)'
    BY <1>5, <2>1 DEF TaskPlaced
  <2> QED
    BY <1>3, <2>1, <2>2, BeginInv
<1> QED
  BY <1>2, <1>4, <1>5

\* A caller turns to a bundle: it has no directory yet.
LEMMA WriteBundleInv ==
    ASSUME StoreInv, NEW t \in Writers, WriteBundle(t)
    PROVE  StoreInv' /\ OutputStays
<1>1. OwnTask(t) /\ files' = files /\ dirs' = dirs
  BY DEF WriteBundle, OwnTask, StoreInv
<1>2. task'[t] = [at |-> "stage", dir |-> <<"staging", PidOf[t], 0>>, todo |-> << >>, temp |-> << >>, call |-> calls']
  BY DEF WriteBundle, Idle, StoreInv
<1>3. ~HasTemp(t)' /\ ~Bundling(t)' /\ Staged(t)' /\ ~Busy(t)'
  BY <1>2 DEF HasTemp, Bundling, Busy, Staged
<1>4. TaskPlaced(t)'
  BY <1>2, <1>3 DEF TaskPlaced
<1> QED
  BY <1>1, <1>3, <1>4, BeginInv

\* A staging directory that could be made is empty and nobody else's.
LEMMA StageInv ==
    ASSUME StoreInv, NEW t \in Writers, Stage(t)
    PROVE  StoreInv' /\ OutputStays
<1>1. OwnTask(t) /\ files' = files /\ task[t].at = "stage" /\ TaskPlaced(t)
  BY DEF Stage, OwnTask, StoreInv
<1>2. PICK n \in Nat : task[t].dir = <<"staging", PidOf[t], n>>
  BY <1>1 DEF TaskPlaced
<1> DEFINE d == task[t].dir
<1>3. CASE d \in dirs
  <2>1. dirs' = dirs /\ task' = [task EXCEPT ![t].dir[3] = @ + 1]
    BY <1>3 DEF Stage, Taken
  <2>2. task'[t].at = "stage" /\ task'[t] = [task[t] EXCEPT !.dir[3] = @ + 1]
    BY <1>1, <2>1 DEF TaskPlaced, StoreInv
  <2>3. task'[t].dir = <<"staging", PidOf[t], n + 1>>
    BY <1>1, <1>2, <2>2 DEF TaskPlaced
  <2>4. ~HasTemp(t)' /\ ~Bundling(t)' /\ Staged(t)' /\ ~Busy(t)'
    BY <2>2 DEF HasTemp, Bundling, Busy, Staged
  <2>5. task'[t] = [at |-> task'[t].at, dir |-> task'[t].dir, todo |-> task'[t].todo,
                    temp |-> task'[t].temp, call |-> task'[t].call]
    BY <1>1, <2>2 DEF TaskPlaced
  <2>6. TaskPlaced(t)'
    BY <1>2, <2>2, <2>3, <2>4, <2>5 DEF TaskPlaced
  <2> QED
    BY <1>1, <2>1, <2>4, <2>6, BeginInv
<1>4. CASE d \notin dirs
  <2>1. dirs' = dirs \cup {d} /\ task'[t] = [task[t] EXCEPT !.at = "create", !.todo = BundleFiles]
    BY <1>4 DEF Stage, Taken, StoreInv
  <2>2. /\ task'[t].at = "create" /\ task'[t].dir = d /\ task'[t].todo = BundleFiles
        /\ task'[t] = [at |-> task'[t].at, dir |-> task'[t].dir, todo |-> task'[t].todo,
                       temp |-> task'[t].temp, call |-> task'[t].call]
    BY <1>1, <2>1 DEF TaskPlaced
  <2>3. d # CacheDir /\ d # Output
    BY <1>2, Names
  <2>4. Busy(t)' /\ ~HasTemp(t)' /\ Bundling(t)'
    BY <2>2, <2>3 DEF Busy, HasTemp, Bundling
  <2>5. TaskPlaced(t)'
    <3>1. /\ Len(BundleFiles) \in 1 .. Len(BundleFiles)
          /\ BundleFiles \in Seq([stem : STRING, ext : Seq(STRING)])
          /\ \A i \in 1 .. Len(BundleFiles) :
                BundleFiles[i] = BundleFiles[(i + Len(BundleFiles)) - Len(BundleFiles)]
      BY Names, StoreAssumption
    <3>2. d \in dirs' /\ \E m \in Nat : d = <<"staging", PidOf[t], m>>
      BY <1>2, <2>1
    <3> QED
      BY <2>2, <2>3, <2>4, <3>1, <3>2 DEF TaskPlaced
  <2>6. Staged(t)'
    <3>1. Done(t)' = 0
      BY <2>2, Names DEF Done
    <3>2. \A p : p \notin InDir(files', d)
      BY <1>1, <1>4, <2>3 DEF StoreInv, FilesKnown, InDir
    <3> QED
      BY <2>2, <3>1, <3>2 DEF Staged
  <2>7. \A u \in Writers \ {t} : Bundling(u) => task[u].dir # d
    BY <1>4, Places
  <2> QED
    BY <1>1, <2>1, <2>2, <2>3, <2>4, <2>5, <2>6, <2>7, BeginInv
<1> QED
  BY <1>3, <1>4

\* A new temporary is nobody's file.
LEMMA CreateTempInv ==
    ASSUME StoreInv, NEW t \in Writers, CreateTemp(t)
    PROVE  StoreInv' /\ OutputStays
<1> DEFINE d == task[t].dir
           pid == PidOf[t]
           temp == Path(d, TempName(Head(task[t].todo), pid, nextTemp[pid]))
           content == [by |-> task[t].call, of |-> Head(task[t].todo), whole |-> FALSE, synced |-> FALSE]
<1>1. /\ temp.dir = d /\ temp.ext = <<pid, nextTemp[pid], "tmp">>
      /\ temp = Path(temp.dir, temp)
      /\ \A u \in Writers : HasTemp(u) => task[u].temp # temp
  BY NextTemp
<1>2. /\ task[t].at = "create" /\ nextTemp' = [nextTemp EXCEPT ![pid] = @ + 1]
      /\ \/ temp \in DOMAIN files /\ Fail(t, Removed(files, {temp}))
         \/ /\ temp \notin DOMAIN files /\ files' = Put(files, temp, content)
            /\ task' = [task EXCEPT ![t] = [@ EXCEPT !.at = "write", !.temp = temp]]
            /\ dirs' = dirs
  BY DEF CreateTemp
<1> HIDE DEF temp
<1>3. Busy(t) /\ ~HasTemp(t) /\ TaskPlaced(t) /\ Staged(t) /\ pid \in Pids /\ nextTemp[pid] \in Nat
  BY <1>2, Places DEF Busy, HasTemp, StoreInv
<1>4. /\ nextTemp' = [p \in Pids |-> nextTemp'[p]]
      /\ \A p \in Pids : nextTemp'[p] \in Nat /\ nextTemp[p] <= nextTemp'[p]
      /\ nextTemp'[pid] = nextTemp[pid] + 1
  BY <1>2, <1>3 DEF StoreInv
<1>5. CASE Fail(t, Removed(files, {temp}))
  BY <1>1, <1>3, <1>4, <1>5, FailInv
<1>6. CASE /\ temp \notin DOMAIN files /\ files' = Put(files, temp, content)
           /\ task' = [task EXCEPT ![t] = [@ EXCEPT !.at = "write", !.temp = temp]]
           /\ dirs' = dirs
  <2>1. /\ files' = [p \in DOMAIN files' |-> files'[p]]
        /\ \A p : p \in DOMAIN files' <=> p \in DOMAIN files \/ p = temp
        /\ \A p \in DOMAIN files : p # temp /\ files'[p] = files[p]
        /\ files'[temp] = content
    BY <1>6 DEF Put
  <2>2. /\ task'[t].at = "write" /\ task'[t].dir = d /\ task'[t].todo = task[t].todo
        /\ task'[t].temp = temp /\ task'[t].call = task[t].call
        /\ task'[t] = [at |-> task'[t].at, dir |-> task'[t].dir, todo |-> task'[t].todo,
                       temp |-> task'[t].temp, call |-> task'[t].call]
    BY <1>3, <1>6 DEF TaskPlaced, StoreInv
  <2>3. Busy(t)' /\ HasTemp(t)' /\ (Bundling(t)' <=> Bundling(t))
    BY <1>3, <2>2 DEF Busy, HasTemp, Bundling
  <2>4. OwnTask(t)
    BY <1>4, <1>6 DEF OwnTask, StoreInv
  <2>5. Elsewhere(d)
    BY <1>1, <1>6, <2>1 DEF Elsewhere
  <2>6. OthersStay(t)
    BY <1>1, <2>1 DEF OthersStay
  <2>7. FilesKnown'
    <3>1. d \in dirs' \cup {CacheDir}
      BY <1>3, <1>6, Places DEF Bundling
    <3>2. content = [by |-> content.by, of |-> content.of, whole |-> content.whole, synced |-> content.synced]
      OBVIOUS
    <3> HIDE DEF content
    <3> QED
      BY <1>1, <1>6, <2>1, <3>1, <3>2 DEF StoreInv, FilesKnown
  <2>8. CacheSynced'
    <3> SUFFICES ASSUME NEW p \in DOMAIN files', p.dir = CacheDir, p.ext = <<"inferfabric-bin">>
                 PROVE  /\ files'[p].whole /\ files'[p].synced
                        /\ files'[p].of = [stem |-> p.stem, ext |-> p.ext]
      BY DEF CacheSynced, InDir
    <3>1. p # temp
      BY <1>1, Names
    <3> QED
      BY <2>1, <3>1 DEF StoreInv, CacheSynced, InDir
  <2>9. TaskPlaced(t)'
    BY <1>3, <1>6, <2>2, <2>3 DEF TaskPlaced
  <2>10. TempOwned(t)'
    <3>1. nextTemp[pid] \in 0 .. nextTemp'[pid] - 1
      BY <1>3, <1>4
    <3> QED
      BY <1>1, <2>2, <3>1 DEF TempOwned
  <2>11. Staged(t)'
    <3>1. Done(t)' = Done(t)
      BY <1>2, <2>2 DEF Done
    <3> QED
      BY <1>3, <2>1, <2>2, <2>3, <3>1 DEF Staged, InDir
  <2>12. TempFresh(t)
    BY <1>1, <2>2 DEF TempFresh
  <2> QED
    BY <1>3, <2>2, <2>3, <2>4, <2>5, <2>6, <2>7, <2>8, <2>9, <2>10, <2>11, <2>12, InOwnDir
<1> QED
  BY <1>2, <1>5, <1>6

\* A writer puts the same bytes into its temporary until it is renamed.
LEMMA WrittenInv ==
    ASSUME StoreInv, NEW t \in Writers, HasTemp(t), NEW step \in {"sync", "rename"},
           NEW synced \in BOOLEAN, step = "rename" => synced,
           files' = Written(t, [by |-> task[t].call, of |-> Head(task[t].todo), whole |-> TRUE, synced |-> synced]),
           task' = [task EXCEPT ![t].at = step],
           UNCHANGED <<dirs, nextTemp>>
    PROVE  StoreInv' /\ OutputStays
<1> DEFINE d == task[t].dir
           temp == task[t].temp
           content == [by |-> task[t].call, of |-> Head(task[t].todo), whole |-> TRUE, synced |-> synced]
<1>1. /\ Busy(t) /\ temp.dir = d /\ temp.ext # <<"inferfabric-bin">>
      /\ \A i \in DOMAIN BundleFiles : BundleFiles[i].ext # temp.ext
  BY Places
<1>2. TaskPlaced(t) /\ TempOwned(t) /\ Staged(t)
  BY DEF StoreInv
<1>3. /\ files' = [p \in DOMAIN files' |-> files'[p]]
      /\ \A p : p \in DOMAIN files' <=> p \in DOMAIN files
      /\ \A p \in DOMAIN files : files'[p] = IF p = temp THEN content ELSE files[p]
  BY DEF Written, StoreInv, FilesKnown
<1>4. /\ task'[t].at = step /\ task'[t].dir = d /\ task'[t].todo = task[t].todo
      /\ task'[t].temp = temp /\ task'[t].call = task[t].call
      /\ task'[t] = [at |-> task'[t].at, dir |-> task'[t].dir, todo |-> task'[t].todo,
                     temp |-> task'[t].temp, call |-> task'[t].call]
  BY <1>2 DEF TaskPlaced, StoreInv
<1>5. Busy(t)' /\ HasTemp(t)' /\ (Bundling(t)' <=> Bundling(t))
  BY <1>1, <1>4 DEF Busy, HasTemp, Bundling
<1>6. OwnTask(t)
  BY DEF OwnTask, StoreInv
<1>7. Elsewhere(d)
  BY <1>1, <1>3 DEF Elsewhere
<1>8. OthersStay(t)
  BY <1>3, OwnTemp DEF OthersStay
<1>9. FilesKnown'
  <2>1. content = [by |-> content.by, of |-> content.of, whole |-> content.whole, synced |-> content.synced]
    OBVIOUS
  <2> HIDE DEF content
  <2> QED
    BY <1>3, <2>1 DEF StoreInv, FilesKnown
<1>10. CacheSynced'
  <2> SUFFICES ASSUME NEW p \in DOMAIN files', p.dir = CacheDir, p.ext = <<"inferfabric-bin">>
               PROVE  /\ files'[p].whole /\ files'[p].synced
                      /\ files'[p].of = [stem |-> p.stem, ext |-> p.ext]
    BY DEF CacheSynced, InDir
  <2>1. p \in DOMAIN files /\ files'[p] = files[p]
    BY <1>1, <1>3
  <2>2. /\ files[p].whole /\ files[p].synced
        /\ files[p].of = [stem |-> p.stem, ext |-> p.ext]
    BY <2>1 DEF StoreInv, CacheSynced, InDir
  <2> QED
    BY <2>1, <2>2
<1>11. TaskPlaced(t)'
  <2>1. task'[t].at # "stage" /\ task'[t].at # "publish" /\ dirs' = dirs
    BY <1>4
  <2>2. (Busy(t)' /\ task'[t].dir = CacheDir) => \E k \in Keys : task'[t].todo = <<CacheFile(k)>>
    BY <1>1, <1>2, <1>4 DEF TaskPlaced
  <2>3. Bundling(t)' => \E n \in Nat : task'[t].dir = <<"staging", PidOf[t], n>>
    BY <1>2, <1>4, <1>5 DEF TaskPlaced
  <2>4. Bundling(t)' =>
            /\ task'[t].dir \in dirs'
            /\ Len(task'[t].todo) \in 1 .. Len(BundleFiles)
            /\ task'[t].todo \in Seq([stem : STRING, ext : Seq(STRING)])
            /\ \A i \in 1 .. Len(task'[t].todo) :
                  task'[t].todo[i] = BundleFiles[(i + Len(BundleFiles)) - Len(task'[t].todo)]
    BY <1>2, <1>4, <1>5, <2>1 DEF TaskPlaced
  <2> QED
    BY <1>4, <1>5, <2>1, <2>2, <2>3, <2>4 DEF TaskPlaced
<1>12. TempOwned(t)'
  <2>1. temp \in DOMAIN files' => files'[temp] = content
    BY <1>3
  <2> QED
    BY <1>2, <1>4, <2>1 DEF TempOwned
<1>13. Staged(t)'
  <2>1. Done(t)' = Done(t)
    BY <1>4 DEF Done, HasTemp
  <2>2. \A p \in InDir(files', d) : p \in InDir(files, d) /\ (p # temp => files'[p] = files[p])
    BY <1>3 DEF InDir
  <2>3. Bundling(t) => \A j \in 1 .. Done(t) : Path(d, BundleFiles[j]) \in DOMAIN files'
    BY <1>2, <1>3 DEF Staged
  <2>4. ASSUME Bundling(t), NEW p \in InDir(files', d), p # temp
        PROVE  /\ \E j \in 1 .. Done(t) : p = Path(d, BundleFiles[j])
               /\ files'[p].whole /\ files'[p].synced /\ files'[p].by = task[t].call
    BY <1>2, <2>2, <2>4 DEF Staged
  <2>5. /\ task'[t].dir = d /\ task'[t].temp = temp /\ task'[t].call = task[t].call
        /\ HasTemp(t)' /\ (Bundling(t)' <=> Bundling(t))
    BY <1>4, <1>5
  <2>6. ASSUME Bundling(t)
        PROVE  /\ \A j \in 1 .. Done(t)' : Path(task'[t].dir, BundleFiles[j]) \in DOMAIN files'
               /\ \A p \in InDir(files', task'[t].dir) :
                     \/ HasTemp(t)' /\ p = task'[t].temp
                     \/ /\ \E j \in 1 .. Done(t)' : p = Path(task'[t].dir, BundleFiles[j])
                        /\ files'[p].whole /\ files'[p].synced /\ files'[p].by = task'[t].call
    <3> HIDE DEF content, d, temp
    <3>1. \A j \in 1 .. Done(t)' : Path(task'[t].dir, BundleFiles[j]) \in DOMAIN files'
      BY <2>1, <2>3, <2>5, <2>6
    <3>2. ASSUME NEW p \in InDir(files', d)
          PROVE  \/ HasTemp(t)' /\ p = task'[t].temp
                 \/ /\ \E j \in 1 .. Done(t)' : p = Path(task'[t].dir, BundleFiles[j])
                    /\ files'[p].whole /\ files'[p].synced /\ files'[p].by = task'[t].call
      BY <2>1, <2>4, <2>5, <2>6, <3>2
    <3> QED
      BY <2>5, <3>1, <3>2
  <2> QED
    BY <2>5, <2>6 DEF Staged
<1>14. TempFresh(t)
  BY <1>4 DEF TempFresh
<1> QED
  BY <1>1, <1>4, <1>5, <1>6, <1>7, <1>8, <1>9, <1>10, <1>11, <1>12, <1>13, <1>14, InOwnDir

\* The bytes reach the temporary, whole or in part.
LEMMA WriteTempInv ==
    ASSUME StoreInv, NEW t \in Writers, WriteTemp(t)
    PROVE  StoreInv' /\ OutputStays
<1>1. HasTemp(t) /\ nextTemp' = nextTemp
  BY DEF WriteTemp, HasTemp
<1>2. CASE Fail(t, Removed(files, {task[t].temp}))
  <2>1. /\ nextTemp' = [p \in Pids |-> nextTemp'[p]]
        /\ \A p \in Pids : nextTemp'[p] \in Nat /\ nextTemp[p] <= nextTemp'[p]
    BY <1>1 DEF StoreInv
  <2> QED
    BY <1>1, <1>2, <2>1, OwnTemp, FailInv
<1>3. CASE /\ files' = Written(t, [by |-> task[t].call, of |-> Head(task[t].todo), whole |-> TRUE, synced |-> FALSE])
           /\ task' = [task EXCEPT ![t].at = "sync"]
           /\ dirs' = dirs
  BY <1>1, <1>3, WrittenInv
<1> QED
  BY <1>2, <1>3 DEF WriteTemp

\* sync_all makes the temporary durable.
LEMMA SyncTempInv ==
    ASSUME StoreInv, NEW t \in Writers, SyncTemp(t)
    PROVE  StoreInv' /\ OutputStays
BY WrittenInv DEF SyncTemp, HasTemp

\* What the next file of a writer is, and what stays to be done after it.
LEMMA NextFile ==
    ASSUME StoreInv, NEW t \in Writers, HasTemp(t)
    PROVE  LET f == Head(task[t].todo)
               rest == Tail(task[t].todo)
           IN  /\ f.ext # task[t].temp.ext
               /\ \A u \in Writers : HasTemp(u) => f.ext # task[u].temp.ext
               /\ task[t].dir = CacheDir => rest = << >> /\ \E k \in Keys : f = CacheFile(k)
               /\ Bundling(t) =>
                     /\ Done(t) + 1 \in 1 .. Len(BundleFiles) /\ f = BundleFiles[Done(t) + 1]
                     /\ rest \in Seq([stem : STRING, ext : Seq(STRING)])
                     /\ Len(rest) = Len(task[t].todo) - 1
                     /\ Done(t) = Len(BundleFiles) - Len(task[t].todo)
                     /\ rest = << >> => Done(t) + 1 = Len(BundleFiles)
                     /\ rest # << >> => Len(rest) \in 1 .. Len(BundleFiles)
                     /\ \A i \in 1 .. Len(rest) : rest[i] = BundleFiles[(i + Len(BundleFiles)) - Len(rest)]
<1> DEFINE f == Head(task[t].todo)
           rest == Tail(task[t].todo)
           todo == task[t].todo
           L == Len(BundleFiles)
<1>1. Busy(t) /\ TaskPlaced(t) /\ task[t].at # "publish"
  BY Places DEF HasTemp, StoreInv
<1>2. CASE task[t].dir = CacheDir
  <2>1. PICK k \in Keys : todo = <<CacheFile(k)>>
    BY <1>1, <1>2 DEF TaskPlaced
  <2>2. f = CacheFile(k) /\ rest = << >>
    BY <2>1
  <2>3. f.ext = <<"inferfabric-bin">>
    BY <2>2 DEF CacheFile
  <2>4. \A u \in Writers : HasTemp(u) => f.ext # task[u].temp.ext
    BY <2>3, Places
  <2>5. ~Bundling(t)
    BY <1>2 DEF Bundling
  <2> QED
    BY <2>2, <2>4, <2>5
<1>3. CASE Bundling(t)
  <2>1. /\ L \in Nat /\ Len(todo) \in 1 .. L
        /\ todo \in Seq([stem : STRING, ext : Seq(STRING)])
        /\ \A i \in 1 .. Len(todo) : todo[i] = BundleFiles[(i + L) - Len(todo)]
        /\ task[t].dir # CacheDir
    BY <1>1, <1>3, Names DEF TaskPlaced, Bundling
  <2> HIDE DEF L, todo
  <2>2. Done(t) = L - Len(todo)
    BY <1>1 DEF Done, L, todo
  <2>3. todo # << >> /\ Head(todo) = todo[1] /\ Tail(todo) \in Seq([stem : STRING, ext : Seq(STRING)])
        /\ Len(Tail(todo)) = Len(todo) - 1
        /\ \A i \in 1 .. Len(Tail(todo)) : Tail(todo)[i] = todo[i + 1]
    BY <2>1
  <2>4. Done(t) + 1 \in 1 .. L /\ Head(todo) = BundleFiles[Done(t) + 1]
    <3>1. 1 \in 1 .. Len(todo) /\ (1 + L) - Len(todo) = Done(t) + 1
      BY <2>1, <2>2
    <3> QED
      BY <2>1, <2>2, <2>3, <3>1
  <2>5. Tail(todo) = << >> => Done(t) + 1 = L
    <3>1. Len(<< >>) = 0
      OBVIOUS
    <3>2. Tail(todo) = << >> => Len(Tail(todo)) = 0
      BY <3>1, Zenon
    <3> QED
      BY <2>1, <2>2, <2>3, <3>2
  <2>6. Tail(todo) # << >> => Len(Tail(todo)) \in 1 .. L
    BY <2>1, <2>3
  <2>7. ASSUME NEW i \in 1 .. Len(Tail(todo))
        PROVE  Tail(todo)[i] = BundleFiles[(i + L) - Len(Tail(todo))]
    <3>1. i + 1 \in 1 .. Len(todo) /\ ((i + 1) + L) - Len(todo) = (i + L) - Len(Tail(todo))
      BY <2>1, <2>3
    <3>2. todo[i + 1] = BundleFiles[((i + 1) + L) - Len(todo)]
      BY <2>1, <3>1
    <3> QED
      BY <2>3, <3>1, <3>2
  <2>8. \A u \in Writers : HasTemp(u) => Head(todo).ext # task[u].temp.ext
    BY <2>4, Places, Names DEF L
  <2>9. /\ Head(todo).ext # task[t].temp.ext
        /\ \A u \in Writers : HasTemp(u) => Head(todo).ext # task[u].temp.ext
    BY <2>8
  <2>10. \A i \in 1 .. Len(Tail(todo)) : Tail(todo)[i] = BundleFiles[(i + L) - Len(Tail(todo))]
    BY <2>7
  <2> QED
    BY <2>1, <2>2, <2>3, <2>4, <2>5, <2>6, <2>9, <2>10 DEF L, todo
<1> QED
  BY <1>1, <1>2, <1>3 DEF Bundling

\* A file gets its name when it is whole, synced and what the name says.
LEMMA RenameTempInv ==
    ASSUME StoreInv, NEW t \in Writers, RenameTemp(t)
    PROVE  StoreInv' /\ OutputStays
<1> DEFINE d == task[t].dir
           temp == task[t].temp
           f == Head(task[t].todo)
           rest == Tail(task[t].todo)
           target == Path(d, f)
           next == IF rest # << >> THEN [task[t] EXCEPT !.at = "create", !.todo = rest]
                   ELSE IF d = CacheDir THEN Idle ELSE [task[t] EXCEPT !.at = "publish"]
<1>1. /\ task[t].at = "rename" /\ nextTemp' = nextTemp
      /\ \/ /\ temp \in DOMAIN files /\ files' = Put(Removed(files, {temp}), target, files[temp])
            /\ task' = [task EXCEPT ![t] = next] /\ dirs' = dirs
         \/ Fail(t, files)
  BY DEF RenameTemp
<1>2. /\ HasTemp(t) /\ Busy(t) /\ TaskPlaced(t) /\ TempOwned(t) /\ Staged(t)
      /\ temp.dir = d
  BY <1>1, Places DEF HasTemp, StoreInv
<1>3. /\ nextTemp' = [p \in Pids |-> nextTemp'[p]]
      /\ \A p \in Pids : nextTemp'[p] \in Nat /\ nextTemp[p] <= nextTemp'[p]
  BY <1>1 DEF StoreInv
<1>4. CASE Fail(t, files)
  <2>1. Removed(files, {}) = files
    BY DEF Removed, Restrict, StoreInv, FilesKnown
  <2>2. Fail(t, Removed(files, {}))
    BY <1>4, <2>1
  <2> QED
    BY <1>2, <1>3, <2>2, FailInv
<1>5. CASE /\ temp \in DOMAIN files /\ files' = Put(Removed(files, {temp}), target, files[temp])
           /\ task' = [task EXCEPT ![t] = next] /\ dirs' = dirs
  <2>1. /\ f.ext # temp.ext
        /\ \A u \in Writers : HasTemp(u) => f.ext # task[u].temp.ext
        /\ d = CacheDir => rest = << >> /\ \E k \in Keys : f = CacheFile(k)
        /\ Bundling(t) =>
              /\ Done(t) + 1 \in 1 .. Len(BundleFiles) /\ f = BundleFiles[Done(t) + 1]
              /\ rest \in Seq([stem : STRING, ext : Seq(STRING)])
              /\ Len(rest) = Len(task[t].todo) - 1
              /\ Done(t) = Len(BundleFiles) - Len(task[t].todo)
              /\ rest = << >> => Done(t) + 1 = Len(BundleFiles)
              /\ rest # << >> => Len(rest) \in 1 .. Len(BundleFiles)
              /\ \A i \in 1 .. Len(rest) : rest[i] = BundleFiles[(i + Len(BundleFiles)) - Len(rest)]
    BY <1>2, NextFile
  <2>2. target.dir = d /\ target.ext = f.ext /\ target.stem = f.stem /\ target = Path(target.dir, target)
    BY DEF Path
  <2>3. target # temp /\ \A u \in Writers : HasTemp(u) => task[u].temp # target
    BY <2>1, <2>2
  <2>4. /\ files[temp].whole /\ files[temp].synced
        /\ files[temp].of = f /\ files[temp].by = task[t].call
    BY <1>1, <1>2, <1>5 DEF TempOwned
  <2> HIDE DEF target, temp, next, f, rest
  <2>5. /\ files' = [p \in DOMAIN files' |-> files'[p]]
        /\ \A p : p \in DOMAIN files' <=> (p \in DOMAIN files /\ p # temp) \/ p = target
        /\ \A p \in DOMAIN files' : files'[p] = IF p = target THEN files[temp] ELSE files[p]
    BY <1>5 DEF Put, Removed, Restrict
  <2>6. task'[t] = next
    BY <1>5 DEF StoreInv
  <2>7. ~HasTemp(t)' /\ (Bundling(t)' => Bundling(t) /\ task'[t].dir = d /\ task'[t].call = task[t].call)
    BY <1>2, <2>6 DEF next, TaskPlaced, HasTemp, Bundling, Busy, Idle
  <2>8. OwnTask(t)
    BY <1>3, <1>5 DEF OwnTask, StoreInv
  <2>9. Elsewhere(d)
    BY <1>2, <1>5, <2>2, <2>5 DEF Elsewhere, temp
  <2>10. OthersStay(t)
    BY <2>3, <2>5 DEF OthersStay
  <2>11. FilesKnown'
    <3>1. d \in dirs' \cup {CacheDir}
      BY <1>2, <1>5, Places DEF Bundling
    <3> QED
      BY <1>5, <2>2, <2>5, <3>1 DEF StoreInv, FilesKnown
  <2>12. CacheSynced'
    <3> SUFFICES ASSUME NEW p \in DOMAIN files', p.dir = CacheDir, p.ext = <<"inferfabric-bin">>
                 PROVE  /\ files'[p].whole /\ files'[p].synced
                        /\ files'[p].of = [stem |-> p.stem, ext |-> p.ext]
      BY DEF CacheSynced, InDir
    <3>1. CASE p = target
      <4>1. PICK k \in Keys : f = CacheFile(k)
        BY <2>1, <2>2, <3>1
      <4>2. f = [stem |-> p.stem, ext |-> p.ext]
        BY <2>2, <3>1, <4>1 DEF CacheFile
      <4> QED
        BY <2>4, <2>5, <3>1, <4>2
    <3>2. CASE p # target
      <4>1. p \in DOMAIN files /\ files'[p] = files[p]
        BY <2>5, <3>2
      <4>2. /\ files[p].whole /\ files[p].synced
            /\ files[p].of = [stem |-> p.stem, ext |-> p.ext]
        BY <4>1 DEF StoreInv, CacheSynced, InDir
      <4> QED
        BY <4>1, <4>2
    <3> QED
      BY <3>1, <3>2
  <2>13. TaskPlaced(t)' /\ (Bundling(t)' => Done(t)' = Done(t) + 1)
    <3>1. CASE d = CacheDir
      <4>1. task'[t] = Idle
        BY <2>1, <2>6, <3>1 DEF next
      <4> QED
        BY <4>1 DEF TaskPlaced, Busy, Bundling, Idle
    <3>2. CASE d # CacheDir /\ rest # << >>
      <4>1. Bundling(t)
        BY <1>2, <3>2 DEF Bundling
      <4>2. /\ task'[t].at = "create" /\ task'[t].dir = d /\ task'[t].todo = rest
            /\ task'[t] = [at |-> task'[t].at, dir |-> task'[t].dir, todo |-> task'[t].todo,
                           temp |-> task'[t].temp, call |-> task'[t].call]
        BY <1>2, <2>6, <3>2 DEF next, TaskPlaced
      <4>3. /\ d \in dirs' /\ Len(rest) \in 1 .. Len(BundleFiles)
            /\ rest \in Seq([stem : STRING, ext : Seq(STRING)])
            /\ \A i \in 1 .. Len(rest) : rest[i] = BundleFiles[(i + Len(BundleFiles)) - Len(rest)]
            /\ \E n \in Nat : d = <<"staging", PidOf[t], n>>
        BY <1>2, <1>5, <2>1, <3>2, <4>1 DEF TaskPlaced
      <4>4. Busy(t)' /\ Bundling(t)'
        BY <3>2, <4>2 DEF Busy, Bundling
      <4>5. TaskPlaced(t)'
        BY <3>2, <4>2, <4>3, <4>4 DEF TaskPlaced
      <4>6. Done(t)' = Len(BundleFiles) - Len(rest)
        BY <4>2 DEF Done
      <4>7. Done(t)' = Done(t) + 1
        <5>1. /\ Len(rest) = Len(task[t].todo) - 1 /\ Done(t) = Len(BundleFiles) - Len(task[t].todo)
              /\ Len(BundleFiles) \in Nat /\ Len(task[t].todo) \in Nat
          BY <1>2, <2>1, <4>1, Names DEF TaskPlaced
        <5> QED
          BY <4>6, <5>1
      <4> QED
        BY <4>5, <4>7
    <3>3. CASE d # CacheDir /\ rest = << >>
      <4>1. Bundling(t)
        BY <1>2, <3>3 DEF Bundling
      <4>2. /\ task'[t].at = "publish" /\ task'[t].dir = d /\ task'[t].todo = task[t].todo
            /\ task'[t] = [at |-> task'[t].at, dir |-> task'[t].dir, todo |-> task'[t].todo,
                           temp |-> task'[t].temp, call |-> task'[t].call]
        BY <1>2, <2>6, <3>3 DEF next, TaskPlaced
      <4>3. Busy(t)' /\ Bundling(t)'
        BY <3>3, <4>2 DEF Busy, Bundling
      <4>4. TaskPlaced(t)'
        BY <1>2, <1>5, <3>3, <4>1, <4>2, <4>3 DEF TaskPlaced
      <4>5. Done(t)' = Done(t) + 1
        BY <2>1, <3>3, <4>1, <4>2 DEF Done
      <4> QED
        BY <4>4, <4>5
    <3> QED
      BY <3>1, <3>2, <3>3
  <2>14. TempOwned(t)'
    BY <2>7 DEF TempOwned
  <2>15. Staged(t)'
    <3> SUFFICES ASSUME Bundling(t)'
                 PROVE  /\ \A j \in 1 .. Done(t)' : Path(task'[t].dir, BundleFiles[j]) \in DOMAIN files'
                        /\ \A p \in InDir(files', task'[t].dir) :
                              /\ \E j \in 1 .. Done(t)' : p = Path(task'[t].dir, BundleFiles[j])
                              /\ files'[p].whole /\ files'[p].synced /\ files'[p].by = task'[t].call
      BY DEF Staged
    <3>1. /\ Bundling(t) /\ task'[t].dir = d /\ task'[t].call = task[t].call
          /\ Done(t)' = Done(t) + 1 /\ Done(t) + 1 \in 1 .. Len(BundleFiles) /\ Done(t) \in Nat
          /\ f = BundleFiles[Done(t) + 1] /\ target = Path(d, f)
      <4>1. Bundling(t) /\ task'[t].dir = d /\ task'[t].call = task[t].call /\ Done(t)' = Done(t) + 1
        BY <2>7, <2>13
      <4>2. Done(t) = Len(BundleFiles) - Len(task[t].todo) /\ Len(task[t].todo) \in 1 .. Len(BundleFiles)
        BY <1>2, <2>1, <4>1 DEF TaskPlaced
      <4>3. Done(t) \in Nat
        BY <4>2, Names
      <4> QED
        BY <2>1, <4>1, <4>3 DEF target
    <3>2. ASSUME NEW j \in 1 .. Done(t) + 1
          PROVE  Path(d, BundleFiles[j]) \in DOMAIN files'
      <4>1. CASE j = Done(t) + 1
        BY <2>5, <3>1, <4>1
      <4>2. CASE j # Done(t) + 1
        <5>1. j \in 1 .. Done(t) /\ j \in DOMAIN BundleFiles
          BY <3>1, <4>2, Names
        <5>2. Path(d, BundleFiles[j]) \in DOMAIN files
          BY <1>2, <3>1, <5>1 DEF Staged
        <5>3. Path(d, BundleFiles[j]).ext = BundleFiles[j].ext
          BY DEF Path
        <5>4. Path(d, BundleFiles[j]) # temp
          BY <1>2, <5>1, <5>3, Places DEF temp
        <5> QED
          BY <2>5, <5>2, <5>4
      <4> QED
        BY <4>1, <4>2
    <3>3. ASSUME NEW p \in InDir(files', d)
          PROVE  /\ \E j \in 1 .. Done(t) + 1 : p = Path(d, BundleFiles[j])
                 /\ files'[p].whole /\ files'[p].synced /\ files'[p].by = task[t].call
      <4>1. CASE p = target
        <5>1. Done(t) + 1 \in 1 .. Done(t) + 1
          BY <3>1
        <5> QED
          BY <2>4, <2>5, <3>1, <4>1, <5>1
      <4>2. CASE p # target
        <5>1. p \in InDir(files, d) /\ p # temp /\ files'[p] = files[p]
          BY <2>5, <4>2 DEF InDir
        <5>2. /\ \E j \in 1 .. Done(t) : p = Path(d, BundleFiles[j])
              /\ files[p].whole /\ files[p].synced /\ files[p].by = task[t].call
          BY <1>2, <3>1, <5>1 DEF Staged, temp
        <5>3. \A j \in 1 .. Done(t) : j \in 1 .. Done(t) + 1
          BY <3>1
        <5> QED
          BY <5>1, <5>2, <5>3
      <4> QED
        BY <4>1, <4>2
    <3> QED
      BY <3>1, <3>2, <3>3
  <2>16. TempFresh(t)
    BY <2>7 DEF TempFresh
  <2> QED
    BY <1>2, <2>7, <2>8, <2>9, <2>10, <2>11, <2>12, <2>13, <2>14, <2>15, <2>16, InOwnDir
<1> QED
  BY <1>1, <1>4, <1>5

\* A staging directory that is renamed holds its whole bundle and nothing else.
LEMMA PublishBundleInv ==
    ASSUME StoreInv, NEW t \in Writers, PublishBundle(t)
    PROVE  StoreInv' /\ OutputStays
<1> DEFINE d == task[t].dir
           moved == [p \in {Path(Output, q) : q \in InDir(files, d)} |-> files[Path(d, p)]]
           kept == Removed(files, InDir(files, d) \cup InDir(files, Output))
<1>1. /\ task[t].at = "publish" /\ nextTemp' = nextTemp
      /\ \/ /\ Output \notin dirs
            /\ files' = [p \in DOMAIN kept \cup DOMAIN moved |-> IF p \in DOMAIN moved THEN moved[p] ELSE kept[p]]
            /\ dirs' = (dirs \ {d}) \cup {Output} /\ task' = [task EXCEPT ![t] = Idle]
         \/ Fail(t, files)
  BY DEF PublishBundle, Replaceable
<1>2. /\ Busy(t) /\ ~HasTemp(t) /\ TaskPlaced(t) /\ Staged(t) /\ d # Output
      /\ Bundling(t) /\ d # CacheDir /\ Done(t) = Len(BundleFiles)
  <2>1. Busy(t) /\ ~HasTemp(t) /\ TaskPlaced(t) /\ Staged(t) /\ d # Output
    BY <1>1, Places DEF Busy, HasTemp, StoreInv
  <2>2. d # CacheDir
    BY <1>1, <2>1 DEF TaskPlaced
  <2> QED
    BY <1>1, <2>1, <2>2 DEF Bundling, Done
<1>3. /\ nextTemp' = [p \in Pids |-> nextTemp'[p]]
      /\ \A p \in Pids : nextTemp'[p] \in Nat /\ nextTemp[p] <= nextTemp'[p]
  BY <1>1 DEF StoreInv
<1>4. CASE Fail(t, files)
  <2>1. Removed(files, {}) = files
    BY DEF Removed, Restrict, StoreInv, FilesKnown
  <2>2. Fail(t, Removed(files, {}))
    BY <1>4, <2>1
  <2> QED
    BY <1>2, <1>3, <2>2, FailInv
<1>5. CASE /\ Output \notin dirs
           /\ files' = [p \in DOMAIN kept \cup DOMAIN moved |-> IF p \in DOMAIN moved THEN moved[p] ELSE kept[p]]
           /\ dirs' = (dirs \ {d}) \cup {Output} /\ task' = [task EXCEPT ![t] = Idle]
  <2>1. \A p \in DOMAIN files : p.dir # Output
    BY <1>5, Names DEF StoreInv, FilesKnown
  <2>2. \A p : p \in DOMAIN kept <=> p \in DOMAIN files /\ p.dir # d
    BY <2>1 DEF Removed, Restrict, InDir
  <2>3. \A p \in DOMAIN kept : kept[p] = files[p]
    BY DEF Removed, Restrict
  <2>4. \A j \in DOMAIN BundleFiles : Path(d, BundleFiles[j]) \in InDir(files, d)
    BY <1>2, Names DEF Staged, InDir, Path
  <2>5. \A p \in InDir(files, d) :
            /\ \E j \in DOMAIN BundleFiles : p = Path(d, BundleFiles[j])
            /\ files[p].whole /\ files[p].synced /\ files[p].by = task[t].call
    BY <1>2, Names DEF Staged
  <2>6. /\ \A e, f : Path(e, f).dir = e
        /\ \A e, c, f : Path(e, Path(c, f)) = Path(e, f)
    BY DEF Path
  <2>7. \A p : p \in DOMAIN moved <=> \E j \in DOMAIN BundleFiles : p = Path(Output, BundleFiles[j])
    <3>1. ASSUME NEW q \in InDir(files, d)
          PROVE  \E j \in DOMAIN BundleFiles : Path(Output, q) = Path(Output, BundleFiles[j])
      BY <2>5, <2>6
    <3>2. ASSUME NEW j \in DOMAIN BundleFiles
          PROVE  \E q \in InDir(files, d) : Path(Output, BundleFiles[j]) = Path(Output, q)
      BY <2>4, <2>6
    <3> QED
      BY <3>1, <3>2
  <2>8. \A j \in DOMAIN BundleFiles : moved[Path(Output, BundleFiles[j])] = files[Path(d, BundleFiles[j])]
    <3> SUFFICES ASSUME NEW j \in DOMAIN BundleFiles
                 PROVE  moved[Path(Output, BundleFiles[j])] = files[Path(d, BundleFiles[j])]
      OBVIOUS
    <3>1. Path(Output, BundleFiles[j]) \in DOMAIN moved
      BY <2>7
    <3>2. moved[Path(Output, BundleFiles[j])] = files[Path(d, Path(Output, BundleFiles[j]))]
      BY <3>1
    <3> QED
      BY <2>6, <3>2
  <2> HIDE DEF moved, kept, d
  <2>9. /\ files' = [p \in DOMAIN files' |-> files'[p]]
        /\ \A p : p \in DOMAIN files' <=> p \in DOMAIN kept \/ p \in DOMAIN moved
        /\ \A p \in DOMAIN moved : files'[p] = moved[p]
        /\ \A p \in DOMAIN kept : p \notin DOMAIN moved => files'[p] = kept[p]
    BY <1>5
  <2>10. \A p \in DOMAIN moved :
            /\ p.dir = Output /\ p = Path(p.dir, p)
            /\ files'[p].whole /\ files'[p].synced /\ files'[p].by = task[t].call
            /\ files'[p] = [by |-> files'[p].by, of |-> files'[p].of, whole |-> files'[p].whole,
                            synced |-> files'[p].synced]
    <3> SUFFICES ASSUME NEW p \in DOMAIN moved
                 PROVE  /\ p.dir = Output /\ p = Path(p.dir, p)
                        /\ files'[p].whole /\ files'[p].synced /\ files'[p].by = task[t].call
                        /\ files'[p] = [by |-> files'[p].by, of |-> files'[p].of, whole |-> files'[p].whole,
                                        synced |-> files'[p].synced]
      OBVIOUS
    <3>1. PICK j \in DOMAIN BundleFiles : p = Path(Output, BundleFiles[j])
      BY <2>7
    <3>2. files'[p] = files[Path(d, BundleFiles[j])] /\ Path(d, BundleFiles[j]) \in InDir(files, d)
      BY <2>4, <2>8, <2>9, <3>1
    <3>3. p.dir = Output /\ p = Path(p.dir, p)
      BY <2>6, <3>1
    <3>4. files[Path(d, BundleFiles[j])] =
            [by |-> files[Path(d, BundleFiles[j])].by, of |-> files[Path(d, BundleFiles[j])].of,
             whole |-> files[Path(d, BundleFiles[j])].whole, synced |-> files[Path(d, BundleFiles[j])].synced]
      BY <3>2 DEF StoreInv, FilesKnown, InDir
    <3> QED
      BY <2>5, <3>2, <3>3, <3>4
  <2>11. \A p : p \in DOMAIN files' /\ p \notin DOMAIN moved <=> p \in DOMAIN files /\ p.dir # d
    BY <2>1, <2>2, <2>9, <2>10
  <2>12. \A p \in DOMAIN files : p.dir # d => files'[p] = files[p]
    BY <2>2, <2>3, <2>9, <2>11
  <2>13. FilesKnown'
    <3>1. \A p \in DOMAIN files : p.dir # d => p.dir \in dirs' \cup {CacheDir}
      BY <1>5 DEF StoreInv, FilesKnown, d
    <3>2. Output \in dirs'
      BY <1>5
    <3>3. ASSUME NEW p \in DOMAIN files'
          PROVE  /\ p = Path(p.dir, p) /\ p.dir \in dirs' \cup {CacheDir}
                 /\ files'[p] = [by |-> files'[p].by, of |-> files'[p].of, whole |-> files'[p].whole,
                                 synced |-> files'[p].synced]
      <4>1. CASE p \in DOMAIN moved
        BY <2>10, <3>2, <4>1
      <4>2. CASE p \notin DOMAIN moved
        <5>1. p \in DOMAIN files /\ p.dir # d /\ files'[p] = files[p]
          BY <2>11, <2>12, <3>3, <4>2
        <5>2. /\ p = Path(p.dir, p) /\ p.dir \in dirs' \cup {CacheDir}
              /\ files[p] = [by |-> files[p].by, of |-> files[p].of, whole |-> files[p].whole,
                             synced |-> files[p].synced]
          BY <3>1, <5>1 DEF StoreInv, FilesKnown
        <5> QED
          BY <5>1, <5>2
      <4> QED
        BY <4>1, <4>2
    <3>4. files' = [p \in DOMAIN files' |-> files'[p]]
      BY <2>9
    <3> QED
      BY <3>3, <3>4 DEF FilesKnown
  <2>14. CacheSynced'
    <3> SUFFICES ASSUME NEW p \in DOMAIN files', p.dir = CacheDir, p.ext = <<"inferfabric-bin">>
                 PROVE  /\ files'[p].whole /\ files'[p].synced
                        /\ files'[p].of = [stem |-> p.stem, ext |-> p.ext]
      BY DEF CacheSynced, InDir
    <3>1. p \in DOMAIN files /\ files'[p] = files[p]
      BY <2>10, <2>11, <2>12, Names
    <3>2. /\ files[p].whole /\ files[p].synced
          /\ files[p].of = [stem |-> p.stem, ext |-> p.ext]
      BY <3>1 DEF StoreInv, CacheSynced, InDir
    <3> QED
      BY <3>1, <3>2
  <2>15. OutputSynced'
    <3>1. \A p : p \in InDir(files', Output) <=> p \in DOMAIN moved
      BY <2>1, <2>9, <2>10, <2>11 DEF InDir
    <3>2. InDir(files', Output) = {Path(Output, BundleFiles[k]) : k \in DOMAIN BundleFiles}
      BY <2>7, <3>1
    <3> QED
      BY <2>10, <3>1, <3>2 DEF OutputSynced
  <2>16. task'[t] = Idle
    BY <1>5 DEF StoreInv
  <2>17. ~Busy(t)' /\ ~HasTemp(t)' /\ ~Bundling(t)'
    BY <2>16 DEF Busy, HasTemp, Bundling, Idle
  <2>18. TaskPlaced(t)' /\ TempOwned(t)' /\ Staged(t)'
    BY <2>16, <2>17 DEF TaskPlaced, TempOwned, Staged, Idle
  <2>19. OwnTask(t)
    BY <1>3, <1>5 DEF OwnTask, StoreInv
  <2>20. ASSUME NEW u \in Writers \ {t}, Bundling(u)
         PROVE  /\ task[u].dir \in dirs'
                /\ \A p : p \in InDir(files', task[u].dir) <=> p \in InDir(files, task[u].dir)
                /\ \A p \in InDir(files, task[u].dir) : files'[p] = files[p]
    <3>1. task[u].dir # d /\ task[u].dir \in dirs /\ task[u].dir # Output
      BY <1>2, <2>20, Places DEF StoreInv, Apart, Bundling, d
    <3> QED
      BY <1>5, <2>10, <2>11, <2>12, <3>1 DEF InDir, d
  <2>21. ASSUME NEW u \in Writers \ {t}, HasTemp(u), task[u].temp \in DOMAIN files'
         PROVE  task[u].temp \in DOMAIN files /\ files'[task[u].temp] = files[task[u].temp]
    <3>1. task[u].temp.dir # Output
      BY <2>21, Places
    <3> QED
      BY <2>10, <2>11, <2>12, <2>21, <3>1
  <2>22. StoreInv'
    BY <2>13, <2>14, <2>15, <2>17, <2>18, <2>19, <2>20, <2>21, OneWriter DEF OwnTask
  <2> QED
    BY <1>5, <2>22 DEF OutputStays
<1> QED
  BY <1>1, <1>4, <1>5

\* A killed process leaves its files; the numbers it starts again from are those
\* of no live temporary.
LEMMA KillInv ==
    ASSUME StoreInv, NEW pid \in Pids, Kill(pid)
    PROVE  StoreInv' /\ OutputStays
<1>1. /\ files' = files /\ dirs' = dirs
      /\ task' = [t \in Writers |-> IF PidOf[t] = pid THEN Idle ELSE task[t]]
      /\ nextTemp' = [nextTemp EXCEPT ![pid] = 0]
  BY DEF Kill
<1>2. OutputKept
  BY <1>1 DEF OutputKept
<1>3. FilesKnown' /\ CacheSynced' /\ OutputSynced'
  BY <1>1, <1>2, OutputHolds DEF StoreInv, FilesKnown, CacheSynced
<1>4. /\ nextTemp' = [p \in Pids |-> nextTemp'[p]]
      /\ \A p \in Pids : nextTemp'[p] \in Nat /\ (p # pid => nextTemp'[p] = nextTemp[p])
  BY <1>1 DEF StoreInv
<1>5. ASSUME NEW t \in Writers
      PROVE  \/ ~Busy(t)' /\ ~HasTemp(t)' /\ ~Bundling(t)' /\ task'[t] = Idle
             \/ /\ task'[t] = task[t] /\ PidOf[t] # pid
                /\ (Busy(t)' <=> Busy(t)) /\ (HasTemp(t)' <=> HasTemp(t)) /\ (Bundling(t)' <=> Bundling(t))
                /\ Done(t)' = Done(t)
  <2>1. CASE PidOf[t] = pid
    BY <1>1, <2>1 DEF Busy, HasTemp, Bundling, Idle
  <2>2. CASE PidOf[t] # pid
    BY <1>1, <2>2 DEF Busy, HasTemp, Bundling, Done
  <2> QED
    BY <2>1, <2>2
<1>6. ASSUME NEW t \in Writers
      PROVE  TaskPlaced(t)' /\ TempOwned(t)' /\ Staged(t)'
  <2>1. CASE ~Busy(t)' /\ ~HasTemp(t)' /\ ~Bundling(t)' /\ task'[t] = Idle
    BY <2>1 DEF TaskPlaced, TempOwned, Staged, Idle
  <2>2. CASE /\ task'[t] = task[t] /\ PidOf[t] # pid
             /\ (Busy(t)' <=> Busy(t)) /\ (HasTemp(t)' <=> HasTemp(t)) /\ (Bundling(t)' <=> Bundling(t))
             /\ Done(t)' = Done(t)
    <3>1. TaskPlaced(t) /\ TempOwned(t) /\ Staged(t) /\ PidOf[t] \in Pids
      BY Places DEF StoreInv
    <3>2. nextTemp'[PidOf[t]] = nextTemp[PidOf[t]]
      BY <1>4, <2>2, <3>1
    <3>3. TaskPlaced(t)'
      BY <1>1, <2>2, <3>1 DEF TaskPlaced
    <3>4. TempOwned(t)'
      BY <1>1, <2>2, <3>1, <3>2 DEF TempOwned
    <3>5. Staged(t)'
      BY <1>1, <2>2, <3>1 DEF Staged
    <3> QED
      BY <3>3, <3>4, <3>5
  <2> QED
    BY <1>5, <2>1, <2>2
<1>7. Apart'
  BY <1>5 DEF StoreInv, Apart
<1> QED
  BY <1>1, <1>2, <1>3, <1>4, <1>6, <1>7 DEF StoreInv, OutputStays

\* What is under a final name was synced before it was renamed.
LEMMA PowerLossInv ==
    ASSUME StoreInv, PowerLoss
    PROVE  StoreInv' /\ OutputStays
<1>1. /\ dirs' = dirs
      /\ task' = [t \in Writers |-> Idle] /\ nextTemp' = [p \in Pids |-> 0]
      /\ files' = [p \in DOMAIN files |-> IF files[p].synced THEN files[p] ELSE [files[p] EXCEPT !.whole = FALSE]]
  BY DEF PowerLoss
<1>2. /\ files' = [p \in DOMAIN files' |-> files'[p]]
      /\ \A p : p \in DOMAIN files' <=> p \in DOMAIN files
      /\ \A p \in DOMAIN files : files[p].synced => files'[p] = files[p]
  BY <1>1
<1>3. FilesKnown'
  <2>1. ASSUME NEW p \in DOMAIN files
        PROVE  files'[p] = [by |-> files'[p].by, of |-> files'[p].of, whole |-> files'[p].whole,
                            synced |-> files'[p].synced]
    BY <1>1 DEF StoreInv, FilesKnown
  <2> QED
    BY <1>1, <1>2, <2>1 DEF StoreInv, FilesKnown
<1>4. Output \in dirs => OutputKept
  BY <1>1, <1>2 DEF StoreInv, OutputSynced, OutputKept, InDir
<1>5. OutputSynced'
  <2>1. CASE Output \in dirs
    BY <1>4, <2>1, OutputHolds DEF StoreInv
  <2>2. CASE Output \notin dirs
    BY <1>1, <2>2 DEF OutputSynced
  <2> QED
    BY <2>1, <2>2
<1>6. CacheSynced'
  BY <1>2 DEF StoreInv, CacheSynced, InDir
<1>7. \A t \in Writers : task'[t] = Idle /\ ~Busy(t)' /\ ~HasTemp(t)' /\ ~Bundling(t)'
  BY <1>1 DEF Busy, HasTemp, Bundling, Idle
<1>8. ASSUME NEW t \in Writers
      PROVE  TaskPlaced(t)' /\ TempOwned(t)' /\ Staged(t)'
  <2>1. task'[t] = Idle /\ ~Busy(t)' /\ ~HasTemp(t)' /\ ~Bundling(t)'
    BY <1>7
  <2>2. TaskPlaced(t)'
    BY <2>1 DEF TaskPlaced, Idle
  <2>3. TempOwned(t)' /\ Staged(t)'
    BY <2>1 DEF TempOwned, Staged
  <2> QED
    BY <2>2, <2>3
<1>9. Apart'
  BY <1>7 DEF Apart
<1>10. StoreInv'
  BY <1>1, <1>3, <1>5, <1>6, <1>8, <1>9 DEF StoreInv
<1> QED
  BY <1>4, <1>10 DEF OutputStays

\* Nothing under a final name is partial, another's or unsynced, and what was
\* published stays as it was: cached and write_bundle_with_variants, interleaved,
\* killed and cut off at any system call.
THEOREM PublishedForGood == StoreSpec => PublishedOnce
<1> DEFINE Same == (Output \in dirs) => Output \in dirs' /\ Content(files', Output) = Content(files, Output)
<1>1. StoreInit => StoreInv
  BY DEF StoreInit, StoreInv, FilesKnown, CacheSynced, OutputSynced, TaskPlaced, TempOwned, Staged, Apart,
         Idle, Busy, HasTemp, Bundling, InDir
<1>2. StoreInv /\ [StoreNext]_storeVars => StoreInv' /\ OutputStays
  <2> SUFFICES ASSUME StoreInv, [StoreNext]_storeVars
               PROVE  StoreInv' /\ OutputStays
    OBVIOUS
  <2>1. ASSUME NEW t \in Writers, NEW k \in Keys, Cached(t, k)
        PROVE  StoreInv' /\ OutputStays
    BY <2>1, CachedInv
  <2>2. ASSUME NEW t \in Writers, WriteBundle(t)
        PROVE  StoreInv' /\ OutputStays
    BY <2>2, WriteBundleInv
  <2>3. ASSUME NEW t \in Writers, Stage(t)
        PROVE  StoreInv' /\ OutputStays
    BY <2>3, StageInv
  <2>4. ASSUME NEW t \in Writers, CreateTemp(t)
        PROVE  StoreInv' /\ OutputStays
    BY <2>4, CreateTempInv
  <2>5. ASSUME NEW t \in Writers, WriteTemp(t)
        PROVE  StoreInv' /\ OutputStays
    BY <2>5, WriteTempInv
  <2>6. ASSUME NEW t \in Writers, SyncTemp(t)
        PROVE  StoreInv' /\ OutputStays
    BY <2>6, SyncTempInv
  <2>7. ASSUME NEW t \in Writers, RenameTemp(t)
        PROVE  StoreInv' /\ OutputStays
    BY <2>7, RenameTempInv
  <2>8. ASSUME NEW t \in Writers, PublishBundle(t)
        PROVE  StoreInv' /\ OutputStays
    BY <2>8, PublishBundleInv
  <2>9. ASSUME NEW p \in Pids, Kill(p)
        PROVE  StoreInv' /\ OutputStays
    BY <2>9, KillInv
  <2>10. CASE PowerLoss
    BY <2>10, PowerLossInv
  <2>11. CASE UNCHANGED storeVars
    <3>1. files' = files /\ dirs' = dirs /\ nextTemp' = nextTemp /\ task' = task
      BY <2>11 DEF storeVars
    <3>2. OutputKept
      BY <3>1 DEF OutputKept
    <3>3. FilesKnown' /\ CacheSynced' /\ OutputSynced'
      BY <3>1, <3>2, OutputHolds DEF StoreInv, FilesKnown, CacheSynced
    <3>4. ASSUME NEW t \in Writers
          PROVE  /\ (Busy(t)' <=> Busy(t)) /\ (HasTemp(t)' <=> HasTemp(t))
                 /\ (Bundling(t)' <=> Bundling(t)) /\ Done(t)' = Done(t)
      BY <3>1 DEF Busy, HasTemp, Bundling, Done
    <3>5. ASSUME NEW t \in Writers
          PROVE  TaskPlaced(t)' /\ TempOwned(t)' /\ Staged(t)'
      <4>1. TaskPlaced(t) /\ TempOwned(t) /\ Staged(t)
        BY DEF StoreInv
      <4>2. TaskPlaced(t)'
        BY <3>1, <3>4, <4>1 DEF TaskPlaced
      <4>3. TempOwned(t)'
        BY <3>1, <3>4, <4>1 DEF TempOwned
      <4>4. Staged(t)'
        BY <3>1, <3>4, <4>1 DEF Staged
      <4> QED
        BY <4>2, <4>3, <4>4
    <3>6. Apart'
      BY <3>1, <3>4 DEF StoreInv, Apart
    <3> QED
      BY <3>1, <3>2, <3>3, <3>5, <3>6 DEF StoreInv, OutputStays
  <2> QED
    BY <2>1, <2>2, <2>3, <2>4, <2>5, <2>6, <2>7, <2>8, <2>9, <2>10, <2>11 DEF StoreNext
<1>3. StoreInv => PublishedWhole
  <2> SUFFICES ASSUME StoreInv
               PROVE  PublishedWhole
    OBVIOUS
  <2>1. \A t \in Writers : task[t].at # "corrupt"
    BY DEF StoreInv, TaskPlaced, Busy
  <2> QED
    BY <2>1 DEF StoreInv, CacheSynced, OutputSynced, PublishedWhole
<1>4. OutputStays => Same
  <2> SUFFICES ASSUME Output \in dirs, OutputKept
               PROVE  Output \in dirs' /\ Content(files', Output) = Content(files, Output)
    BY DEF OutputStays
  <2> QED
    BY DEF OutputKept, Content, Restrict
<1>5. StoreInv /\ [StoreNext]_storeVars => [Same]_storeVars
  BY <1>2, <1>4
<1> QED
  BY <1>1, <1>2, <1>3, <1>5, PTL DEF StoreSpec, PublishedOnce

----------------------------------------------------------------------------
(* The serving manifest.                                                   *)

\* What a maximum is.
LEMMA MaxIs ==
    ASSUME NEW S \in SUBSET Int, NEW u \in S, \A w \in S : w <= u
    PROVE  Max(S) = u
<1>1. \A y \in S : u >= y
  OBVIOUS
<1>2. Max(S) \in S /\ \A y \in S : Max(S) >= y
  BY <1>1 DEF Max
<1>3. Max(S) >= u /\ u >= Max(S) /\ Max(S) \in Int
  BY <1>1, <1>2
<1> QED
  BY <1>3

\* What a minimum of two is.
LEMMA MinOfTwo ==
    ASSUME NEW a \in Int, NEW b \in Int
    PROVE  /\ Min({a, b}) \in {a, b} /\ Min({a, b}) <= a /\ Min({a, b}) <= b
<1>1. \E x \in {a, b} : \A y \in {a, b} : x <= y
  <2>1. CASE a <= b
    BY <2>1
  <2>2. CASE b <= a
    BY <2>2
  <2> QED
    BY <2>1, <2>2
<1>2. Min({a, b}) \in {a, b} /\ \A y \in {a, b} : Min({a, b}) <= y
  BY <1>1 DEF Min
<1> QED
  BY <1>2

\* The maximum of a finite set of numbers is one of them.
LEMMA MaxIn ==
    ASSUME NEW S \in SUBSET Nat, IsFiniteSet(S), S # {}
    PROVE  Max(S) \in S /\ \A w \in S : w <= Max(S)
<1>1. PICK u \in S : \A w \in S : w <= u
  BY GreatestMember
<1>2. S \in SUBSET Int
  OBVIOUS
<1>3. Max(S) = u
  BY <1>1, <1>2, MaxIs
<1> QED
  BY <1>1, <1>3

----------------------------------------------------------------------------
(* Rings.                                                                  *)

\* The row of position x in a ring of count pages.
RowIn(page, count, x) == ((x \div page) % count) * page + (x % page)

\* Two positions share a row only when they are a ring apart, in pages and in
\* positions.
LEMMA RowRepeats ==
    ASSUME NEW page \in Nat \ {0}, NEW count \in Nat \ {0}, NEW x \in Nat, NEW y \in Nat,
           x < y, RowIn(page, count, x) = RowIn(page, count, y)
    PROVE  /\ count * page \in Nat
           /\ y - x >= count * page /\ y \div page >= count
<1> DEFINE X == x \div page
           Y == y \div page
           rx == x % page
           ry == y % page
           X1 == X \div count
           Y1 == Y \div count
           t == X % count
           v == Y % count
<1>x. X \in Nat /\ rx \in 0 .. page - 1 /\ x = (page * X) + rx
  BY Division
<1>y. Y \in Nat /\ ry \in 0 .. page - 1 /\ y = (page * Y) + ry
  BY Division
<1>1. X1 \in Nat /\ t \in 0 .. count - 1 /\ X = (count * X1) + t
  <2> HIDE DEF X
  <2> QED
    BY <1>x, Division
<1>2. Y1 \in Nat /\ v \in 0 .. count - 1 /\ Y = (count * Y1) + v
  <2> HIDE DEF Y
  <2> QED
    BY <1>y, Division
<1>3. (t * page) + rx = (v * page) + ry
  BY DEF RowIn
<1>z. Y = y \div page
  OBVIOUS
<1> HIDE DEF X, Y, rx, ry, X1, Y1, t, v
<1>4. t = v /\ rx = ry
  <2> DEFINE z == (page * t) + rx
  <2>1. t \in Int /\ v \in Int /\ rx \in Int /\ ry \in Int
    BY <1>1, <1>2, <1>x, <1>y
  <2>2. page * t = t * page /\ page * v = v * page /\ page * t \in Int /\ page * v \in Int
    BY <2>1
  <2>3. z \in Int /\ z = (page * t) + rx /\ z = (page * v) + ry
    BY <1>3, <2>1, <2>2
  <2> HIDE DEF z
  <2>4. z % page = rx /\ z \div page = t
    BY <1>x, <2>1, <2>3, DivisionUnique
  <2>5. z % page = ry /\ z \div page = v
    BY <1>y, <2>1, <2>3, DivisionUnique
  <2> QED
    BY <2>4, <2>5
<1>5. X < Y
  <2>1. SUFFICES ASSUME Y <= X PROVE FALSE
    BY <1>x, <1>y
  <2>2. page * Y \in Int /\ page * X \in Int /\ page * Y <= page * X
    BY <1>x, <1>y, <2>1, TimesMonotone
  <2> QED
    BY <1>x, <1>y, <1>4, <2>2
<1>6. X1 < Y1
  <2>1. SUFFICES ASSUME Y1 <= X1 PROVE FALSE
    BY <1>1, <1>2
  <2>2. count * Y1 \in Int /\ count * X1 \in Int /\ count * Y1 <= count * X1
    BY <1>1, <1>2, <2>1, TimesMonotone
  <2> QED
    BY <1>1, <1>2, <1>4, <1>5, <2>2
<1>7. X + count <= Y
  <2>1. count * (X1 + 1) \in Int /\ count * Y1 \in Int /\ count * (X1 + 1) <= count * Y1
    BY <1>1, <1>2, <1>6, TimesMonotone
  <2>2. count * (X1 + 1) = (count * X1) + count /\ count * X1 \in Int
    BY <1>1
  <2> QED
    BY <1>1, <1>2, <1>4, <2>1, <2>2
<1>8. page * (X + count) \in Int /\ page * Y \in Int /\ page * (X + count) <= page * Y
  BY <1>7, <1>x, <1>y, TimesMonotone
<1>9. page * (X + count) = (page * X) + (count * page) /\ page * X \in Int /\ count * page \in Nat
  BY <1>x
<1> QED
  BY <1>7, <1>8, <1>9, <1>x, <1>y, <1>z, <1>4

\* What sliding_capacity gives is a number of whole pages, and two positions of the
\* context share a row only if one comes after all that a query behind the other
\* in its window, or written with it, can need.
RingFits(capacity, context, window, query, page) ==
    /\ capacity \in Nat \ {0} /\ capacity % page = 0
    /\ \A x, y \in 0 .. context - 1 :
          x < y /\ RowIn(page, capacity \div page, x) = RowIn(page, capacity \div page, y)
             => y - x >= window + query - 1

LEMMA SlidingCapacityFits ==
    ASSUME NEW context \in Nat \ {0}, NEW window \in Nat \ {0}, NEW query \in Nat \ {0}, NEW page \in Nat \ {0}
    PROVE  RingFits(SlidingCapacity(context, window, query, page), context, window, query, page)
<1>r. PICK retained \in Nat : retained = window + query - 1 /\ retained >= 1
  OBVIOUS
<1>d. PICK q : q = (retained + page - 2) \div page
  OBVIOUS
<1>b. PICK b : b = PageCount(context, page)
  OBVIOUS
<1>1. b \in Nat \ {0}
  <2>1. 0 \in 0 .. context - 1 /\ 0 \div page = 0
    OBVIOUS
  <2>2. 0 < b
    BY <2>1, <1>b, PagesCover DEF PageCount
  <2>3. b \in Nat
    BY <1>b, PagesHold DEF PageCount
  <2> QED
    BY <2>2, <2>3
<1>2. q \in Nat /\ retained + page - 2 < (page * q) + page /\ page * q \in Nat
  <2>1. retained + page - 2 \in Nat
    BY <1>r
  <2>2. /\ q \in Nat /\ (retained + page - 2) % page \in 0 .. page - 1
        /\ retained + page - 2 = (page * q) + ((retained + page - 2) % page)
    BY <2>1, <1>d, Division
  <2>3. page * q \in Nat
    BY <2>2
  <2> QED
    BY <2>2, <2>3
<1>c. PICK c : c = Min({q + 1, b})
  OBVIOUS
<1>3. c \in Nat \ {0} /\ (c = q + 1 \/ c = b)
  <2>1. q + 1 \in Int /\ b \in Int
    BY <1>1, <1>2
  <2>2. c \in {q + 1, b}
    BY <1>c, <2>1, MinOfTwo
  <2> QED
    BY <1>1, <1>2, <2>2
<1>4. SlidingCapacity(context, window, query, page) = c * page
  BY <1>r, <1>d, <1>b, <1>c DEF SlidingCapacity
<1>5. c * page \in Nat \ {0} /\ (c * page) % page = 0 /\ (c * page) \div page = c
  <2> DEFINE z == c * page
  <2>1. c \in Int /\ z \in Int /\ z = page * c /\ 0 \in 0 .. page - 1 /\ page * c \in Int
    BY <1>3
  <2>2. page <= page * c
    BY <1>3, TimesMonotone
  <2> HIDE DEF z
  <2>3. z = (page * c) + 0
    BY <2>1
  <2>4. z % page = 0 /\ z \div page = c
    BY <2>1, <2>3, DivisionUnique
  <2>5. z \in Nat \ {0}
    BY <2>1, <2>2
  <2> QED
    BY <2>4, <2>5 DEF z
<1>6. ASSUME NEW x \in 0 .. context - 1, NEW y \in 0 .. context - 1, x < y,
             RowIn(page, c, x) = RowIn(page, c, y)
      PROVE  y - x >= retained
  <2>1. c * page \in Nat /\ y - x >= c * page /\ y \div page >= c
    BY <1>3, <1>6, RowRepeats
  <2>2. CASE c = q + 1
    <3>1. c * page = (page * q) + page
      BY <1>2, <2>2
    <3> QED
      BY <1>r, <1>2, <2>1, <3>1
  <2>3. CASE c = b
    <3>1. y \div page < b
      BY <1>b, PagesCover DEF PageCount
    <3>2. y \div page \in Nat
      BY Division
    <3> QED
      BY <1>1, <2>1, <2>3, <3>1, <3>2
  <2> QED
    BY <1>3, <2>2, <2>3
<1> QED
  BY <1>r, <1>4, <1>5, <1>6 DEF RingFits

----------------------------------------------------------------------------
(* The program and its variants.                                           *)

Sized(p) ==
    /\ p.context \in Nat \ {0} /\ p.ranks \in Nat \ {0}
    /\ p.variants \in Seq(Nat) /\ p.uncaptured \in BOOLEAN

\* The widths of the chunks grow up to the widest.
WidthsOf(p, widths) ==
    /\ p.prefill \in Nat /\ 1 <= p.prefill /\ p.prefill <= p.context
    /\ widths \in Seq(Nat) /\ Len(widths) + 1 <= MaxVariants
    /\ \A k \in 1 .. Len(widths) : 2 <= widths[k] /\ widths[k] <= p.prefill
    /\ \A j, k \in 1 .. Len(widths) : j < k => widths[j] < widths[k]
    /\ p.prefill # 1 => Len(widths) # 0 /\ widths[Len(widths)] = p.prefill
    /\ p.uncaptured => Len(widths) = 1 /\ widths[1] = UncapturedWidth
    /\ ~p.uncaptured => \A k \in 1 .. Len(widths) : widths[k] \in ExactWidths

\* The widths that the with_* options leave are such.
LEMMA WidthsGrow ==
    ASSUME NEW p, Sized(p), ServableProgram(p)
    PROVE  WidthsOf(p, PrefillCounts(p))
<1>1. /\ UncapturedWidth \in Nat /\ 2 <= UncapturedWidth /\ MaxVariants \in Nat /\ 2 <= MaxVariants
      /\ \A w \in ExactWidths : w \in Nat /\ 2 <= w
  <2>1. ExactWidths \cup {UncapturedWidth, MaxVariants} \subseteq Nat \ {0, 1}
    BY EnvelopeAssumption
  <2>2. UncapturedWidth \in Nat \ {0, 1} /\ MaxVariants \in Nat \ {0, 1} /\ ExactWidths \subseteq Nat \ {0, 1}
    BY <2>1
  <2>3. \A w \in Nat \ {0, 1} : 2 <= w
    OBVIOUS
  <2> QED
    BY <2>2, <2>3
<1>2. p.prefill \in Nat /\ 1 <= p.prefill /\ p.prefill <= p.context
  BY <1>1 DEF Sized, ServableProgram
<1>3. CASE p.variants # << >>
  <2> DEFINE n == Len(p.variants)
  <2>1. /\ n \in Nat /\ n # 0 /\ n < MaxVariants /\ DOMAIN p.variants = 1 .. n
        /\ \A k \in 1 .. n : p.variants[k] \in Nat
        /\ \A k \in 1 .. n - 1 : p.variants[k] < p.variants[k + 1]
        /\ p.variants[n] = p.prefill
    BY <1>3 DEF Sized, ServableProgram, Last
  <2>2. \A k \in 1 .. n : p.variants[k] \in ExactWidths
    BY <2>1 DEF ServableProgram, Range
  <2>3. ~p.uncaptured /\ PrefillCounts(p) = p.variants
    BY <1>3 DEF ServableProgram, PrefillCounts
  <2> HIDE DEF n
  <2>4. \A j, k \in 1 .. n : j < k => p.variants[j] < p.variants[k]
    BY <2>1, Ascending
  <2>5. ASSUME NEW k \in 1 .. n PROVE p.variants[k] <= p.prefill
    <3>1. CASE k = n
      BY <1>2, <2>1, <3>1
    <3>2. CASE k # n
      <4>1. k < n /\ n \in 1 .. n
        BY <2>1, <3>2
      <4>2. p.variants[k] < p.variants[n]
        BY <2>4, <4>1
      <4> QED
        BY <1>2, <2>1, <4>2
    <3> QED
      BY <3>1, <3>2
  <2>6. p.variants \in Seq(Nat)
    BY DEF Sized
  <2>7. n + 1 <= MaxVariants
    BY <1>1, <2>1
  <2> QED
    BY <1>1, <1>2, <2>1, <2>2, <2>3, <2>4, <2>5, <2>6, <2>7 DEF WidthsOf, n
<1>4. CASE p.variants = << >> /\ p.prefill > 1
  <2>1. PrefillCounts(p) = <<p.prefill>>
    BY <1>4 DEF PrefillCounts
  <2>2. /\ <<p.prefill>> \in Seq(Nat) /\ Len(<<p.prefill>>) = 1
        /\ \A k \in 1 .. 1 : k = 1 /\ <<p.prefill>>[k] = p.prefill
    BY <1>2
  <2>3. IF p.uncaptured THEN p.prefill = UncapturedWidth ELSE p.prefill \in ExactWidths
    BY <1>2, <1>4 DEF ServableProgram
  <2>4. 2 <= p.prefill
    BY <1>2, <1>4
  <2> QED
    BY <1>1, <1>2, <2>1, <2>2, <2>3, <2>4 DEF WidthsOf
<1>5. CASE p.variants = << >> /\ ~(p.prefill > 1)
  <2>1. PrefillCounts(p) = << >> /\ p.prefill = 1
    BY <1>2, <1>5 DEF PrefillCounts
  <2>2. ~p.uncaptured
    BY <1>1, <2>1 DEF ServableProgram
  <2> QED
    BY <1>1, <1>2, <2>1, <2>2 DEF WidthsOf
<1> QED
  BY <1>3, <1>4, <1>5

\* The first variant decodes; the others are chunks.
VariantsOf(p, widths, variants) ==
    /\ Len(variants) = Len(widths) + 1 /\ DOMAIN variants = 1 .. Len(widths) + 1
    /\ variants[1] = SerialVariant(p)
    /\ \A k \in 2 .. Len(widths) + 1 : variants[k] = PrefillVariant(p, widths[k - 1])

\* program_envelope appends a variant per width.
LEMMA EnvelopeVariants ==
    ASSUME NEW graph, NEW p, PrefillCounts(p) \in Seq(Nat)
    PROVE  VariantsOf(p, PrefillCounts(p), ProgramEnvelope(graph, p).variants)
<1> DEFINE widths == PrefillCounts(p)
           serial == <<SerialVariant(p)>>
           chunks == [k \in DOMAIN widths |-> PrefillVariant(p, widths[k])]
<1>1. Len(widths) \in Nat /\ DOMAIN widths = 1 .. Len(widths)
  OBVIOUS
<1>2. ProgramEnvelope(graph, p).variants = serial \o chunks
  BY DEF ProgramEnvelope, Envelope
<1>3. /\ chunks \in Seq({PrefillVariant(p, widths[k]) : k \in DOMAIN widths}) /\ Len(chunks) = Len(widths)
      /\ \A k \in 1 .. Len(widths) : chunks[k] = PrefillVariant(p, widths[k])
  <2> HIDE DEF widths
  <2> QED
    BY <1>1
<1>4. serial \in Seq({SerialVariant(p)}) /\ Len(serial) = 1 /\ serial[1] = SerialVariant(p)
  OBVIOUS
<1> HIDE DEF widths, serial, chunks
<1>5. /\ Len(serial \o chunks) = Len(widths) + 1 /\ DOMAIN (serial \o chunks) = 1 .. Len(widths) + 1
      /\ (serial \o chunks)[1] = SerialVariant(p)
      /\ \A k \in 2 .. Len(widths) + 1 : (serial \o chunks)[k] = chunks[k - 1]
  <2> DEFINE All == {PrefillVariant(p, widths[k]) : k \in DOMAIN widths} \cup {SerialVariant(p)}
  <2>1. serial \in Seq(All) /\ chunks \in Seq(All)
    BY <1>3, <1>4
  <2> HIDE DEF All
  <2>2. Len(serial \o chunks) = Len(serial) + Len(chunks) /\ serial \o chunks \in Seq(All)
    BY <2>1
  <2>3. \A k \in 1 .. Len(serial) + Len(chunks) :
            (serial \o chunks)[k] = IF k <= Len(serial) THEN serial[k] ELSE chunks[k - Len(serial)]
    BY <2>1
  <2> QED
    BY <1>1, <1>3, <1>4, <2>2, <2>3
<1>6. \A k \in 2 .. Len(widths) + 1 : chunks[k - 1] = PrefillVariant(p, widths[k - 1])
  BY <1>1, <1>3
<1> QED
  BY <1>2, <1>5, <1>6 DEF VariantsOf, widths

\* Manifest::validate takes a decode and chunks that grow.
VariantsTaken(m) ==
    /\ m.variants # << >>
    /\ \A j, k \in DOMAIN m.variants : m.variants[j].class = m.variants[k].class => j = k
    /\ \A k \in DOMAIN m.variants : VariantOK(m.variants[k])

LEMMA VariantsJudged ==
    ASSUME NEW p, p.context \in Nat \ {0}, NEW widths \in Seq(Nat), NEW m, VariantsOf(p, widths, m.variants),
           \A k \in 1 .. Len(widths) : 2 <= widths[k] /\ widths[k] <= p.context,
           \A j, k \in 1 .. Len(widths) : j < k => widths[j] < widths[k]
    PROVE  VariantsTaken(m)
<1> DEFINE n == Len(widths)
           v(k) == m.variants[k]
<1>1. n \in Nat /\ \A k \in 1 .. n : widths[k] \in Nat
  OBVIOUS
<1>2. DOMAIN m.variants = 1 .. n + 1 /\ Len(m.variants) = n + 1
  BY DEF VariantsOf
<1>3. v(1) = SerialVariant(p)
  BY DEF VariantsOf
<1>4. \A k \in 2 .. n + 1 : v(k) = PrefillVariant(p, widths[k - 1])
  BY DEF VariantsOf
<1> HIDE DEF n, v
<1>5. VariantOK(v(1)) /\ v(1).class = <<"serial", 1>>
  BY <1>3 DEF VariantOK, SerialVariant
<1>6. ASSUME NEW k \in 2 .. n + 1
      PROVE  /\ VariantOK(v(k))
             /\ v(k).class[1] # "serial" /\ v(k).class[2] = widths[k - 1] /\ k - 1 \in 1 .. n
  <2>1. k - 1 \in 1 .. n
    BY <1>1
  <2>2. PICK w : w = widths[k - 1]
    OBVIOUS
  <2>3. w \in Nat /\ 2 <= w /\ w <= p.context
    BY <1>1, <2>1, <2>2 DEF n
  <2>4. v(k) = PrefillVariant(p, w)
    BY <1>4, <2>2
  <2>5. VariantOK(v(k))
    BY <2>3, <2>4 DEF VariantOK, PrefillVariant
  <2>6. v(k).class = <<IF p.uncaptured THEN "uncaptured" ELSE "packed", w>>
    BY <2>4 DEF PrefillVariant
  <2>7. v(k).class[1] # "serial" /\ v(k).class[2] = w
    BY <2>6
  <2> QED
    BY <2>1, <2>2, <2>5, <2>7
<1>7. ASSUME NEW j \in 1 .. n + 1, NEW k \in 1 .. n + 1, j < k PROVE v(j).class # v(k).class
  <2>1. k \in 2 .. n + 1
    BY <1>1, <1>7
  <2>2. CASE j = 1
    <3>1. v(j).class[1] = "serial"
      BY <1>5, <2>2
    <3> QED
      BY <1>6, <2>1, <3>1
  <2>3. CASE j # 1
    <3>1. j \in 2 .. n + 1
      BY <1>1, <2>3
    <3>2. /\ j - 1 \in 1 .. n /\ v(j).class[2] = widths[j - 1]
          /\ k - 1 \in 1 .. n /\ v(k).class[2] = widths[k - 1]
      BY <1>6, <2>1, <3>1
    <3>3. j - 1 < k - 1
      BY <1>1, <1>7
    <3>4. widths[j - 1] < widths[k - 1] /\ widths[j - 1] \in Nat /\ widths[k - 1] \in Nat
      BY <1>1, <3>2, <3>3 DEF n
    <3> QED
      BY <3>2, <3>4
  <2> QED
    BY <2>2, <2>3
<1>8. \A j, k \in 1 .. n + 1 : v(j).class = v(k).class => j = k
  <2> SUFFICES ASSUME NEW j \in 1 .. n + 1, NEW k \in 1 .. n + 1, v(j).class = v(k).class, j # k PROVE FALSE
    OBVIOUS
  <2>1. j < k \/ k < j
    BY <1>1
  <2> QED
    BY <1>7, <2>1
<1>9. \A k \in 1 .. n + 1 : VariantOK(v(k))
  <2> SUFFICES ASSUME NEW k \in 1 .. n + 1 PROVE VariantOK(v(k))
    OBVIOUS
  <2>1. k = 1 \/ k \in 2 .. n + 1
    BY <1>1
  <2> QED
    BY <1>5, <1>6, <2>1
<1>10. m.variants # << >>
  BY <1>1, <1>2
<1> QED
  BY <1>2, <1>8, <1>9, <1>10 DEF VariantsTaken, v

\* The widest chunk of the variants is the program's.
LEMMA WidestIsPrefill ==
    ASSUME NEW p, p.context \in Nat \ {0}, NEW widths, WidthsOf(p, widths), NEW m, VariantsOf(p, widths, m.variants)
    PROVE  /\ Widest(m, "query") = p.prefill /\ Widest(m, "tokens") = p.prefill
           /\ Widest(m, "context") = p.context
<1> DEFINE n == Len(widths)
           v(k) == m.variants[k]
<1>1. /\ n \in Nat /\ p.prefill \in Nat /\ 1 <= p.prefill
      /\ \A k \in 1 .. n : widths[k] \in Nat /\ widths[k] <= p.prefill
      /\ p.prefill # 1 => n # 0 /\ widths[n] = p.prefill
  BY DEF WidthsOf
<1>2. DOMAIN m.variants = 1 .. n + 1
  BY DEF VariantsOf
<1>3. v(1).query = 1 /\ v(1).tokens = 1 /\ v(1).context = p.context
  BY DEF VariantsOf, SerialVariant
<1>4. \A k \in 2 .. n + 1 : v(k).query = widths[k - 1] /\ v(k).tokens = widths[k - 1] /\ v(k).context = p.context
  <2> SUFFICES ASSUME NEW k \in 2 .. n + 1
               PROVE  v(k).query = widths[k - 1] /\ v(k).tokens = widths[k - 1] /\ v(k).context = p.context
    OBVIOUS
  <2>1. v(k) = PrefillVariant(p, widths[k - 1])
    BY DEF VariantsOf
  <2> HIDE DEF v
  <2> QED
    BY <2>1 DEF PrefillVariant
<1> HIDE DEF n, v
<1>5. \A k \in 1 .. n + 1 :
          /\ v(k).query \in Int /\ v(k).query <= p.prefill /\ v(k).tokens = v(k).query
          /\ v(k).context = p.context
  <2> SUFFICES ASSUME NEW k \in 1 .. n + 1
               PROVE  /\ v(k).query \in Int /\ v(k).query <= p.prefill /\ v(k).tokens = v(k).query
                      /\ v(k).context = p.context
    OBVIOUS
  <2>1. CASE k = 1
    BY <1>1, <1>3, <2>1
  <2>2. CASE k # 1
    <3>1. k \in 2 .. n + 1 /\ k - 1 \in 1 .. n
      BY <1>1, <2>2
    <3> QED
      BY <1>1, <1>4, <3>1
  <2> QED
    BY <2>1, <2>2
<1>6. \E k \in 1 .. n + 1 : v(k).query = p.prefill
  <2>1. CASE p.prefill = 1
    <3>1. 1 \in 1 .. n + 1
      BY <1>1
    <3> QED
      BY <1>3, <2>1, <3>1
  <2>2. CASE p.prefill # 1
    <3>1. n + 1 \in 2 .. n + 1 /\ n + 1 \in 1 .. n + 1 /\ (n + 1) - 1 = n
      BY <1>1, <2>2
    <3>2. v(n + 1).query = widths[n]
      BY <1>4, <3>1
    <3> QED
      BY <1>1, <2>2, <3>1, <3>2
  <2> QED
    BY <2>1, <2>2
<1>7. Widest(m, "query") = p.prefill
  <2> DEFINE S == {v(k)["query"] : k \in 1 .. n + 1}
  <2>1. S \in SUBSET Int /\ p.prefill \in S /\ \A w \in S : w <= p.prefill
    BY <1>5, <1>6
  <2>2. Widest(m, "query") = Max(S)
    BY <1>2 DEF Widest, v
  <2> HIDE DEF S
  <2> QED
    BY <2>1, <2>2, MaxIs
<1>8. Widest(m, "tokens") = p.prefill
  <2> DEFINE S == {v(k)["tokens"] : k \in 1 .. n + 1}
  <2>1. S \in SUBSET Int /\ p.prefill \in S /\ \A w \in S : w <= p.prefill
    BY <1>5, <1>6
  <2>2. Widest(m, "tokens") = Max(S)
    BY <1>2 DEF Widest, v
  <2> HIDE DEF S
  <2> QED
    BY <2>1, <2>2, MaxIs
<1>9. Widest(m, "context") = p.context
  <2> DEFINE S == {v(k)["context"] : k \in 1 .. n + 1}
  <2>1. 1 \in 1 .. n + 1 /\ p.context \in Int
    BY <1>1
  <2>2. S \in SUBSET Int /\ p.context \in S /\ \A w \in S : w <= p.context
    BY <1>5, <2>1
  <2>3. Widest(m, "context") = Max(S)
    BY <1>2 DEF Widest, v
  <2> HIDE DEF S
  <2> QED
    BY <2>2, <2>3, MaxIs
<1> QED
  BY <1>7, <1>8, <1>9

----------------------------------------------------------------------------
(* The states.                                                             *)

\* What RoundUp gives is a number of whole pages that hold the context.
LEMMA RoundUpWhole ==
    ASSUME NEW n \in Nat \ {0}, NEW page \in Nat \ {0}
    PROVE  RoundUp(n, page) \in Nat \ {0} /\ RoundUp(n, page) % page = 0
<1> DEFINE c == PageCount(n, page)
           z == c * page
<1>1. c \in Nat /\ n <= z
  BY PagesHold DEF PageCount
<1> HIDE DEF c
<1>2. c \in Int /\ z \in Int /\ z = (page * c) + 0 /\ 0 \in 0 .. page - 1
  BY <1>1
<1> HIDE DEF z
<1>3. z % page = 0
  BY <1>2, DivisionUnique
<1>4. z \in Nat \ {0}
  BY <1>1, <1>2
<1> QED
  BY <1>3, <1>4 DEF RoundUp, c, z

\* A state that both judges take, before the widths are known.
StateSound(s, p) ==
    /\ s.capacity \in Nat \ {0} /\ s.ranks = 0 .. p.ranks - 1 /\ s.window # 0
    /\ s.storage.kind = "Pages" => s.storage.page \in Nat \ {0} /\ s.capacity % s.storage.page = 0

\* A ring holds what a window and a chunk need.
RingOf(s, p) ==
    /\ s.storage.kind = "Pages" /\ s.storage.page = LatentPage /\ s.window \in Nat \ {0} /\ s.query = p.prefill
    /\ s.capacity = SlidingCapacity(p.context, s.window, p.prefill, LatentPage)

\* The windows of a cache are numbers.
LEMMA WindowsCounted ==
    ASSUME NEW d \in Deployments, NEW id
    PROVE  Windows(d.graph, id) \in SUBSET (Nat \ {0}) /\ IsFiniteSet(Windows(d.graph, id))
<1> DEFINE K == {j \in DOMAIN d.graph : d.graph[j].op = "latent_attention" /\ d.graph[j].cache = id}
<1>1. IsFiniteSet(DOMAIN d.graph)
  BY EnvelopeAssumption
<1>2. \A k \in DOMAIN d.graph : d.graph[k].op = "latent_attention" => d.graph[k].window \in Nat \ {0}
  BY EnvelopeAssumption
<1>3. IsFiniteSet(K)
  BY <1>1, FS_Subset
<1>4. Windows(d.graph, id) = {d.graph[k].window : k \in K}
  BY DEF Windows
<1>5. IsFiniteSet({d.graph[k].window : k \in K})
  <2> DEFINE f == [k \in K |-> d.graph[k].window]
             T == {d.graph[k].window : k \in K}
  <2> HIDE DEF K
  <2>1. f \in Surjection(K, T)
    BY DEF Surjection
  <2> HIDE DEF f, T
  <2>2. IsFiniteSet(T)
    BY <1>3, <2>1, FS_Surjection
  <2> QED
    BY <2>2 DEF T
<1> QED
  BY <1>2, <1>4, <1>5

\* The capacity of a state is whole pages of its storage.
LEMMA StorageSound ==
    ASSUME NEW n, NEW context \in Nat \ {0},
           n.op \in StatefulOps,
           n.op \in {"cache_append", "cache_norm_rope_append"} => n.dtype \in {"bf16", "int8_ds_mla", "int8", "int4"}
    PROVE  /\ CapacityOf(n, context) \in Nat \ {0}
           /\ StorageOf(n).kind = "Pages" =>
                 StorageOf(n).page \in Nat \ {0} /\ CapacityOf(n, context) % StorageOf(n).page = 0
           /\ StorageOf(n).encoding = "bf16_latent" => StorageOf(n) = Paged(LatentPage, "bf16_latent")
<1>0. /\ LatentPage \in Nat \ {0} /\ PackedPage \in Nat \ {0} /\ IndexPage \in Nat \ {0}
      /\ BaseRows \in Nat \ {0} /\ BaseRows % LatentPage = 0
  <2>1. {LatentPage, PackedPage, IndexPage, BaseRows} \subseteq Nat \ {0} /\ BaseRows % LatentPage = 0
    BY EnvelopeAssumption
  <2> QED
    BY <2>1
<1>1. CASE n.op = "index_cache_append"
  <2>1. PICK encoding : StorageOf(n) = Paged(IndexPage, encoding) /\ encoding # "bf16_latent"
    <3>1. StorageOf(n) = Paged(IndexPage, IF n.dtype = "int8" THEN "int8_index" ELSE "bf16_index")
      BY <1>1 DEF StorageOf
    <3>2. (IF n.dtype = "int8" THEN "int8_index" ELSE "bf16_index") # "bf16_latent"
      OBVIOUS
    <3> QED
      BY <3>1, <3>2
  <2>2. CapacityOf(n, context) = RoundUp(context, IndexPage)
    BY <1>1 DEF CapacityOf
  <2> QED
    BY <1>0, <2>1, <2>2, RoundUpWhole DEF Paged
<1>2. CASE n.op = "mome"
  <2>1. StorageOf(n) = Slot("bf16") /\ CapacityOf(n, context) = context
    BY <1>2 DEF StorageOf, CapacityOf
  <2> QED
    BY <2>1 DEF Slot
<1>3. CASE n.op \in {"cache_append", "cache_norm_rope_append"} /\ n.dtype = "bf16"
  <2>1. StorageOf(n) = Paged(LatentPage, "bf16_latent") /\ CapacityOf(n, context) = BaseRows
    BY <1>3 DEF StorageOf, CapacityOf
  <2> QED
    BY <1>0, <2>1 DEF Paged
<1>4. CASE n.op \in {"cache_append", "cache_norm_rope_append"} /\ n.dtype = "int8_ds_mla"
  <2>1. StorageOf(n) = Paged(PackedPage, "int8_latent") /\ CapacityOf(n, context) = RoundUp(context, PackedPage)
    BY <1>4 DEF StorageOf, CapacityOf
  <2> QED
    BY <1>0, <2>1, RoundUpWhole DEF Paged
<1>5. CASE n.op \in {"cache_append", "cache_norm_rope_append"} /\ n.dtype \in {"int8", "int4"}
  <2>1. StorageOf(n) = Slot(n.dtype) /\ CapacityOf(n, context) = RoundUp(context, LatentPage)
    BY <1>5 DEF StorageOf, CapacityOf
  <2> QED
    BY <1>0, <1>5, <2>1, RoundUpWhole DEF Slot
<1> QED
  BY <1>1, <1>2, <1>3, <1>4, <1>5 DEF StatefulOps

\* The states of the graph alone, and those of the program.
LEMMA StatesSound ==
    ASSUME NEW d \in Deployments, NEW graph, graph = d.graph, NEW p, Sized(p), p.prefill \in Nat \ {0},
           Implemented(graph), OneWindow(graph, p), NEW s \in Envelope(graph, p).states
    PROVE  /\ StateSound(s, p) /\ s.query = 0
           /\ StateSound(Resized(graph, s, p), p)
           /\ Sliding(Resized(graph, s, p)) => RingOf(Resized(graph, s, p), p)
           /\ ~Sliding(Resized(graph, s, p)) => Resized(graph, s, p).query = 0
<1>1. PICK id \in {k \in DOMAIN graph : graph[k].op \in StatefulOps} : s = StateOf(graph, id, p)
  BY DEF Envelope
<1>c. p.context \in Nat \ {0}
  BY DEF Sized
<1>w. Windows(graph, id) \in SUBSET (Nat \ {0}) /\ IsFiniteSet(Windows(graph, id))
  BY WindowsCounted
<1>2. PICK storage, capacity, window :
          /\ storage = StorageOf(graph[id]) /\ capacity = CapacityOf(graph[id], p.context)
          /\ window = IF Windows(graph, id) = {} THEN None ELSE Max(Windows(graph, id))
  OBVIOUS
<1>3. s = [node |-> id, ranks |-> 0 .. p.ranks - 1, storage |-> storage, capacity |-> capacity, query |-> 0,
           window |-> window, checkpoint |-> FALSE]
  BY <1>1, <1>2 DEF StateOf
<1>4. window # 0
  <2>1. CASE Windows(graph, id) = {}
    BY <1>2, <2>1 DEF None
  <2>2. CASE Windows(graph, id) # {}
    <3>1. Windows(graph, id) \in SUBSET Nat
      BY <1>w
    <3>2. Max(Windows(graph, id)) \in Windows(graph, id)
      BY <1>w, <2>2, <3>1, MaxIn
    <3> QED
      BY <1>2, <1>w, <2>2, <3>2
  <2> QED
    BY <2>1, <2>2
<1>5. /\ capacity \in Nat \ {0}
      /\ storage.kind = "Pages" => storage.page \in Nat \ {0} /\ capacity % storage.page = 0
      /\ storage.encoding = "bf16_latent" => storage = Paged(LatentPage, "bf16_latent")
  <2> DEFINE n == graph[id]
  <2>1. /\ n.op \in StatefulOps
        /\ n.op \in {"cache_append", "cache_norm_rope_append"} =>
              n.dtype \in {"bf16", "int8_ds_mla", "int8", "int4"}
    BY <1>1 DEF Implemented
  <2> HIDE DEF n
  <2>2. /\ CapacityOf(n, p.context) \in Nat \ {0}
        /\ StorageOf(n).kind = "Pages" =>
              StorageOf(n).page \in Nat \ {0} /\ CapacityOf(n, p.context) % StorageOf(n).page = 0
        /\ StorageOf(n).encoding = "bf16_latent" => StorageOf(n) = Paged(LatentPage, "bf16_latent")
    BY <1>c, <2>1, StorageSound
  <2> QED
    BY <1>2, <2>2 DEF n
<1>6. StateSound(s, p) /\ s.query = 0
  BY <1>3, <1>4, <1>5 DEF StateSound
<1>7. CASE Sliding(s)
  <2>1. PICK w : w = CHOOSE x \in Windows(graph, s.node) : TRUE
    OBVIOUS
  <2>2. w \in Nat \ {0}
    <3>1. Cardinality(Windows(graph, id)) = 1
      BY <1>3, <1>7 DEF OneWindow
    <3>2. Windows(graph, id) # {}
      BY <3>1, FS_EmptySet
    <3>3. w \in Windows(graph, id)
      BY <1>3, <2>1, <3>2
    <3> QED
      BY <1>w, <3>3
  <2>3. storage = [kind |-> "Pages", page |-> LatentPage, encoding |-> "bf16_latent"]
    BY <1>3, <1>5, <1>7 DEF Sliding, Paged
  <2>4. PICK c : c = SlidingCapacity(p.context, w, p.prefill, LatentPage)
    OBVIOUS
  <2>5. Resized(graph, s, p) =
            [node |-> id, ranks |-> 0 .. p.ranks - 1, storage |-> storage, capacity |-> c, query |-> p.prefill,
             window |-> w, checkpoint |-> TRUE]
    BY <1>3, <1>7, <2>1, <2>4 DEF Resized, RetainedQuery
  <2>6. c \in Nat \ {0} /\ c % LatentPage = 0
    <3>1. LatentPage \in Nat \ {0}
      BY <1>5, <2>3
    <3>2. PICK context, prefill : context = p.context /\ prefill = p.prefill
      OBVIOUS
    <3>3. context \in Nat \ {0} /\ prefill \in Nat \ {0}
      BY <1>c, <3>2
    <3>4. RingFits(SlidingCapacity(context, w, prefill, LatentPage), context, w, prefill, LatentPage)
      BY <2>2, <3>1, <3>3, SlidingCapacityFits
    <3> QED
      BY <2>4, <3>2, <3>4 DEF RingFits
  <2>7. StateSound(Resized(graph, s, p), p)
    BY <1>5, <2>2, <2>3, <2>5, <2>6 DEF StateSound
  <2>8. RingOf(Resized(graph, s, p), p) /\ Sliding(Resized(graph, s, p))
    BY <2>2, <2>3, <2>4, <2>5 DEF RingOf, Sliding
  <2> QED
    BY <1>6, <2>7, <2>8
<1>8. CASE ~Sliding(s)
  <2>1. PICK checkpoint : Resized(graph, s, p) = [s EXCEPT !.checkpoint = checkpoint]
    BY <1>8 DEF Resized
  <2>2. Resized(graph, s, p) =
            [node |-> id, ranks |-> 0 .. p.ranks - 1, storage |-> storage, capacity |-> capacity, query |-> 0,
             window |-> window, checkpoint |-> checkpoint]
    BY <1>3, <2>1
  <2>3. StateSound(Resized(graph, s, p), p)
    BY <1>4, <1>5, <2>2 DEF StateSound
  <2>4. ~Sliding(Resized(graph, s, p)) /\ Resized(graph, s, p).query = 0
    BY <1>3, <1>8, <2>2 DEF Sliding
  <2> QED
    BY <1>6, <2>3, <2>4
<1> QED
  BY <1>7, <1>8

----------------------------------------------------------------------------
(* The judges.                                                             *)

\* What the compiler can lower.
Lowered(d) ==
    d \in Deployments /\ ServableProgram(d.program) /\ Implemented(d.graph) /\ OneWindow(d.graph, d.program)

\* The programs that are deployed have sizes.
LEMMA ProgramSized ==
    ASSUME NEW d \in Deployments PROVE Sized(d.program)
<1>1. /\ {d.program.context, d.program.ranks} \subseteq Nat \ {0}
      /\ d.program.variants \in Seq(Nat) /\ d.program.uncaptured \in BOOLEAN
  BY EnvelopeAssumption
<1> QED
  BY <1>1 DEF Sized

\* What the manifest of a deployment says.
ManifestFacts(d, m) ==
    /\ WidthsOf(d.program, PrefillCounts(d.program))
    /\ VariantsOf(d.program, PrefillCounts(d.program), m.variants)
    /\ Widest(m, "query") = d.program.prefill /\ Widest(m, "tokens") = d.program.prefill
    /\ Widest(m, "context") = d.program.context
    /\ m.resident = d.program.resident /\ m.devices = d.program.ranks
    /\ \A s \in m.states :
          /\ StateSound(s, d.program)
          /\ IF Sliding(s) THEN RingOf(s, d.program) ELSE s.query = 0

\* program_envelope leaves these.
LEMMA ManifestHas ==
    ASSUME NEW d, Lowered(d)
    PROVE  ManifestFacts(d, ProgramEnvelope(d.graph, d.program))
<1> DEFINE p == d.program
           m == ProgramEnvelope(d.graph, p)
           widths == PrefillCounts(p)
<1>1. d \in Deployments /\ Sized(p) /\ ServableProgram(p)
  BY ProgramSized DEF Lowered
<1>2. WidthsOf(p, widths)
  BY <1>1, WidthsGrow
<1>3. VariantsOf(p, widths, m.variants)
  BY <1>2, EnvelopeVariants DEF WidthsOf
<1>4. /\ m.states = {Resized(d.graph, s, p) : s \in Envelope(d.graph, p).states}
      /\ m.resident = p.resident /\ m.devices = p.ranks
  BY DEF ProgramEnvelope
<1>5. p.prefill \in Nat \ {0} /\ p.context \in Nat \ {0}
  BY <1>1, <1>2 DEF WidthsOf, Sized
<1>6. \A s \in m.states :
          /\ StateSound(s, p)
          /\ IF Sliding(s) THEN RingOf(s, p) ELSE s.query = 0
  <2> SUFFICES ASSUME NEW e \in Envelope(d.graph, p).states
               PROVE  LET s == Resized(d.graph, e, p) IN
                      /\ StateSound(s, p)
                      /\ IF Sliding(s) THEN RingOf(s, p) ELSE s.query = 0
    BY <1>4
  <2> HIDE DEF m
  <2> QED
    BY <1>1, <1>5, StatesSound DEF Lowered
<1> HIDE DEF m, widths
<1>7. /\ Widest(m, "query") = p.prefill /\ Widest(m, "tokens") = p.prefill
      /\ Widest(m, "context") = p.context
  BY <1>2, <1>3, <1>5, WidestIsPrefill
<1> QED
  BY <1>2, <1>3, <1>4, <1>6, <1>7 DEF ManifestFacts, m, widths

\* The compiler writes what it lowers.
LEMMA CompilerTakes ==
    ASSUME NEW d, Lowered(d), NEW m, m = ProgramEnvelope(d.graph, d.program), NEW alone, alone = Envelope(d.graph, d.program)
    PROVE  /\ ManifestOK([m EXCEPT !.variants = alone.variants, !.states = alone.states, !.resident = 1])
           /\ ManifestOK(m)
<1> DEFINE p == d.program
           first == [m EXCEPT !.variants = alone.variants, !.states = alone.states, !.resident = 1]
<1>1. ManifestFacts(d, m)
  BY ManifestHas
<1>2. d \in Deployments /\ Sized(p) /\ p.resident \in 1 .. MaxResidents
  BY ProgramSized DEF Lowered, ServableProgram
<1>3. p.context \in Nat \ {0} /\ p.ranks \in Nat \ {0} /\ p.prefill \in Nat \ {0} /\ p.prefill <= p.context
  BY <1>1, <1>2 DEF ManifestFacts, WidthsOf, Sized
<1>4. ManifestOK(m)
  <2>1. VariantsTaken(m)
    <3> DEFINE widths == PrefillCounts(p)
    <3>1. VariantsOf(p, widths, m.variants) /\ WidthsOf(p, widths)
      BY <1>1 DEF ManifestFacts
    <3> HIDE DEF widths
    <3>2. widths \in Seq(Nat)
      BY <3>1 DEF WidthsOf
    <3>3. \A k \in 1 .. Len(widths) : 2 <= widths[k] /\ widths[k] <= p.context
      BY <1>3, <3>1 DEF WidthsOf
    <3>4. \A j, k \in 1 .. Len(widths) : j < k => widths[j] < widths[k]
      BY <3>1 DEF WidthsOf
    <3> QED
      BY <1>3, <3>1, <3>2, <3>3, <3>4, VariantsJudged
  <2>2. ASSUME NEW s \in m.states PROVE StateOK(m, s)
    <3>1. StateSound(s, p) /\ (Sliding(s) => RingOf(s, p)) /\ (~Sliding(s) => s.query = 0) /\ m.devices = p.ranks
      BY <1>1 DEF ManifestFacts
    <3>2. /\ s.capacity # 0 /\ s.ranks # {} /\ s.ranks \subseteq 0 .. m.devices - 1 /\ s.window # 0
          /\ s.storage.kind = "Pages" => s.storage.page # 0 /\ s.capacity % s.storage.page = 0
      <4>1. s.ranks = 0 .. p.ranks - 1 /\ 0 \in 0 .. p.ranks - 1
        BY <1>3, <3>1 DEF StateSound
      <4> QED
        BY <3>1, <4>1 DEF StateSound
    <3>3. ASSUME s.query # 0
          PROVE  /\ s.storage.kind = "Pages" /\ s.window # None /\ s.query >= Widest(m, "query")
                 /\ s.query <= Widest(m, "context")
                 /\ s.capacity = SlidingCapacity(Widest(m, "context"), s.window, s.query, s.storage.page)
      <4>1. RingOf(s, p)
        BY <3>1, <3>3
      <4>2. Widest(m, "query") = p.prefill /\ Widest(m, "context") = p.context
        BY <1>1 DEF ManifestFacts
      <4> QED
        BY <1>3, <4>1, <4>2 DEF RingOf, None
    <3> QED
      BY <3>2, <3>3 DEF StateOK
  <2>3. m.resident \in 1 .. MaxResidents /\ m.devices > 0
    BY <1>1, <1>2, <1>3 DEF ManifestFacts
  <2> QED
    BY <2>1, <2>2, <2>3 DEF ManifestOK, VariantsTaken
<1>5. ManifestOK(first)
  <2>1. /\ first.variants = <<SerialVariant(p)>> /\ first.states = alone.states /\ first.resident = 1
        /\ first.devices = p.ranks
    BY DEF ProgramEnvelope, Envelope
  <2>2. VariantsOf(p, << >>, first.variants)
    BY <2>1 DEF VariantsOf
  <2>3. VariantsTaken(first)
    <3> HIDE DEF first
    <3>n. PICK none : none = << >>
      OBVIOUS
    <3>1. none = << >> /\ none \in Seq(Nat) /\ Len(none) = 0
      BY <3>n
    <3>2. VariantsOf(p, none, first.variants)
      BY <2>2, <3>1
    <3>3. \A k \in 1 .. Len(none) : k \in {}
      BY <3>1
    <3> QED
      BY <1>3, <3>1, <3>2, <3>3, VariantsJudged
  <2>4. ASSUME NEW s \in alone.states PROVE StateOK(first, s)
    <3>1. StateSound(s, p) /\ s.query = 0
      BY <1>2, <1>3, StatesSound DEF Lowered
    <3>2. s.ranks = 0 .. p.ranks - 1 /\ 0 \in 0 .. p.ranks - 1
      BY <1>3, <3>1 DEF StateSound
    <3> HIDE DEF first
    <3> QED
      BY <2>1, <3>1, <3>2 DEF StateOK, StateSound
  <2>5. first.resident \in 1 .. MaxResidents /\ first.devices > 0
    <3>1. MaxResidents \in Nat
      BY EnvelopeAssumption
    <3> HIDE DEF first
    <3> QED
      BY <1>2, <1>3, <2>1, <3>1
  <2> HIDE DEF first
  <2> QED
    BY <2>1, <2>3, <2>4, <2>5 DEF ManifestOK, VariantsTaken
<1> QED
  BY <1>4, <1>5

\* The engine opens what the compiler writes.
LEMMA EngineTakes ==
    ASSUME NEW d, Lowered(d), NEW m, m = ProgramEnvelope(d.graph, d.program)
    PROVE  EngineOK(m)
<1> DEFINE p == d.program
           widths == PrefillCounts(p)
           n == Len(widths)
<1>1. ManifestFacts(d, m) /\ ManifestOK(m)
  BY ManifestHas, CompilerTakes
<1>2. VariantsOf(p, widths, m.variants) /\ WidthsOf(p, widths)
  BY <1>1 DEF ManifestFacts
<1> HIDE DEF widths
<1>3. \A s \in m.states : s.query # 0 => Sliding(s) /\ s.storage.page = LatentPage /\ s.query = Widest(m, "query")
  BY <1>1 DEF ManifestFacts, RingOf
<1>4. /\ n \in Nat /\ Len(m.variants) = n + 1 /\ m.variants[1] = SerialVariant(p)
      /\ \A k \in 1 .. n : widths[k] \in Nat /\ 2 <= widths[k]
  BY <1>2 DEF VariantsOf, WidthsOf
<1>5. Len(m.variants) \in 1 .. MaxVariants
  <2>1. MaxVariants \in Nat
    <3>1. ExactWidths \cup {UncapturedWidth, MaxVariants} \subseteq Nat \ {0, 1}
      BY EnvelopeAssumption
    <3> QED
      BY <3>1
  <2>2. n + 1 <= MaxVariants
    BY <1>2 DEF WidthsOf
  <2> QED
    BY <1>4, <2>1, <2>2
<1>6. LET first == m.variants[1] IN
      /\ first.phase = "Decode" /\ first.sequences = 1 /\ first.tokens = 1 /\ first.query = 1
      /\ ~first.packed /\ first.captured /\ first.class = <<"serial", 1>> /\ first.context = p.context
  BY <1>4 DEF SerialVariant
<1>7. ASSUME NEW k \in 2 .. Len(m.variants)
      PROVE  LET v == m.variants[k] IN
             /\ IF v.captured THEN v.tokens \in ExactWidths ELSE v.tokens = UncapturedWidth /\ Len(m.variants) = 2
             /\ v.tokens > m.variants[k - 1].tokens /\ v.id[1] = (IF v.captured THEN "packed" ELSE "uncaptured")
             /\ v.phase = "Prefill" /\ v.sequences = 1 /\ v.query = v.tokens /\ v.context = p.context /\ v.packed
  <2>1. k \in 2 .. n + 1 /\ k - 1 \in 1 .. n
    BY <1>4
  <2>2. PICK w : w = widths[k - 1]
    OBVIOUS
  <2>3. m.variants[k] = PrefillVariant(p, w)
    BY <1>2, <2>1, <2>2 DEF VariantsOf
  <2>4. w \in Nat /\ 2 <= w
    BY <1>4, <2>1, <2>2
  <2>5. m.variants[k - 1].tokens < w
    <3>1. CASE k = 2
      BY <1>6, <2>4, <3>1
    <3>2. CASE k # 2
      <4>1. k - 1 \in 2 .. n + 1 /\ k - 2 \in 1 .. n /\ (k - 1) - 1 = k - 2 /\ k - 2 < k - 1
        BY <1>4, <2>1, <3>2
      <4>2. m.variants[k - 1] = PrefillVariant(p, widths[k - 2])
        BY <1>2, <4>1 DEF VariantsOf
      <4>3. m.variants[k - 1].tokens = widths[k - 2]
        BY <4>2 DEF PrefillVariant
      <4>4. widths[k - 2] < widths[k - 1]
        BY <1>2, <2>1, <4>1 DEF WidthsOf
      <4> QED
        BY <2>2, <4>3, <4>4
    <3> QED
      BY <3>1, <3>2
  <2>6. m.variants[k - 1].tokens \in Int
    <3>1. CASE k = 2
      BY <1>6, <3>1
    <3>2. CASE k # 2
      <4>1. k - 1 \in 2 .. n + 1 /\ k - 2 \in 1 .. n /\ (k - 1) - 1 = k - 2
        BY <1>4, <2>1, <3>2
      <4>2. m.variants[k - 1] = PrefillVariant(p, widths[k - 2]) /\ widths[k - 2] \in Int
        BY <1>2, <1>4, <4>1 DEF VariantsOf
      <4> QED
        BY <4>2 DEF PrefillVariant
    <3> QED
      BY <3>1, <3>2
  <2>7. p.uncaptured \in BOOLEAN
    BY ProgramSized DEF Lowered, Sized
  <2>v. PICK v : v = m.variants[k]
    OBVIOUS
  <2>10. /\ v.tokens = w /\ v.captured = ~p.uncaptured /\ v.phase = "Prefill" /\ v.sequences = 1 /\ v.query = w
         /\ v.context = p.context /\ v.packed
         /\ v.id = <<IF p.uncaptured THEN "uncaptured" ELSE "packed", w>>
    BY <2>3, <2>v DEF PrefillVariant
  <2>11. v.id[1] = IF p.uncaptured THEN "uncaptured" ELSE "packed"
    BY <2>10
  <2>12. v.tokens > m.variants[k - 1].tokens
    BY <2>4, <2>5, <2>6, <2>10
  <2>8. CASE p.uncaptured
    <3>1. n = 1 /\ widths[1] = UncapturedWidth
      BY <1>2, <2>8 DEF WidthsOf
    <3>2. k - 1 = 1
      BY <2>1, <3>1
    <3>3. w = UncapturedWidth /\ Len(m.variants) = 2
      BY <1>4, <2>2, <3>1, <3>2
    <3> QED
      BY <2>8, <2>10, <2>11, <2>12, <2>v, <3>3
  <2>9. CASE ~p.uncaptured
    <3>1. w \in ExactWidths
      BY <1>2, <2>1, <2>2, <2>9 DEF WidthsOf
    <3> QED
      BY <2>9, <2>10, <2>11, <2>12, <2>v, <3>1
  <2> QED
    BY <2>7, <2>8, <2>9
<1> HIDE DEF p, n
<1> QED
  BY <1>1, <1>3, <1>5, <1>6, <1>7 DEF EngineOK

----------------------------------------------------------------------------
(* Serving.                                                                *)

\* Of the first n positions, h is the latest in a row, or none is in it.
Latest(s, h, n, row) ==
    \/ h = None /\ \A x \in 0 .. n - 1 : Row(s, x) # row
    \/ h \in 0 .. n - 1 /\ Row(s, h) = row /\ \A x \in 0 .. n - 1 : Row(s, x) = row => x <= h

HeldLatest(s, r, n) == \A row \in 0 .. s.capacity - 1 : Latest(s, held[s][r][row], n, row)

\* An invocation queried the last of a resident's positions, no more of them than
\* the widest chunk has, and its rings hold the latest positions.
ResidentServed(r) ==
    /\ position[r] \in 0 .. deployed.program.context
    /\ \E c \in 0 .. deployed.program.prefill :
          c <= position[r] /\ queried[r] = position[r] - c .. position[r] - 1
    /\ \A s \in Rings : DOMAIN held[s] = Residents /\ HeldLatest(s, r, position[r])

ServedInv ==
    /\ DOMAIN position = Residents /\ DOMAIN queried = Residents
    /\ \A r \in Residents : ResidentServed(r)

EnvelopeInv ==
    /\ deployed \in Deployments /\ ServableProgram(deployed.program)
    /\ stage \in {"compile", "rejected", "written", "serving"}
    /\ stage \in {"written", "serving"} =>
          Lowered(deployed) /\ manifest = ProgramEnvelope(deployed.graph, deployed.program)
    /\ stage = "serving" => ServedInv

\* A ring of the manifest is one that its window and chunk fit in.
RingFacts(s, p) ==
    /\ s.window \in Nat \ {0} /\ p.prefill \in Nat \ {0} /\ p.context \in Nat \ {0}
    /\ s.capacity \in Nat \ {0}
    /\ \A x \in Nat : Row(s, x) \in 0 .. s.capacity - 1
    /\ \A x, y \in 0 .. p.context - 1 :
          x < y /\ Row(s, x) = Row(s, y) => y - x >= s.window + p.prefill - 1

\* A row is in the ring.
LEMMA RowInRing ==
    ASSUME NEW page \in Nat \ {0}, NEW capacity \in Nat \ {0}, capacity % page = 0, NEW x \in Nat
    PROVE  RowIn(page, capacity \div page, x) \in 0 .. capacity - 1
<1> DEFINE c == capacity \div page
           X == x \div page
           y == X % c
           t == x % page
<1>1. capacity = page * c /\ c \in Nat
  <2>1. capacity = (page * c) + (capacity % page) /\ c \in Nat
    BY Division
  <2>2. page * c \in Int
    BY <2>1
  <2> HIDE DEF c
  <2> QED
    BY <2>1, <2>2
<1>2. X \in Nat /\ t \in 0 .. page - 1
  BY Division
<1> HIDE DEF c
<1>3. c \in Nat \ {0}
  BY <1>1
<1> HIDE DEF X, t
<1>4. y \in 0 .. c - 1
  BY <1>2, <1>3, Division
<1> HIDE DEF y
<1>5. page * (y + 1) <= page * c /\ page * (y + 1) = (y * page) + page /\ y * page \in Nat /\ page * c \in Int
  BY <1>3, <1>4, TimesMonotone
<1>6. (y * page) + t \in 0 .. capacity - 1
  BY <1>1, <1>2, <1>5
<1> QED
  BY <1>6 DEF RowIn, c, X, y, t

\* The rings of the manifest that is served are such.
LEMMA RingsFit ==
    ASSUME Lowered(deployed), manifest = ProgramEnvelope(deployed.graph, deployed.program), NEW s \in Rings
    PROVE  RingFacts(s, deployed.program)
<1> DEFINE p == deployed.program
<1>1. ManifestFacts(deployed, manifest)
  <2> PICK d : d = deployed
    OBVIOUS
  <2> QED
    BY ManifestHas
<1>2. RingOf(s, p) /\ StateSound(s, p)
  BY <1>1 DEF Rings, ManifestFacts
<1>3. Sized(p)
  <2> PICK d : d = deployed
    OBVIOUS
  <2> QED
    BY ProgramSized DEF Lowered
<1>4. /\ p.context \in Nat \ {0} /\ p.prefill \in Nat \ {0} /\ s.window \in Nat \ {0} /\ LatentPage \in Nat \ {0}
      /\ s.storage.page = LatentPage
  BY <1>1, <1>2, <1>3 DEF ManifestFacts, WidthsOf, Sized, RingOf, StateSound
<1>5. PICK context, prefill, window, capacity :
          context = p.context /\ prefill = p.prefill /\ window = s.window /\ capacity = s.capacity
  OBVIOUS
<1>6. RingFits(capacity, context, window, prefill, LatentPage)
  <2>1. capacity = SlidingCapacity(context, window, prefill, LatentPage)
    BY <1>2, <1>5 DEF RingOf
  <2> QED
    BY <1>4, <1>5, <2>1, SlidingCapacityFits
<1>7. \A x : Row(s, x) = RowIn(LatentPage, capacity \div LatentPage, x)
  BY <1>4, <1>5 DEF Row, RowIn
<1>8. \A x \in Nat : Row(s, x) \in 0 .. capacity - 1
  <2>1. capacity \in Nat \ {0} /\ capacity % LatentPage = 0
    BY <1>6 DEF RingFits
  <2>2. \A x \in Nat : RowIn(LatentPage, capacity \div LatentPage, x) \in 0 .. capacity - 1
    BY <1>4, <2>1, RowInRing
  <2> QED
    BY <1>7, <2>2
<1> QED
  BY <1>4, <1>5, <1>6, <1>7, <1>8 DEF RingFits, RingFacts

\* What a resident's query can still read.
LEMMA ServedRetains ==
    ASSUME Lowered(deployed), manifest = ProgramEnvelope(deployed.graph, deployed.program), ServedInv
    PROVE  WindowRetained
<1> SUFFICES ASSUME NEW s \in Rings, NEW r \in Residents, NEW q \in queried[r],
                    NEW x \in Max({0, q - s.window + 1}) .. q
             PROVE  held[s][r][Row(s, x)] = x
  BY DEF WindowRetained
<1> DEFINE p == deployed.program
<1>1. RingFacts(s, p)
  BY RingsFit
<1>2. ResidentServed(r)
  BY DEF ServedInv
<1>3. PICK c \in 0 .. p.prefill : c <= position[r] /\ queried[r] = position[r] - c .. position[r] - 1
  BY <1>2 DEF ResidentServed
<1>4. PICK n, window, prefill : n = position[r] /\ window = s.window /\ prefill = p.prefill
  OBVIOUS
<1>5. /\ n \in Nat /\ n <= p.context /\ window \in Nat \ {0} /\ prefill \in Nat /\ p.context \in Nat
      /\ c \in Nat /\ c <= prefill /\ q \in Int /\ q <= n - 1 /\ q >= n - c /\ c <= n
  <2>1. /\ window \in Nat \ {0} /\ prefill \in Nat /\ p.context \in Nat
    BY <1>1, <1>4 DEF RingFacts
  <2>2. position[r] \in 0 .. p.context
    BY <1>2 DEF ResidentServed
  <2>3. n \in Nat /\ n <= p.context
    BY <1>4, <2>1, <2>2
  <2>4. c \in Nat /\ c <= prefill /\ c <= n
    BY <1>3, <1>4, <2>1
  <2>5. q \in n - c .. n - 1
    BY <1>3, <1>4
  <2> QED
    BY <2>1, <2>3, <2>4, <2>5
<1>6. x \in Int /\ 0 <= x /\ x <= q /\ x >= q - window + 1
  <2> DEFINE S == {0, q - window + 1}
  <2>1. \E u \in S : \A w \in S : w <= u
    <3>1. CASE q - window + 1 <= 0
      BY <1>5, <3>1
    <3>2. CASE 0 <= q - window + 1
      BY <1>5, <3>2
    <3> QED
      BY <1>5, <3>1, <3>2
  <2>2. PICK u \in S : \A w \in S : w <= u
    BY <2>1
  <2>3. S \in SUBSET Int
    BY <1>5
  <2> HIDE DEF S
  <2>4. Max(S) = u
    BY <2>2, <2>3, MaxIs
  <2>5. 0 <= Max(S) /\ q - window + 1 <= Max(S) /\ Max(S) \in Int
    BY <2>2, <2>3, <2>4 DEF S
  <2> QED
    BY <1>4, <1>5, <2>5 DEF S
<1>7. PICK row : row = Row(s, x)
  OBVIOUS
<1>8. row \in 0 .. s.capacity - 1
  BY <1>1, <1>6, <1>7 DEF RingFacts
<1>9. PICK h : h = held[s][r][row]
  OBVIOUS
<1>10. h \in 0 .. n - 1 /\ Row(s, h) = row /\ x <= h
  <2>1. HeldLatest(s, r, n)
    BY <1>2, <1>4 DEF ResidentServed
  <2>2. \/ \A y \in 0 .. n - 1 : Row(s, y) # row
        \/ h \in 0 .. n - 1 /\ Row(s, h) = row /\ \A y \in 0 .. n - 1 : Row(s, y) = row => y <= h
    BY <1>8, <1>9, <2>1 DEF HeldLatest, Latest
  <2>3. x \in 0 .. n - 1
    BY <1>5, <1>6
  <2> QED
    BY <1>7, <2>2, <2>3
<1>11. ASSUME x < h PROVE FALSE
  <2>1. x \in 0 .. p.context - 1 /\ h \in 0 .. p.context - 1
    BY <1>5, <1>6, <1>10
  <2>2. h - x >= window + prefill - 1
    BY <1>1, <1>4, <1>7, <1>10, <1>11, <2>1 DEF RingFacts
  <2> QED
    BY <1>5, <1>6, <1>10, <2>2
<1> QED
  BY <1>6, <1>7, <1>9, <1>10, <1>11

\* An invocation of what the chunks can carry.
LEMMA InvokeServes ==
    ASSUME Lowered(deployed), manifest = ProgramEnvelope(deployed.graph, deployed.program), ServedInv,
           NEW counts, \A r \in Residents : counts[r] \in 0 .. deployed.program.prefill,
           Invoke(counts)
    PROVE  ServedInv'
<1> DEFINE p == deployed.program
           wrote(s, r, row) == {x \in position[r] .. position[r] + counts[r] - 1 : Row(s, x) = row}
<1>1. /\ deployed' = deployed /\ manifest' = manifest
      /\ position' = [r \in Residents |-> position[r] + counts[r]]
      /\ queried' = [r \in Residents |-> position[r] .. position[r] + counts[r] - 1]
      /\ held' = [s \in Rings |-> [r \in Residents |-> [row \in 0 .. s.capacity - 1 |->
                      IF wrote(s, r, row) = {} THEN held[s][r][row] ELSE Max(wrote(s, r, row))]]]
      /\ \A r \in Residents : position[r] + counts[r] <= manifest.variants[1].context
  BY DEF Invoke
<1>2. Residents' = Residents /\ Rings' = Rings
  BY <1>1 DEF Residents, Rings
<1>3. manifest.variants[1].context = p.context
  <2>1. ManifestFacts(deployed, manifest)
    <3> PICK d : d = deployed
      OBVIOUS
    <3> QED
      BY ManifestHas
  <2>2. manifest.variants[1] = SerialVariant(p)
    BY <2>1 DEF ManifestFacts, VariantsOf
  <2> QED
    BY <2>2 DEF SerialVariant
<1> HIDE DEF wrote
<1>4. ASSUME NEW r \in Residents PROVE ResidentServed(r)'
  <2>1. ResidentServed(r) /\ counts[r] \in 0 .. p.prefill
    BY DEF ServedInv
  <2>2. PICK n, c : n = position[r] /\ c = counts[r]
    OBVIOUS
  <2>3. position'[r] = n + c /\ queried'[r] = n .. n + c - 1 /\ n + c <= p.context
    BY <1>1, <1>3, <2>2
  <2>p. p.prefill \in Nat /\ p.context \in Nat
    <3>1. ManifestFacts(deployed, manifest) /\ Sized(p)
      <4> PICK d : d = deployed
        OBVIOUS
      <4> QED
        BY ManifestHas, ProgramSized DEF Lowered
    <3> QED
      BY <3>1 DEF ManifestFacts, WidthsOf, Sized
  <2>4. n \in Nat /\ c \in Nat /\ c <= p.prefill
    BY <2>1, <2>2, <2>p DEF ResidentServed
  <2>5. position'[r] \in 0 .. p.context
    BY <2>3, <2>4, <2>p
  <2>6. \E k \in 0 .. p.prefill :
            k <= position'[r] /\ queried'[r] = position'[r] - k .. position'[r] - 1
    <3>1. c \in 0 .. p.prefill /\ c <= n + c /\ (n + c) - c = n
      BY <2>4, <2>p
    <3>2. PICK at, last : at = position'[r] /\ last = queried'[r]
      OBVIOUS
    <3>3. at = n + c /\ last = n .. n + c - 1
      BY <2>3, <3>2
    <3>4. at - c = n /\ at - 1 = n + c - 1 /\ c <= at
      BY <2>4, <3>3
    <3>5. last = at - c .. at - 1
      BY <3>3, <3>4
    <3> HIDE DEF p
    <3> QED
      BY <3>1, <3>2, <3>4, <3>5
  <2>7. ASSUME NEW s \in Rings PROVE DOMAIN held'[s] = Residents /\ HeldLatest(s, r, n + c)'
    <3>1. held'[s] = [q \in Residents |-> [row \in 0 .. s.capacity - 1 |->
                         IF wrote(s, q, row) = {} THEN held[s][q][row] ELSE Max(wrote(s, q, row))]]
      BY <1>1
    <3>2. HeldLatest(s, r, n)
      BY <2>1, <2>2 DEF ResidentServed
    <3>3. ASSUME NEW row \in 0 .. s.capacity - 1
          PROVE  Latest(s, held'[s][r][row], n + c, row)
      <4> DEFINE W == {x \in n .. n + c - 1 : Row(s, x) = row}
      <4>1. held'[s][r][row] = IF W = {} THEN held[s][r][row] ELSE Max(W)
        BY <2>2, <3>1 DEF wrote
      <4>2. \A x \in 0 .. (n + c) - 1 : x \in Int /\ (x \in 0 .. n - 1 \/ x \in n .. n + c - 1)
        BY <2>4
      <4>3. CASE W = {}
        <5>1. PICK h : h = held[s][r][row] /\ h = held'[s][r][row]
          BY <4>1, <4>3
        <5>2. \/ h = None /\ \A x \in 0 .. n - 1 : Row(s, x) # row
              \/ h \in 0 .. n - 1 /\ Row(s, h) = row /\ \A x \in 0 .. n - 1 : Row(s, x) = row => x <= h
          BY <3>2, <5>1 DEF HeldLatest, Latest
        <5>3. \A x \in n .. n + c - 1 : Row(s, x) # row
          BY <4>3
        <5>4. \A y \in 0 .. n - 1 : y \in 0 .. (n + c) - 1
          BY <2>4
        <5>5. Latest(s, h, n + c, row)
          BY <4>2, <5>2, <5>3, <5>4 DEF Latest
        <5> QED
          BY <5>1, <5>5
      <4>4. CASE W # {}
        <5>1. IsFiniteSet(n .. n + c - 1)
          BY <2>4, FS_Interval
        <5>2. W \in SUBSET Nat /\ IsFiniteSet(W)
          BY <2>4, <5>1, FS_Subset
        <5>3. PICK h : h = Max(W) /\ h = held'[s][r][row]
          BY <4>1, <4>4
        <5>4. h \in W /\ \A w \in W : w <= h
          BY <4>4, <5>2, <5>3, MaxIn
        <5>5. h \in n .. n + c - 1 /\ Row(s, h) = row /\ h \in 0 .. (n + c) - 1
          BY <2>4, <5>4
        <5>6. ASSUME NEW x \in 0 .. (n + c) - 1, Row(s, x) = row PROVE x <= h
          <6>1. CASE x \in 0 .. n - 1
            BY <2>4, <5>5, <6>1
          <6>2. CASE x \in n .. n + c - 1
            BY <5>4, <5>6, <6>2
          <6> QED
            BY <4>2, <6>1, <6>2
        <5>7. Latest(s, h, n + c, row)
          BY <5>5, <5>6 DEF Latest
        <5> QED
          BY <5>3, <5>7
      <4> QED
        BY <4>3, <4>4
    <3>4. DOMAIN held'[s] = Residents
      BY <3>1
    <3>5. HeldLatest(s, r, n + c)'
      BY <3>3 DEF HeldLatest
    <3> QED
      BY <3>4, <3>5
  <2> QED
    BY <1>1, <1>2, <2>2, <2>3, <2>5, <2>6, <2>7 DEF ResidentServed
<1> QED
  BY <1>1, <1>2, <1>4 DEF ServedInv

\* A chunk carries no more than the widest.
LEMMA OnlyCarries ==
    ASSUME NEW p, p.prefill \in Nat \ {0}, NEW r \in Residents, NEW count \in 0 .. p.prefill
    PROVE  \A q \in Residents : Only(r, count)[q] \in 0 .. p.prefill
<1>1. 0 \in 0 .. p.prefill
  OBVIOUS
<1> QED
  BY <1>1 DEF Only

\* Compiling, opening, every invocation and a reset keep the invariant.
LEMMA EnvelopeStep ==
    ASSUME EnvelopeInv, [EnvelopeNext]_envelopeVars
    PROVE  EnvelopeInv'
<1> DEFINE d == deployed
           p == deployed.program
<1>0. d \in Deployments /\ ServableProgram(p)
  BY DEF EnvelopeInv
<1>1. CASE CompileManifest
  <2>1. stage = "compile" /\ deployed' = deployed
    BY <1>1 DEF CompileManifest
  <2>2. CASE ~Implemented(d.graph) \/ ~OneWindow(d.graph, p)
    <3>1. stage' = "rejected"
      BY <1>1, <2>2 DEF CompileManifest
    <3> QED
      BY <1>0, <2>1, <3>1 DEF EnvelopeInv
  <2>3. CASE Implemented(d.graph) /\ OneWindow(d.graph, p)
    <3>1. Lowered(d)
      BY <1>0, <2>3 DEF Lowered
    <3>2. manifest' = ProgramEnvelope(d.graph, p)
      BY <1>1, <2>3 DEF CompileManifest
    <3>3. PICK e, m, alone : e = d /\ m = manifest' /\ alone = Envelope(d.graph, p)
      OBVIOUS
    <3>4. /\ ManifestOK([m EXCEPT !.variants = alone.variants, !.states = alone.states, !.resident = 1])
          /\ ManifestOK(m)
      BY <3>1, <3>2, <3>3, CompilerTakes
    <3>5. stage' = "written"
      BY <1>1, <2>3, <3>3, <3>4 DEF CompileManifest
    <3> QED
      BY <1>0, <2>1, <3>1, <3>2, <3>5 DEF EnvelopeInv
  <2> QED
    BY <2>2, <2>3
<1>2. CASE OpenBundle
  <2>1. /\ stage = "written" /\ deployed' = deployed /\ manifest' = manifest
        /\ position' = [r \in Residents |-> 0] /\ queried' = [r \in Residents |-> {}]
        /\ held' = [s \in Rings |-> [r \in Residents |-> [row \in 0 .. s.capacity - 1 |-> None]]]
    BY <1>2 DEF OpenBundle
  <2>2. Lowered(d) /\ manifest = ProgramEnvelope(d.graph, p)
    BY <2>1 DEF EnvelopeInv
  <2>3. EngineOK(manifest)
    <3> PICK e, m : e = d /\ m = manifest
      OBVIOUS
    <3> QED
      BY <2>2, EngineTakes
  <2>4. stage' = "serving"
    BY <1>2, <2>3 DEF OpenBundle
  <2>5. Residents' = Residents /\ Rings' = Rings
    BY <2>1 DEF Residents, Rings
  <2>6. ASSUME NEW r \in Residents PROVE ResidentServed(r)'
    <3>1. position'[r] = 0 /\ queried'[r] = {} /\ (0 .. 0 - 1) = {} /\ \A k : k \notin {}
      BY <2>1
    <3>2. p.prefill \in Nat /\ p.context \in Nat
      <4>1. ManifestFacts(d, manifest) /\ Sized(p)
        <5> PICK e : e = d
          OBVIOUS
        <5> QED
          BY <2>2, ManifestHas, ProgramSized DEF Lowered
      <4> QED
        BY <4>1 DEF ManifestFacts, WidthsOf, Sized
    <3>3. position'[r] \in 0 .. p.context
      BY <3>1, <3>2
    <3>4. \E c \in 0 .. p.prefill :
              c <= position'[r] /\ queried'[r] = position'[r] - c .. position'[r] - 1
      <4>1. 0 \in 0 .. p.prefill
        BY <3>2
      <4>2. 0 <= position'[r] /\ queried'[r] = position'[r] - 0 .. position'[r] - 1
        BY <3>1
      <4> QED
        BY <4>1, <4>2
    <3>5. ASSUME NEW s \in Rings PROVE DOMAIN held'[s] = Residents /\ HeldLatest(s, r, 0)'
      <4>1. DOMAIN held'[s] = Residents /\ \A row \in 0 .. s.capacity - 1 : held'[s][r][row] = None
        BY <2>1
      <4> QED
        BY <3>1, <4>1 DEF HeldLatest, Latest
    <3> QED
      BY <2>1, <2>5, <3>1, <3>3, <3>4, <3>5 DEF ResidentServed
  <2>7. ServedInv'
    BY <2>1, <2>5, <2>6 DEF ServedInv
  <2> QED
    BY <1>0, <2>1, <2>2, <2>4, <2>7 DEF EnvelopeInv
<1>3. ASSUME stage = "serving"
      PROVE  /\ Lowered(d) /\ manifest = ProgramEnvelope(d.graph, p) /\ ServedInv
             /\ Widest(manifest, "tokens") = p.prefill /\ p.prefill \in Nat \ {0}
  <2>1. Lowered(d) /\ manifest = ProgramEnvelope(d.graph, p) /\ ServedInv
    BY <1>3 DEF EnvelopeInv
  <2>2. ManifestFacts(d, manifest)
    <3> PICK e : e = d
      OBVIOUS
    <3> QED
      BY <2>1, ManifestHas
  <2> QED
    BY <2>1, <2>2 DEF ManifestFacts, WidthsOf
<1>4. ASSUME stage = "serving", NEW counts, \A r \in Residents : counts[r] \in 0 .. p.prefill, Invoke(counts)
      PROVE  EnvelopeInv'
  <2>1. ServedInv'
    BY <1>3, <1>4, InvokeServes
  <2>2. deployed' = deployed /\ manifest' = manifest /\ stage' = stage
    BY <1>4 DEF Invoke
  <2> QED
    BY <1>0, <1>3, <1>4, <2>1, <2>2 DEF EnvelopeInv
<1>5. ASSUME NEW r \in Residents, Token(r) PROVE EnvelopeInv'
  <2>1. stage = "serving" /\ Invoke(Only(r, 1))
    BY <1>5 DEF Token
  <2>2. 1 \in 0 .. p.prefill
    BY <1>3, <2>1
  <2>3. PICK counts : counts = Only(r, 1)
    OBVIOUS
  <2>4. \A q \in Residents : counts[q] \in 0 .. p.prefill
    BY <1>3, <2>1, <2>2, <2>3, OnlyCarries
  <2> QED
    BY <1>4, <2>1, <2>3, <2>4
<1>6. ASSUME NEW r \in Residents, NEW count \in 2 .. Widest(manifest, "tokens"), Prefill(r, count) PROVE EnvelopeInv'
  <2>1. stage = "serving" /\ Invoke(Only(r, count))
    BY <1>6 DEF Prefill
  <2>2. count \in 0 .. p.prefill
    BY <1>3, <2>1
  <2>3. PICK counts : counts = Only(r, count)
    OBVIOUS
  <2>4. \A q \in Residents : counts[q] \in 0 .. p.prefill
    BY <1>3, <2>1, <2>2, <2>3, OnlyCarries
  <2> QED
    BY <1>4, <2>1, <2>3, <2>4
<1>7. ASSUME NEW counts \in [Residents -> 0 .. Widest(manifest, "tokens")], Batch(counts) PROVE EnvelopeInv'
  <2>1. stage = "serving" /\ Invoke(counts)
    BY <1>7 DEF Batch
  <2>2. \A q \in Residents : counts[q] \in 0 .. p.prefill
    BY <1>3, <2>1
  <2> QED
    BY <1>4, <2>1, <2>2
<1>8. ASSUME NEW r \in Residents, Reset(r) PROVE EnvelopeInv'
  <2>1. /\ stage = "serving" /\ deployed' = deployed /\ manifest' = manifest /\ stage' = stage
        /\ position' = [position EXCEPT ![r] = 0] /\ queried' = [queried EXCEPT ![r] = {}]
        /\ held' = [s \in Rings |-> [held[s] EXCEPT ![r] = [row \in 0 .. s.capacity - 1 |-> None]]]
    BY <1>8 DEF Reset
  <2>2. ServedInv /\ p.prefill \in Nat /\ p.context \in Nat
    <3>1. Sized(p)
      <4> PICK e : e = d
        OBVIOUS
      <4> QED
        BY <1>0, ProgramSized
    <3> QED
      BY <1>3, <2>1, <3>1 DEF Sized
  <2>3. Residents' = Residents /\ Rings' = Rings
    BY <2>1 DEF Residents, Rings
  <2>4. DOMAIN position = Residents /\ DOMAIN queried = Residents
    BY <2>2 DEF ServedInv
  <2>5. ASSUME NEW q \in Residents PROVE ResidentServed(q)'
    <3>1. ResidentServed(q)
      BY <2>2 DEF ServedInv
    <3>2. CASE q = r
      <4>1. position'[q] = 0 /\ queried'[q] = {} /\ (0 .. 0 - 1) = {}
        BY <2>1, <2>4, <3>2
      <4>2. position'[q] \in 0 .. p.context
        BY <2>2, <4>1
      <4>3. \E c \in 0 .. p.prefill :
                c <= position'[q] /\ queried'[q] = position'[q] - c .. position'[q] - 1
        <5>1. 0 \in 0 .. p.prefill
          BY <2>2
        <5>2. 0 <= position'[q] /\ queried'[q] = position'[q] - 0 .. position'[q] - 1
          BY <4>1
        <5> QED
          BY <5>1, <5>2
      <4>4. ASSUME NEW s \in Rings PROVE DOMAIN held'[s] = Residents /\ HeldLatest(s, q, 0)'
        <5>1. DOMAIN held[s] = Residents
          BY <3>1 DEF ResidentServed
        <5>2. DOMAIN held'[s] = Residents /\ \A row \in 0 .. s.capacity - 1 : held'[s][q][row] = None
          BY <2>1, <3>2, <5>1
        <5> QED
          BY <4>1, <5>2 DEF HeldLatest, Latest
      <4> QED
        BY <2>1, <2>3, <4>1, <4>2, <4>3, <4>4 DEF ResidentServed
    <3>3. CASE q # r
      <4>1. position'[q] = position[q] /\ queried'[q] = queried[q]
        BY <2>1, <2>4, <3>3
      <4>2. ASSUME NEW s \in Rings PROVE DOMAIN held'[s] = Residents /\ held'[s][q] = held[s][q]
        <5>1. DOMAIN held[s] = Residents
          BY <3>1 DEF ResidentServed
        <5> QED
          BY <2>1, <3>3, <5>1
      <4>3. ASSUME NEW s \in Rings PROVE HeldLatest(s, q, position[q])'
        <5>1. PICK n : n = position[q] /\ n = position'[q]
          BY <4>1
        <5>2. HeldLatest(s, q, n)
          BY <3>1, <5>1 DEF ResidentServed
        <5>3. HeldLatest(s, q, n)'
          BY <4>2, <5>2 DEF HeldLatest
        <5> QED
          BY <5>1, <5>3
      <4> QED
        BY <2>1, <2>3, <3>1, <4>1, <4>2, <4>3 DEF ResidentServed
    <3> QED
      BY <3>2, <3>3
  <2>6. ServedInv'
    BY <2>1, <2>3, <2>4, <2>5 DEF ServedInv
  <2> QED
    BY <1>0, <1>3, <2>1, <2>6 DEF EnvelopeInv
<1>9. CASE UNCHANGED envelopeVars
  <2>1. /\ deployed' = deployed /\ manifest' = manifest /\ stage' = stage /\ position' = position
        /\ held' = held /\ queried' = queried
    BY <1>9 DEF envelopeVars
  <2> QED
    BY <2>1 DEF EnvelopeInv, ServedInv, ResidentServed, HeldLatest, Residents, Rings
<1> QED
  BY <1>1, <1>2, <1>5, <1>6, <1>7, <1>8, <1>9 DEF EnvelopeNext

\* Nothing is compiled at first.
LEMMA EnvelopeStart == EnvelopeInit => EnvelopeInv
BY DEF EnvelopeInit, EnvelopeInv

\* EnvelopeServes: what the compiler can lower the contract takes and the engine
\* opens, and no query of what it serves finds its window overwritten.
THEOREM ServesWhatItLowers == EnvelopeSpec => []EnvelopeServes
<1>1. EnvelopeInv => EnvelopeServes
  <2> SUFFICES ASSUME EnvelopeInv PROVE EnvelopeServes
    OBVIOUS
  <2>1. stage # "refused"
    BY DEF EnvelopeInv
  <2>2. CASE stage = "serving"
    <3>1. WindowRetained
      BY <2>2, ServedRetains DEF EnvelopeInv
    <3> QED
      BY <2>1, <3>1 DEF EnvelopeServes
  <2>3. CASE stage # "serving"
    BY <2>1, <2>3 DEF EnvelopeServes, WindowRetained
  <2> QED
    BY <2>2, <2>3
<1> QED
  BY <1>1, EnvelopeStart, EnvelopeStep, PTL DEF EnvelopeSpec
=============================================================================
