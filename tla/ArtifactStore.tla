--------------------------- MODULE ArtifactStore ---------------------------
(***************************************************************************)
(* How compiled results reach the disk: write_atomic and cached of         *)
(* crates/inferfabric-compiler/src/lib.rs and the staging directory of     *)
(* write_bundle_with_variants (token.rs).  Threads of several processes    *)
(* share one directory; processes are killed at any step and come back     *)
(* under the same process id with their counter at 0, and the machine may  *)
(* lose what was not synced.  Directory operations are ordered and durable *)
(* (a journalling file system) and live processes have distinct ids.       *)
(***************************************************************************)
EXTENDS Naturals, Sequences, FiniteSets, Functions

CONSTANTS Writers,      \* threads
          PidOf,        \* per thread: its process id
          Keys,         \* cache keys
          BundleFiles,  \* the files of a bundle in the order of writing: [stem, ext]
          MaxCrashes,   \* kills and power losses
          MaxCalls      \* calls of cached and write_bundle

\* A bundle has files, and none is named like a temporary.
ASSUME StoreAssumption ==
    /\ DOMAIN PidOf = Writers
    /\ BundleFiles \in Seq([stem : STRING, ext : Seq(STRING)]) /\ BundleFiles # << >>
    /\ \A i \in DOMAIN BundleFiles : Len(BundleFiles[i].ext) = 1

VARIABLES files,        \* path [dir, stem, ext] |-> [by, of, whole, synced]
          dirs,         \* the bundle and staging directories
          nextTemp,     \* per process: NEXT_TEMP
          task,         \* per thread: what it is doing
          calls, crashes

storeVars == <<files, dirs, nextTemp, task, calls, crashes>>

Pids == {PidOf[t] : t \in Writers}
Output == <<"out", 0, 0>>
CacheDir == <<"cache", 0, 0>>
Path(dir, f) == [dir |-> dir, stem |-> f.stem, ext |-> f.ext]
CacheFile(k) == [stem |-> k, ext |-> <<"inferfabric-bin">>]
Idle == [at |-> "idle", dir |-> CacheDir, todo |-> << >>, temp |-> << >>, call |-> 0]

StoreInit ==
    /\ files = [p \in {} |-> << >>] /\ dirs = {}
    /\ nextTemp = [p \in Pids |-> 0]
    /\ task = [t \in Writers |-> Idle]
    /\ calls = 0 /\ crashes = 0

Put(fs, p, content) == [q \in DOMAIN fs \cup {p} |-> IF q = p THEN content ELSE fs[q]]
Removed(fs, ps) == Restrict(fs, DOMAIN fs \ ps)
InDir(fs, d) == {p \in DOMAIN fs : p.dir = d}
Content(fs, d) == Restrict(fs, InDir(fs, d))

----------------------------------------------------------------------------
(* The two callers.                                                        *)

\* decode: a file that is not a whole artifact of this key is an error.
Decodes(k) == LET c == files[Path(CacheDir, CacheFile(k))] IN c.whole /\ c.of = CacheFile(k)

\* cached: a hit returns at once, as does a file that does not decode.
Cached(t, k) ==
    /\ task[t].at = "idle" /\ calls < MaxCalls /\ calls' = calls + 1
    /\ task' = [task EXCEPT ![t] =
                  IF Path(CacheDir, CacheFile(k)) \in DOMAIN files
                  THEN [Idle EXCEPT !.at = IF Decodes(k) THEN "idle" ELSE "corrupt"]
                  ELSE [at |-> "create", dir |-> CacheDir, todo |-> <<CacheFile(k)>>, temp |-> << >>, call |-> calls']]
    /\ UNCHANGED <<files, dirs, nextTemp, crashes>>

\* write_bundle_with_variants up to the staging directory.  Everything that can
\* be refused in the request has been before the first directory is made.
WriteBundle(t) ==
    /\ task[t].at = "idle" /\ calls < MaxCalls /\ calls' = calls + 1
    /\ Output \notin dirs
    /\ task' = [task EXCEPT ![t] = [Idle EXCEPT !.at = "stage", !.dir = <<"staging", PidOf[t], 0>>, !.call = calls']]
    /\ UNCHANGED <<files, dirs, nextTemp, crashes>>

\* Mutant of Taken: create_dir_all, which is content with a directory that is there.
TakenNever(d) == FALSE

\* create_dir fails on a directory that exists, whoever made it.
Taken(d) == d \in dirs

Stage(t) ==
    /\ task[t].at = "stage"
    /\ IF Taken(task[t].dir)
       THEN /\ task' = [task EXCEPT ![t].dir[3] = @ + 1]
            /\ UNCHANGED dirs
       ELSE /\ dirs' = dirs \cup {task[t].dir}
            /\ task' = [task EXCEPT ![t] = [@ EXCEPT !.at = "create", !.todo = BundleFiles]]
    /\ UNCHANGED <<files, nextTemp, calls, crashes>>

----------------------------------------------------------------------------
(* write_atomic, system call by system call.                               *)

\* Mutant of TempName: the process id alone.
TempNameOfProcess(f, pid, n) == [stem |-> f.stem, ext |-> <<pid, 0, "tmp">>]

\* with_extension: the temporary replaces the extension, so that all files of a
\* bundle with one stem differ by the counter only.
TempName(f, pid, n) == [stem |-> f.stem, ext |-> <<pid, n, "tmp">>]

\* An error removes the temporary, whoever made it, and then the staging directory.
Fail(t, fs) ==
    LET d == task[t].dir
        staged == IF d = CacheDir THEN {} ELSE InDir(fs, d)
    IN  /\ files' = Removed(fs, staged) /\ dirs' = dirs \ {d}
        /\ task' = [task EXCEPT ![t] = Idle]

CreateTemp(t) ==
    LET pid == PidOf[t]
        temp == Path(task[t].dir, TempName(Head(task[t].todo), pid, nextTemp[pid])) IN
    /\ task[t].at = "create"
    /\ nextTemp' = [nextTemp EXCEPT ![pid] = @ + 1]
    /\ IF temp \in DOMAIN files
       THEN Fail(t, Removed(files, {temp}))
       ELSE /\ files' = Put(files, temp, [by |-> task[t].call, of |-> Head(task[t].todo), whole |-> FALSE, synced |-> FALSE])
            /\ task' = [task EXCEPT ![t] = [@ EXCEPT !.at = "write", !.temp = temp]]
            /\ UNCHANGED dirs
    /\ UNCHANGED <<calls, crashes>>

\* The handle stays good for writing when the name is gone.
Written(t, content) == IF task[t].temp \in DOMAIN files THEN [files EXCEPT ![task[t].temp] = content] ELSE files

\* write_all, which may run out of space.
WriteTemp(t) ==
    /\ task[t].at = "write"
    /\ \/ /\ files' = Written(t, [by |-> task[t].call, of |-> Head(task[t].todo), whole |-> TRUE, synced |-> FALSE])
          /\ task' = [task EXCEPT ![t].at = "sync"]
          /\ UNCHANGED dirs
       \/ Fail(t, Removed(files, {task[t].temp}))
    /\ UNCHANGED <<nextTemp, calls, crashes>>

\* Mutant of SyncTemp: the bytes are left to the page cache.
SyncTempLater(t) ==
    /\ task[t].at = "sync"
    /\ task' = [task EXCEPT ![t].at = "rename"]
    /\ UNCHANGED <<files, dirs, nextTemp, calls, crashes>>

SyncTemp(t) ==
    /\ task[t].at = "sync"
    /\ files' = Written(t, [by |-> task[t].call, of |-> Head(task[t].todo), whole |-> TRUE, synced |-> TRUE])
    /\ task' = [task EXCEPT ![t].at = "rename"]
    /\ UNCHANGED <<dirs, nextTemp, calls, crashes>>

RenameTemp(t) ==
    LET temp == task[t].temp
        rest == Tail(task[t].todo) IN
    /\ task[t].at = "rename"
    /\ IF temp \in DOMAIN files
       THEN /\ files' = Put(Removed(files, {temp}), Path(task[t].dir, Head(task[t].todo)), files[temp])
            /\ task' = [task EXCEPT ![t] =
                          IF rest # << >> THEN [@ EXCEPT !.at = "create", !.todo = rest]
                          ELSE IF task[t].dir = CacheDir THEN Idle ELSE [@ EXCEPT !.at = "publish"]]
            /\ UNCHANGED dirs
       ELSE Fail(t, files)
    /\ UNCHANGED <<nextTemp, calls, crashes>>

----------------------------------------------------------------------------
(* Publishing, and what interrupts it.                                     *)

\* Mutant of Replaceable: the old bundle makes way.
ReplaceableAlways == TRUE

\* rename refuses a directory that is not empty.
Replaceable == Output \notin dirs

PublishBundle(t) ==
    LET d == task[t].dir
        old == InDir(files, Output)
        moved == [p \in {Path(Output, q) : q \in InDir(files, d)} |-> files[Path(d, p)]] IN
    /\ task[t].at = "publish"
    /\ IF Replaceable
       THEN /\ files' = LET kept == Removed(files, InDir(files, d) \cup old)
                        IN  [p \in DOMAIN kept \cup DOMAIN moved |-> IF p \in DOMAIN moved THEN moved[p] ELSE kept[p]]
            /\ dirs' = (dirs \ {d}) \cup {Output}
            /\ task' = [task EXCEPT ![t] = Idle]
       ELSE Fail(t, files)
    /\ UNCHANGED <<nextTemp, calls, crashes>>

\* A process is killed; the next one with its id starts counting at 0.
Kill(p) ==
    /\ crashes < MaxCrashes /\ crashes' = crashes + 1
    /\ \E t \in Writers : PidOf[t] = p /\ task[t].at # "idle"
    /\ task' = [t \in Writers |-> IF PidOf[t] = p THEN Idle ELSE task[t]]
    /\ nextTemp' = [nextTemp EXCEPT ![p] = 0]
    /\ UNCHANGED <<files, dirs, calls>>

\* The machine goes down: what was not synced is gone from its file.
PowerLoss ==
    /\ crashes < MaxCrashes /\ crashes' = crashes + 1
    /\ task' = [t \in Writers |-> Idle] /\ nextTemp' = [p \in Pids |-> 0]
    /\ files' = [p \in DOMAIN files |-> IF files[p].synced THEN files[p] ELSE [files[p] EXCEPT !.whole = FALSE]]
    /\ UNCHANGED <<dirs, calls>>

StoreNext ==
    \/ \E t \in Writers :
          \/ \E k \in Keys : Cached(t, k)
          \/ WriteBundle(t) \/ Stage(t) \/ CreateTemp(t) \/ WriteTemp(t)
          \/ SyncTemp(t) \/ RenameTemp(t) \/ PublishBundle(t)
    \/ \E p \in Pids : Kill(p)
    \/ PowerLoss

StoreSpec == StoreInit /\ [][StoreNext]_storeVars

----------------------------------------------------------------------------
(* Properties.                                                             *)

\* Files under a final name are whole and what the name says.
PublishedWhole ==
    /\ \A t \in Writers : task[t].at # "corrupt"
    /\ \A p \in InDir(files, CacheDir) : p.ext = <<"inferfabric-bin">> =>
          files[p].whole /\ files[p].of = [stem |-> p.stem, ext |-> p.ext]
    /\ Output \in dirs =>
          /\ InDir(files, Output) = {Path(Output, BundleFiles[k]) : k \in DOMAIN BundleFiles}
          /\ \A p, q \in InDir(files, Output) : files[p].whole /\ files[p].by = files[q].by

\* The file system never shows a part of anything under its final name, and a
\* reader never meets a cache file that does not decode: a cached artifact is
\* whole and the one of its key, a published bundle has all its files, whole and
\* all of one writer, and nothing but them, after kills and power losses too.  A
\* published bundle never changes: a reader that opens its files one after the
\* other reads one bundle.
PublishedOnce ==
    /\ []PublishedWhole
    /\ [][(Output \in dirs) => Output \in dirs' /\ Content(files', Output) = Content(files, Output)]_storeVars
=============================================================================
