--------------------------- MODULE PackageInstall ---------------------------
(***************************************************************************)
(* clib install of one package (src/HW5/clib): the sources it lists are    *)
(* fetched by threads, joined in batches through the array fetchs, and     *)
(* copied to the package cache, which later runs copy from. Runs follow    *)
(* one another over the same deps directory and the same cache; a run may  *)
(* be interrupted at any point, and it ends with threads still fetching.   *)
(* refs is counted by plain ++ and -- of several threads: each is a load   *)
(* and a store here, and `raced' tells that an update got lost.            *)
(***************************************************************************)
EXTENDS Integers, FiniteSets

CONSTANTS
  Sources,      \* how many files the manifest lists under "src"
  Concurrency,  \* opts.concurrency
  Makefile,     \* whether the manifest names a makefile
  MaxRuns       \* bound: runs of clib install over the same disk

ASSUME SourcesAssumption == Sources \in Nat /\ Concurrency \in Nat /\ MaxRuns \in Nat
ASSUME MakefileAssumption == Makefile \in BOOLEAN

Src == 1..Sources
NoFetch == 0
NoCopy == [file |-> NoFetch, content |-> "absent"]

VARIABLES
  disk,     \* deps/<name>/<file>: absent, broken (partial, or an error page), whole
  cache,    \* the copy in the package cache
  entry,    \* the cache directory of the package: none, fresh, expired
  runs,     \* runs begun
  force, skip_cache,
  half,     \* the file whose copy is opened and not written, and what was read of it
  pc, rc, i, next, fetchs, todo,
  refs, loaded,  \* pkg->refs, and what clib_package_install has loaded of it
  th, seen,      \* per fetch thread: where it is, and what it has loaded of refs
  freed, raced,
  missed,   \* whether a fetch has failed in this run
  spoiled   \* sources a failed or cut fetch or an unfinished copy has touched, ever

diskVars == <<disk, cache, entry>>
runVars  == <<runs, force, skip_cache, half>>
mainVars == <<pc, rc, i, next, fetchs, todo, loaded, freed>>
refVars  == <<refs, raced>>
ghosts   == <<missed, spoiled>>
vars == <<diskVars, runVars, mainVars, refVars, th, seen, ghosts>>

Live(s) == th[s] \in {"check", "open", "get", "dec", "store"}
Fetching(s) == th[s] \in {"check", "open", "get"}

Init ==
  /\ disk = [s \in Src |-> "absent"] /\ cache = [s \in Src |-> "absent"]
  /\ entry = "none" /\ runs = 0
  /\ force = FALSE /\ skip_cache = FALSE /\ half = NoCopy
  /\ pc = "out" /\ rc = 0 /\ i = 0 /\ next = 1
  /\ fetchs = [k \in 0..Concurrency |-> NoFetch]
  /\ todo = {} /\ refs = 0 /\ loaded = 0
  /\ th = [s \in Src |-> "idle"] /\ seen = [s \in Src |-> 0]
  /\ freed = FALSE /\ raced = FALSE
  /\ missed = FALSE /\ spoiled = {}

-----------------------------------------------------------------------------
(* Between runs the user may remove deps, and the cache entry grows old:   *)
(* then, or between the look-up and the load, which alone read its age.    *)
StartRun(f, k) ==
  /\ pc = "out" /\ runs < MaxRuns
  /\ runs' = runs + 1 /\ force' = f /\ skip_cache' = k
  /\ pc' = "makefile"
  /\ UNCHANGED <<diskVars, half, rc, i, next, fetchs, todo, loaded, freed, refVars, th, seen, ghosts>>

RemoveDeps ==
  /\ pc = "out" /\ disk' = [s \in Src |-> "absent"]
  /\ UNCHANGED <<cache, entry, runVars, mainVars, refVars, th, seen, ghosts>>

Expire ==
  /\ pc \in {"out", "load"} /\ entry = "fresh" /\ entry' = "expired"
  /\ UNCHANGED <<disk, cache, runVars, mainVars, refVars, th, seen, ghosts>>

(* The end of the process takes its memory and its threads with it, on     *)
(* every way out; what is on the disk stays.                               *)
EndProcess(spoils) ==
  /\ spoiled' = spoiled \cup spoils \cup {s \in Src : Fetching(s)}
  /\ pc' = "out" /\ rc' = 0 /\ i' = 0 /\ next' = 1 /\ todo' = {}
  /\ fetchs' = [k \in 0..Concurrency |-> NoFetch]
  /\ refs' = 0 /\ loaded' = 0 /\ raced' = FALSE /\ freed' = FALSE
  /\ th' = [s \in Src |-> "idle"] /\ seen' = [s \in Src |-> 0]
  /\ missed' = FALSE /\ force' = FALSE /\ skip_cache' = FALSE /\ half' = NoCopy
  /\ UNCHANGED <<disk, runs>>

Interrupt ==
  /\ pc # "out"
  /\ EndProcess((IF pc = "copyout" THEN todo ELSE {}) \cup {s \in Src : half.file = s})
  /\ UNCHANGED <<cache, entry>>

Exit == pc = "exit" /\ EndProcess({}) /\ UNCHANGED <<cache, entry>>

-----------------------------------------------------------------------------
(* The makefile is fetched and joined on its own. Its thread returns the   *)
(* address of a local: the read of *status and the free of it are          *)
(* undefined, and either abort the process or do nothing to rc. When the   *)
(* thread cannot be created the error number of pthread_create is kept.    *)
FetchMakefile ==
  /\ pc = "makefile"
  /\ \/ pc' = "cache" /\ UNCHANGED <<rc, refVars>>
     \/ Makefile /\ pc' = "free" /\ rc' = 1 /\ refs' = refs + 1 /\ UNCHANGED raced
  /\ UNCHANGED <<diskVars, runVars, i, next, fetchs, todo, loaded, freed, th, seen, ghosts>>

AbortOnMakefile ==
  /\ pc = "makefile" /\ Makefile /\ EndProcess({})
  /\ UNCHANGED <<cache, entry>>

(* rimraf removes an entry file by file, and each unlink makes the         *)
(* directory new again: cut short, it leaves a fresh and incomplete entry. *)
InterruptRemoval ==
  /\ \/ pc = "cache" /\ entry = "fresh" /\ skip_cache
     \/ pc = "load" /\ entry = "expired"
     \/ pc = "save" /\ entry # "none"
  /\ entry' = "fresh"
  /\ \E gone \in SUBSET Src :
       /\ cache' = [s \in Src |-> IF s \in gone THEN "absent" ELSE cache[s]]
       /\ EndProcess(gone)

(* clib_cache_has_package, and --skip-cache deleting the entry.            *)
LookUpCache ==
  /\ pc = "cache"
  /\ IF entry # "fresh" THEN pc' = "download" /\ UNCHANGED <<cache, entry>>
     ELSE IF skip_cache
     THEN /\ pc' = "download" /\ entry' = "none"
          /\ cache' = [s \in Src |-> "absent"]
     ELSE pc' = "load" /\ UNCHANGED <<cache, entry>>
  /\ UNCHANGED <<disk, runVars, rc, i, next, fetchs, todo, loaded, freed, refVars, th, seen, ghosts>>

(* clib_cache_load_package: an entry that has expired since the look-up is *)
(* removed and the sources are downloaded after all.                       *)
LoadPackage ==
  /\ pc = "load"
  /\ IF entry = "fresh"
     THEN /\ pc' = "copyin" /\ todo' = {s \in Src : cache[s] # "absent"}
          /\ UNCHANGED <<cache, entry>>
     ELSE /\ pc' = "download" /\ entry' = "none"
          /\ cache' = [s \in Src |-> "absent"]
          /\ UNCHANGED todo
  /\ UNCHANGED <<disk, runVars, rc, i, next, fetchs, loaded, freed, refVars, th, seen, ghosts>>

(* copy_file: the file is read, and the copy is opened, which truncates    *)
(* it, and written. What fs_write returns is not looked at: a copy that    *)
(* cannot be opened, or not written in full, passes for a good one.        *)
CopyIn(s) ==
  /\ pc = "copyin" /\ half = NoCopy /\ s \in todo
  /\ todo' = todo \ {s}
  /\ \/ /\ half' = [file |-> s, content |-> cache[s]]
        /\ disk' = [disk EXCEPT ![s] = "broken"] /\ UNCHANGED spoiled
     \/ spoiled' = spoiled \cup {s} /\ UNCHANGED <<disk, half>>
  /\ UNCHANGED <<cache, entry, runs, force, skip_cache, pc, rc, i, next, fetchs, loaded, freed,
                 refVars, th, seen, missed>>

WriteIn ==
  /\ pc = "copyin" /\ half # NoCopy /\ half' = NoCopy
  /\ \/ disk' = [disk EXCEPT ![half.file] = half.content] /\ UNCHANGED spoiled
     \/ spoiled' = spoiled \cup {half.file} /\ UNCHANGED disk
  /\ UNCHANGED <<cache, entry, runs, force, skip_cache, mainVars, refVars, th, seen, missed>>

(* A cached file that cannot be read ends copy_dir early.                  *)
CopyInFails_Ignored ==
  /\ pc = "copyin" /\ half = NoCopy /\ todo # {}
  /\ pc' = "install" /\ todo' = {}
  /\ UNCHANGED <<diskVars, runVars, rc, i, next, fetchs, loaded, freed, refVars, th, seen, ghosts>>

CopyInFails ==
  /\ pc = "copyin" /\ half = NoCopy /\ todo # {}
  /\ pc' = "download" /\ todo' = {}
  /\ UNCHANGED <<diskVars, runVars, rc, i, next, fetchs, loaded, freed, refVars, th, seen, ghosts>>

CopyInDone ==
  /\ pc = "copyin" /\ half = NoCopy /\ todo = {} /\ pc' = "install"
  /\ UNCHANGED <<diskVars, runVars, rc, i, next, fetchs, todo, loaded, freed, refVars,
                 th, seen, ghosts>>

-----------------------------------------------------------------------------
(* The download loop takes the next source: pkg->refs is loaded, then      *)
(* stored, before the thread exists.                                       *)
FetchNext ==
  /\ pc = "download" /\ next <= Sources
  /\ pc' = "count" /\ loaded' = refs
  /\ UNCHANGED <<diskVars, runVars, rc, i, next, fetchs, todo, freed, refVars, th, seen, ghosts>>

CountRef ==
  /\ pc = "count" /\ pc' = "create"
  /\ refs' = loaded + 1 /\ raced' = (raced \/ refs # loaded) /\ loaded' = 0
  /\ UNCHANGED <<diskVars, runVars, rc, i, next, fetchs, todo, freed, th, seen, ghosts>>

(* pthread_create fails: nothing takes the reference back, the threads     *)
(* already running are left, and the install fails.                        *)
CreateFails ==
  /\ pc = "create" /\ pc' = "free" /\ rc' = -1
  /\ UNCHANGED <<diskVars, runVars, i, next, fetchs, todo, loaded, freed, refVars, th, seen, ghosts>>

(* The slot a new thread gets: i, brought back to 0 after a batch.         *)
Slot == IF i < 0 THEN 0 ELSE i

(* Whether the batch has room after the slot just filled.                  *)
RoomAfter(k) == k < Concurrency

(* The thread is created and put in its slot. With room left i moves on;   *)
(* in the last slot the batch is joined, starting one slot below it.       *)
Create ==
  /\ pc = "create"
  /\ th' = [th EXCEPT ![next] = "check"]
  /\ fetchs' = [fetchs EXCEPT ![Slot] = next]
  /\ next' = next + 1
  /\ IF RoomAfter(Slot) THEN i' = Slot + 1 /\ pc' = "download"
                           ELSE i' = Slot /\ pc' = "batch"
  /\ UNCHANGED <<diskVars, runVars, rc, todo, loaded, freed, refVars, seen, ghosts>>

Drain ==
  /\ pc = "download" /\ next > Sources /\ pc' = "drain"
  /\ UNCHANGED <<diskVars, runVars, rc, i, next, fetchs, todo, loaded, freed, refVars,
                 th, seen, ghosts>>

(* while (--i >= 0): the slot's thread is joined and the slot cleared.     *)
(* pthread_join is given status, a null pointer, and not its address: what *)
(* the thread returned is lost, and rc stays 0.                            *)
MoreToJoin_StopsAtOne == i - 1 > 0
MoreToJoin == i - 1 >= 0

Join ==
  /\ pc \in {"batch", "drain"} /\ MoreToJoin
  /\ fetchs[i - 1] # NoFetch /\ th[fetchs[i - 1]] = "ended"
  /\ i' = i - 1
  /\ th' = [th EXCEPT ![fetchs[i - 1]] = "joined"]
  /\ fetchs' = [fetchs EXCEPT ![i - 1] = NoFetch]
  /\ UNCHANGED <<diskVars, runVars, pc, rc, next, todo, loaded, freed, refVars, seen, ghosts>>

JoinsDone ==
  /\ pc \in {"batch", "drain"} /\ ~MoreToJoin
  /\ i' = i - 1
  /\ pc' = IF pc = "batch" THEN "download" ELSE "save"
  /\ UNCHANGED <<diskVars, runVars, rc, next, fetchs, todo, loaded, freed, refVars, th, seen, ghosts>>

(* clib_cache_save_package: the old entry is removed, and the directory    *)
(* is copied file by file as it stands, a file still being fetched too.    *)
SavePackage ==
  /\ pc = "save" /\ pc' = "copyout" /\ todo' = Src
  /\ cache' = [s \in Src |-> "absent"] /\ entry' = "fresh"
  /\ UNCHANGED <<disk, runVars, rc, i, next, fetchs, loaded, freed, refVars, th, seen, ghosts>>

CopyOut(s) ==
  /\ pc = "copyout" /\ half = NoCopy /\ s \in todo
  /\ todo' = todo \ {s}
  /\ \/ /\ disk[s] # "absent" /\ half' = [file |-> s, content |-> disk[s]]
        /\ cache' = [cache EXCEPT ![s] = "broken"]
        /\ spoiled' = IF Fetching(s) THEN spoiled \cup {s} ELSE spoiled
     \/ spoiled' = spoiled \cup {s} /\ UNCHANGED <<cache, half>>
  /\ UNCHANGED <<disk, entry, runs, force, skip_cache, pc, rc, i, next, fetchs, loaded, freed,
                 refVars, th, seen, missed>>

WriteOut ==
  /\ pc = "copyout" /\ half # NoCopy /\ half' = NoCopy
  /\ \/ cache' = [cache EXCEPT ![half.file] = half.content] /\ UNCHANGED spoiled
     \/ spoiled' = spoiled \cup {half.file} /\ UNCHANGED cache
  /\ UNCHANGED <<disk, entry, runs, force, skip_cache, mainVars, refVars, th, seen, missed>>

(* The result of the copy is not looked at: cut short by an unreadable     *)
(* file, the entry stays as it is and the install goes on.                 *)
CopyOutEnds ==
  /\ pc = "copyout" /\ half = NoCopy /\ pc' = "install" /\ todo' = {}
  /\ spoiled' = spoiled \cup todo
  /\ UNCHANGED <<diskVars, runVars, rc, i, next, fetchs, loaded, freed, refVars, th, seen, missed>>

(* configure, install and the dependencies: all well, a command's status,  *)
(* or a failure of clib itself. clib-install takes only -1 for a failure.  *)
Install(r) ==
  /\ pc = "install" /\ rc' = r /\ pc' = "free"
  /\ UNCHANGED <<diskVars, runVars, i, next, fetchs, todo, loaded, freed, refVars, th, seen, ghosts>>

(* clib_package_free does nothing while references are counted.            *)
Free_Always ==
  /\ pc = "free" /\ pc' = "exit" /\ freed' = TRUE
  /\ UNCHANGED <<diskVars, runVars, rc, i, next, fetchs, todo, loaded, refVars, th, seen, ghosts>>

Free ==
  /\ pc = "free" /\ pc' = "exit" /\ freed' = (refs = 0)
  /\ UNCHANGED <<diskVars, runVars, rc, i, next, fetchs, todo, loaded, refVars, th, seen, ghosts>>

-----------------------------------------------------------------------------
(* fetch_package_file_work. The test for the file is under lock.mutex,     *)
(* which the cache functions hold too; the download is not.                *)
Check_Overwrites(s) ==
  /\ th[s] = "check" /\ pc \notin {"load", "copyin", "copyout"}
  /\ th' = [th EXCEPT ![s] = "open"]
  /\ UNCHANGED <<diskVars, runVars, mainVars, refVars, seen, ghosts>>

Check(s) ==
  /\ th[s] = "check" /\ pc \notin {"load", "copyin", "copyout"}
  /\ th' = [th EXCEPT ![s] = IF force \/ disk[s] = "absent" THEN "open" ELSE "dec"]
  /\ UNCHANGED <<diskVars, runVars, mainVars, refVars, seen, ghosts>>

(* http_get_file_shared truncates the file, or fails and leaves it alone.  *)
Open(s) ==
  /\ th[s] = "open"
  /\ \/ th' = [th EXCEPT ![s] = "get"] /\ disk' = [disk EXCEPT ![s] = "broken"]
        /\ UNCHANGED ghosts
     \/ th' = [th EXCEPT ![s] = "dec"] /\ UNCHANGED disk
        /\ missed' = TRUE /\ spoiled' = spoiled \cup {s}
  /\ UNCHANGED <<cache, entry, runVars, mainVars, refVars, seen>>

(* The transfer ends: the whole file; another status than 200, with the    *)
(* error page or nothing in the file; or status 200 and a connection lost  *)
(* in the middle, which returns 0 like the first.                          *)
Get(s) ==
  /\ th[s] = "get" /\ th' = [th EXCEPT ![s] = "dec"]
  /\ \/ disk' = [disk EXCEPT ![s] = "whole"] /\ UNCHANGED ghosts
     \/ missed' = TRUE /\ spoiled' = spoiled \cup {s} /\ UNCHANGED disk
     \/ spoiled' = spoiled \cup {s} /\ UNCHANGED <<disk, missed>>
  /\ UNCHANGED <<cache, entry, runVars, mainVars, refVars, seen>>

LoadRefs(s) ==
  /\ th[s] = "dec" /\ th' = [th EXCEPT ![s] = "store"]
  /\ seen' = [seen EXCEPT ![s] = refs]
  /\ UNCHANGED <<diskVars, runVars, mainVars, refVars, ghosts>>

StoreRefs(s) ==
  /\ th[s] = "store" /\ th' = [th EXCEPT ![s] = "ended"]
  /\ refs' = seen[s] - 1 /\ raced' = (raced \/ refs # seen[s])
  /\ seen' = [seen EXCEPT ![s] = 0]
  /\ UNCHANGED <<diskVars, runVars, mainVars, ghosts>>

Finished == pc = "out" /\ runs = MaxRuns /\ UNCHANGED vars

Next ==
  \/ \E f, k \in BOOLEAN : StartRun(f, k)
  \/ RemoveDeps \/ Expire
  \/ Interrupt \/ InterruptRemoval \/ Exit
  \/ FetchMakefile \/ AbortOnMakefile \/ LookUpCache \/ LoadPackage
  \/ WriteIn \/ CopyInFails \/ CopyInDone
  \/ FetchNext \/ CountRef \/ CreateFails \/ Create \/ Drain
  \/ Join \/ JoinsDone
  \/ SavePackage \/ WriteOut \/ CopyOutEnds
  \/ \E r \in {-1, 0, 1} : Install(r)
  \/ Free \/ Finished
  \/ \E s \in Src : CopyIn(s) \/ CopyOut(s) \/ Check(s) \/ Open(s) \/ Get(s)
                    \/ LoadRefs(s) \/ StoreRefs(s)

Spec == Init /\ [][Next]_vars

-----------------------------------------------------------------------------
(* A batch joins all but its last thread, and no thread but the last of a  *)
(* full batch escapes: when the cache is filled, every other one has ended *)
(* and been joined.                                                        *)
OnlyBatchLastsEscape ==
  pc \in {"save", "copyout"} =>
    \A s \in Src : s % (Concurrency + 1) # 0 => th[s] = "joined"

(* The package is freed only when no thread will touch it again, unless an *)
(* unlocked update of refs got lost: the escaped threads keep it alive.    *)
FreedWhenUnused == freed /\ ~raced => \A s \in Src : ~Live(s)

(* At the end of an install that reports success, a file that is not whole *)
(* has a cause: a fetch of it that failed, was cut off or is still going   *)
(* on, now or when a run before left its file behind or put it in the      *)
(* cache, or a copy of it, to the cache or from it, that was not finished. *)
IncompleteExplained ==
  pc = "exit" /\ rc = 0 =>
    \A s \in Src : disk[s] # "whole" => s \in spoiled \/ Fetching(s)

(* A step takes a whole file from deps only when the user removes it, the  *)
(* install is forced, or the copy from the cache is opened over it; and it *)
(* is whole again when that is done, unless the copy in the cache, or the  *)
(* copying, was spoiled: now or by an earlier run.                         *)
WholeFilesStay ==
  [][\A s \in Src :
       /\ disk[s] = "whole" /\ disk'[s] # "whole" => pc = "out" \/ force \/ half'.file = s
       /\ pc = "copyin" /\ half.file = s /\ half'.file # s => disk'[s] = "whole" \/ s \in spoiled']_vars

(* test/gh-35-exit-codes.sh: "Failed installations should exit with a      *)
(* non-zero exit code". The exit code is 0 unless rc is -1.                *)
FailedInstallReported ==
  pc = "exit" /\ (rc # 0 \/ missed) => rc = -1
=============================================================================
