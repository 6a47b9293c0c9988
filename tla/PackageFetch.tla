---------------------------- MODULE PackageFetch ----------------------------
(***************************************************************************)
(* clib_package_new_from_slug (src/HW5/clib/src/common/clib-package.c): a  *)
(* thread of clib-build or clib-configure gets the manifest of a version   *)
(* of a package, from the cache of manifests or from the network. The      *)
(* cache, and the table curl shares, are behind one mutex, lock.mutex,     *)
(* which a retry unlocks without holding it. glibc's default mutex is then *)
(* simply free: `locked' is its word, `inside' the threads between a lock  *)
(* and the unlock that belongs to it.                                      *)
(***************************************************************************)
EXTENDS Integers, FiniteSets

CONSTANTS
  Threads,
  Retries,   \* how often a request is made: 3 in the code
  MaxRuns    \* bound: runs of the program over the same cache

ASSUME FetchAssumption == Retries \in Nat /\ MaxRuns \in Nat

Head == "master"                    \* DEFAULT_REPO_VERSION
Versions == {Head, "1.0"}
Torn == "torn"                      \* a manifest that does not parse
Absent == "absent"
Files == 1..2                       \* manifest_names: clib.json, package.json

VARIABLES
  locked, inside, share,            \* lock.mutex; clib_package_curl_share
  cache, fresh,                     \* the cached manifest of a version, and its age
  head_names,                       \* the version the manifest of master gives, if any
  skip_cache,                       \* opts.skip_cache
  pc, slug, file, retries,          \* per thread: the version asked for, ...
  json, log, pkg,                   \* ... the text, where it is from, and the result
  runs,
  retried                           \* a download was retried

mutex == <<locked, inside>>
disk == <<cache, fresh>>
setting == <<head_names, skip_cache, runs, slug>>
locals == <<file, retries, json, log, pkg>>
ghosts == <<retried>>
vars == <<mutex, share, disk, setting, pc, locals, ghosts>>

At(t, from, to) == pc[t] = from /\ pc' = [pc EXCEPT ![t] = to]
Lock(t)   == ~locked /\ locked' = TRUE /\ inside' = inside \cup {t}
Unlock(t) == locked' = FALSE /\ inside' = inside \ {t}

Idle ==
  /\ locked' = FALSE /\ inside' = {} /\ share' = 0
  /\ pc' = [t \in Threads |-> "out"] /\ slug' = [t \in Threads |-> Head]
  /\ file' = [t \in Threads |-> 1] /\ retries' = [t \in Threads |-> Retries]
  /\ json' = [t \in Threads |-> Absent] /\ log' = [t \in Threads |-> "none"]
  /\ pkg' = [t \in Threads |-> Absent]

Init ==
  /\ locked = FALSE /\ inside = {} /\ share = 0
  /\ cache = [v \in Versions |-> Absent] /\ fresh = [v \in Versions |-> FALSE]
  /\ head_names \in {Absent, "1.0"} /\ skip_cache \in BOOLEAN
  /\ pc = [t \in Threads |-> "out"] /\ slug = [t \in Threads |-> Head]
  /\ file = [t \in Threads |-> 1] /\ retries = [t \in Threads |-> Retries]
  /\ json = [t \in Threads |-> Absent] /\ log = [t \in Threads |-> "none"]
  /\ pkg = [t \in Threads |-> Absent]
  /\ runs = 1 /\ retried = FALSE

-----------------------------------------------------------------------------
Call(t, v) ==
  /\ At(t, "out", "lock") /\ slug' = [slug EXCEPT ![t] = v]
  /\ UNCHANGED <<mutex, share, disk, head_names, skip_cache, runs, locals, ghosts>>

Cached(v) == cache[v] # Absent /\ fresh[v]

(* clib_cache_has_json, and --skip-cache deleting what it found.           *)
HasJson(t) ==
  /\ At(t, "lock", IF Cached(slug[t]) /\ ~skip_cache THEN "read" ELSE "unlock") /\ Lock(t)
  /\ cache' = IF Cached(slug[t]) /\ skip_cache THEN [cache EXCEPT ![slug[t]] = Absent] ELSE cache
  /\ fresh' = IF Cached(slug[t]) /\ skip_cache THEN [fresh EXCEPT ![slug[t]] = FALSE] ELSE fresh
  /\ UNCHANGED <<share, setting, locals, ghosts>>

(* clib_cache_read_json looks at the age again, and may find nothing.      *)
ReadJson(t) ==
  /\ Cached(slug[t]) /\ At(t, "read", "parse") /\ Unlock(t)
  /\ json' = [json EXCEPT ![t] = cache[slug[t]]] /\ log' = [log EXCEPT ![t] = "cache"]
  /\ UNCHANGED <<share, disk, setting, file, retries, pkg, ghosts>>
ReadNull(t) ==
  /\ ~Cached(slug[t]) /\ At(t, "read", "unlock")
  /\ UNCHANGED <<mutex, share, disk, setting, locals, ghosts>>

(* The label download: reached once with the mutex, and again by every     *)
(* failed request without it. init_curl_share tests without the mutex: two *)
(* threads may both create a table, the second forgetting the first.       *)
Download_KeepsMutex(t) ==
  /\ At(t, "unlock", IF retries[t] <= 0 THEN "next" ELSE IF share = 0 THEN "share" ELSE "get")
  /\ retries' = [retries EXCEPT ![t] = @ - 1]
  /\ retried' = (retried \/ retries[t] < Retries)
  /\ UNCHANGED <<mutex, share, disk, setting, file, json, log, pkg>>
Download(t) ==
  /\ At(t, "unlock", IF retries[t] <= 0 THEN "next" ELSE IF share = 0 THEN "share" ELSE "get")
  /\ Unlock(t)
  /\ retries' = [retries EXCEPT ![t] = @ - 1]
  /\ retried' = (retried \/ retries[t] < Retries)
  /\ UNCHANGED <<share, disk, setting, file, json, log, pkg>>
LockShare(t) ==
  /\ At(t, "share", "shareinit") /\ Lock(t)
  /\ UNCHANGED <<share, disk, setting, locals, ghosts>>
InitShare(t) ==
  /\ At(t, "shareinit", "get") /\ Unlock(t) /\ share' = 1
  /\ UNCHANGED <<disk, setting, locals, ghosts>>

(* curl takes the mutex through the callbacks while it looks in the table. *)
CurlLock(t) ==
  /\ At(t, "get", "connect") /\ Lock(t)
  /\ UNCHANGED <<share, disk, setting, locals, ghosts>>

GetFails(t) ==
  /\ At(t, "connect", "unlock") /\ Unlock(t)
  /\ UNCHANGED <<share, disk, setting, locals, ghosts>>

(* Status 200 is all that makes an answer ok: its text may be cut.         *)
GetOk(t) ==
  /\ At(t, "connect", "parse") /\ Unlock(t)
  /\ \E text \in {slug[t], Torn} : json' = [json EXCEPT ![t] = text]
  /\ log' = [log EXCEPT ![t] = "fetch"]
  /\ UNCHANGED <<share, disk, setting, file, retries, pkg, ghosts>>

-----------------------------------------------------------------------------
(* The version of the package: the slug's, unless that is the default one  *)
(* and the manifest has a version of its own. The manifest is cached under *)
(* this version, not under the one it was looked up by.                    *)
Forced_Default(v) == Head
Forced(v) == IF v = Head /\ head_names # Absent THEN head_names ELSE v

Parse_Unlocked(t) ==
  /\ json[t] # Torn /\ At(t, "parse", "saveopen") /\ inside' = inside \cup {t}
  /\ UNCHANGED <<locked, share, disk, setting, locals, ghosts>>
ParseFails(t) ==
  /\ json[t] = Torn /\ At(t, "parse", "next")
  /\ UNCHANGED <<mutex, share, disk, setting, locals, ghosts>>
Parse(t) ==
  /\ json[t] # Torn /\ At(t, "parse", "saveopen") /\ Lock(t)
  /\ UNCHANGED <<share, disk, setting, locals, ghosts>>

(* fs_write truncates the file, then writes it; the result is not looked   *)
(* at beyond a message.                                                    *)
SaveOpen(t) ==
  LET v == Forced(slug[t]) IN
  /\ At(t, "saveopen", "savewrite")
  /\ cache' = [cache EXCEPT ![v] = Torn] /\ fresh' = [fresh EXCEPT ![v] = TRUE]
  /\ UNCHANGED <<mutex, share, setting, locals, ghosts>>
Return(t) ==
  /\ pkg' = [pkg EXCEPT ![t] = json[t]]
  /\ json' = [json EXCEPT ![t] = Absent]
  /\ retries' = [retries EXCEPT ![t] = Retries] /\ file' = [file EXCEPT ![t] = 1]
SaveOpenFails(t) ==
  /\ At(t, "saveopen", "done") /\ Unlock(t) /\ Return(t)
  /\ UNCHANGED <<share, disk, setting, log, ghosts>>
SaveWrite(t) ==
  LET v == Forced(slug[t]) IN
  /\ At(t, "savewrite", "done") /\ Unlock(t) /\ Return(t)
  /\ cache' = [cache EXCEPT ![v] = IF @ = Absent THEN Absent ELSE json[t]]
  /\ UNCHANGED <<share, fresh, setting, log, ghosts>>

(* The other manifest name is tried, with retries of its own.              *)
NextFile(t) ==
  /\ file[t] < Cardinality(Files) /\ At(t, "next", "lock")
  /\ file' = [file EXCEPT ![t] = @ + 1] /\ retries' = [retries EXCEPT ![t] = Retries]
  /\ json' = [json EXCEPT ![t] = Absent] /\ log' = [log EXCEPT ![t] = "none"]
  /\ UNCHANGED <<mutex, share, disk, setting, pkg, ghosts>>
GiveUp(t) ==
  /\ file[t] = Cardinality(Files) /\ At(t, "next", "done")
  /\ file' = [file EXCEPT ![t] = 1] /\ retries' = [retries EXCEPT ![t] = Retries]
  /\ json' = [json EXCEPT ![t] = Absent] /\ log' = [log EXCEPT ![t] = "none"]
  /\ UNCHANGED <<mutex, share, disk, setting, pkg, ghosts>>

-----------------------------------------------------------------------------
(* The program ends at any moment: an interrupt, or another of its threads *)
(* finding a manifest without a name, whose length clib_package_repo takes.*)
End ==
  /\ runs < MaxRuns /\ \E t \in Threads : pc[t] # "out"
  /\ Idle /\ runs' = runs + 1
  /\ UNCHANGED <<disk, head_names, skip_cache, retried>>

Expire(v) ==
  /\ fresh[v] /\ fresh' = [fresh EXCEPT ![v] = FALSE]
  /\ UNCHANGED <<mutex, share, cache, setting, pc, locals, ghosts>>

Step(t) ==
  \/ HasJson(t) \/ ReadJson(t) \/ ReadNull(t)
  \/ Download(t) \/ LockShare(t) \/ InitShare(t) \/ CurlLock(t) \/ GetFails(t) \/ GetOk(t)
  \/ ParseFails(t) \/ Parse(t) \/ SaveOpen(t) \/ SaveOpenFails(t) \/ SaveWrite(t)
  \/ NextFile(t) \/ GiveUp(t)

Next ==
  \/ \E t \in Threads, v \in Versions : Call(t, v)
  \/ \E t \in Threads : Step(t)
  \/ End
  \/ \E v \in Versions : Expire(v)

Spec == Init /\ [][Next]_vars /\ \A t \in Threads : WF_vars(Step(t))

-----------------------------------------------------------------------------
Critical == {"read", "shareinit", "connect", "saveopen", "savewrite"}

(* lock.mutex keeps two threads out of the cache and of curl's table at    *)
(* once, as long as no request has been repeated: only the unlock of a     *)
(* retry frees the mutex under a thread that holds it (line 652).          *)
AloneUnlessRetried ==
  /\ retried \/ Cardinality(inside) <= 1
  /\ inside = {t \in Threads : pc[t] \in Critical \/ (pc[t] = "unlock" /\ retries[t] = Retries)}

(* A package is built from the manifest of the version asked for, except   *)
(* that the manifest of the default branch, cached under the version it    *)
(* gives itself, stands for that version from then on.                     *)
ManifestOfSlug ==
  \A t \in Threads : pkg[t] # Absent =>
    \/ pkg[t] = slug[t]
    \/ pkg[t] = Head /\ slug[t] = head_names /\ log[t] = "cache"

(* Every call ends, whatever the network answers and however the unlocks   *)
(* of the others fall: the attempts are counted, and no path keeps the     *)
(* mutex.                                                                  *)
EveryFetchEnds == \A t \in Threads : pc[t] = "lock" ~> pc[t] \in {"done", "out"}
=============================================================================
