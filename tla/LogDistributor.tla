--------------------------- MODULE LogDistributor ---------------------------
(***************************************************************************)
(* The log analyser of HW10: main() counts the files of a directory, lists *)
(* them, starts a worker on each (distributor.c), joins the workers and    *)
(* merges their tables (hash.c).  The directory is a live one: files come  *)
(* and go between the counting, the listing and the opening.               *)
(*                                                                         *)
(* A line is [url, size, ref], as parse_line gives it; the contents of a   *)
(* file are chosen as its worker reads them.                               *)
(***************************************************************************)
EXTENDS Integers, Sequences, SequencesExt, FiniteSetsExt

CONSTANTS
  FileNames,    (* the files the directory may hold                        *)
  Lines,        (* the lines a log may hold                                *)
  MaxThreads,   (* the largest number given with -n; it may be negative    *)
  IntMax,       (* the largest int: 2^31 - 1 in C                          *)
  Dash,         (* the key "-": nginx's for what the client did not send   *)
  MaxLines,     (* bound: lines of a file                                  *)
  MaxRotations  (* bound: changes of the directory                         *)

Dots == {".", ".."}

LogDistributorAssumption ==
  /\ IsFiniteSet(FileNames) /\ FileNames \cap (Dots \cup {"garbage"}) = {}
  /\ MaxThreads \in Nat /\ IntMax \in Nat
  /\ IsFiniteSet(Lines) /\ \A ll \in Lines : ll.size \in 0..IntMax

VARIABLES
  dir,        (* the files in the directory                                *)
  rotations,  (* how often it has changed                                  *)
  counted,    (* history: what count_files found there                     *)
  thrds,      (* opts.thrds                                                *)
  slots,      (* n, the length main() declares its array of names with     *)
  files,      (* the array, as far as there is one                         *)
  log,        (* log[f]: the lines read from f                             *)
  worker,     (* worker[i]: "none", "open", "read", or what it returned:   *)
              (* "caches", "null", "nomem"                                 *)
  caches,     (* caches[i]: the tables of worker i, [queries, refs]        *)
  totals,     (* totalquer and totalrefs, likewise                         *)
  total,      (* the bytes reported                                        *)
  main,       (* "count", "list", "create", "join", and how it ended:      *)
              (* "done", "exited", "undefined"                             *)
  i           (* the counter of the loop main() is in                      *)

vars == <<dir, rotations, counted, thrds, slots, files, log, worker, caches, totals, total, main, i>>

n == Len(files)

-----------------------------------------------------------------------------
(* int arithmetic, as the compiled program does it.                        *)
AsInt(x) == ((x + IntMax + 1) % (2 * (IntMax + 1))) - IntMax - 1

Lookup(hash, key) == IF key \in DOMAIN hash THEN hash[key] ELSE 0

Inc(hash, key, plus) ==
  IF plus <= 0 \/ key = Dash THEN hash
  ELSE [k \in DOMAIN hash \cup {key} |-> IF k = key THEN AsInt(Lookup(hash, key) + plus) ELSE hash[k]]

Merge_NewKeys(hash, new) == hash @@ new

Merge(hash, new) ==
  FoldSet(LAMBDA key, acc : Inc(acc, key, new[key]), hash, DOMAIN new)

Sum(hash) == AsInt(SumFunction(hash))

-----------------------------------------------------------------------------
Init ==
  /\ dir \in SUBSET FileNames /\ rotations = 0 /\ counted = {}
  /\ thrds \in -1..MaxThreads
  /\ slots = 0 /\ files = <<>> /\ worker = <<>> /\ caches = <<>>
  /\ log = [f \in FileNames |-> <<>>]
  /\ totals = [queries |-> <<>>, refs |-> <<>>] /\ total = 0
  /\ main = "count" /\ i = 1

Running == main \in {"count", "list", "create", "join"}

(* Logs are added and removed.                                             *)
Rotate ==
  /\ Running /\ rotations < MaxRotations
  /\ rotations' = rotations + 1
  /\ dir' \in (SUBSET FileNames) \ {dir}
  /\ UNCHANGED <<counted, thrds, slots, files, log, worker, caches, totals, total, main, i>>

(* count_files(), and n, which is the smaller of its result and opts.thrds *)
(* and what the rest of main() takes for the number of files.              *)
Workers(found) == IF thrds <= found THEN thrds ELSE found

Count(found) ==
  /\ main = "count"
  /\ slots' = Workers(found)
  /\ files' = [k \in 1..Workers(found) |-> "garbage"]
  /\ worker' = [k \in 1..Workers(found) |-> "none"]
  /\ caches' = [k \in 1..Workers(found) |-> totals]
  /\ main' = "list"
  /\ UNCHANGED <<dir, rotations, thrds, log, totals, total, i>>

CountFiles == counted' = dir /\ Count(Cardinality(dir))

(* The directory cannot be opened or read: the result is -1, and main()    *)
(* does not look at it.                                                    *)
CannotCount == counted' = {} /\ Count(-1)

(* The directory cannot be opened now, memory or a thread cannot be had:   *)
(* the program exits; so it does when a worker finds no memory for a name  *)
(* or a key, while main() starts others or joins.                          *)
Exit ==
  /\ main \in {"list", "create", "join"}
  /\ main' = "exited"
  /\ UNCHANGED <<dir, rotations, counted, thrds, slots, files, log, worker, caches, totals, total, i>>

(* main() skips the two entries readdir() gives first, whichever they are, *)
(* and stores the names of the others; those past the n-th are written     *)
(* outside the array, into whatever is there, and an array of a negative   *)
(* length is nowhere.                                                      *)
Listed_SkipsOne(entries) == SubSeq(entries, 2, Len(entries))

Listed(entries) == SubSeq(entries, 3, Len(entries))

ListFiles ==
  /\ main = "list"
  /\ \E entries \in SetToSeqs(dir \union Dots) :
       /\ files' = [k \in 1..n |-> IF k <= Len(Listed(entries)) THEN Listed(entries)[k] ELSE files[k]]
       /\ \/ main' = "create"
          \/ (slots < 0 \/ Len(Listed(entries)) > n) /\ main' = "undefined"
  /\ UNCHANGED <<dir, rotations, counted, thrds, slots, log, worker, caches, totals, total, i>>

(* pthread_create of the next worker; after the last, main() joins them.   *)
CreateWorker ==
  /\ main = "create" /\ i <= n
  /\ worker' = [worker EXCEPT ![i] = "open"]
  /\ i' = i + 1
  /\ UNCHANGED <<dir, rotations, counted, thrds, slots, files, log, caches, totals, total, main>>

AllCreated ==
  /\ main = "create" /\ i > n
  /\ main' = "join" /\ i' = 1
  /\ UNCHANGED <<dir, rotations, counted, thrds, slots, files, log, worker, caches, totals, total>>

-----------------------------------------------------------------------------
(* fopen(): a directory opens, a file if it is still there and permitted.  *)
OpenLog(w) ==
  /\ Running /\ worker[w] = "open"
  /\ files[w] \in dir \union Dots
  /\ worker' = [worker EXCEPT ![w] = "read"]
  /\ UNCHANGED <<dir, rotations, counted, thrds, slots, files, log, caches, totals, total, main, i>>

CannotOpen(w) ==
  /\ Running /\ worker[w] = "open"
  /\ files[w] \notin Dots
  /\ worker' = [worker EXCEPT ![w] = "null"]
  /\ UNCHANGED <<dir, rotations, counted, thrds, slots, files, log, caches, totals, total, main, i>>

(* A name that was never stored is read from whatever it points to.        *)
OpenGarbage(w) ==
  /\ Running /\ worker[w] = "open"
  /\ files[w] = "garbage"
  /\ main' = "undefined"
  /\ UNCHANGED <<dir, rotations, counted, thrds, slots, files, log, worker, caches, totals, total, i>>

ReadLine_SkipsUnsized(w) ==
  /\ Running /\ worker[w] = "read"
  /\ files[w] \in FileNames /\ Len(log[files[w]]) < MaxLines
  /\ \E ll \in Lines :
       /\ log' = [log EXCEPT ![files[w]] = Append(@, ll)]
       /\ caches' = [caches EXCEPT ![w] = [queries |-> Inc(@.queries, ll.url, ll.size),
                                           refs |-> IF ll.size = 0 THEN @.refs ELSE Inc(@.refs, ll.ref, 1)]]
  /\ UNCHANGED <<dir, rotations, counted, thrds, slots, files, worker, totals, total, main, i>>

ReadLine(w) ==
  /\ Running /\ worker[w] = "read"
  /\ files[w] \in FileNames /\ Len(log[files[w]]) < MaxLines
  /\ \E ll \in Lines :
       /\ log' = [log EXCEPT ![files[w]] = Append(@, ll)]
       /\ caches' = [caches EXCEPT ![w] = [queries |-> Inc(@.queries, ll.url, ll.size),
                                           refs |-> Inc(@.refs, ll.ref, 1)]]
  /\ UNCHANGED <<dir, rotations, counted, thrds, slots, files, worker, totals, total, main, i>>

(* The end of the file, or no memory for a line or for the result.         *)
Return(w) ==
  /\ Running /\ worker[w] = "read"
  /\ \E res \in {"caches", "nomem"} : worker' = [worker EXCEPT ![w] = res]
  /\ UNCHANGED <<dir, rotations, counted, thrds, slots, files, log, caches, totals, total, main, i>>

-----------------------------------------------------------------------------
(* pthread_join of worker i and the merging of its tables.                 *)
MergeBoth(t, c) == [queries |-> Merge(t.queries, c.queries), refs |-> Merge(t.refs, c.refs)]

JoinWorker ==
  /\ main = "join" /\ i <= n
  /\ worker[i] \in {"caches", "nomem"}
  /\ totals' = IF worker[i] = "caches" THEN MergeBoth(totals, caches[i]) ELSE totals
  /\ i' = i + 1
  /\ UNCHANGED <<dir, rotations, counted, thrds, slots, files, log, worker, caches, total, main>>

(* The tables of a worker that returned NULL are read through NULL.        *)
JoinNull ==
  /\ main = "join" /\ i <= n
  /\ worker[i] = "null"
  /\ main' = "undefined"
  /\ UNCHANGED <<dir, rotations, counted, thrds, slots, files, log, worker, caches, totals, total, i>>

Report ==
  /\ main = "join" /\ i > n
  /\ total' = Sum(totals.queries)
  /\ main' = "done"
  /\ UNCHANGED <<dir, rotations, counted, thrds, slots, files, log, worker, caches, totals, i>>

Worker(w) == OpenLog(w) \/ CannotOpen(w) \/ OpenGarbage(w) \/ ReadLine(w) \/ Return(w)

Main == CountFiles \/ CannotCount \/ ListFiles \/ CreateWorker \/ AllCreated \/ JoinWorker \/ JoinNull \/ Report

Next == Rotate \/ Exit \/ Main \/ \E w \in 1..n : Worker(w)

Spec == Init /\ [][Next]_vars

-----------------------------------------------------------------------------
(* The lines of the files whose tables were merged.                        *)
Merged == {w \in 1..n : worker[w] = "caches" /\ files[w] \in FileNames}

Bytes(w, url) ==
  FoldLeft(LAMBDA sum, ll : IF ll.url = url /\ url # Dash THEN sum + ll.size ELSE sum, 0, log[files[w]])

Urls == {ll.url : ll \in Lines}

(* What the program reports is what the logs it has read say, whichever    *)
(* worker was first and however the lines are spread over the logs: the    *)
(* bytes of every url, and their sum, modulo 2^32.  But no url may have    *)
(* more than INT_MAX bytes in one log: its sum would turn negative there,  *)
(* and merge() gives negative sums to inc(), which ignores them.           *)
BytesExact ==
  main = "done" /\ (\A w \in Merged, url \in Urls : Bytes(w, url) <= IntMax) =>
    LET Of(url) == MapThenSumSet(LAMBDA w : Bytes(w, url), Merged)
    IN  /\ \A url \in Urls : Lookup(totals.queries, url) = AsInt(Of(url))
        /\ total = AsInt(MapThenSumSet(Of, Urls))

RefererCount(w, ref) ==
  FoldLeft(LAMBDA count, ll : IF ll.ref = ref THEN count + 1 ELSE count, 0, log[files[w]])

Referers == {ll.ref : ll \in Lines} \ {Dash}

(* A referer is counted once for each line it stands in, also where the    *)
(* same line counts no bytes; with the same limit to what one log holds.   *)
ReferersExact ==
  main = "done" /\ (\A w \in Merged, ref \in Referers : RefererCount(w, ref) <= IntMax) =>
    \A ref \in Referers :
      Lookup(totals.refs, ref) = AsInt(MapThenSumSet(LAMBDA w : RefererCount(w, ref), Merged))

(* What goes wrong in main() goes wrong for one of four reasons: a log     *)
(* could not be opened, -n was below the number of files, the files could  *)
(* not be counted, or the directory changed between the counting and the   *)
(* listing.                                                                *)
UndefinedOnlyIf ==
  main = "undefined" =>
    \/ \E w \in 1..n : worker[w] = "null"
    \/ thrds < Cardinality(counted)
    \/ slots = -1 /\ counted = {}
    \/ rotations > 0

(* HW10/distributor.c:12 says "a thread to a file": when the program ends  *)
(* every log that was there all the time has had its worker.  It has not:  *)
(* with -n below the number of files only the first n of them are read,    *)
(* and "." and ".." are skipped only if readdir() gives them first.        *)
EveryLogRead ==
  main = "done" /\ rotations = 0 => counted \subseteq Range(files)
=============================================================================
