------------------------------ MODULE ClibBuild ------------------------------
(***************************************************************************)
(* clib build and clib configure (src/HW5/clib/src/clib-build.c and        *)
(* clib-configure.c). build_package runs the make of a package, enters it  *)
(* in the table `built', and starts a thread with a build_package of its   *)
(* own for every dependency, in batches of opts.concurrency. A call is     *)
(* named by the way it was reached from main. The mutex is held for one    *)
(* look-up or one entry at a time, so each of those is one step. In the    *)
(* other tool `make' is the configure command and `built' is `configured'. *)
(***************************************************************************)
EXTENDS Integers, Sequences, FiniteSets

CONSTANTS
  Packages,
  Flag,         \* an option among the arguments
  Worlds,       \* bound: [deps, missing, manifest] as they may be
  Development,  \* the development dependencies of a package
  Here,         \* the package of the working directory
  Concurrencies,\* bound: opts.concurrency as --concurrency may set it, 0 included
  CommandLines, \* bound: arguments, as nargv holds them
  MaxFailures   \* bound: the calls of pthread_create that fail

ASSUME BuildAssumption ==
  /\ Concurrencies \subseteq Nat /\ Flag \notin Packages /\ Here \in Packages
  /\ IsFiniteSet(Packages)
  /\ Worlds \subseteq [deps : [Packages -> SUBSET Packages], missing : SUBSET Packages, manifest : [Packages -> 0..2]]
  /\ Development \in [Packages -> SUBSET Packages] /\ CommandLines \subseteq Seq(Packages \cup {Flag})

VARIABLES
  world,        \* the dependencies; the packages whose manifests cannot be fetched;
                \* which of the two manifest names a package has in opts.dir, or 0
  tool, dev, concurrency, nargv,
  calls,        \* the calls of build_package that run, or are to be joined
  failed,       \* how often pthread_create has failed
  main, rc,     \* how many arguments main has taken, and its rc
  built,        \* the paths entered in the table
  made,         \* how often make has run in each package's directory
  ended         \* how the process ended

given == <<world, tool, dev, concurrency, nargv>>
vars == <<given, calls, failed, main, rc, built, made, ended>>

ENOMEM == -12
EAGAIN == 11
Live(k) == k \in DOMAIN calls /\ calls[k].pc # "done"
Call(p, slug, pc) ==
  [pkg |-> p, slug |-> slug, file |-> 1, pc |-> pc, todo |-> {}, phase |-> "deps",
   kids |-> {}, unset |-> 0, rc |-> 0]
To(k, pc) == [calls EXCEPT ![k].pc = pc]
Leave(k, status) == [calls EXCEPT ![k].pc = "return", ![k].rc = status]
Plus(f, k, call) == [q \in DOMAIN f \cup {k} |-> IF q = k THEN call ELSE f[q]]
Less(f, gone) == [q \in DOMAIN f \ gone |-> f[q]]

Init ==
  /\ world \in Worlds /\ tool \in {"build", "configure"} /\ dev \in BOOLEAN
  /\ concurrency \in Concurrencies /\ nargv \in CommandLines
  /\ calls = <<>> /\ failed = 0 /\ main = 0 /\ rc = 0 /\ built = {}
  /\ made = [p \in Packages |-> 0] /\ ended = "no"

-----------------------------------------------------------------------------
(* main() counts the names among its arguments and takes as many of nargv, *)
(* which holds the options as well. A name that failed as a directory is   *)
(* tried again as a slug; rc is that of the last. Without a name, whatever *)
(* the options, it is the package of the working directory, once.          *)
Names == Cardinality({j \in 1..Len(nargv) : nargv[j] # Flag})
Rounds == IF Names = 0 THEN 1 ELSE Names
Arg(j) == IF Names = 0 THEN Here ELSE nargv[j]
MainCall ==
  /\ ended = "no" /\ main < Rounds /\ \A k \in DOMAIN calls : Len(k) > 1
  /\ main' = main + 1
  /\ calls' = Plus(calls, <<<<main + 1, "dir">>>>, Call(Arg(main + 1), FALSE, "check"))
  /\ UNCHANGED <<given, failed, rc, built, made, ended>>

MainReturn ==
  /\ ended = "no" /\ \E k \in DOMAIN calls :
       /\ Len(k) = 1 /\ calls[k].pc = "done"
       /\ rc' = calls[k].rc
       /\ calls' = IF calls[k].rc # 0 /\ ~calls[k].slug /\ Names # 0
                   THEN Plus(Less(calls, {k}), <<<<main, "slug">>>>, Call(Arg(main), TRUE, "check"))
                   ELSE Less(calls, {k})
  /\ UNCHANGED <<given, failed, main, built, made, ended>>

(* The table is freed and the process exits, whoever is still running.     *)
MainExit ==
  /\ ended = "no" /\ main = Rounds /\ \A k \in DOMAIN calls : Len(k) > 1
  /\ ended' = "exit"
  /\ UNCHANGED <<given, calls, failed, main, rc, built, made>>

-----------------------------------------------------------------------------
(* A thread reads its directory from its parent's frame, and finds it as   *)
(* long as the parent has not left: what is there then is undefined.       *)
Maker(k) == SubSeq(k, 1, Len(k) - 1)
Orphan(k) == Len(k) > 1 /\ ~(Maker(k) \in DOMAIN calls /\ k \in calls[Maker(k)].kids)
Start(k) ==
  /\ ended = "no" /\ calls[k].pc = "start"
  /\ \/ calls' = To(k, "check") /\ UNCHANGED ended
     \/ Orphan(k) /\ ended' = "crash" /\ UNCHANGED calls
  /\ UNCHANGED <<given, failed, main, rc, built, made>>

Path(k) == <<calls[k].pkg, calls[k].slug, calls[k].file>>
Check(k) ==
  /\ ended = "no" /\ calls[k].pc = "check"
  /\ calls' = IF Path(k) \in built THEN Leave(k, 0) ELSE To(k, "load")
  /\ UNCHANGED <<given, failed, main, rc, built, made, ended>>

(* The manifest is read from the directory, or else fetched by what the    *)
(* directory is called, which finds it only for a slug.                    *)
Found(k) ==
  LET p == calls[k].pkg IN
  /\ p # Flag
  /\ IF calls[k].slug THEN p \notin world.missing ELSE world.manifest[p] = calls[k].file
Load(k) ==
  /\ ended = "no" /\ calls[k].pc = "load"
  /\ calls' = IF Found(k) THEN To(k, "make") ELSE Leave(k, ENOMEM)
  /\ UNCHANGED <<given, failed, main, rc, built, made, ended>>

(* The status of make is overwritten by that of pthread_mutex_lock. For a  *)
(* slug make has no directory to run in.                                   *)
Make(k) ==
  /\ ended = "no" /\ calls[k].pc = "make"
  /\ made' = IF calls[k].slug THEN made ELSE [made EXCEPT ![calls[k].pkg] = @ + 1]
  /\ calls' = To(k, "enter")
  /\ UNCHANGED <<given, failed, main, rc, built, ended>>

Listing(k) ==
  [calls EXCEPT ![k].pc = "deps", ![k].phase = "deps", ![k].rc = 0, ![k].todo = world.deps[calls[k].pkg]]
Enter_Forgets(k) ==
  /\ ended = "no" /\ calls[k].pc = "enter"
  /\ calls' = Listing(k)
  /\ UNCHANGED <<given, failed, main, rc, built, made, ended>>
Enter(k) ==
  /\ ended = "no" /\ calls[k].pc = "enter"
  /\ built' = built \cup {Path(k)}
  /\ calls' = Listing(k)
  /\ UNCHANGED <<given, failed, main, rc, made, ended>>

-----------------------------------------------------------------------------
(* The loop over the dependencies, then over the development ones, with    *)
(* arrays of opts.concurrency slots; a batch is full when the slots are,   *)
(* and with arrays of no slots after every dependency.                     *)
AtDeps(k) == ended = "no" /\ calls[k].pc = "deps"
Width == IF concurrency = 0 THEN 1 ELSE concurrency
Used(k) == Cardinality(calls[k].kids) + calls[k].unset
Room(k, d) == AtDeps(k) /\ d \in calls[k].todo /\ Used(k) < Width
Joining(k) == AtDeps(k) /\ (calls[k].todo = {} \/ Used(k) >= Width)

Starts(k, d) ==
  LET kid == Append(k, <<d, calls[k].file, calls[k].phase>>) IN
  Plus([calls EXCEPT ![k].kids = @ \cup {kid}, ![k].todo = @ \ {d}, ![k].rc = 0], kid, Call(d, FALSE, "start"))
Create_DropsTheLast(k, d) ==
  /\ AtDeps(k) /\ d \in calls[k].todo /\ d \notin world.missing
  /\ calls' = IF Used(k) < Width THEN Starts(k, d) ELSE [calls EXCEPT ![k].todo = @ \ {d}]
  /\ UNCHANGED <<given, failed, main, rc, built, made, ended>>
Create(k, d) ==
  /\ Room(k, d) /\ d \notin world.missing
  /\ calls' = Starts(k, d)
  /\ UNCHANGED <<given, failed, main, rc, built, made, ended>>

(* A failed pthread_create takes a slot all the same: what is joined there *)
(* is what the array holds, an id of before or none. Its status stays in   *)
(* rc unless a later one succeeds.                                         *)
CreateFails(k, d) ==
  /\ Room(k, d) /\ d \notin world.missing /\ failed < MaxFailures
  /\ failed' = failed + 1
  /\ calls' = [calls EXCEPT ![k].unset = @ + 1, ![k].todo = @ \ {d}, ![k].rc = EAGAIN]
  /\ UNCHANGED <<given, main, rc, built, made, ended>>

(* In arrays of no slots every dependency is stored past their end. That   *)
(* ends the process, or else goes as if there was a slot.                  *)
Overrun(k, d) ==
  /\ Room(k, d) /\ d \notin world.missing /\ concurrency = 0
  /\ ended' = "crash"
  /\ UNCHANGED <<given, calls, failed, main, rc, built, made>>

(* A dependency whose manifest cannot be had: clib build leaves the        *)
(* function with threads unjoined; elsewhere its name is read through NULL.*)
Lost(k, d) ==
  /\ Room(k, d) /\ d \in world.missing
  /\ IF tool = "build" /\ calls[k].phase = "deps"
     THEN /\ calls' = [calls EXCEPT ![k].pc = "return", ![k].rc = ENOMEM, ![k].kids = {}, ![k].unset = 0,
                                    ![k].todo = {}]
          /\ UNCHANGED ended
     ELSE ended' = "crash" /\ UNCHANGED calls
  /\ UNCHANGED <<given, failed, main, rc, built, made>>

(* The whole batch is joined when it is full and at the end of the list.   *)
Joined(k) == Less([calls EXCEPT ![k].kids = {}], calls[k].kids)
JoinAll_FullOnly(k) ==
  /\ AtDeps(k) /\ calls[k].unset = 0 /\ Used(k) = Width
  /\ \A q \in calls[k].kids : calls[q].pc = "done"
  /\ calls' = Joined(k)
  /\ UNCHANGED <<given, failed, main, rc, built, made, ended>>
JoinAll(k) ==
  /\ Joining(k) /\ calls[k].unset = 0 /\ calls[k].kids # {}
  /\ \A q \in calls[k].kids : calls[q].pc = "done"
  /\ calls' = Joined(k)
  /\ UNCHANGED <<given, failed, main, rc, built, made, ended>>

(* The join of a slot in which no thread was started is undefined: it      *)
(* crashes, fails at once, or waits for a thread that has got the same id  *)
(* since, whose own maker will then join in vain.                          *)
Misjoin(k) ==
  /\ Joining(k) /\ calls[k].unset # 0
  /\ \/ ended' = "crash" /\ UNCHANGED calls
     \/ calls' = [calls EXCEPT ![k].unset = @ - 1] /\ UNCHANGED ended
     \/ /\ \E p \in DOMAIN calls \ {k} : \E q \in calls[p].kids \ {k} :
             calls' = [calls EXCEPT ![k].unset = @ - 1, ![k].kids = @ \cup {q},
                                    ![p].unset = @ + 1, ![p].kids = @ \ {q}]
        /\ UNCHANGED ended
  /\ UNCHANGED <<given, failed, main, rc, built, made>>

LoopEnds_Unjoined(k) ==
  /\ AtDeps(k) /\ calls[k].todo = {}
  /\ calls' = [calls EXCEPT ![k].pc = "return", ![k].kids = {}]
  /\ UNCHANGED <<given, failed, main, rc, built, made, ended>>
LoopEnds(k) ==
  /\ AtDeps(k) /\ calls[k].todo = {} /\ calls[k].kids = {} /\ calls[k].unset = 0
  /\ calls' = IF dev /\ calls[k].phase = "deps"
              THEN [calls EXCEPT ![k].phase = "dev", ![k].todo = Development[calls[k].pkg]]
              ELSE Leave(k, calls[k].rc)
  /\ UNCHANGED <<given, failed, main, rc, built, made, ended>>

(* build_package tries the other manifest name when the first one failed.  *)
Return(k) ==
  /\ ended = "no" /\ calls[k].pc = "return"
  /\ calls' = IF calls[k].rc # 0 /\ calls[k].file = 1
              THEN [calls EXCEPT ![k].file = 2, ![k].pc = "check"] ELSE To(k, "done")
  /\ UNCHANGED <<given, failed, main, rc, built, made, ended>>

Step(k) ==
  \/ Start(k) \/ Check(k) \/ Load(k) \/ Make(k) \/ Enter(k)
  \/ \E d \in Packages : Create(k, d) \/ CreateFails(k, d) \/ Overrun(k, d) \/ Lost(k, d)
  \/ JoinAll(k) \/ Misjoin(k) \/ LoopEnds(k) \/ Return(k)

Next == MainCall \/ MainReturn \/ MainExit \/ \E k \in DOMAIN calls : Step(k)

Spec == Init /\ [][Next]_vars /\ WF_vars(Next)

-----------------------------------------------------------------------------
Needed(p) == world.deps[p] \cup (IF dev THEN Development[p] ELSE {})
Entered(p) == \E f \in 1..2, s \in BOOLEAN : <<p, s, f>> \in built
Orderly == \A j \in 1..Len(nargv) : nargv[j] # Flag

(* When every manifest can be had and every thread starts, a run ends with *)
(* none of its threads left and with the installed dependencies of all it  *)
(* built; it has built its last package if that succeeded and no option    *)
(* precedes a name (clib-build.c:326-375, 395-439).                        *)
EverythingBuilt ==
  ended = "exit" /\ world.missing = {} /\ failed = 0 =>
    /\ DOMAIN calls = {}
    /\ rc = 0 /\ Orderly => Entered(Arg(Rounds))
    /\ \A p \in Packages : Entered(p) =>
         \A d \in Needed(p) : world.manifest[d] # 0 => Entered(d)

(* The table is looked up before make and entered after it, so packages    *)
(* that share a dependency may build it at once, and so may the threads of *)
(* an abandoned try and those of the next. When no package is a dependency *)
(* of two others, every manifest can be had and every thread starts, no    *)
(* make runs twice, even around a cycle and for packages named again.      *)
MadeTwiceOnlyIfShared ==
  /\ world.missing = {} /\ failed = 0
  /\ \A p \in Packages : Cardinality({q \in Packages : p \in Needed(q)}) <= 1
  => \A p \in Packages : made[p] <= 1

(* The process crashes, or ends under a thread of its own, only when the   *)
(* manifest of some dependency could not be had, or a thread could not be  *)
(* started; it also crashes with --concurrency 0. Never because of the     *)
(* batches or the order in which the threads run.                          *)
CutOnlyIf ==
  /\ ended = "crash" => world.missing # {} \/ failed # 0 \/ concurrency = 0
  /\ ended = "exit" /\ (\E k \in DOMAIN calls : Live(k)) => world.missing # {} \/ failed # 0

(* A run in which every thread starts ends, whatever the dependencies: a   *)
(* cycle meets the table.                                                  *)
RunEnds == <>(ended # "no" \/ failed # 0)
=============================================================================
