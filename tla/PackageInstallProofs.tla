------------------------ MODULE PackageInstallProofs ------------------------
(***************************************************************************)
(* The safety of clib install (src/HW5/clib), for any number of sources,   *)
(* any concurrency and any number of runs over the same disk.              *)
(***************************************************************************)
EXTENDS PackageInstall, FiniteSetTheorems, TLAPS

Files == {"absent", "broken", "whole"}
Threads == {"idle", "check", "open", "get", "dec", "store", "ended", "joined"}
BeforeThreads == {"out", "makefile", "cache", "load", "copyin"}
Downloading == {"download", "count", "create"}
AllStarted == {"drain", "save", "copyout"}
Places == BeforeThreads \cup Downloading \cup AllStarted \cup {"batch", "install", "free", "exit"}
Copies == [file : Src \cup {NoFetch}, content : Files]

TypeOK ==
  /\ disk \in [Src -> Files] /\ cache \in [Src -> Files]
  /\ entry \in {"none", "fresh", "expired"}
  /\ force \in BOOLEAN /\ skip_cache \in BOOLEAN
  /\ pc \in Places /\ i \in Int /\ next \in 1..(Sources + 1)
  /\ fetchs \in [0..Concurrency -> Src \cup {NoFetch}] /\ todo \in SUBSET Src
  /\ refs \in Int /\ loaded \in Int
  /\ th \in [Src -> Threads] /\ seen \in [Src -> Int]
  /\ freed \in BOOLEAN /\ raced \in BOOLEAN /\ spoiled \in SUBSET Src
  /\ half \in Copies

-----------------------------------------------------------------------------
(* The threads of a run: they are created in the order of the sources, one *)
(* for each, by the download loop alone.                                   *)
InOrder ==
  /\ pc \in BeforeThreads => next = 1 /\ i = 0
  /\ pc \in {"count", "create"} => next <= Sources
  /\ pc \in AllStarted => next = Sources + 1
  /\ \A s \in Src : th[s] = "idle" <=> s >= next

(* The slots go round with the sources: the one of the next source is what *)
(* a division of its place by the size of a batch leaves, and a full batch *)
(* ends at a multiple.                                                     *)
Batch == Concurrency + 1
Left(n) == n % Batch
Unjoined(s) == s < next /\ Left(s) # 0 /\ th[s] # "joined"
Joining == Downloading \cup {"batch", "drain"}
Slots ==
  /\ pc \in Downloading => i \in -1..Concurrency /\ Left(next - 1) = Slot
  /\ pc = "batch" => i \in 0..Concurrency /\ Left(next - 1) = 0
  /\ pc = "drain" => i \in -1..Concurrency
  /\ pc \in Joining =>
       \A s \in Src : Unjoined(s) => \E k \in 0..(i - 1) : fetchs[k] = s
  /\ pc \in {"save", "copyout"} => \A s \in Src : ~Unjoined(s)

(* refs covers every thread that has still to take its own back, and the   *)
(* one that is counted and not created yet.                                *)
Users == {s \in Src : Live(s)}
RefsCover ==
  /\ ~raced => refs >= Cardinality(Users) + (IF pc = "create" THEN 1 ELSE 0)
  /\ freed => pc = "exit"

(* What explains a file that is not whole: in deps, and in the cache.      *)
Excused(s) == s \in spoiled \/ Fetching(s)
DiskAccount(s) ==
  /\ disk[s] = "broken" => s \in spoiled \/ th[s] = "get" \/ (pc = "copyin" /\ half.file = s)
  /\ disk[s] = "absent" /\ th[s] # "idle" => Excused(s)
  /\ disk[s] = "absent" /\ pc \in {"install", "free", "exit"} /\ rc = 0 => Excused(s)
  /\ disk[s] = "absent" /\ pc = "copyin" => s \in spoiled \/ s \in todo
  /\ disk[s] # "absent" /\ ~force => th[s] # "open"
DiskExplained == \A s \in Src : DiskAccount(s)

CacheExplained ==
  \A s \in Src :
    /\ cache[s] = "broken" => s \in spoiled \/ (pc = "copyout" /\ half.file = s)
    /\ cache[s] = "absent" /\ entry # "none" => s \in spoiled \/ (pc = "copyout" /\ s \in todo)
    /\ pc = "copyin" /\ s \in todo => cache[s] # "absent"

(* The copy that is opened: of a file that is there, and if what was read  *)
(* of it is not the whole file, there is a cause for that.  In deps, the   *)
(* copy stays as the opening left it.                                      *)
HalfExplained ==
  /\ half # NoCopy => half.file \in Src /\ half.content # "absent" /\ pc \in {"copyin", "copyout"}
  /\ half.content = "broken" => half.file \in spoiled
  /\ pc = "copyin" /\ half # NoCopy => disk[half.file] = "broken"

RcOfRun == pc \notin {"free", "exit"} => rc = 0

Inv == TypeOK /\ InOrder /\ Slots /\ RefsCover /\ DiskExplained /\ CacheExplained
       /\ HalfExplained /\ RcOfRun

-----------------------------------------------------------------------------
(* What a division leaves of a number, and of the next one.                *)
LEMMA Division ==
  ASSUME NEW n \in Nat, NEW b \in Nat \ {0}
  PROVE  n = b * (n \div b) + (n % b) /\ n \div b \in Int /\ n % b \in 0..(b - 1)
  BY SMT

LEMMA Remainder ==
  ASSUME NEW n \in Nat, NEW b \in Nat \ {0}, NEW q \in Int, NEW r \in 0..(b - 1),
         n = b * q + r
  PROVE  n % b = r
  BY SMT

LEMMA RemainderOfNext ==
  ASSUME NEW n \in Nat, NEW b \in Nat \ {0}
  PROVE  (n + 1) % b = IF n % b = b - 1 THEN 0 ELSE (n % b) + 1
<1> DEFINE q == n \div b
           r == n % b
<1>1. n = b * q + r /\ q \in Int /\ r \in 0..(b - 1)
  BY Division
<1>2. CASE r = b - 1
  <2>1. n + 1 = b * (q + 1) + 0
    BY <1>1, <1>2
  <2>2. q + 1 \in Int /\ 0 \in 0..(b - 1) /\ n + 1 \in Nat
    BY <1>1
  <2>3. QED BY <2>1, <2>2, <1>2, Remainder
<1>3. CASE r # b - 1
  <2>1. n + 1 = b * q + (r + 1) /\ r + 1 \in 0..(b - 1)
    BY <1>1, <1>3
  <2>2. q \in Int /\ n + 1 \in Nat
    BY <1>1
  <2> HIDE DEF q, r
  <2>3. (n + 1) % b = r + 1
    BY <2>1, <2>2, Remainder
  <2>4. QED BY <2>3, <1>3 DEF r
<1>4. QED BY <1>2, <1>3

LEMMA LeftOfNext ==
  ASSUME NEW n \in Nat
  PROVE  /\ Left(n) \in 0..Concurrency
         /\ Left(n + 1) = IF Left(n) = Concurrency THEN 0 ELSE Left(n) + 1
<1>1. Batch \in Nat \ {0} /\ Batch - 1 = Concurrency
  BY SourcesAssumption DEF Batch
<1>2. QED BY <1>1, Division, RemainderOfNext DEF Left

LEMMA LeftAfter ==
  ASSUME NEW n \in Nat \ {0}
  PROVE  Left(n) = IF Left(n - 1) = Concurrency THEN 0 ELSE Left(n - 1) + 1
<1>1. PICK m \in Nat : n = m + 1 /\ n - 1 = m
  BY n - 1 \in Nat
<1>2. QED BY <1>1, LeftOfNext

LEMMA LeftOfZero == Left(0) = 0
  BY SourcesAssumption DEF Left, Batch

-----------------------------------------------------------------------------
Running ==
  \/ \E f, k \in BOOLEAN : StartRun(f, k)
  \/ RemoveDeps \/ Expire
  \/ FetchMakefile \/ LookUpCache \/ LoadPackage \/ WriteIn \/ CopyInFails \/ CopyInDone
  \/ FetchNext \/ CountRef \/ CreateFails \/ Create \/ Drain \/ Join \/ JoinsDone
  \/ SavePackage \/ WriteOut \/ CopyOutEnds \/ (\E x \in {-1, 0, 1} : Install(x)) \/ Free
  \/ \E s \in Src : CopyIn(s) \/ CopyOut(s) \/ Check(s) \/ Open(s) \/ Get(s)
                     \/ LoadRefs(s) \/ StoreRefs(s)
  \/ UNCHANGED vars

LEMMA NextSteps ==
  [Next]_vars => Running \/ Interrupt \/ InterruptRemoval \/ Exit \/ AbortOnMakefile
  BY DEF Next, Finished, Running

LEMMA HalfType == ASSUME TypeOK PROVE half.file \in Src \cup {NoFetch} /\ half.content \in Files
  BY DEF TypeOK, Copies

LEMMA TypeStep == ASSUME Inv, Running PROVE TypeOK'
<1> USE SourcesAssumption
  DEF Inv, TypeOK, Files, Threads, Places, BeforeThreads,
      Downloading, AllStarted, NoFetch, Src, vars, diskVars, runVars, mainVars, refVars, ghosts
<1>1. ASSUME NEW f \in BOOLEAN, NEW k \in BOOLEAN, StartRun(f, k) PROVE TypeOK'
  BY <1>1 DEF StartRun
<1>2. ASSUME FetchMakefile PROVE TypeOK'
  BY <1>2 DEF FetchMakefile
<1>3. ASSUME LookUpCache PROVE TypeOK'
  BY <1>3 DEF LookUpCache
<1>4. ASSUME LoadPackage PROVE TypeOK'
  BY <1>4 DEF LoadPackage
<1>5. ASSUME CopyInFails PROVE TypeOK'
  BY <1>5 DEF CopyInFails
<1>6. ASSUME CopyInDone PROVE TypeOK'
  BY <1>6 DEF CopyInDone
<1>7. ASSUME FetchNext PROVE TypeOK'
  BY <1>7 DEF FetchNext
<1>8. ASSUME CountRef PROVE TypeOK'
  BY <1>8 DEF CountRef
<1>9. ASSUME CreateFails PROVE TypeOK'
  BY <1>9 DEF CreateFails
<1>10. ASSUME Create PROVE TypeOK'
  <2>1. fetchs' \in [0..Concurrency -> Src \cup {NoFetch}]
    BY <1>10 DEF Create, Slots, Slot, InOrder
  <2>2. next' \in 1..(Sources + 1) /\ i' \in Int /\ th' \in [Src -> Threads]
    BY <1>10 DEF Create, Slot, InOrder, RoomAfter
  <2>3. QED BY <1>10, <2>1, <2>2 DEF Create, RoomAfter
<1>11. ASSUME Drain PROVE TypeOK'
  BY <1>11 DEF Drain
<1>12. ASSUME Join PROVE TypeOK'
  <2>1. i - 1 \in 0..Concurrency
    BY <1>12 DEF Join, MoreToJoin, Slots, Slot
  <2>2. fetchs' \in [0..Concurrency -> Src \cup {NoFetch}] /\ i' \in Int
    BY <1>12, <2>1 DEF Join
  <2>3. th' \in [Src -> Threads]
    BY <1>12, <2>1 DEF Join
  <2>4. QED BY <1>12, <2>2, <2>3 DEF Join
<1>13. ASSUME JoinsDone PROVE TypeOK'
  BY <1>13 DEF JoinsDone, MoreToJoin
<1>14. ASSUME SavePackage PROVE TypeOK'
  BY <1>14 DEF SavePackage
<1>15. ASSUME CopyOutEnds PROVE TypeOK'
  BY <1>15 DEF CopyOutEnds
<1>16. ASSUME Free PROVE TypeOK'
  BY <1>16 DEF Free
<1>17. ASSUME RemoveDeps PROVE TypeOK'
  BY <1>17 DEF RemoveDeps
<1>18. ASSUME Expire PROVE TypeOK'
  BY <1>18 DEF Expire
<1>19. ASSUME NEW x \in {-1, 0, 1}, Install(x) PROVE TypeOK'
  BY <1>19 DEF Install
<1>20. ASSUME NEW s \in Src, CopyIn(s) PROVE TypeOK'
  <2>1. cache[s] \in Files
    OBVIOUS
  <2>2. [file |-> s, content |-> cache[s]] \in Copies
    BY <2>1 DEF Copies
  <2>3. half' \in Copies /\ disk' \in [Src -> Files] /\ spoiled' \subseteq Src
    BY <1>20, <2>2 DEF CopyIn
  <2>4. QED BY <1>20, <2>3 DEF CopyIn
<1>21. ASSUME NEW s \in Src, CopyOut(s) PROVE TypeOK'
  <2>1. disk[s] \in Files
    OBVIOUS
  <2>2. [file |-> s, content |-> disk[s]] \in Copies
    BY <2>1 DEF Copies
  <2>3. half' \in Copies /\ cache' \in [Src -> Files] /\ spoiled' \subseteq Src
    BY <1>21, <2>2 DEF CopyOut
  <2>4. QED BY <1>21, <2>3 DEF CopyOut
<1>22. ASSUME NEW s \in Src, Check(s) PROVE TypeOK'
  BY <1>22 DEF Check
<1>23. ASSUME NEW s \in Src, Open(s) PROVE TypeOK'
  <2>1. disk' \in [Src -> Files]
    BY <1>23 DEF Open
  <2>2. th' \in [Src -> Threads]
    BY <1>23 DEF Open
  <2>3. spoiled' \subseteq Src
    BY <1>23 DEF Open
  <2>4. QED BY <1>23, <2>1, <2>2, <2>3 DEF Open
<1>24. ASSUME NEW s \in Src, Get(s) PROVE TypeOK'
  <2>1. disk' \in [Src -> Files] /\ th' \in [Src -> Threads]
    BY <1>24 DEF Get
  <2>2. spoiled' \subseteq Src
    BY <1>24 DEF Get
  <2>3. QED BY <1>24, <2>1, <2>2 DEF Get
<1>25. ASSUME NEW s \in Src, LoadRefs(s) PROVE TypeOK'
  BY <1>25 DEF LoadRefs
<1>26. ASSUME NEW s \in Src, StoreRefs(s) PROVE TypeOK'
  BY <1>26 DEF StoreRefs
<1>27. ASSUME UNCHANGED vars PROVE TypeOK'
  BY <1>27 DEF vars
<1>28. ASSUME WriteIn PROVE TypeOK'
  <2>1. half.file \in Src /\ half.content \in Files /\ half' = NoCopy
    BY <1>28, HalfType DEF WriteIn, HalfExplained
  <2>2. half' \in Copies
    BY <2>1 DEF Copies, NoCopy
  <2>3. disk' \in [Src -> Files] /\ spoiled' \subseteq Src
    BY <1>28, <2>1 DEF WriteIn
  <2>4. QED BY <1>28, <2>2, <2>3 DEF WriteIn
<1>29. ASSUME WriteOut PROVE TypeOK'
  <2>1. half.file \in Src /\ half.content \in Files /\ half' = NoCopy
    BY <1>29, HalfType DEF WriteOut, HalfExplained
  <2>2. half' \in Copies
    BY <2>1 DEF Copies, NoCopy
  <2>3. cache' \in [Src -> Files] /\ spoiled' \subseteq Src
    BY <1>29, <2>1 DEF WriteOut
  <2>4. QED BY <1>29, <2>2, <2>3 DEF WriteOut
<1>30. QED
  BY <1>1, <1>2, <1>3, <1>4, <1>5, <1>6, <1>7, <1>8, <1>9, <1>10, <1>11, <1>12, <1>13, <1>14, <1>15,
     <1>16, <1>17, <1>18, <1>19, <1>20, <1>21, <1>22, <1>23, <1>24, <1>25, <1>26, <1>27,
     <1>28, <1>29 DEF Running

LEMMA OrderStep == ASSUME Inv, Running PROVE InOrder'
<1> USE SourcesAssumption
  DEF Inv, TypeOK, Files, Threads, Places, BeforeThreads,
      Downloading, AllStarted, NoFetch, NoCopy, Src, vars, diskVars, runVars, mainVars, refVars, ghosts,
      InOrder
<1>1. ASSUME NEW f \in BOOLEAN, NEW k \in BOOLEAN, StartRun(f, k) PROVE InOrder'
  BY <1>1 DEF StartRun
<1>2. ASSUME FetchMakefile PROVE InOrder'
  BY <1>2 DEF FetchMakefile
<1>3. ASSUME LookUpCache PROVE InOrder'
  BY <1>3 DEF LookUpCache
<1>4. ASSUME LoadPackage PROVE InOrder'
  BY <1>4 DEF LoadPackage
<1>5. ASSUME CopyInFails PROVE InOrder'
  BY <1>5 DEF CopyInFails
<1>6. ASSUME CopyInDone PROVE InOrder'
  BY <1>6 DEF CopyInDone
<1>7. ASSUME FetchNext PROVE InOrder'
  BY <1>7 DEF FetchNext
<1>8. ASSUME CountRef PROVE InOrder'
  BY <1>8 DEF CountRef
<1>9. ASSUME CreateFails PROVE InOrder'
  BY <1>9 DEF CreateFails
<1>10. ASSUME Create PROVE InOrder'
  BY <1>10 DEF Create, Slot, RoomAfter
<1>11. ASSUME Drain PROVE InOrder'
  BY <1>11 DEF Drain
<1>12. ASSUME Join PROVE InOrder'
  BY <1>12 DEF Join, MoreToJoin
<1>13. ASSUME JoinsDone PROVE InOrder'
  BY <1>13 DEF JoinsDone, MoreToJoin
<1>14. ASSUME SavePackage PROVE InOrder'
  BY <1>14 DEF SavePackage
<1>15. ASSUME CopyOutEnds PROVE InOrder'
  BY <1>15 DEF CopyOutEnds
<1>16. ASSUME Free PROVE InOrder'
  BY <1>16 DEF Free
<1>17. ASSUME RemoveDeps PROVE InOrder'
  BY <1>17 DEF RemoveDeps
<1>18. ASSUME Expire PROVE InOrder'
  BY <1>18 DEF Expire
<1>19. ASSUME NEW x \in {-1, 0, 1}, Install(x) PROVE InOrder'
  BY <1>19 DEF Install
<1>20. ASSUME NEW s \in Src, CopyIn(s) PROVE InOrder'
  BY <1>20 DEF CopyIn
<1>21. ASSUME NEW s \in Src, CopyOut(s) PROVE InOrder'
  BY <1>21 DEF CopyOut, Fetching
<1>22. ASSUME NEW s \in Src, Check(s) PROVE InOrder'
  BY <1>22 DEF Check
<1>23. ASSUME NEW s \in Src, Open(s) PROVE InOrder'
  BY <1>23 DEF Open
<1>24. ASSUME NEW s \in Src, Get(s) PROVE InOrder'
  BY <1>24 DEF Get
<1>25. ASSUME NEW s \in Src, LoadRefs(s) PROVE InOrder'
  BY <1>25 DEF LoadRefs
<1>26. ASSUME NEW s \in Src, StoreRefs(s) PROVE InOrder'
  BY <1>26 DEF StoreRefs
<1>27. ASSUME UNCHANGED vars PROVE InOrder'
  BY <1>27 DEF vars
<1>28. ASSUME WriteIn PROVE InOrder'
  BY <1>28 DEF WriteIn
<1>29. ASSUME WriteOut PROVE InOrder'
  BY <1>29 DEF WriteOut
<1>30. QED
  BY <1>1, <1>2, <1>3, <1>4, <1>5, <1>6, <1>7, <1>8, <1>9, <1>10, <1>11, <1>12, <1>13, <1>14, <1>15,
     <1>16, <1>17, <1>18, <1>19, <1>20, <1>21, <1>22, <1>23, <1>24, <1>25, <1>26, <1>27,
     <1>28, <1>29 DEF Running

LEMMA SlotsStep == ASSUME Inv, Running PROVE Slots'
<1> USE SourcesAssumption
  DEF Inv, TypeOK, Files, Threads, Places, BeforeThreads,
      Downloading, AllStarted, NoFetch, NoCopy, Src, vars, diskVars, runVars, mainVars, refVars, ghosts,
      InOrder, Slots, Unjoined, Slot, Joining
<1>1. ASSUME NEW f \in BOOLEAN, NEW k \in BOOLEAN, StartRun(f, k) PROVE Slots'
  BY <1>1 DEF StartRun
<1>2. ASSUME FetchMakefile PROVE Slots'
  BY <1>2 DEF FetchMakefile
<1>3. ASSUME LookUpCache PROVE Slots'
  BY <1>3, LeftOfZero DEF LookUpCache
<1>4. ASSUME LoadPackage PROVE Slots'
  BY <1>4, LeftOfZero DEF LoadPackage
<1>5. ASSUME CopyInFails PROVE Slots'
  BY <1>5, LeftOfZero DEF CopyInFails
<1>6. ASSUME CopyInDone PROVE Slots'
  BY <1>6 DEF CopyInDone
<1>7. ASSUME FetchNext PROVE Slots'
  BY <1>7 DEF FetchNext
<1>8. ASSUME CountRef PROVE Slots'
  BY <1>8 DEF CountRef
<1>9. ASSUME CreateFails PROVE Slots'
  BY <1>9 DEF CreateFails
<1>10. ASSUME Create PROVE Slots'
  <2> USE <1>10 DEF Create
  <2>1. Left(next - 1) = Slot /\ Slot \in 0..Concurrency /\ next \in Src
    OBVIOUS
  <2>2. Left(next) = IF Slot = Concurrency THEN 0 ELSE Slot + 1
    BY <2>1, LeftAfter, next \in Nat \ {0}
  <2>3. ASSUME NEW s \in Src, Unjoined(s)', s # next PROVE \E k \in 0..(i - 1) : fetchs[k] = s
    BY <2>3
  <2>4. CASE Slot = Concurrency
    <3>1. pc' = "batch" /\ i' = Concurrency /\ next' = next + 1
      BY <2>4 DEF RoomAfter
    <3>2. ASSUME NEW s \in Src, Unjoined(s)' PROVE \E k \in 0..(i' - 1) : fetchs'[k] = s
      BY <2>1, <2>2, <2>3, <2>4, <3>1, <3>2
    <3>3. QED BY <2>1, <2>2, <2>4, <3>1, <3>2
  <2>5. CASE Slot # Concurrency
    <3>1. pc' = "download" /\ i' = Slot + 1 /\ next' = next + 1
      BY <2>5, <2>1 DEF RoomAfter
    <3>2. ASSUME NEW s \in Src, Unjoined(s)' PROVE \E k \in 0..(i' - 1) : fetchs'[k] = s
      <4>1. CASE s = next
        BY <4>1, <2>1, <3>1
      <4>2. CASE s # next
        BY <4>2, <2>1, <2>3, <3>1, <3>2
      <4>3. QED BY <4>1, <4>2
    <3>3. QED BY <2>1, <2>2, <2>5, <3>1, <3>2
  <2>6. QED BY <2>4, <2>5
<1>11. ASSUME Drain PROVE Slots'
  BY <1>11 DEF Drain
<1>12. ASSUME Join PROVE Slots'
  <2>1. ASSUME NEW s \in Src, Unjoined(s)' PROVE \E k \in 0..(i' - 1) : fetchs'[k] = s
    <3>1. Unjoined(s) /\ s # fetchs[i - 1] /\ pc \in Joining
      BY <1>12, <2>1 DEF Join
    <3>2. PICK k \in 0..(i - 1) : fetchs[k] = s
      BY <3>1
    <3>3. k \in 0..(i' - 1) /\ fetchs'[k] = s
      BY <1>12, <3>1, <3>2 DEF Join, MoreToJoin
    <3>4. QED BY <3>3
  <2>2. pc' = pc /\ pc \in {"batch", "drain"} /\ next' = next /\ i' = i - 1 /\ i - 1 >= 0
    BY <1>12 DEF Join, MoreToJoin
  <2>3. QED BY <2>1, <2>2
<1>13. ASSUME JoinsDone PROVE Slots'
  BY <1>13 DEF JoinsDone, MoreToJoin
<1>14. ASSUME SavePackage PROVE Slots'
  BY <1>14 DEF SavePackage
<1>15. ASSUME CopyOutEnds PROVE Slots'
  BY <1>15 DEF CopyOutEnds
<1>16. ASSUME Free PROVE Slots'
  BY <1>16 DEF Free
<1>17. ASSUME RemoveDeps PROVE Slots'
  BY <1>17 DEF RemoveDeps
<1>18. ASSUME Expire PROVE Slots'
  BY <1>18 DEF Expire
<1>19. ASSUME NEW x \in {-1, 0, 1}, Install(x) PROVE Slots'
  BY <1>19 DEF Install
<1>20. ASSUME NEW s \in Src, CopyIn(s) PROVE Slots'
  BY <1>20 DEF CopyIn
<1>21. ASSUME NEW s \in Src, CopyOut(s) PROVE Slots'
  BY <1>21 DEF CopyOut, Fetching
<1>22. ASSUME NEW s \in Src, Check(s) PROVE Slots'
  BY <1>22 DEF Check
<1>23. ASSUME NEW s \in Src, Open(s) PROVE Slots'
  <2>1. UNCHANGED <<pc, i, next, fetchs>>
    BY <1>23 DEF Open
  <2>2. \A q \in Src : th'[q] = "joined" <=> th[q] = "joined"
    BY <1>23 DEF Open
  <2>3. QED BY <2>1, <2>2
<1>24. ASSUME NEW s \in Src, Get(s) PROVE Slots'
  BY <1>24 DEF Get
<1>25. ASSUME NEW s \in Src, LoadRefs(s) PROVE Slots'
  BY <1>25 DEF LoadRefs
<1>26. ASSUME NEW s \in Src, StoreRefs(s) PROVE Slots'
  BY <1>26 DEF StoreRefs
<1>27. ASSUME UNCHANGED vars PROVE Slots'
  BY <1>27 DEF vars
<1>28. ASSUME WriteIn PROVE Slots'
  BY <1>28 DEF WriteIn
<1>29. ASSUME WriteOut PROVE Slots'
  BY <1>29 DEF WriteOut
<1>30. QED
  BY <1>1, <1>2, <1>3, <1>4, <1>5, <1>6, <1>7, <1>8, <1>9, <1>10, <1>11, <1>12, <1>13, <1>14, <1>15,
     <1>16, <1>17, <1>18, <1>19, <1>20, <1>21, <1>22, <1>23, <1>24, <1>25, <1>26, <1>27,
     <1>28, <1>29 DEF Running

LEMMA DiskStep == ASSUME Inv, Running PROVE DiskExplained'
<1> USE SourcesAssumption
  DEF Inv, TypeOK, Files, Threads, Places, BeforeThreads,
      Downloading, AllStarted, NoFetch, NoCopy, Src, vars, diskVars, runVars, mainVars, refVars, ghosts,
      InOrder, DiskExplained, DiskAccount, Excused, Fetching, RcOfRun, CacheExplained
<1>1. ASSUME NEW f \in BOOLEAN, NEW k \in BOOLEAN, StartRun(f, k) PROVE DiskExplained'
  BY <1>1 DEF StartRun
<1>2. ASSUME FetchMakefile PROVE DiskExplained'
  BY <1>2 DEF FetchMakefile
<1>3. ASSUME LookUpCache PROVE DiskExplained'
  BY <1>3 DEF LookUpCache
<1>4. ASSUME LoadPackage PROVE DiskExplained'
  BY <1>4 DEF LoadPackage
<1>5. ASSUME CopyInFails PROVE DiskExplained'
  BY <1>5 DEF CopyInFails
<1>6. ASSUME CopyInDone PROVE DiskExplained'
  BY <1>6 DEF CopyInDone
<1>7. ASSUME FetchNext PROVE DiskExplained'
  BY <1>7 DEF FetchNext
<1>8. ASSUME CountRef PROVE DiskExplained'
  BY <1>8 DEF CountRef
<1>9. ASSUME CreateFails PROVE DiskExplained'
  BY <1>9 DEF CreateFails
<1>10. ASSUME Create PROVE DiskExplained'
  BY <1>10 DEF Create, Slot, RoomAfter
<1>11. ASSUME Drain PROVE DiskExplained'
  BY <1>11 DEF Drain
<1>12. ASSUME Join PROVE DiskExplained'
  BY <1>12 DEF Join, MoreToJoin
<1>13. ASSUME JoinsDone PROVE DiskExplained'
  BY <1>13 DEF JoinsDone, MoreToJoin
<1>14. ASSUME SavePackage PROVE DiskExplained'
  BY <1>14 DEF SavePackage
<1>15. ASSUME CopyOutEnds PROVE DiskExplained'
  BY <1>15 DEF CopyOutEnds
<1>16. ASSUME Free PROVE DiskExplained'
  BY <1>16 DEF Free
<1>17. ASSUME RemoveDeps PROVE DiskExplained'
  BY <1>17 DEF RemoveDeps
<1>18. ASSUME Expire PROVE DiskExplained'
  BY <1>18 DEF Expire
<1>19. ASSUME NEW x \in {-1, 0, 1}, Install(x) PROVE DiskExplained'
  BY <1>19 DEF Install
<1>20. ASSUME NEW s \in Src, CopyIn(s) PROVE DiskExplained'
  BY <1>20 DEF CopyIn
<1>21. ASSUME NEW s \in Src, CopyOut(s) PROVE DiskExplained'
  BY <1>21 DEF CopyOut, Fetching
<1>22. ASSUME NEW s \in Src, Check(s) PROVE DiskExplained'
  <2>1. UNCHANGED <<disk, cache, entry, runs, force, skip_cache, half, pc, rc, i, next, todo, spoiled>>
    BY <1>22 DEF Check
  <2>2. th[s] = "check" /\ \A q \in Src : q # s => th'[q] = th[q]
    BY <1>22 DEF Check
  <2>3. IF force \/ disk[s] = "absent" THEN th'[s] = "open" ELSE th'[s] = "dec"
    BY <1>22 DEF Check
  <2>4. ASSUME NEW q \in Src, q # s PROVE DiskAccount(q)'
    BY <2>1, <2>2, <2>4
  <2>5. CASE force \/ disk[s] = "absent"
    BY <2>1, <2>2, <2>3, <2>4, <2>5
  <2>6. CASE ~(force \/ disk[s] = "absent")
    BY <2>1, <2>2, <2>3, <2>4, <2>6
  <2>7. QED BY <2>5, <2>6
<1>23. ASSUME NEW s \in Src, Open(s) PROVE DiskExplained'
  <2>1. UNCHANGED <<force, half, pc, rc, todo>> /\ th[s] = "open" /\ spoiled \subseteq spoiled'
    BY <1>23 DEF Open
  <2>2. \A q \in Src : q # s => th'[q] = th[q] /\ disk'[q] = disk[q]
    BY <1>23 DEF Open
  <2>3. \/ th'[s] = "get" /\ disk'[s] = "broken"
        \/ th'[s] = "dec" /\ disk'[s] = disk[s] /\ s \in spoiled'
    BY <1>23 DEF Open
  <2>4. ASSUME NEW q \in Src, q # s PROVE DiskAccount(q)'
    BY <2>1, <2>2, <2>4
  <2>5. DiskAccount(s)'
    BY <2>1, <2>3
  <2>6. QED BY <2>4, <2>5
<1>24. ASSUME NEW s \in Src, Get(s) PROVE DiskExplained'
  BY <1>24 DEF Get
<1>25. ASSUME NEW s \in Src, LoadRefs(s) PROVE DiskExplained'
  BY <1>25 DEF LoadRefs
<1>26. ASSUME NEW s \in Src, StoreRefs(s) PROVE DiskExplained'
  BY <1>26 DEF StoreRefs
<1>27. ASSUME UNCHANGED vars PROVE DiskExplained'
  BY <1>27 DEF vars
<1>28. ASSUME WriteIn PROVE DiskExplained'
  <2>1. /\ half.file \in Src /\ half.content \in {"broken", "whole"} /\ half' = NoCopy
        /\ (half.content = "broken" => half.file \in spoiled) /\ disk[half.file] = "broken"
    BY <1>28, HalfType DEF WriteIn, HalfExplained
  <2>2. UNCHANGED <<force, pc, rc, todo, th>> /\ pc = "copyin"
    BY <1>28 DEF WriteIn
  <2>3. \/ disk' = [disk EXCEPT ![half.file] = half.content] /\ spoiled' = spoiled
        \/ disk' = disk /\ spoiled' = spoiled \cup {half.file}
    BY <1>28 DEF WriteIn
  <2>4. ASSUME NEW q \in Src, q # half.file PROVE DiskAccount(q)'
    BY <2>1, <2>2, <2>3, <2>4
  <2>5. \/ disk'[half.file] = "whole"
        \/ disk'[half.file] = "broken" /\ half.file \in spoiled'
    BY <2>1, <2>3
  <2>6. \A q \in Src : th[q] # "open"
    BY <2>2
  <2>7. ASSUME NEW q \in Src, q = half.file PROVE DiskAccount(q)'
    BY <2>2, <2>5, <2>6, <2>7
  <2>8. QED BY <2>4, <2>7
<1>29. ASSUME WriteOut PROVE DiskExplained'
  BY <1>29 DEF WriteOut
<1>30. QED
  BY <1>1, <1>2, <1>3, <1>4, <1>5, <1>6, <1>7, <1>8, <1>9, <1>10, <1>11, <1>12, <1>13, <1>14, <1>15,
     <1>16, <1>17, <1>18, <1>19, <1>20, <1>21, <1>22, <1>23, <1>24, <1>25, <1>26, <1>27,
     <1>28, <1>29 DEF Running

LEMMA CacheStep == ASSUME Inv, Running PROVE CacheExplained'
<1> USE SourcesAssumption
  DEF Inv, TypeOK, Files, Threads, Places, BeforeThreads,
      Downloading, AllStarted, NoFetch, NoCopy, Src, vars, diskVars, runVars, mainVars, refVars, ghosts,
      InOrder, DiskExplained, DiskAccount, Excused, Fetching, CacheExplained
<1>1. ASSUME NEW f \in BOOLEAN, NEW k \in BOOLEAN, StartRun(f, k) PROVE CacheExplained'
  BY <1>1 DEF StartRun
<1>2. ASSUME FetchMakefile PROVE CacheExplained'
  BY <1>2 DEF FetchMakefile
<1>3. ASSUME LookUpCache PROVE CacheExplained'
  BY <1>3 DEF LookUpCache
<1>4. ASSUME LoadPackage PROVE CacheExplained'
  BY <1>4 DEF LoadPackage
<1>5. ASSUME CopyInFails PROVE CacheExplained'
  BY <1>5 DEF CopyInFails
<1>6. ASSUME CopyInDone PROVE CacheExplained'
  BY <1>6 DEF CopyInDone
<1>7. ASSUME FetchNext PROVE CacheExplained'
  BY <1>7 DEF FetchNext
<1>8. ASSUME CountRef PROVE CacheExplained'
  BY <1>8 DEF CountRef
<1>9. ASSUME CreateFails PROVE CacheExplained'
  BY <1>9 DEF CreateFails
<1>10. ASSUME Create PROVE CacheExplained'
  BY <1>10 DEF Create, Slot, RoomAfter
<1>11. ASSUME Drain PROVE CacheExplained'
  BY <1>11 DEF Drain
<1>12. ASSUME Join PROVE CacheExplained'
  BY <1>12 DEF Join, MoreToJoin
<1>13. ASSUME JoinsDone PROVE CacheExplained'
  BY <1>13 DEF JoinsDone, MoreToJoin
<1>14. ASSUME SavePackage PROVE CacheExplained'
  BY <1>14 DEF SavePackage
<1>15. ASSUME CopyOutEnds PROVE CacheExplained'
  BY <1>15 DEF CopyOutEnds
<1>16. ASSUME Free PROVE CacheExplained'
  BY <1>16 DEF Free
<1>17. ASSUME RemoveDeps PROVE CacheExplained'
  BY <1>17 DEF RemoveDeps
<1>18. ASSUME Expire PROVE CacheExplained'
  BY <1>18 DEF Expire
<1>19. ASSUME NEW x \in {-1, 0, 1}, Install(x) PROVE CacheExplained'
  BY <1>19 DEF Install
<1>20. ASSUME NEW s \in Src, CopyIn(s) PROVE CacheExplained'
  BY <1>20 DEF CopyIn
<1>21. ASSUME NEW s \in Src, CopyOut(s) PROVE CacheExplained'
  BY <1>21 DEF CopyOut, Fetching
<1>22. ASSUME NEW s \in Src, Check(s) PROVE CacheExplained'
  BY <1>22 DEF Check
<1>23. ASSUME NEW s \in Src, Open(s) PROVE CacheExplained'
  BY <1>23 DEF Open
<1>24. ASSUME NEW s \in Src, Get(s) PROVE CacheExplained'
  BY <1>24 DEF Get
<1>25. ASSUME NEW s \in Src, LoadRefs(s) PROVE CacheExplained'
  BY <1>25 DEF LoadRefs
<1>26. ASSUME NEW s \in Src, StoreRefs(s) PROVE CacheExplained'
  BY <1>26 DEF StoreRefs
<1>27. ASSUME UNCHANGED vars PROVE CacheExplained'
  BY <1>27 DEF vars
<1>28. ASSUME WriteIn PROVE CacheExplained'
  BY <1>28 DEF WriteIn
<1>29. ASSUME WriteOut PROVE CacheExplained'
  <2>1. /\ half.file \in Src /\ half.content \in {"broken", "whole"} /\ half' = NoCopy
        /\ (half.content = "broken" => half.file \in spoiled)
    BY <1>29, HalfType DEF WriteOut, HalfExplained
  <2>2. UNCHANGED <<entry, pc, todo>> /\ pc = "copyout"
    BY <1>29 DEF WriteOut
  <2>3. \/ cache' = [cache EXCEPT ![half.file] = half.content] /\ spoiled' = spoiled
        \/ cache' = cache /\ spoiled' = spoiled \cup {half.file}
    BY <1>29 DEF WriteOut
  <2>4. ASSUME NEW q \in Src, q # half.file
        PROVE  cache'[q] = cache[q] /\ (q \in spoiled => q \in spoiled')
    BY <2>1, <2>3, <2>4
  <2>5. ASSUME NEW q \in Src, q = half.file
        PROVE  \/ cache'[q] # "broken" /\ cache'[q] # "absent"
               \/ q \in spoiled'
    BY <2>1, <2>3, <2>5
  <2>6. QED BY <2>1, <2>2, <2>4, <2>5
<1>30. QED
  BY <1>1, <1>2, <1>3, <1>4, <1>5, <1>6, <1>7, <1>8, <1>9, <1>10, <1>11, <1>12, <1>13, <1>14, <1>15,
     <1>16, <1>17, <1>18, <1>19, <1>20, <1>21, <1>22, <1>23, <1>24, <1>25, <1>26, <1>27,
     <1>28, <1>29 DEF Running

LEMMA HalfStep == ASSUME Inv, Running PROVE HalfExplained'
<1> USE SourcesAssumption
  DEF Inv, TypeOK, Files, NoFetch, NoCopy, Src, diskVars, runVars, mainVars, refVars, ghosts,
      DiskExplained, DiskAccount, Fetching, CacheExplained, HalfExplained
<1>1. ASSUME NEW s \in Src, CopyIn(s) PROVE HalfExplained'
  BY <1>1 DEF CopyIn
<1>2. ASSUME NEW s \in Src, CopyOut(s) PROVE HalfExplained'
  BY <1>2 DEF CopyOut
<1>3. ASSUME WriteIn \/ WriteOut PROVE HalfExplained'
  BY <1>3 DEF WriteIn, WriteOut
<1>4. ASSUME half' = half, spoiled \subseteq spoiled', half # NoCopy => pc' = pc,
             pc = "copyin" /\ half # NoCopy => disk' = disk
      PROVE  HalfExplained'
  BY <1>4
<1>5. ASSUME NEW s \in Src, Check(s) \/ Open(s) \/ Get(s) \/ LoadRefs(s) \/ StoreRefs(s)
      PROVE  HalfExplained'
  <2>1. half' = half /\ pc' = pc /\ spoiled \subseteq spoiled'
    BY <1>5 DEF Check, Open, Get, LoadRefs, StoreRefs
  <2>2. pc # "copyin"
    BY <1>5 DEF Check, Open, Get, LoadRefs, StoreRefs, InOrder, BeforeThreads
  <2>3. QED BY <1>4, <2>1, <2>2
<1>6. ASSUME \/ \E f, k \in BOOLEAN : StartRun(f, k)
             \/ RemoveDeps \/ Expire \/ FetchMakefile \/ LookUpCache \/ LoadPackage
             \/ CopyInFails \/ CopyInDone \/ FetchNext \/ CountRef \/ CreateFails \/ Create
             \/ Drain \/ Join \/ JoinsDone \/ SavePackage \/ CopyOutEnds
             \/ (\E x \in {-1, 0, 1} : Install(x)) \/ Free \/ UNCHANGED vars
      PROVE  HalfExplained'
  <2>1. half' = half /\ spoiled \subseteq spoiled'
    BY <1>6 DEF StartRun, RemoveDeps, Expire, FetchMakefile, LookUpCache, LoadPackage, CopyInFails,
       CopyInDone, FetchNext, CountRef, CreateFails, Create, Drain, Join, JoinsDone, SavePackage,
       CopyOutEnds, Install, Free, vars
  <2>2. half # NoCopy => pc' = pc
    BY <1>6 DEF StartRun, RemoveDeps, Expire, FetchMakefile, LookUpCache, LoadPackage, CopyInFails,
       CopyInDone, FetchNext, CountRef, CreateFails, Create, Drain, Join, JoinsDone, SavePackage,
       CopyOutEnds, Install, Free, vars
  <2>3. pc = "copyin" => disk' = disk
    BY <1>6 DEF StartRun, RemoveDeps, Expire, FetchMakefile, LookUpCache, LoadPackage, CopyInFails,
       CopyInDone, FetchNext, CountRef, CreateFails, Create, Drain, Join, JoinsDone, SavePackage,
       CopyOutEnds, Install, Free, vars
  <2>4. QED BY <1>4, <2>1, <2>2, <2>3
<1>7. QED BY <1>1, <1>2, <1>3, <1>5, <1>6 DEF Running

LEMMA RcStep == ASSUME Inv, Running PROVE RcOfRun'
<1> USE DEF Inv, TypeOK, RcOfRun, vars, diskVars, runVars, mainVars, refVars, ghosts
<1>1. ASSUME NEW f \in BOOLEAN, NEW k \in BOOLEAN, StartRun(f, k) PROVE RcOfRun'
  BY <1>1 DEF StartRun
<1>2. ASSUME FetchMakefile PROVE RcOfRun'
  BY <1>2 DEF FetchMakefile
<1>3. ASSUME LookUpCache PROVE RcOfRun'
  BY <1>3 DEF LookUpCache
<1>4. ASSUME LoadPackage PROVE RcOfRun'
  BY <1>4 DEF LoadPackage
<1>5. ASSUME CopyInFails PROVE RcOfRun'
  BY <1>5 DEF CopyInFails
<1>6. ASSUME CopyInDone PROVE RcOfRun'
  BY <1>6 DEF CopyInDone
<1>7. ASSUME FetchNext PROVE RcOfRun'
  BY <1>7 DEF FetchNext
<1>8. ASSUME CountRef PROVE RcOfRun'
  BY <1>8 DEF CountRef
<1>9. ASSUME CreateFails PROVE RcOfRun'
  BY <1>9 DEF CreateFails
<1>10. ASSUME Create PROVE RcOfRun'
  BY <1>10 DEF Create, Slot, RoomAfter
<1>11. ASSUME Drain PROVE RcOfRun'
  BY <1>11 DEF Drain
<1>12. ASSUME Join PROVE RcOfRun'
  BY <1>12 DEF Join, MoreToJoin
<1>13. ASSUME JoinsDone PROVE RcOfRun'
  BY <1>13 DEF JoinsDone, MoreToJoin
<1>14. ASSUME SavePackage PROVE RcOfRun'
  BY <1>14 DEF SavePackage
<1>15. ASSUME CopyOutEnds PROVE RcOfRun'
  BY <1>15 DEF CopyOutEnds
<1>16. ASSUME Free PROVE RcOfRun'
  BY <1>16 DEF Free
<1>17. ASSUME RemoveDeps PROVE RcOfRun'
  BY <1>17 DEF RemoveDeps
<1>18. ASSUME Expire PROVE RcOfRun'
  BY <1>18 DEF Expire
<1>19. ASSUME NEW x \in {-1, 0, 1}, Install(x) PROVE RcOfRun'
  BY <1>19 DEF Install
<1>20. ASSUME NEW s \in Src, CopyIn(s) PROVE RcOfRun'
  BY <1>20 DEF CopyIn
<1>21. ASSUME NEW s \in Src, CopyOut(s) PROVE RcOfRun'
  BY <1>21 DEF CopyOut, Fetching
<1>22. ASSUME NEW s \in Src, Check(s) PROVE RcOfRun'
  BY <1>22 DEF Check
<1>23. ASSUME NEW s \in Src, Open(s) PROVE RcOfRun'
  BY <1>23 DEF Open
<1>24. ASSUME NEW s \in Src, Get(s) PROVE RcOfRun'
  BY <1>24 DEF Get
<1>25. ASSUME NEW s \in Src, LoadRefs(s) PROVE RcOfRun'
  BY <1>25 DEF LoadRefs
<1>26. ASSUME NEW s \in Src, StoreRefs(s) PROVE RcOfRun'
  BY <1>26 DEF StoreRefs
<1>27. ASSUME UNCHANGED vars PROVE RcOfRun'
  BY <1>27 DEF vars
<1>28. ASSUME WriteIn PROVE RcOfRun'
  BY <1>28 DEF WriteIn
<1>29. ASSUME WriteOut PROVE RcOfRun'
  BY <1>29 DEF WriteOut
<1>30. QED
  BY <1>1, <1>2, <1>3, <1>4, <1>5, <1>6, <1>7, <1>8, <1>9, <1>10, <1>11, <1>12, <1>13, <1>14, <1>15,
     <1>16, <1>17, <1>18, <1>19, <1>20, <1>21, <1>22, <1>23, <1>24, <1>25, <1>26, <1>27,
     <1>28, <1>29 DEF Running
-----------------------------------------------------------------------------
(* What happens to the threads that hold a reference, and to their number. *)
LEMMA UsersCount ==
  ASSUME TypeOK
  PROVE  IsFiniteSet(Users) /\ Cardinality(Users) \in Nat
<1>1. IsFiniteSet(Src) /\ Users \subseteq Src
  BY FS_Interval, SourcesAssumption DEF Src, Users
<1>2. QED BY <1>1, FS_Subset, FS_CardinalityType

LEMMA RefsStep == ASSUME Inv, Running PROVE RefsCover'
<1> DEFINE n == Cardinality(Users)
<1> USE DEF Inv, RefsCover, diskVars, runVars, mainVars, refVars, ghosts
<1>1. IsFiniteSet(Users) /\ n \in Nat /\ refs \in Int /\ loaded \in Int
  BY UsersCount DEF TypeOK
<1>2. ASSUME th' = th PROVE Users' = Users
  BY <1>2 DEF Users, Live
<1>3. ASSUME Users' = Users, ~raced' => ~raced /\ refs' >= refs, pc' = "create" => pc = "create",
             refs' \in Int, freed' => pc' = "exit"
      PROVE  RefsCover'
  BY <1>1, <1>3
<1>4. ASSUME \/ \E f, k \in BOOLEAN : StartRun(f, k)
             \/ RemoveDeps \/ Expire \/ LookUpCache \/ LoadPackage \/ CopyInFails \/ CopyInDone
             \/ FetchNext \/ CreateFails \/ Drain \/ JoinsDone \/ SavePackage \/ CopyOutEnds
             \/ WriteIn \/ WriteOut
             \/ (\E x \in {-1, 0, 1} : Install(x)) \/ Free \/ FetchMakefile
             \/ (\E s \in Src : CopyIn(s) \/ CopyOut(s)) \/ UNCHANGED vars
      PROVE  RefsCover'
  <2>1. th' = th
    BY <1>4 DEF StartRun, RemoveDeps, Expire, LookUpCache, LoadPackage, CopyInFails, CopyInDone,
       FetchNext, CreateFails, Drain, JoinsDone, SavePackage, CopyOutEnds, Install, Free,
       FetchMakefile, CopyIn, WriteIn, CopyOut, WriteOut, vars
  <2>2. raced' = raced /\ (refs' = refs \/ refs' = refs + 1)
    BY <1>4 DEF StartRun, RemoveDeps, Expire, LookUpCache, LoadPackage, CopyInFails, CopyInDone,
       FetchNext, CreateFails, Drain, JoinsDone, SavePackage, CopyOutEnds, Install, Free,
       FetchMakefile, CopyIn, WriteIn, CopyOut, WriteOut, vars
  <2>3. (pc' = "create" => pc = "create") /\ (freed' => pc' = "exit")
    BY <1>4 DEF StartRun, RemoveDeps, Expire, LookUpCache, LoadPackage, CopyInFails, CopyInDone,
       FetchNext, CreateFails, Drain, JoinsDone, SavePackage, CopyOutEnds, Install, Free,
       FetchMakefile, CopyIn, WriteIn, CopyOut, WriteOut, vars
  <2>4. QED BY <1>1, <1>2, <1>3, <2>1, <2>2, <2>3
<1>5. ASSUME CountRef PROVE RefsCover'
  <2>1. Users' = Users /\ pc = "count" /\ pc' = "create" /\ freed' = freed
    BY <1>2, <1>5 DEF CountRef
  <2>2. ~raced' => ~raced /\ refs = loaded
    BY <1>5 DEF CountRef
  <2>3. refs' = loaded + 1
    BY <1>5 DEF CountRef
  <2>4. QED BY <1>1, <2>1, <2>2, <2>3
<1>6. ASSUME Create PROVE RefsCover'
  <2>1. next \in Src /\ th[next] = "idle" /\ th' = [th EXCEPT ![next] = "check"]
    BY <1>6, SourcesAssumption DEF Create, TypeOK, InOrder, Src
  <2>2. next \notin Users /\ Users' = Users \cup {next}
    BY <2>1 DEF Users, Live, TypeOK
  <2>3. Cardinality(Users') = n + 1
    BY <1>1, <2>2, FS_AddElement
  <2>4. pc = "create" /\ pc' # "create" /\ UNCHANGED <<refs, raced, freed>>
    BY <1>6 DEF Create
  <2>5. QED BY <1>1, <2>3, <2>4
<1>7. ASSUME Join PROVE RefsCover'
  <2>1. PICK s : th[s] = "ended" /\ th' = [th EXCEPT ![s] = "joined"]
    BY <1>7 DEF Join
  <2>2. Users' = Users
    BY <2>1 DEF Users, Live, TypeOK
  <2>3. pc' = pc /\ pc # "create" /\ UNCHANGED <<refs, raced, freed>>
    BY <1>7 DEF Join
  <2>4. QED BY <1>1, <1>3, <2>2, <2>3
<1>8. ASSUME NEW s \in Src, Check(s) \/ Open(s) \/ Get(s) \/ LoadRefs(s) PROVE RefsCover'
  <2>1. \A q \in Src : Live(q)' <=> Live(q)
    BY <1>8 DEF Check, Open, Get, LoadRefs, Live, TypeOK
  <2>2. Users' = Users
    BY <2>1 DEF Users
  <2>3. UNCHANGED <<pc, refs, raced, freed>>
    BY <1>8 DEF Check, Open, Get, LoadRefs
  <2>4. QED BY <1>1, <1>3, <2>2, <2>3
<1>9. ASSUME NEW s \in Src, StoreRefs(s) PROVE RefsCover'
  <2>1. th[s] = "store" /\ th' = [th EXCEPT ![s] = "ended"]
    BY <1>9 DEF StoreRefs
  <2>2. s \in Users /\ Users' = Users \ {s}
    BY <2>1 DEF Users, Live, TypeOK
  <2>3. Cardinality(Users') = n - 1
    BY <1>1, <2>2, FS_RemoveElement
  <2>4. UNCHANGED <<pc, freed>> /\ (~raced' => ~raced /\ refs = seen[s])
    BY <1>9 DEF StoreRefs
  <2>5. refs' = seen[s] - 1
    BY <1>9 DEF StoreRefs
  <2>6. QED BY <1>1, <2>3, <2>4, <2>5
<1>10. QED BY <1>4, <1>5, <1>6, <1>7, <1>8, <1>9 DEF Running

-----------------------------------------------------------------------------
(* The end of the process, on each of its ways out.                        *)
LEMMA EndStep ==
  ASSUME Inv, Interrupt \/ InterruptRemoval \/ Exit \/ AbortOnMakefile
  PROVE  Inv'
<1> USE SourcesAssumption DEF Inv
<1>1. PICK gone \in SUBSET Src :
        /\ EndProcess(gone) /\ (pc = "copyout" => todo \subseteq gone)
        /\ \A s \in Src : half.file = s => s \in gone
        /\ \/ cache' = cache /\ entry' = entry
           \/ /\ entry' = "fresh" /\ entry # "none"
              /\ cache' = [s \in Src |-> IF s \in gone THEN "absent" ELSE cache[s]]
  <2> DEFINE cut == (IF pc = "copyout" THEN todo ELSE {}) \cup {s \in Src : half.file = s}
  <2>1. CASE Interrupt
    <3>1. EndProcess(cut) /\ cache' = cache /\ entry' = entry
      BY <2>1 DEF Interrupt
    <3>2. cut \in SUBSET Src
      BY DEF TypeOK
    <3>3. (pc = "copyout" => todo \subseteq cut) /\ \A s \in Src : half.file = s => s \in cut
      OBVIOUS
    <3>4. QED BY <3>1, <3>2, <3>3
  <2>2. ASSUME pc \notin {"copyin", "copyout"} PROVE \A s \in Src : half.file # s
    BY <2>2 DEF HalfExplained, NoCopy, NoFetch, Src
  <2>3. CASE InterruptRemoval
    <3>1. pc \notin {"copyin", "copyout"} /\ entry # "none" /\ entry' = "fresh"
      BY <2>3 DEF InterruptRemoval
    <3>2. PICK gone \in SUBSET Src :
            /\ cache' = [s \in Src |-> IF s \in gone THEN "absent" ELSE cache[s]]
            /\ EndProcess(gone)
      BY <2>3 DEF InterruptRemoval
    <3>3. QED BY <2>2, <3>1, <3>2
  <2>4. CASE Exit \/ AbortOnMakefile
    <3>1. /\ EndProcess({}) /\ cache' = cache /\ entry' = entry
          /\ pc \notin {"copyin", "copyout"}
      BY <2>4 DEF Exit, AbortOnMakefile
    <3>2. QED BY <2>2, <3>1
  <2>5. QED BY <2>1, <2>3, <2>4
<1>2. /\ pc' = "out" /\ rc' = 0 /\ i' = 0 /\ next' = 1 /\ todo' = {} /\ refs' = 0 /\ loaded' = 0
      /\ raced' = FALSE /\ freed' = FALSE /\ force' = FALSE /\ skip_cache' = FALSE /\ half' = NoCopy
      /\ disk' = disk /\ fetchs' = [k \in 0..Concurrency |-> NoFetch]
      /\ th' = [s \in Src |-> "idle"] /\ seen' = [s \in Src |-> 0]
  BY <1>1 DEF EndProcess
<1>3. spoiled' = spoiled \cup gone \cup {s \in Src : Fetching(s)}
  BY <1>1 DEF EndProcess
<1>4. TypeOK'
  <2>1. spoiled' \in SUBSET Src /\ cache' \in [Src -> Files] /\ entry' \in {"none", "fresh", "expired"}
    BY <1>1, <1>3 DEF TypeOK, Files
  <2>2. /\ disk' \in [Src -> Files] /\ next' \in 1..(Sources + 1)
        /\ fetchs' \in [0..Concurrency -> Src \cup {NoFetch}]
        /\ th' \in [Src -> Threads] /\ seen' \in [Src -> Int]
    BY <1>2 DEF TypeOK, Threads
  <2>3. pc' \in Places /\ todo' \in SUBSET Src /\ i' \in Int /\ refs' \in Int /\ loaded' \in Int
    BY <1>2 DEF Places, BeforeThreads
  <2>4. /\ freed' \in BOOLEAN /\ raced' \in BOOLEAN /\ force' \in BOOLEAN /\ skip_cache' \in BOOLEAN
        /\ half' \in Copies
    BY <1>2 DEF NoCopy, Files, Copies
  <2>5. QED BY <2>1, <2>2, <2>3, <2>4 DEF TypeOK
<1>5. InOrder'
  BY <1>2 DEF InOrder, BeforeThreads, AllStarted, Src
<1>6. Slots'
  BY <1>2 DEF Slots, Downloading, Joining
<1>7. RefsCover'
  <2>1. Users' = {}
    BY <1>2 DEF Users, Live
  <2>2. QED BY <1>2, <2>1, FS_EmptySet DEF RefsCover
<1>8. DiskExplained'
  <2>1. ASSUME NEW s \in Src, disk[s] = "broken" PROVE s \in spoiled'
    BY <1>1, <1>3, <2>1 DEF DiskExplained, DiskAccount, Fetching
  <2>2. QED BY <1>2, <2>1 DEF DiskExplained, DiskAccount
<1>9. CacheExplained'
  <2>1. ASSUME NEW s \in Src, cache'[s] = "broken" PROVE s \in spoiled'
    BY <1>1, <1>3, <2>1 DEF CacheExplained
  <2>2. ASSUME NEW s \in Src, cache'[s] = "absent", entry' # "none" PROVE s \in spoiled'
    BY <1>1, <1>3, <2>2 DEF CacheExplained
  <2>3. QED BY <1>2, <2>1, <2>2 DEF CacheExplained
<1>10. RcOfRun' /\ HalfExplained'
  BY <1>2 DEF RcOfRun, HalfExplained, NoCopy
<1>11. QED BY <1>4, <1>5, <1>6, <1>7, <1>8, <1>9, <1>10

LEMMA InitInv == Init => Inv
<1> SUFFICES ASSUME Init PROVE Inv
  OBVIOUS
<1> USE SourcesAssumption DEF Init
<1>1. TypeOK
  <2>1. /\ disk \in [Src -> Files] /\ cache \in [Src -> Files] /\ next \in 1..(Sources + 1)
        /\ fetchs \in [0..Concurrency -> Src \cup {NoFetch}]
        /\ th \in [Src -> Threads] /\ seen \in [Src -> Int]
    BY DEF Files, Threads
  <2>2. pc \in Places /\ todo \in SUBSET Src /\ i \in Int /\ refs \in Int /\ loaded \in Int
    BY DEF Places, BeforeThreads
  <2>3. /\ freed \in BOOLEAN /\ raced \in BOOLEAN /\ force \in BOOLEAN /\ skip_cache \in BOOLEAN
        /\ entry \in {"none", "fresh", "expired"} /\ spoiled \in SUBSET Src
        /\ half \in Copies
    BY DEF NoCopy, Files, Copies
  <2>4. QED BY <2>1, <2>2, <2>3 DEF TypeOK
<1>2. InOrder /\ Slots
  BY DEF InOrder, Slots, BeforeThreads, AllStarted, Downloading, Joining, Src
<1>3. RefsCover
  <2>1. Users = {}
    BY DEF Users, Live
  <2>2. QED BY <2>1, FS_EmptySet DEF RefsCover
<1>4. DiskExplained /\ CacheExplained /\ HalfExplained /\ RcOfRun
  BY DEF DiskExplained, DiskAccount, CacheExplained, HalfExplained, NoCopy, RcOfRun
<1>5. QED BY <1>1, <1>2, <1>3, <1>4 DEF Inv

LEMMA StepInv == Inv /\ [Next]_vars => Inv'
  BY NextSteps, TypeStep, OrderStep, SlotsStep, RefsStep, DiskStep, CacheStep,
     HalfStep, RcStep, EndStep DEF Inv

LEMMA Invariance == Spec => []Inv
<1>1. QED BY InitInv, StepInv, PTL DEF Spec

-----------------------------------------------------------------------------
(* When the cache is filled, only the last thread of a full batch may be   *)
(* left unjoined, however many sources there are and however large a batch *)
(* is: the arithmetic of fetchs and i in the loop of clib_package_install. *)
THEOREM OnlyBatchLastsEscapes == Spec => []OnlyBatchLastsEscape
<1>1. ASSUME Inv, pc \in {"save", "copyout"}, NEW s \in Src, s % (Concurrency + 1) # 0
      PROVE  th[s] = "joined"
  <2>1. s < next
    BY <1>1, SourcesAssumption DEF Inv, InOrder, AllStarted, Src
  <2>2. ~Unjoined(s)
    BY <1>1 DEF Inv, Slots
  <2>3. Left(s) # 0
    BY <1>1 DEF Left, Batch
  <2>4. QED BY <2>1, <2>2, <2>3 DEF Unjoined
<1>2. Inv => OnlyBatchLastsEscape
  BY <1>1 DEF OnlyBatchLastsEscape
<1>3. QED BY <1>2, Invariance, PTL

(* While no update of refs was lost, the package is freed only when no     *)
(* thread will touch it again.                                             *)
THEOREM NoUseAfterFree == Spec => []FreedWhenUnused
<1>1. ASSUME Inv, FreedWhenUnused, [Next]_vars PROVE FreedWhenUnused'
  <2> SUFFICES ASSUME freed', ~raced', NEW s \in Src PROVE ~Live(s)'
    BY DEF FreedWhenUnused
  <2> USE DEF diskVars, runVars, mainVars, refVars, ghosts, Live
  <2>1. CASE Interrupt \/ InterruptRemoval \/ Exit \/ AbortOnMakefile
    BY <2>1 DEF Interrupt, InterruptRemoval, Exit, AbortOnMakefile, EndProcess
  <2>2. CASE Free
    <3>1. refs = 0 /\ ~raced /\ pc # "create" /\ th' = th
      BY <2>2 DEF Free
    <3>2. Users = {}
      BY <1>1, <3>1, UsersCount, FS_EmptySet DEF Inv, RefsCover
    <3>3. QED BY <3>1, <3>2 DEF Users
  <2>3. CASE Running /\ ~Free
    <3>1. freed /\ pc = "exit"
      BY <1>1, <2>3 DEF Inv, RefsCover, Running, StartRun, RemoveDeps, Expire, FetchMakefile,
         LookUpCache, LoadPackage, CopyInFails, CopyInDone, FetchNext, CountRef, CreateFails,
         Create, Drain, Join, JoinsDone, SavePackage, CopyOutEnds, Install, CopyIn, WriteIn, CopyOut, WriteOut,
         Check, Open, Get, LoadRefs, StoreRefs, vars
    <3>2. \/ th' = th /\ raced' = raced
          \/ \E q \in Src : Check(q) \/ Open(q) \/ Get(q) \/ LoadRefs(q) \/ StoreRefs(q)
      BY <2>3, <3>1 DEF Running, StartRun, RemoveDeps, Expire, FetchMakefile,
         LookUpCache, LoadPackage, CopyInFails, CopyInDone, FetchNext, CountRef, CreateFails,
         Create, Drain, Join, JoinsDone, SavePackage, CopyOutEnds, Install, CopyIn, WriteIn, CopyOut, WriteOut, vars
    <3>3. CASE th' = th /\ raced' = raced
      BY <1>1, <3>1, <3>3 DEF FreedWhenUnused
    <3>4. ASSUME NEW q \in Src, Check(q) \/ Open(q) \/ Get(q) \/ LoadRefs(q) \/ StoreRefs(q)
          PROVE  ~Live(s)'
      <4>1. ~raced /\ (Live(s)' => Live(s))
        BY <1>1, <3>4 DEF Inv, TypeOK, Check, Open, Get, LoadRefs, StoreRefs
      <4>2. QED BY <1>1, <3>1, <4>1 DEF FreedWhenUnused
    <3>5. QED BY <3>2, <3>3, <3>4
  <2>4. QED BY <1>1, <2>1, <2>2, <2>3, NextSteps
<1>2. Init => FreedWhenUnused
  BY DEF Init, FreedWhenUnused
<1>3. QED BY <1>1, <1>2, Invariance, PTL DEF Spec

(* A file that is not whole after an install that reports success has a    *)
(* cause.                                                                  *)
THEOREM EveryGapExplained == Spec => []IncompleteExplained
<1>1. Inv => IncompleteExplained
  BY DEF Inv, TypeOK, Files, DiskExplained, DiskAccount, Excused, Fetching, IncompleteExplained
<1>2. QED BY <1>1, Invariance, PTL

(* No step of a run that is not forced takes a whole file away but the     *)
(* copying from the cache, and after it the file is whole again unless the *)
(* copy was spoiled.                                                       *)
THEOREM WholeFilesAreKept == Spec => WholeFilesStay
<1> USE DEF diskVars, runVars, mainVars, refVars, ghosts, NoCopy, NoFetch, Src
<1>1. ASSUME Inv, [Next]_vars, NEW s \in Src
      PROVE  /\ disk[s] = "whole" /\ disk'[s] # "whole" => pc = "out" \/ force \/ half'.file = s
             /\ pc = "copyin" /\ half.file = s /\ half'.file # s => disk'[s] = "whole" \/ s \in spoiled'
  <2> USE <1>1 DEF Inv, TypeOK
  <2>1. CASE Interrupt \/ InterruptRemoval \/ Exit \/ AbortOnMakefile
    <3>1. disk' = disk
      BY <2>1 DEF Interrupt, InterruptRemoval, Exit, AbortOnMakefile, EndProcess
    <3>2. pc = "copyin" /\ half.file = s => s \in spoiled'
      BY <2>1 DEF Interrupt, InterruptRemoval, Exit, AbortOnMakefile, EndProcess
    <3>3. QED BY <3>1, <3>2
  <2>2. ASSUME disk' = disk, half' = half
        PROVE  /\ disk[s] = "whole" /\ disk'[s] # "whole" => pc = "out" \/ force \/ half'.file = s
               /\ pc = "copyin" /\ half.file = s /\ half'.file # s => disk'[s] = "whole" \/ s \in spoiled'
    BY <2>2
  <2>4. CASE RemoveDeps
    BY <2>4 DEF RemoveDeps
  <2>5. ASSUME NEW q \in Src, CopyIn(q)
        PROVE  /\ disk[s] = "whole" /\ disk'[s] # "whole" => half'.file = s
               /\ half.file # s
    <3>1. \/ disk' = disk
          \/ disk' = [disk EXCEPT ![q] = "broken"] /\ half'.file = q
      BY <2>5 DEF CopyIn
    <3>2. half.file = 0
      BY <2>5 DEF CopyIn
    <3>3. QED BY <3>1, <3>2, SourcesAssumption
  <2>6. CASE WriteIn
    <3>1. half # NoCopy /\ half.file \in Src /\ half.content \in {"broken", "whole"}
      BY <2>6, HalfType DEF WriteIn, HalfExplained, Files
    <3>2. \/ disk' = [disk EXCEPT ![half.file] = half.content] /\ spoiled' = spoiled
          \/ disk' = disk /\ spoiled' = spoiled \cup {half.file}
      BY <2>6 DEF WriteIn
    <3>3. disk[s] = "whole" /\ disk'[s] # "whole" => force
      BY <2>6, <3>1, <3>2 DEF WriteIn, HalfExplained
    <3>4. ASSUME half.file = s, s \notin spoiled' PROVE disk'[s] = "whole"
      <4>1. disk' = [disk EXCEPT ![s] = half.content] /\ s \notin spoiled
        BY <3>2, <3>4
      <4>2. half.content = "whole"
        BY <3>1, <3>4, <4>1 DEF HalfExplained
      <4>3. QED BY <4>1, <4>2
    <3>5. QED BY <3>3, <3>4
  <2>7. ASSUME NEW q \in Src, Open(q)
        PROVE  (disk[s] = "whole" /\ disk'[s] # "whole" => force) /\ half' = half
    <3>1. th[q] = "open" /\ half' = half /\ \A x \in Src : x # q => disk'[x] = disk[x]
      BY <2>7 DEF Open
    <3>2. QED BY <3>1 DEF DiskExplained, DiskAccount
  <2>8. ASSUME NEW q \in Src, Get(q)
        PROVE  (disk[s] = "whole" => disk'[s] = "whole") /\ half' = half
    BY <2>8 DEF Get
  <2>9. ASSUME NEW q \in Src, CopyOut(q) PROVE disk' = disk /\ pc # "copyin"
    BY <2>9 DEF CopyOut
  <2>10. CASE WriteOut
    BY <2>10 DEF WriteOut
  <2>11. CASE Running
    <3>1. \/ disk' = disk /\ half' = half
          \/ RemoveDeps \/ WriteIn \/ WriteOut
          \/ \E q \in Src : CopyIn(q) \/ CopyOut(q) \/ Open(q) \/ Get(q)
      BY <2>11 DEF Running, StartRun, Expire, FetchMakefile,
         LookUpCache, LoadPackage, CopyInFails, CopyInDone, FetchNext, CountRef, CreateFails,
         Create, Drain, Join, JoinsDone, SavePackage, CopyOutEnds, Install, Free,
         Check, LoadRefs, StoreRefs, vars
    <3>2. QED BY <2>2, <2>4, <2>5, <2>6, <2>7, <2>8, <2>9, <2>10, <3>1
  <2>12. QED BY <2>1, <2>11, NextSteps
<1>2. Inv /\ [Next]_vars =>
        [\A s \in Src :
           /\ disk[s] = "whole" /\ disk'[s] # "whole" => pc = "out" \/ force \/ half'.file = s
           /\ pc = "copyin" /\ half.file = s /\ half'.file # s => disk'[s] = "whole" \/ s \in spoiled']_vars
  BY <1>1
<1>3. QED BY <1>2, Invariance, PTL DEF Spec, WholeFilesStay
=============================================================================
