--------------------------- MODULE ClibBuildProofs ---------------------------
(***************************************************************************)
(* The safety of clib build and clib configure (src/HW5/clib), for any     *)
(* packages, dependencies, command lines and sizes of the batches.         *)
(***************************************************************************)
EXTENDS ClibBuild, FiniteSetTheorems, SequenceTheorems, TLAPS

Steps == (Nat \X {"dir", "slug"}) \cup (Packages \X {1, 2} \X {"deps", "dev"})
Keys == Seq(Steps) \ {<<>>}
Calls ==
  [pkg : Packages \cup {Flag}, slug : BOOLEAN, file : {1, 2},
   pc : {"start", "check", "load", "make", "enter", "deps", "return", "done"},
   todo : SUBSET Packages, phase : {"deps", "dev"}, kids : SUBSET Keys, unset : Nat,
   rc : {0, ENOMEM, EAGAIN}]

TypeOK ==
  /\ world \in Worlds /\ tool \in {"build", "configure"} /\ dev \in BOOLEAN
  /\ concurrency \in Concurrencies /\ nargv \in CommandLines /\ failed \in Nat
  /\ DOMAIN calls \subseteq Keys /\ calls \in [DOMAIN calls -> Calls]
  /\ \A k \in DOMAIN calls : calls[k].pc \in {"make", "enter", "deps"} => calls[k].pkg \in Packages
  /\ main \in 0..Rounds /\ (\A k \in DOMAIN calls : Len(k) = 1 => main >= 1) /\ rc \in {0, ENOMEM, EAGAIN}
  /\ built \subseteq (Packages \cup {Flag}) \X BOOLEAN \X {1, 2}
  /\ made \in [Packages -> Nat] /\ ended \in {"no", "exit", "crash"}

World ==
  /\ world.deps \in [Packages -> SUBSET Packages] /\ world.missing \in SUBSET Packages
  /\ world.manifest \in [Packages -> 0..2]

LEMMA WorldFacts == ASSUME world \in Worlds PROVE World
  BY BuildAssumption DEF World

(* main() never takes more arguments than it has been given.               *)
LEMMA NamesFacts == ASSUME nargv \in CommandLines PROVE Names \in 0..Len(nargv) /\ Len(nargv) \in Nat
<1>1. PICK n \in Nat : n = Len(nargv)
  BY BuildAssumption
<1> DEFINE S == {j \in 1..Len(nargv) : nargv[j] # Flag}
<1>2. IsFiniteSet(1..Len(nargv)) /\ Cardinality(1..Len(nargv)) = Len(nargv)
  <2>1. IsFiniteSet(1..n) /\ Cardinality(1..n) = (IF 1 > n THEN 0 ELSE n - 1 + 1)
    BY FS_Interval
  <2> QED
    BY <1>1, <2>1
<1>3. S \subseteq 1..Len(nargv)
  OBVIOUS
<1>4. IsFiniteSet(S) /\ Cardinality(S) <= Cardinality(1..Len(nargv))
  BY <1>2, <1>3, FS_Subset
<1>5. Cardinality(S) \in Nat
  BY <1>4, FS_CardinalityType
<1>6. Cardinality(S) <= Len(nargv)
  BY <1>2, <1>4
<1> HIDE DEF S
<1>7. Cardinality(S) \in 0..Len(nargv)
  BY <1>1, <1>5, <1>6
<1> QED
  BY <1>1, <1>7 DEF Names, S

LEMMA ArgType == ASSUME nargv \in CommandLines, NEW j \in 1..Rounds PROVE Arg(j) \in Packages \cup {Flag}
<1>1. CASE Names = 0
  BY <1>1, BuildAssumption DEF Arg
<1>2. CASE Names # 0
  <2>1. j \in 1..Len(nargv)
    BY <1>2, NamesFacts DEF Rounds
  <2> QED
    BY <1>2, <2>1, BuildAssumption DEF Arg
<1> QED
  BY <1>1, <1>2

LEMMA RoundsNat == ASSUME nargv \in CommandLines PROVE Rounds \in Nat
  BY NamesFacts DEF Rounds

LEMMA NewCall ==
  ASSUME NEW p \in Packages \cup {Flag}, NEW s \in BOOLEAN, NEW pc \in {"start", "check"}
  PROVE  /\ Call(p, s, pc) \in Calls /\ Call(p, s, pc).pkg = p /\ Call(p, s, pc).slug = s
         /\ Call(p, s, pc).pc = pc /\ Call(p, s, pc).file = 1 /\ Call(p, s, pc).kids = {}
         /\ Call(p, s, pc).rc = 0 /\ Call(p, s, pc).todo = {} /\ Call(p, s, pc).unset = 0
  BY DEF Call, Calls

(* What a step of one call leaves alone, when it neither creates nor joins.*)
Keeps(k) ==
  /\ DOMAIN calls' = DOMAIN calls /\ \A q \in DOMAIN calls : q # k => calls'[q] = calls[q]
  /\ calls'[k].pkg = calls[k].pkg /\ calls'[k].slug = calls[k].slug /\ calls'[k].kids = calls[k].kids
  /\ calls'[k].unset = calls[k].unset

Becomes(k, pc, file, phase, todo, status) ==
  /\ calls'[k].pc = pc /\ calls'[k].file = file /\ calls'[k].phase = phase /\ calls'[k].todo = todo
  /\ calls'[k].rc = status

Local(k) == Start(k) \/ Check(k) \/ Load(k) \/ Make(k) \/ Enter(k) \/ LoopEnds(k) \/ Return(k)

(* What each of these steps does to the call.                              *)
LEMMA CallTyped ==
  ASSUME TypeOK, NEW k \in DOMAIN calls
  PROVE  calls \in [DOMAIN calls -> Calls] /\ calls[k] \in Calls
  BY DEF TypeOK

LEMMA StartFacts ==
  ASSUME TypeOK, NEW k \in DOMAIN calls, Start(k)
  PROVE  /\ Keeps(k) /\ calls' \in [DOMAIN calls -> Calls]
         /\ calls[k].pc = "start" /\ UNCHANGED <<given, failed, main, rc, built, made>>
         /\ \/ calls' = calls /\ ended' = "crash" /\ Orphan(k)
            \/ Becomes(k, "check", calls[k].file, calls[k].phase, calls[k].todo, calls[k].rc) /\ UNCHANGED ended
<1>1. calls \in [DOMAIN calls -> Calls] /\ calls[k] \in Calls
  BY CallTyped
<1>2. CASE calls' = To(k, "check") /\ UNCHANGED ended
  BY <1>1, <1>2 DEF Start, To, Keeps, Becomes, Calls
<1>3. CASE Orphan(k) /\ ended' = "crash" /\ UNCHANGED calls
  BY <1>1, <1>3 DEF Start, Keeps
<1> QED
  BY <1>2, <1>3 DEF Start

LEMMA CheckFacts ==
  ASSUME TypeOK, NEW k \in DOMAIN calls, Check(k)
  PROVE  /\ Keeps(k) /\ calls' \in [DOMAIN calls -> Calls]
         /\ calls[k].pc = "check" /\ UNCHANGED <<given, failed, main, rc, built, made, ended>>
         /\ \/ Path(k) \in built /\ Becomes(k, "return", calls[k].file, calls[k].phase, calls[k].todo, 0)
            \/ Path(k) \notin built /\ Becomes(k, "load", calls[k].file, calls[k].phase, calls[k].todo, calls[k].rc)
<1>1. calls \in [DOMAIN calls -> Calls] /\ calls[k] \in Calls
  BY CallTyped
<1>2. CASE Path(k) \in built /\ calls' = Leave(k, 0)
  <2>1. calls'[k] = [calls[k] EXCEPT !.pc = "return", !.rc = 0] /\ Keeps(k) /\ calls' \in [DOMAIN calls -> Calls]
    BY <1>1, <1>2 DEF Leave, Keeps, Calls
  <2> QED
    BY <1>1, <1>2, <2>1 DEF Check, Becomes, Calls
<1>3. CASE Path(k) \notin built /\ calls' = To(k, "load")
  BY <1>1, <1>3 DEF Check, To, Keeps, Becomes, Calls
<1> QED
  BY <1>2, <1>3 DEF Check

LEMMA LoadFacts ==
  ASSUME TypeOK, NEW k \in DOMAIN calls, Load(k)
  PROVE  /\ Keeps(k) /\ calls' \in [DOMAIN calls -> Calls]
         /\ calls[k].pc = "load" /\ UNCHANGED <<given, failed, main, rc, built, made, ended>>
         /\ \/ Found(k) /\ Becomes(k, "make", calls[k].file, calls[k].phase, calls[k].todo, calls[k].rc)
            \/ ~Found(k) /\ Becomes(k, "return", calls[k].file, calls[k].phase, calls[k].todo, ENOMEM)
<1>1. calls \in [DOMAIN calls -> Calls] /\ calls[k] \in Calls
  BY CallTyped
<1>2. CASE Found(k) /\ calls' = To(k, "make")
  BY <1>1, <1>2 DEF Load, To, Keeps, Becomes, Calls
<1>3. CASE ~Found(k) /\ calls' = Leave(k, ENOMEM)
  <2>1. calls'[k] = [calls[k] EXCEPT !.pc = "return", !.rc = ENOMEM] /\ Keeps(k) /\ calls' \in [DOMAIN calls -> Calls]
    BY <1>1, <1>3 DEF Leave, Keeps, Calls
  <2> QED
    BY <1>1, <1>3, <2>1 DEF Load, Becomes, Calls
<1> QED
  BY <1>2, <1>3 DEF Load

LEMMA MakeFacts ==
  ASSUME TypeOK, NEW k \in DOMAIN calls, Make(k)
  PROVE  /\ Keeps(k) /\ calls' \in [DOMAIN calls -> Calls]
         /\ calls[k].pc = "make" /\ UNCHANGED <<given, failed, main, rc, built, ended>>
         /\ made' = IF calls[k].slug THEN made ELSE [made EXCEPT ![calls[k].pkg] = @ + 1]
         /\ Becomes(k, "enter", calls[k].file, calls[k].phase, calls[k].todo, calls[k].rc)
<1>1. calls \in [DOMAIN calls -> Calls] /\ calls[k] \in Calls
  BY CallTyped
<1> QED
  BY <1>1 DEF Make, To, Keeps, Becomes, Calls

LEMMA EnterFacts ==
  ASSUME TypeOK, NEW k \in DOMAIN calls, Enter(k)
  PROVE  /\ Keeps(k) /\ calls' \in [DOMAIN calls -> Calls]
         /\ calls[k].pc = "enter" /\ UNCHANGED <<given, failed, main, rc, made, ended>>
         /\ built' = built \cup {Path(k)}
         /\ Becomes(k, "deps", calls[k].file, "deps", world.deps[calls[k].pkg], 0)
<1>1. calls \in [DOMAIN calls -> Calls] /\ calls[k] \in Calls /\ (calls[k].pc = "enter" => calls[k].pkg \in Packages)
  BY CallTyped DEF TypeOK
<1>2. calls[k].pc = "enter" => world.deps[calls[k].pkg] \in SUBSET Packages
  BY <1>1, WorldFacts DEF TypeOK, World
<1> QED
  BY <1>1, <1>2 DEF Enter, Listing, Keeps, Becomes, Calls

LEMMA LoopEndsFacts ==
  ASSUME TypeOK, NEW k \in DOMAIN calls, LoopEnds(k)
  PROVE  /\ Keeps(k) /\ calls' \in [DOMAIN calls -> Calls]
         /\ calls[k].pc = "deps" /\ calls[k].todo = {} /\ calls[k].kids = {}
         /\ UNCHANGED <<given, failed, main, rc, built, made, ended>>
         /\ \/ /\ dev /\ calls[k].phase = "deps"
               /\ Becomes(k, calls[k].pc, calls[k].file, "dev", Development[calls[k].pkg], calls[k].rc)
            \/ /\ ~(dev /\ calls[k].phase = "deps")
               /\ Becomes(k, "return", calls[k].file, calls[k].phase, calls[k].todo, calls[k].rc)
<1>1. calls \in [DOMAIN calls -> Calls] /\ calls[k] \in Calls /\ (calls[k].pc = "deps" => calls[k].pkg \in Packages)
  BY CallTyped DEF TypeOK
<1>2. calls[k].pc = "deps" => Development[calls[k].pkg] \in SUBSET Packages
  BY <1>1, BuildAssumption
<1>3. CASE dev /\ calls[k].phase = "deps"
  BY <1>1, <1>2, <1>3 DEF LoopEnds, AtDeps, Keeps, Becomes, Calls
<1>4. CASE ~(dev /\ calls[k].phase = "deps")
  BY <1>1, <1>4 DEF LoopEnds, AtDeps, Leave, Keeps, Becomes, Calls
<1> QED
  BY <1>3, <1>4

LEMMA ReturnFacts ==
  ASSUME TypeOK, NEW k \in DOMAIN calls, Return(k)
  PROVE  /\ Keeps(k) /\ calls' \in [DOMAIN calls -> Calls]
         /\ calls[k].pc = "return" /\ UNCHANGED <<given, failed, main, rc, built, made, ended>>
         /\ \/ calls[k].rc # 0 /\ calls[k].file = 1 /\ Becomes(k, "check", 2, calls[k].phase, calls[k].todo, calls[k].rc)
            \/ /\ ~(calls[k].rc # 0 /\ calls[k].file = 1)
               /\ Becomes(k, "done", calls[k].file, calls[k].phase, calls[k].todo, calls[k].rc)
<1>1. calls \in [DOMAIN calls -> Calls] /\ calls[k] \in Calls
  BY CallTyped
<1>2. CASE calls[k].rc # 0 /\ calls[k].file = 1
  BY <1>1, <1>2 DEF Return, Keeps, Becomes, Calls
<1>3. CASE ~(calls[k].rc # 0 /\ calls[k].file = 1)
  BY <1>1, <1>3 DEF Return, To, Keeps, Becomes, Calls
<1> QED
  BY <1>2, <1>3

(* The steps of a call that change which calls there are.                  *)
Kid(k, x) == Append(k, <<x, calls[k].file, calls[k].phase>>)

LEMMA CreateFacts ==
  ASSUME TypeOK, NEW k \in DOMAIN calls, NEW x \in Packages, Create(k, x)
  PROVE  /\ calls[k].pc = "deps" /\ x \in calls[k].todo /\ ended = "no"
         /\ Kid(k, x) \in Keys /\ Kid(k, x) # k
         /\ DOMAIN calls' = DOMAIN calls \cup {Kid(k, x)} /\ calls' \in [DOMAIN calls' -> Calls]
         /\ calls'[Kid(k, x)] = Call(x, FALSE, "start") /\ Len(Kid(k, x)) = Len(k) + 1 /\ Len(Kid(k, x)) # 1
         /\ Becomes(k, "deps", calls[k].file, calls[k].phase, calls[k].todo \ {x}, 0)
         /\ calls'[k].pkg = calls[k].pkg /\ calls'[k].slug = calls[k].slug /\ calls'[k].unset = calls[k].unset
         /\ calls'[k].kids = calls[k].kids \cup {Kid(k, x)}
         /\ \A q \in DOMAIN calls : q # k /\ q # Kid(k, x) => calls'[q] = calls[q]
         /\ UNCHANGED <<given, failed, main, rc, built, made, ended>>
<1>1. calls \in [DOMAIN calls -> Calls] /\ calls[k] \in Calls /\ k \in Keys
  BY CallTyped DEF TypeOK
<1>2. Kid(k, x) \in Keys /\ Len(Kid(k, x)) = Len(k) + 1 /\ Len(k) \in Nat
  <2>1. <<x, calls[k].file, calls[k].phase>> \in Steps
    BY <1>1 DEF Steps, Calls
  <2>2. k \in Seq(Steps)
    BY <1>1 DEF Keys
  <2> QED
    BY <2>1, <2>2 DEF Keys, Kid
<1>3. Kid(k, x) # k /\ Len(Kid(k, x)) = Len(k) + 1 /\ Len(Kid(k, x)) # 1
  <2>1. k \in Seq(Steps) /\ k # <<>>
    BY <1>1 DEF Keys
  <2>2. Len(k) # 0
    BY <2>1
  <2> QED
    BY <1>2, <2>2
<1> DEFINE kid == Kid(k, x)
           busy == [calls EXCEPT ![k].kids = @ \cup {kid}, ![k].todo = @ \ {x}, ![k].rc = 0]
<1>4. calls' = Plus(busy, kid, Call(x, FALSE, "start"))
  BY DEF Create, Starts, Kid
<1>5. Call(x, FALSE, "start") \in Calls
  BY NewCall
<1> HIDE DEF kid
<1>6. kid \in Keys /\ kid # k
  BY <1>2, <1>3 DEF kid
<1>7. /\ DOMAIN busy = DOMAIN calls /\ busy[k] = [calls[k] EXCEPT !.kids = @ \cup {kid}, !.todo = @ \ {x}, !.rc = 0]
      /\ busy[k] \in Calls
      /\ \A q \in DOMAIN calls \ {k} : busy[q] = calls[q]
  BY <1>1, <1>6 DEF Calls
<1> HIDE DEF busy
<1>8. /\ DOMAIN calls' = DOMAIN calls \cup {kid} /\ calls'[kid] = Call(x, FALSE, "start")
      /\ \A q \in DOMAIN calls : q # kid => calls'[q] = busy[q]
  BY <1>4, <1>7 DEF Plus
<1>9. calls' \in [DOMAIN calls' -> Calls]
  <2>1. \A q \in DOMAIN calls' : calls'[q] \in Calls
    BY <1>1, <1>5, <1>7, <1>8
  <2>2. calls' = [q \in DOMAIN calls' |-> calls'[q]]
    BY <1>4 DEF Plus
  <2> QED
    BY <2>1, <2>2
<1>10. calls'[k] = busy[k] /\ calls[k].pc = "deps" /\ \A q \in DOMAIN calls : q # k /\ q # kid => calls'[q] = calls[q]
  BY <1>6, <1>7, <1>8 DEF Create, Room, AtDeps
<1>11. /\ calls'[k].pc = calls[k].pc /\ calls'[k].file = calls[k].file /\ calls'[k].phase = calls[k].phase
       /\ calls'[k].todo = calls[k].todo \ {x} /\ calls'[k].rc = 0
       /\ calls'[k].pkg = calls[k].pkg /\ calls'[k].slug = calls[k].slug /\ calls'[k].unset = calls[k].unset
       /\ calls'[k].kids = calls[k].kids \cup {kid}
  BY <1>1, <1>7, <1>10 DEF Calls
<1>12. UNCHANGED <<given, failed, main, rc, built, made, ended>> /\ x \in calls[k].todo /\ ended = "no"
  BY DEF Create, Room, AtDeps
<1> QED
  BY <1>3, <1>6, <1>8, <1>9, <1>10, <1>11, <1>12 DEF kid, Becomes

LEMMA JoinFacts ==
  ASSUME TypeOK, NEW k \in DOMAIN calls, JoinAll(k)
  PROVE  /\ calls[k].pc = "deps" /\ \A q \in calls[k].kids : calls[q].pc = "done"
         /\ DOMAIN calls' = DOMAIN calls \ calls[k].kids /\ calls' \in [DOMAIN calls' -> Calls]
         /\ k \in DOMAIN calls' /\ calls'[k].kids = {}
         /\ Becomes(k, "deps", calls[k].file, calls[k].phase, calls[k].todo, calls[k].rc)
         /\ calls'[k].pkg = calls[k].pkg /\ calls'[k].slug = calls[k].slug /\ calls'[k].unset = calls[k].unset
         /\ \A q \in DOMAIN calls' : q # k => calls'[q] = calls[q]
         /\ UNCHANGED <<given, failed, main, rc, built, made, ended>>
<1>1. calls \in [DOMAIN calls -> Calls] /\ calls[k] \in Calls
  BY CallTyped
<1> DEFINE joined == [calls EXCEPT ![k].kids = {}]
<1>2. calls' = Less(joined, calls[k].kids)
  BY DEF JoinAll, Joined
<1>3. /\ joined \in [DOMAIN calls -> Calls] /\ DOMAIN joined = DOMAIN calls
      /\ joined[k] = [calls[k] EXCEPT !.kids = {}]
      /\ \A q \in DOMAIN calls : q # k => joined[q] = calls[q]
  BY <1>1 DEF Calls
<1> HIDE DEF joined
<1>4. DOMAIN calls' = DOMAIN calls \ calls[k].kids /\ \A q \in DOMAIN calls' : calls'[q] = joined[q]
  BY <1>2, <1>3 DEF Less
<1>5. calls' \in [DOMAIN calls' -> Calls]
  BY <1>2, <1>3, <1>4 DEF Less
<1>6. /\ calls[k].pc = "deps" /\ \A q \in calls[k].kids : calls[q].pc = "done"
      /\ UNCHANGED <<given, failed, main, rc, built, made, ended>>
  BY DEF JoinAll, Joining, AtDeps
<1>7. k \in DOMAIN calls' /\ calls'[k] = joined[k]
  BY <1>4, <1>6
<1>8. /\ calls'[k].pc = calls[k].pc /\ calls'[k].file = calls[k].file /\ calls'[k].phase = calls[k].phase
      /\ calls'[k].todo = calls[k].todo /\ calls'[k].rc = calls[k].rc
      /\ calls'[k].pkg = calls[k].pkg /\ calls'[k].slug = calls[k].slug /\ calls'[k].kids = {}
      /\ calls'[k].unset = calls[k].unset
  BY <1>1, <1>3, <1>7 DEF Calls
<1> QED
  BY <1>3, <1>4, <1>5, <1>6, <1>7, <1>8 DEF Becomes

(* The same of main()'s steps.                                             *)
LEMMA RootKey == ASSUME NEW n \in Nat, NEW how \in {"dir", "slug"}
                 PROVE  <<<<n, how>>>> \in Keys /\ Len(<<<<n, how>>>>) = 1
<1>1. <<n, how>> \in Steps
  BY DEF Steps
<1> QED
  BY <1>1 DEF Keys

Top == <<<<main + 1, "dir">>>>

LEMMA MainCallFacts ==
  ASSUME TypeOK, MainCall
  PROVE  /\ ended = "no" /\ main + 1 \in 1..Rounds /\ main' = main + 1 /\ \A q \in DOMAIN calls : Len(q) > 1
         /\ Top \in Keys /\ Len(Top) = 1
         /\ DOMAIN calls' = DOMAIN calls \cup {Top} /\ calls' \in [DOMAIN calls' -> Calls]
         /\ Arg(main + 1) \in Packages \cup {Flag} /\ calls'[Top] = Call(Arg(main + 1), FALSE, "check")
         /\ \A q \in DOMAIN calls : q # Top => calls'[q] = calls[q]
         /\ UNCHANGED <<given, failed, rc, built, made, ended>>
<1> DEFINE k == Top
<1>1. calls \in [DOMAIN calls -> Calls] /\ main \in 0..Rounds /\ Rounds \in Nat /\ nargv \in CommandLines
  BY RoundsNat DEF TypeOK
<1>2. main + 1 \in 1..Rounds /\ main + 1 \in Nat
  BY <1>1 DEF MainCall
<1>3. k \in Keys /\ Len(k) = 1
  BY <1>2, RootKey DEF Top
<1>4. Call(Arg(main + 1), FALSE, "check") \in Calls /\ Arg(main + 1) \in Packages \cup {Flag}
  BY <1>1, <1>2, ArgType, NewCall
<1>5. calls' = Plus(calls, k, Call(Arg(main + 1), FALSE, "check"))
  BY DEF MainCall, Top
<1> HIDE DEF k
<1>6. /\ calls' \in [DOMAIN calls \cup {k} -> Calls] /\ DOMAIN calls' = DOMAIN calls \cup {k}
      /\ calls'[k] = Call(Arg(main + 1), FALSE, "check") /\ \A q \in DOMAIN calls : q # k => calls'[q] = calls[q]
  BY <1>1, <1>4, <1>5 DEF Plus
<1>7. /\ ended = "no" /\ main' = main + 1 /\ \A q \in DOMAIN calls : Len(q) > 1
      /\ UNCHANGED <<given, failed, rc, built, made, ended>>
  BY DEF MainCall
<1> QED
  BY <1>2, <1>3, <1>4, <1>6, <1>7 DEF k

(* What MainReturn does with the root k that is done.                      *)
Taken(k) ==
  /\ ended = "no" /\ k \in DOMAIN calls /\ Len(k) = 1 /\ calls[k].pc = "done" /\ rc' = calls[k].rc
  /\ UNCHANGED <<given, failed, main, built, made, ended>>
Again == <<<<main, "slug">>>>
Dropped(k) ==
  /\ ~(calls[k].rc # 0 /\ ~calls[k].slug /\ Names # 0)
  /\ DOMAIN calls' = DOMAIN calls \ {k} /\ calls' \in [DOMAIN calls' -> Calls]
  /\ \A q \in DOMAIN calls \ {k} : calls'[q] = calls[q]
Retried(k) ==
  /\ calls[k].rc # 0 /\ ~calls[k].slug /\ Names # 0
  /\ main \in 1..Rounds /\ Again \in Keys /\ Len(Again) = 1 /\ Arg(main) \in Packages \cup {Flag}
  /\ DOMAIN calls' = (DOMAIN calls \ {k}) \cup {Again} /\ calls' \in [DOMAIN calls' -> Calls]
  /\ calls'[Again] = Call(Arg(main), TRUE, "check")
  /\ \A q \in DOMAIN calls \ {k} : q # Again => calls'[q] = calls[q]

LEMMA MainReturnFacts ==
  ASSUME TypeOK, MainReturn
  PROVE  \E k \in DOMAIN calls : Taken(k) /\ (Dropped(k) \/ Retried(k))
<1>1. PICK k \in DOMAIN calls :
        /\ Taken(k)
        /\ calls' = IF calls[k].rc # 0 /\ ~calls[k].slug /\ Names # 0
                    THEN Plus(Less(calls, {k}), <<<<main, "slug">>>>, Call(Arg(main), TRUE, "check"))
                    ELSE Less(calls, {k})
  BY DEF MainReturn, Taken
<1>2. calls \in [DOMAIN calls -> Calls] /\ nargv \in CommandLines
  BY DEF TypeOK
<1> DEFINE rest == Less(calls, {k})
<1>3. /\ rest \in [DOMAIN calls \ {k} -> Calls] /\ DOMAIN rest = DOMAIN calls \ {k}
      /\ \A q \in DOMAIN calls \ {k} : rest[q] = calls[q]
  BY <1>2 DEF Less
<1>4. CASE ~(calls[k].rc # 0 /\ ~calls[k].slug /\ Names # 0)
  BY <1>1, <1>3, <1>4 DEF Dropped
<1>5. CASE calls[k].rc # 0 /\ ~calls[k].slug /\ Names # 0
  <2>1. main \in 1..Rounds /\ main \in Nat
    BY <1>1, RoundsNat DEF TypeOK, Taken
  <2>2. Again \in Keys /\ Len(Again) = 1
    BY <2>1, RootKey DEF Again
  <2>3. Call(Arg(main), TRUE, "check") \in Calls /\ Arg(main) \in Packages \cup {Flag}
    BY <1>2, <2>1, ArgType, NewCall
  <2>4. calls' = Plus(rest, Again, Call(Arg(main), TRUE, "check"))
    BY <1>1, <1>5 DEF Again
  <2> HIDE DEF rest
  <2>5. /\ calls' \in [(DOMAIN calls \ {k}) \cup {Again} -> Calls] /\ DOMAIN calls' = (DOMAIN calls \ {k}) \cup {Again}
        /\ calls'[Again] = Call(Arg(main), TRUE, "check")
        /\ \A q \in DOMAIN calls \ {k} : q # Again => calls'[q] = rest[q]
    BY <1>3, <2>3, <2>4 DEF Plus
  <2>6. \A q \in DOMAIN calls \ {k} : q # Again => calls'[q] = calls[q]
    BY <1>3, <2>5
  <2>7. DOMAIN calls' = (DOMAIN calls \ {k}) \cup {Again} /\ calls' \in [DOMAIN calls' -> Calls]
    BY <2>5
  <2>8. Taken(k)
    BY <1>1
  <2> QED
    BY <1>5, <2>1, <2>2, <2>3, <2>5, <2>6, <2>7, <2>8 DEF Retried
<1> QED
  BY <1>4, <1>5

LEMMA LostFacts ==
  ASSUME TypeOK, NEW k \in DOMAIN calls, NEW x \in Packages, Lost(k, x)
  PROVE  /\ world.missing # {} /\ DOMAIN calls' = DOMAIN calls /\ calls' \in [DOMAIN calls -> Calls]
         /\ calls[k].pc = "deps" /\ ended' \in {"no", "crash"} /\ UNCHANGED <<given, failed, main, rc, built, made>>
         /\ \A q \in DOMAIN calls : q # k => calls'[q] = calls[q]
         /\ calls'[k].pc \in {"deps", "return"}
<1>1. calls \in [DOMAIN calls -> Calls] /\ calls[k] \in Calls
  BY CallTyped
<1>2. calls[k].pc = "deps" /\ x \in world.missing /\ ended = "no" /\ UNCHANGED <<given, failed, main, rc, built, made>>
  BY DEF Lost, Room, AtDeps
<1>3. CASE calls' = [calls EXCEPT ![k].pc = "return", ![k].rc = ENOMEM, ![k].kids = {}, ![k].unset = 0,
                                  ![k].todo = {}] /\ UNCHANGED ended
  BY <1>1, <1>2, <1>3 DEF Calls
<1>4. CASE ended' = "crash" /\ UNCHANGED calls
  BY <1>1, <1>2, <1>4
<1> QED
  BY <1>3, <1>4 DEF Lost

(* A slot without a thread, what is stored past no slots, and the join of  *)
(* such a slot: what each of them leaves alone.                            *)
LEMMA FailsFacts ==
  ASSUME TypeOK, NEW k \in DOMAIN calls, NEW x \in Packages, CreateFails(k, x)
  PROVE  /\ failed' = failed + 1 /\ UNCHANGED <<given, main, rc, built, made, ended>>
         /\ DOMAIN calls' = DOMAIN calls /\ calls' \in [DOMAIN calls -> Calls]
         /\ \A q \in DOMAIN calls : calls'[q].pc = calls[q].pc /\ calls'[q].pkg = calls[q].pkg
<1>1. calls \in [DOMAIN calls -> Calls] /\ calls[k] \in Calls
  BY CallTyped
<1>2. calls[k].unset + 1 \in Nat
  BY <1>1 DEF Calls
<1> DEFINE mine == [calls[k] EXCEPT !.unset = @ + 1, !.todo = @ \ {x}, !.rc = EAGAIN]
<1>3. mine \in Calls /\ mine.pc = calls[k].pc /\ mine.pkg = calls[k].pkg
  BY <1>1, <1>2 DEF Calls
<1>4. calls' = [calls EXCEPT ![k] = mine]
  BY <1>1 DEF CreateFails
<1> HIDE DEF mine
<1> QED
  BY <1>1, <1>3, <1>4 DEF CreateFails

LEMMA MisjoinFacts ==
  ASSUME TypeOK, NEW k \in DOMAIN calls, Misjoin(k)
  PROVE  /\ calls[k].unset # 0 /\ UNCHANGED <<given, failed, main, rc, built, made>> /\ ended' \in {ended, "crash"}
         /\ ended = "no" /\ DOMAIN calls' = DOMAIN calls /\ calls' \in [DOMAIN calls -> Calls]
         /\ \A q \in DOMAIN calls : calls'[q].pc = calls[q].pc /\ calls'[q].pkg = calls[q].pkg
<1>1. calls \in [DOMAIN calls -> Calls] /\ calls[k] \in Calls
  BY CallTyped
<1>2. calls[k].unset # 0 /\ ended = "no" /\ UNCHANGED <<given, failed, main, rc, built, made>>
  BY DEF Misjoin, Joining, AtDeps
<1>3. calls[k].unset - 1 \in Nat
  BY <1>1, <1>2 DEF Calls
<1>4. CASE ended' = "crash" /\ UNCHANGED calls
  BY <1>1, <1>2, <1>4
<1>5. CASE calls' = [calls EXCEPT ![k].unset = @ - 1] /\ UNCHANGED ended
  <2>1. [calls[k] EXCEPT !.unset = @ - 1] \in Calls
    BY <1>1, <1>3 DEF Calls
  <2> QED
    BY <1>1, <1>2, <1>5, <2>1 DEF Calls
<1>6. ASSUME NEW p \in DOMAIN calls \ {k}, NEW q \in calls[p].kids, UNCHANGED ended,
             calls' = [calls EXCEPT ![k].unset = @ - 1, ![k].kids = @ \cup {q},
                                    ![p].unset = @ + 1, ![p].kids = @ \ {q}]
      PROVE  /\ DOMAIN calls' = DOMAIN calls /\ calls' \in [DOMAIN calls -> Calls] /\ ended' = ended
             /\ \A r \in DOMAIN calls : calls'[r].pc = calls[r].pc /\ calls'[r].pkg = calls[r].pkg
  <2>1. calls[p] \in Calls /\ q \in Keys
    BY <1>1 DEF Calls
  <2>2. calls[p].unset + 1 \in Nat
    BY <2>1 DEF Calls
  <2> DEFINE mine == [calls[k] EXCEPT !.unset = @ - 1, !.kids = @ \cup {q}]
             theirs == [calls[p] EXCEPT !.unset = @ + 1, !.kids = @ \ {q}]
  <2>3. mine \in Calls /\ mine.pc = calls[k].pc /\ mine.pkg = calls[k].pkg
    BY <1>1, <1>3, <2>1 DEF Calls
  <2>4. theirs \in Calls /\ theirs.pc = calls[p].pc /\ theirs.pkg = calls[p].pkg
    BY <2>1, <2>2 DEF Calls
  <2>5. calls' = [calls EXCEPT ![k] = mine, ![p] = theirs]
    BY <1>1, <1>6
  <2> HIDE DEF mine, theirs
  <2> QED
    BY <1>1, <1>6, <2>3, <2>4, <2>5
<1> QED
  BY <1>2, <1>4, <1>5, <1>6 DEF Misjoin

(* Every step, by what it does with the calls there are.                   *)
LEMMA NextCases ==
  ASSUME [Next]_vars
  PROVE  \/ UNCHANGED vars \/ MainCall \/ MainReturn \/ MainExit
         \/ \E k \in DOMAIN calls : \/ Local(k) \/ JoinAll(k) \/ Misjoin(k)
                                   \/ \E x \in Packages : \/ Create(k, x) \/ CreateFails(k, x)
                                                           \/ Overrun(k, x) \/ Lost(k, x)
  BY DEF Next, Step, Local

LEMMA LocalFacts ==
  ASSUME TypeOK, NEW k \in DOMAIN calls, Local(k)
  PROVE  /\ Keeps(k) /\ calls' \in [DOMAIN calls -> Calls] /\ UNCHANGED <<given, failed, main, rc>> /\ ended = "no"
         /\ calls'[k].pc \in {"make", "enter", "deps"} =>
              calls[k].pc \in {"make", "enter", "deps"} \/ (calls[k].pc = "load" /\ Found(k))
         /\ ended' = ended \/ (ended' = "crash" /\ Orphan(k))
         /\ built' = built \/ (calls[k].pc = "enter" /\ built' = built \cup {Path(k)})
         /\ made' = made \/ (calls[k].pc = "make" /\ made' = [made EXCEPT ![calls[k].pkg] = @ + 1])
<1>0. calls \in [DOMAIN calls -> Calls] /\ calls[k] \in Calls
  BY CallTyped
<1>1. CASE Start(k)
  BY <1>0, <1>1, StartFacts DEF Start, Becomes
<1>2. CASE Check(k)
  BY <1>0, <1>2, CheckFacts DEF Check, Becomes
<1>3. CASE Load(k)
  BY <1>0, <1>3, LoadFacts DEF Load, Becomes
<1>4. CASE Make(k)
  BY <1>0, <1>4, MakeFacts DEF Make, Becomes
<1>5. CASE Enter(k)
  BY <1>0, <1>5, EnterFacts DEF Enter, Becomes
<1>6. CASE LoopEnds(k)
  BY <1>0, <1>6, LoopEndsFacts DEF LoopEnds, AtDeps, Becomes
<1>7. CASE Return(k)
  BY <1>0, <1>7, ReturnFacts DEF Return, Becomes
<1> QED
  BY <1>1, <1>2, <1>3, <1>4, <1>5, <1>6, <1>7 DEF Local

LEMMA GivenKept ==
  ASSUME TypeOK, UNCHANGED given
  PROVE  /\ world' \in Worlds /\ tool' \in {"build", "configure"} /\ dev' \in BOOLEAN /\ nargv' \in CommandLines
         /\ concurrency' \in Concurrencies
         /\ world' = world /\ tool' = tool /\ dev' = dev /\ concurrency' = concurrency /\ nargv' = nargv
         /\ Rounds' = Rounds /\ (\A j : Arg(j)' = Arg(j)) /\ \A p : Needed(p)' = Needed(p)
  BY DEF TypeOK, given, Rounds, Names, Arg, Needed

LEMMA TypeStep == ASSUME TypeOK, [Next]_vars PROVE TypeOK'
<1>0. /\ calls \in [DOMAIN calls -> Calls] /\ DOMAIN calls \subseteq Keys /\ Rounds \in Nat
      /\ \A k \in DOMAIN calls : calls[k] \in Calls
      /\ \A k \in DOMAIN calls : calls[k].pc \in {"make", "enter", "deps"} => calls[k].pkg \in Packages
  BY RoundsNat DEF TypeOK
<1>1. CASE UNCHANGED vars
  <2>1. UNCHANGED given /\ UNCHANGED <<calls, failed, main, rc, built, made, ended>>
    BY <1>1 DEF vars
  <2> QED
    BY <2>1, GivenKept DEF TypeOK
<1>2. CASE MainCall
  <2> DEFINE r == Top
  <2>1. /\ main + 1 \in 1..Rounds /\ main' = main + 1 /\ r \in Keys
        /\ DOMAIN calls' = DOMAIN calls \cup {r} /\ calls' \in [DOMAIN calls' -> Calls]
        /\ calls'[r].pc = "check"
        /\ \A q \in DOMAIN calls : q # r => calls'[q] = calls[q]
        /\ UNCHANGED <<given, failed, rc, built, made, ended>>
    <3>1. Arg(main + 1) \in Packages \cup {Flag} /\ calls'[r] = Call(Arg(main + 1), FALSE, "check")
      BY <1>2, MainCallFacts
    <3>2. calls'[r].pc = "check"
      BY <3>1 DEF Call
    <3> QED
      BY <1>2, <3>2, MainCallFacts
  <2>2. \A k \in DOMAIN calls' : calls'[k].pc \in {"make", "enter", "deps"} => calls'[k].pkg \in Packages
    BY <1>0, <2>1
  <2>3. DOMAIN calls' \subseteq Keys
    BY <1>0, <2>1
  <2>4. main' \in 0..Rounds /\ main' >= 1
    BY <1>0, <2>1
  <2> HIDE DEF r
  <2> QED
    BY <2>1, <2>2, <2>3, <2>4, GivenKept DEF TypeOK
<1>3. CASE MainReturn
  <2>1. PICK k \in DOMAIN calls : Taken(k) /\ (Dropped(k) \/ Retried(k))
    BY <1>3, MainReturnFacts
  <2>2. UNCHANGED given /\ UNCHANGED <<failed, main, built, made, ended>> /\ rc' \in {0, ENOMEM, EAGAIN} /\ main >= 1
    BY <2>1, <1>0 DEF Taken, TypeOK, Calls
  <2>3. CASE Dropped(k)
    <3>1. \A q \in DOMAIN calls' : calls'[q].pc \in {"make", "enter", "deps"} => calls'[q].pkg \in Packages
      BY <1>0, <2>3 DEF Dropped
    <3>2. DOMAIN calls' \subseteq Keys /\ calls' \in [DOMAIN calls' -> Calls]
      BY <1>0, <2>3 DEF Dropped
    <3> QED
      BY <2>2, <3>1, <3>2, GivenKept DEF TypeOK
  <2>4. CASE Retried(k)
    <3>1. calls'[Again].pc = "check"
      BY <2>4 DEF Retried, Call
    <3>2. \A q \in DOMAIN calls' : calls'[q].pc \in {"make", "enter", "deps"} => calls'[q].pkg \in Packages
      BY <1>0, <2>4, <3>1 DEF Retried
    <3>3. DOMAIN calls' \subseteq Keys /\ calls' \in [DOMAIN calls' -> Calls]
      BY <1>0, <2>4 DEF Retried
    <3> QED
      BY <2>2, <3>2, <3>3, GivenKept DEF TypeOK
  <2> QED
    BY <2>1, <2>3, <2>4
<1>4. CASE MainExit
  <2>1. UNCHANGED given /\ UNCHANGED <<calls, failed, main, rc, built, made>> /\ ended' = "exit"
    BY <1>4 DEF MainExit
  <2> QED
    BY <2>1, GivenKept DEF TypeOK
<1>5. ASSUME NEW k \in DOMAIN calls, Local(k) PROVE TypeOK'
  <2>1. /\ Keeps(k) /\ calls' \in [DOMAIN calls -> Calls] /\ UNCHANGED given /\ main' = main /\ rc' = rc
        /\ DOMAIN calls' = DOMAIN calls /\ ended' \in {"no", "crash"} /\ failed' = failed
    BY <1>5, LocalFacts DEF Keeps
  <2>2. \A q \in DOMAIN calls' : calls'[q].pc \in {"make", "enter", "deps"} => calls'[q].pkg \in Packages
    <3>1. calls'[k].pc \in {"make", "enter", "deps"} => calls'[k].pkg \in Packages
      <4>1. calls[k].pkg \in Packages \cup {Flag} /\ calls'[k].pkg = calls[k].pkg
        BY <1>0, <2>1 DEF Calls, Keeps
      <4> QED
        BY <1>0, <1>5, <4>1, LocalFacts DEF Found
    <3> QED
      BY <1>0, <2>1, <3>1 DEF Keeps
  <2>3. built' \subseteq (Packages \cup {Flag}) \X BOOLEAN \X {1, 2}
    <3>1. Path(k) \in (Packages \cup {Flag}) \X BOOLEAN \X {1, 2}
      BY <1>0 DEF Path, Calls
    <3> QED
      BY <1>5, <3>1, LocalFacts DEF TypeOK
  <2>4. made' \in [Packages -> Nat]
    <3>1. made \in [Packages -> Nat]
      BY DEF TypeOK
    <3>2. CASE calls[k].pc = "make" /\ made' = [made EXCEPT ![calls[k].pkg] = @ + 1]
      BY <1>0, <3>1, <3>2
    <3> QED
      BY <1>5, <3>1, <3>2, LocalFacts
  <2> QED
    BY <2>1, <2>2, <2>3, <2>4, GivenKept DEF TypeOK
<1>6. ASSUME NEW k \in DOMAIN calls, JoinAll(k) PROVE TypeOK'
  <2>1. /\ DOMAIN calls' \subseteq DOMAIN calls /\ calls' \in [DOMAIN calls' -> Calls]
        /\ UNCHANGED given /\ UNCHANGED <<failed, main, rc, built, made, ended>>
    BY <1>6, JoinFacts
  <2>2. \A q \in DOMAIN calls' : calls'[q].pc = calls[q].pc /\ calls'[q].pkg = calls[q].pkg
    BY <1>6, JoinFacts DEF Becomes
  <2> QED
    BY <1>0, <2>1, <2>2, GivenKept DEF TypeOK
<1>7. ASSUME NEW k \in DOMAIN calls, NEW x \in Packages, Create(k, x) PROVE TypeOK'
  <2> DEFINE kid == Kid(k, x)
  <2>1. /\ DOMAIN calls' = DOMAIN calls \cup {kid} /\ kid \in Keys /\ calls' \in [DOMAIN calls' -> Calls]
        /\ UNCHANGED given /\ UNCHANGED <<failed, main, rc, built, made, ended>>
    BY <1>7, CreateFacts
  <2>2. calls'[kid].pc = "start" /\ Len(kid) # 1
    <3>1. calls'[kid] = Call(x, FALSE, "start") /\ Len(kid) # 1
      BY <1>7, CreateFacts
    <3> QED
      BY <3>1 DEF Call
  <2>3. \A q \in DOMAIN calls : q # kid => calls'[q].pc = calls[q].pc /\ calls'[q].pkg = calls[q].pkg
    <3>1. calls'[k].pc = calls[k].pc /\ calls'[k].pkg = calls[k].pkg
      BY <1>7, CreateFacts DEF Becomes
    <3>2. \A q \in DOMAIN calls : q # k /\ q # kid => calls'[q] = calls[q]
      BY <1>7, CreateFacts
    <3> QED
      BY <3>1, <3>2
  <2> HIDE DEF kid
  <2>4. \A q \in DOMAIN calls' : calls'[q].pc \in {"make", "enter", "deps"} => calls'[q].pkg \in Packages
    BY <1>0, <2>1, <2>2, <2>3
  <2>5. DOMAIN calls' \subseteq Keys /\ \A q \in DOMAIN calls' : Len(q) = 1 => main' >= 1
    <3>1. main' = main /\ \A q \in DOMAIN calls : Len(q) = 1 => main >= 1
      BY <2>1 DEF TypeOK
    <3>2. DOMAIN calls' \subseteq Keys
      BY <1>0, <2>1
    <3>3. ASSUME NEW q \in DOMAIN calls', Len(q) = 1 PROVE main' >= 1
      <4>1. q # kid
        BY <2>2, <3>3
      <4> QED
        BY <2>1, <3>1, <3>3, <4>1
    <3> QED
      BY <3>2, <3>3
  <2> QED
    BY <2>1, <2>4, <2>5, GivenKept DEF TypeOK
<1>8. ASSUME NEW k \in DOMAIN calls, NEW x \in Packages, Lost(k, x) PROVE TypeOK'
  <2>1. /\ DOMAIN calls' = DOMAIN calls /\ calls' \in [DOMAIN calls -> Calls] /\ ended' \in {"no", "crash"}
        /\ UNCHANGED given /\ UNCHANGED <<failed, main, rc, built, made>> /\ calls[k].pc = "deps"
        /\ \A q \in DOMAIN calls : q # k => calls'[q] = calls[q]
    BY <1>8, LostFacts
  <2>2. calls'[k].pkg = calls[k].pkg
    BY <1>0, <1>8 DEF Lost, Calls
  <2>3. \A q \in DOMAIN calls' : calls'[q].pc \in {"make", "enter", "deps"} => calls'[q].pkg \in Packages
    BY <1>0, <2>1, <2>2
  <2> QED
    BY <1>0, <2>1, <2>3, GivenKept DEF TypeOK
<1>9. ASSUME NEW k \in DOMAIN calls, NEW x \in Packages, CreateFails(k, x) PROVE TypeOK'
  <2>1. /\ DOMAIN calls' = DOMAIN calls /\ calls' \in [DOMAIN calls -> Calls] /\ failed' = failed + 1
        /\ \A q \in DOMAIN calls : calls'[q].pc = calls[q].pc /\ calls'[q].pkg = calls[q].pkg
        /\ UNCHANGED given /\ UNCHANGED <<main, rc, built, made, ended>>
    BY <1>9, FailsFacts
  <2>2. failed' \in Nat
    BY <2>1 DEF TypeOK
  <2> QED
    BY <1>0, <2>1, <2>2, GivenKept DEF TypeOK
<1>10. ASSUME NEW k \in DOMAIN calls, NEW x \in Packages, Overrun(k, x) PROVE TypeOK'
  <2>1. UNCHANGED given /\ UNCHANGED <<calls, failed, main, rc, built, made>> /\ ended' = "crash"
    BY <1>10 DEF Overrun
  <2> QED
    BY <2>1, GivenKept DEF TypeOK
<1>11. ASSUME NEW k \in DOMAIN calls, Misjoin(k) PROVE TypeOK'
  <2>1. /\ DOMAIN calls' = DOMAIN calls /\ calls' \in [DOMAIN calls -> Calls] /\ ended' \in {"no", "crash"}
        /\ \A q \in DOMAIN calls : calls'[q].pc = calls[q].pc /\ calls'[q].pkg = calls[q].pkg
        /\ UNCHANGED given /\ UNCHANGED <<failed, main, rc, built, made>>
    BY <1>11, MisjoinFacts
  <2> QED
    BY <1>0, <2>1, GivenKept DEF TypeOK
<1> QED
  BY <1>1, <1>2, <1>3, <1>4, <1>5, <1>6, <1>7, <1>8, <1>9, <1>10, <1>11, NextCases

(***************************************************************************)
(* The calls form one tree. The name of a call begins with that of the     *)
(* call that made it: Upto(k, j) is j calls from main.                     *)
(***************************************************************************)
Upto(k, j) == [i \in 1..j |-> k[i]]

LEMMA UptoType ==
  ASSUME NEW k \in Keys, NEW j \in 1..Len(k)
  PROVE  Upto(k, j) \in Seq(Steps) /\ Len(Upto(k, j)) = j /\ Len(k) \in Nat /\ Len(k) # 0
<1>1. k \in Seq(Steps) /\ k # <<>>
  BY DEF Keys
<1>2. \A i \in 1..j : k[i] \in Steps
  BY <1>1
<1> QED
  BY <1>1, <1>2 DEF Upto

LEMMA UptoAll == ASSUME NEW k \in Keys PROVE Upto(k, Len(k)) = k /\ Len(k) \in Nat /\ Len(k) # 0
<1>1. k \in Seq(Steps) /\ k # <<>>
  BY DEF Keys
<1> QED
  BY <1>1 DEF Upto

LEMMA UptoAppend ==
  ASSUME NEW k \in Keys, NEW s \in Steps, NEW j \in 1..Len(k)
  PROVE  Upto(Append(k, s), j) = Upto(k, j)
<1>1. k \in Seq(Steps)
  BY DEF Keys
<1>2. \A i \in 1..j : Append(k, s)[i] = k[i]
  BY <1>1
<1> QED
  BY <1>2 DEF Upto

Rooted ==
  \A k \in DOMAIN calls : \A j \in 1..(Len(k) - 1) :
    Upto(k, j) \in DOMAIN calls /\ Upto(k, j + 1) \in calls[Upto(k, j)].kids
OneRoot == \A k, q \in DOMAIN calls : Len(k) = 1 /\ Len(q) = 1 => k = q
Quiet == \A k \in DOMAIN calls : calls[k].pc # "deps" => calls[k].kids = {}
Fresh == \A k \in DOMAIN calls : calls[k].pc = "deps" => \A x \in calls[k].todo : Kid(k, x) \notin calls[k].kids
Sound == \A k \in DOMAIN calls : calls[k].unset = 0 /\ (calls[k].pc = "deps" => calls[k].rc = 0)
Tree == Rooted /\ OneRoot /\ Quiet /\ Fresh /\ Sound
Ended == (ended = "crash" => concurrency = 0) /\ (ended = "exit" => DOMAIN calls = {})
Whole == Tree /\ Ended
Calm == world.missing = {} /\ failed = 0
TreeInv == TypeOK /\ (Calm => Whole)

(* What is left of the steps while every manifest can be had and every     *)
(* thread starts: those that store past no slots touch no call.            *)
Still == UNCHANGED <<given, calls, failed, main, rc, built, made>> /\ ended' = "crash" /\ concurrency = 0
LEMMA CalmCases ==
  ASSUME TypeOK, world.missing = {}, Sound, [Next]_vars, failed' = 0
  PROVE  \/ UNCHANGED vars \/ MainCall \/ MainReturn \/ MainExit \/ Still
         \/ \E k \in DOMAIN calls : Local(k) \/ JoinAll(k) \/ \E x \in Packages : Create(k, x)
<1>1. \A k \in DOMAIN calls : \A x \in Packages : ~Lost(k, x) /\ (Overrun(k, x) => Still)
  BY DEF Lost, Overrun, Still
<1>2. \A k \in DOMAIN calls : ~Misjoin(k)
  BY DEF Misjoin, Sound
<1>3. ASSUME NEW k \in DOMAIN calls, NEW x \in Packages, CreateFails(k, x) PROVE FALSE
  <2>1. failed' = failed + 1 /\ failed \in Nat
    BY <1>3, FailsFacts DEF TypeOK
  <2> QED
    BY <2>1
<1> QED
  BY <1>1, <1>2, <1>3, NextCases

LEMMA MakerIsUpto == ASSUME NEW k \in Keys PROVE Maker(k) = Upto(k, Len(k) - 1)
<1>1. k \in Seq(Steps) /\ Len(k) \in Nat /\ Len(k) # 0
  BY UptoAll DEF Keys
<1>2. PICK n \in Nat : n = Len(k) - 1 /\ Len(k) = n + 1
  BY <1>1
<1>3. 1 \in 1..(Len(k) + 1) /\ n \in (1 - 1)..Len(k) /\ n - 1 + 1 = n
  BY <1>2
<1>4. /\ SubSeq(k, 1, n) \in Seq(Steps) /\ Len(SubSeq(k, 1, n)) = n - 1 + 1
      /\ \A i \in 1..(n - 1 + 1) : SubSeq(k, 1, n)[i] = k[1 + i - 1]
  BY <1>1, <1>3, SubSeqProperties
<1>5. \A i \in 1..n : 1 + i - 1 = i
  OBVIOUS
<1>6. SubSeq(k, 1, n) = [i \in 1..n |-> SubSeq(k, 1, n)[i]]
  BY <1>3, <1>4
<1>7. SubSeq(k, 1, n) = [i \in 1..n |-> k[i]]
  BY <1>3, <1>4, <1>5, <1>6
<1> QED
  BY <1>2, <1>7 DEF Maker, Upto

(* A call is the root, or under it; and then the root is at its loop.      *)
LEMMA UnderTheRoot ==
  ASSUME TypeOK, Rooted, Quiet, NEW k \in DOMAIN calls, Len(k) # 1
  PROVE  \E q \in DOMAIN calls : Len(q) = 1 /\ calls[q].pc = "deps"
<1>1. k \in Keys
  BY DEF TypeOK
<1>2. 1 \in 1..(Len(k) - 1) /\ 1 \in 1..Len(k)
  <2>1. PICK n \in Nat : n = Len(k)
    BY <1>1, UptoAll
  <2>2. n # 0 /\ n # 1
    BY <1>1, <2>1, UptoAll
  <2>3. 1 \in 1..(n - 1) /\ 1 \in 1..n
    BY <2>2
  <2> QED
    BY <2>1, <2>3
<1>3. Upto(k, 1) \in DOMAIN calls /\ calls[Upto(k, 1)].kids # {}
  BY <1>2 DEF Rooted
<1>4. Len(Upto(k, 1)) = 1
  BY <1>1, <1>2, UptoType
<1> QED
  BY <1>3, <1>4 DEF Quiet

(* The call that made k is at its loop, and has k among its kids.          *)
LEMMA MadeByOne ==
  ASSUME TypeOK, Rooted, Quiet, NEW k \in DOMAIN calls, Len(k) # 1
  PROVE  \E q \in DOMAIN calls : calls[q].pc = "deps" /\ k \in calls[q].kids /\ q = Maker(k)
<1>1. k \in Keys /\ Len(k) \in Nat /\ Len(k) # 0 /\ Upto(k, Len(k)) = k
  BY UptoAll DEF TypeOK
<1>2. Len(k) - 1 \in 1..(Len(k) - 1) /\ (Len(k) - 1) + 1 = Len(k)
  <2>1. PICK n \in Nat : n = Len(k)
    BY <1>1
  <2>2. n # 0 /\ n # 1
    BY <1>1, <2>1
  <2>3. n - 1 \in 1..(n - 1) /\ (n - 1) + 1 = n
    BY <2>2
  <2> QED
    BY <2>1, <2>3
<1>3. Upto(k, Len(k) - 1) \in DOMAIN calls /\ k \in calls[Upto(k, Len(k) - 1)].kids
  BY <1>1, <1>2 DEF Rooted
<1>4. Upto(k, Len(k) - 1) = Maker(k)
  BY <1>1, MakerIsUpto
<1> QED
  BY <1>3, <1>4 DEF Quiet

LEMMA KidIsNew ==
  ASSUME TypeOK, Rooted, Fresh, NEW k \in DOMAIN calls, NEW x \in Packages, Create(k, x)
  PROVE  Kid(k, x) \notin DOMAIN calls
<1>1. k \in Keys /\ Kid(k, x) \in Keys /\ Len(Kid(k, x)) = Len(k) + 1 /\ Len(k) \in Nat /\ Len(k) # 0
  BY CreateFacts, UptoAll DEF TypeOK
<1>2. <<x, calls[k].file, calls[k].phase>> \in Steps
  BY CallTyped DEF Steps, Calls
<1>3. Len(k) \in 1..Len(k)
  BY <1>1
<1>4. Upto(Kid(k, x), Len(k)) = k
  BY <1>1, <1>2, <1>3, UptoAll, UptoAppend DEF Kid
<1>5. Upto(Kid(k, x), Len(k) + 1) = Kid(k, x)
  BY <1>1, UptoAll
<1>6. SUFFICES ASSUME Kid(k, x) \in DOMAIN calls PROVE FALSE
  OBVIOUS
<1>7. Len(k) \in 1..(Len(Kid(k, x)) - 1)
  BY <1>1
<1>8. Kid(k, x) \in calls[k].kids
  BY <1>4, <1>5, <1>6, <1>7 DEF Rooted
<1> QED
  BY <1>8, CreateFacts DEF Fresh

LEMMA TreeStart == Init => TreeInv
<1> SUFFICES ASSUME Init PROVE TreeInv
  OBVIOUS
<1>1. DOMAIN calls = {} /\ calls = <<>> /\ ended = "no"
  BY DEF Init
<1>2. TypeOK
  <2>1. calls \in [DOMAIN calls -> Calls]
    BY <1>1
  <2>2. Rounds \in Nat
    BY RoundsNat DEF Init
  <2> QED
    BY <1>1, <2>1, <2>2 DEF Init, TypeOK
<1> QED
  BY <1>1, <1>2 DEF TreeInv, Whole, Ended, Tree, Rooted, OneRoot, Quiet, Fresh, Sound

(* main() takes up an argument, tries again or ends when no other call is. *)
LEMMA OnlyTheRoot ==
  ASSUME TypeOK, Rooted, Quiet, OneRoot, NEW k \in DOMAIN calls, Len(k) = 1, calls[k].pc # "deps"
  PROVE  DOMAIN calls = {k}
<1>1. ASSUME NEW q \in DOMAIN calls PROVE q = k
  <2>1. CASE Len(q) = 1
    BY <2>1 DEF OneRoot
  <2>2. CASE Len(q) # 1
    BY <2>2, UnderTheRoot DEF OneRoot
  <2> QED
    BY <2>1, <2>2
<1> QED
  BY <1>1

LEMMA NoRootNoCall ==
  ASSUME TypeOK, Rooted, Quiet, \A k \in DOMAIN calls : Len(k) > 1
  PROVE  DOMAIN calls = {}
<1> SUFFICES ASSUME NEW k \in DOMAIN calls PROVE FALSE
  OBVIOUS
<1>1. Len(k) > 1 /\ k \in Keys
  BY DEF TypeOK
<1>2. Len(k) # 1
  <2>1. PICK n \in Nat : n = Len(k)
    BY <1>1, UptoAll
  <2>2. n > 1
    BY <1>1, <2>1
  <2> QED
    BY <2>1, <2>2
<1>3. PICK q \in DOMAIN calls : Len(q) = 1
  BY <1>2, UnderTheRoot
<1>4. Len(q) > 1
  OBVIOUS
<1> QED
  BY <1>3, <1>4

(* A tree of one call, or of none.                                         *)
LEMMA Alone ==
  ASSUME TypeOK', NEW k, DOMAIN calls' \subseteq {k},
         k \in DOMAIN calls' => /\ Len(k) = 1 /\ calls'[k].kids = {} /\ calls'[k].todo = {}
                                /\ calls'[k].unset = 0 /\ calls'[k].rc = 0
  PROVE  Tree'
<1>1. ASSUME NEW q \in DOMAIN calls' PROVE q = k /\ 1..(Len(q) - 1) = {}
  <2>1. q = k /\ Len(q) = 1
    OBVIOUS
  <2>2. 1..(1 - 1) = {}
    OBVIOUS
  <2> QED
    BY <2>1, <2>2
<1> QED
  BY <1>1 DEF Tree, Rooted, OneRoot, Quiet, Fresh, Sound

LEMMA TreeMain ==
  ASSUME TypeOK, TypeOK', Whole, MainCall \/ MainReturn \/ MainExit PROVE Whole'
<1> USE DEF Whole, Ended, Tree
<1>1. CASE MainCall
  <2>1. DOMAIN calls = {}
    BY <1>1, NoRootNoCall, MainCallFacts
  <2>2. /\ DOMAIN calls' = {Top} /\ Len(Top) = 1 /\ ended' = ended /\ ended = "no"
        /\ calls'[Top] = Call(Arg(main + 1), FALSE, "check")
    BY <1>1, <2>1, MainCallFacts
  <2>3. calls'[Top].kids = {} /\ calls'[Top].todo = {} /\ calls'[Top].unset = 0 /\ calls'[Top].rc = 0
    BY <2>2 DEF Call
  <2>4. Tree'
    BY <2>2, <2>3, Alone
  <2> QED
    BY <2>2, <2>4
<1>2. CASE MainReturn
  <2>1. PICK k \in DOMAIN calls : Taken(k) /\ (Dropped(k) \/ Retried(k))
    BY <1>2, MainReturnFacts
  <2>2. DOMAIN calls = {k} /\ ended = "no" /\ ended' = ended
    BY <2>1, OnlyTheRoot DEF Taken
  <2>3. /\ DOMAIN calls' \subseteq {Again}
        /\ Again \in DOMAIN calls' => /\ Len(Again) = 1 /\ calls'[Again].kids = {} /\ calls'[Again].todo = {}
                                      /\ calls'[Again].unset = 0 /\ calls'[Again].rc = 0
    <3>1. CASE Dropped(k)
      BY <2>2, <3>1 DEF Dropped
    <3>2. CASE Retried(k)
      BY <2>2, <3>2 DEF Retried, Call
    <3> QED
      BY <2>1, <3>1, <3>2
  <2>4. Tree'
    BY <2>3, Alone
  <2> QED
    BY <2>2, <2>4
<1>3. CASE MainExit
  <2>1. DOMAIN calls = {} /\ calls' = calls /\ ended' = "exit"
    BY <1>3, NoRootNoCall DEF MainExit
  <2> QED
    BY <2>1 DEF Rooted, OneRoot, Quiet, Fresh, Sound
<1> QED
  BY <1>1, <1>2, <1>3

LEMMA SoundLocal == ASSUME TypeOK, Sound, NEW k \in DOMAIN calls, Local(k) PROVE Sound'
<1>1. /\ DOMAIN calls' = DOMAIN calls /\ \A q \in DOMAIN calls : q # k => calls'[q] = calls[q]
      /\ calls'[k].unset = calls[k].unset
  BY LocalFacts DEF Keeps
<1>2. calls'[k].pc = "deps" => calls'[k].rc = 0
  <2>1. CASE Start(k)
    BY <2>1, StartFacts DEF Becomes
  <2>2. CASE Check(k)
    BY <2>2, CheckFacts DEF Becomes
  <2>3. CASE Load(k)
    BY <2>3, LoadFacts DEF Becomes
  <2>4. CASE Make(k)
    BY <2>4, MakeFacts DEF Becomes
  <2>5. CASE Enter(k)
    BY <2>5, EnterFacts DEF Becomes
  <2>6. CASE LoopEnds(k)
    BY <2>6, LoopEndsFacts DEF Becomes, Sound
  <2>7. CASE Return(k)
    BY <2>7, ReturnFacts DEF Becomes
  <2> QED
    BY <2>1, <2>2, <2>3, <2>4, <2>5, <2>6, <2>7 DEF Local
<1> QED
  BY <1>1, <1>2 DEF Sound

LEMMA TreeLocal ==
  ASSUME TypeOK, TypeOK', Whole, NEW k \in DOMAIN calls, Local(k) PROVE Whole'
<1> USE DEF Whole, Ended, Tree
<1>1. /\ DOMAIN calls' = DOMAIN calls /\ \A q \in DOMAIN calls : q # k => calls'[q] = calls[q]
      /\ calls'[k].kids = calls[k].kids /\ ended = "no"
  BY LocalFacts DEF Keeps
<1>2. calls[k].kids = {}
  <2>1. CASE LoopEnds(k)
    BY <2>1, LoopEndsFacts
  <2>2. CASE ~LoopEnds(k)
    BY <2>2 DEF Local, Start, Check, Load, Make, Enter, Return, Quiet
  <2> QED
    BY <2>1, <2>2
<1>3. \A q \in DOMAIN calls : calls'[q].kids = calls[q].kids
  BY <1>1
<1>4. Rooted'
  BY <1>1, <1>3 DEF Rooted
<1>5. OneRoot'
  BY <1>1 DEF OneRoot
<1>6. Quiet'
  BY <1>1, <1>2, <1>3 DEF Quiet
<1>7. Fresh'
  <2>1. \A x \in calls'[k].todo : Kid(k, x)' \notin calls'[k].kids
    BY <1>1, <1>2
  <2>2. \A q \in DOMAIN calls : q # k => \A x : Kid(q, x)' = Kid(q, x)
    BY <1>1 DEF Kid
  <2> QED
    BY <1>1, <2>1, <2>2 DEF Fresh
<1>8. ended' = "no"
  <2>1. SUFFICES ASSUME Orphan(k) PROVE FALSE
    BY <1>1, LocalFacts
  <2>2. Len(k) # 1
    <3>1. PICK n \in Nat : n = Len(k)
      BY UptoAll DEF TypeOK
    <3> QED
      BY <2>1, <3>1 DEF Orphan
  <2>3. PICK q \in DOMAIN calls : k \in calls[q].kids /\ q = Maker(k)
    BY <2>2, MadeByOne
  <2> QED
    BY <2>1, <2>3 DEF Orphan
<1> QED
  BY <1>4, <1>5, <1>6, <1>7, <1>8, SoundLocal

LEMMA TreeCreate ==
  ASSUME TypeOK, TypeOK', Whole, NEW k \in DOMAIN calls, NEW x \in Packages, Create(k, x) PROVE Whole'
<1> USE DEF Whole, Ended, Tree
<1> DEFINE kid == Kid(k, x)
<1>1. /\ kid \notin DOMAIN calls /\ DOMAIN calls' = DOMAIN calls \cup {kid} /\ kid # k /\ kid \in Keys
      /\ \A q \in DOMAIN calls : q # k => calls'[q] = calls[q]
      /\ calls'[k].kids = calls[k].kids \cup {kid} /\ calls'[kid] = Call(x, FALSE, "start")
      /\ calls'[k].pc = "deps" /\ calls'[k].file = calls[k].file /\ calls'[k].phase = calls[k].phase
      /\ calls'[k].todo = calls[k].todo \ {x}
      /\ ended' = "no" /\ Len(kid) = Len(k) + 1 /\ Len(kid) # 1
  <2>1. kid \notin DOMAIN calls
    BY KidIsNew
  <2>2. /\ DOMAIN calls' = DOMAIN calls \cup {kid} /\ kid # k /\ kid \in Keys
        /\ \A q \in DOMAIN calls : q # k /\ q # kid => calls'[q] = calls[q]
        /\ calls'[k].kids = calls[k].kids \cup {kid} /\ calls'[kid] = Call(x, FALSE, "start")
        /\ ended' = ended /\ ended = "no" /\ Len(kid) = Len(k) + 1 /\ Len(kid) # 1
    BY CreateFacts
  <2>3. /\ calls'[k].pc = "deps" /\ calls'[k].file = calls[k].file /\ calls'[k].phase = calls[k].phase
        /\ calls'[k].todo = calls[k].todo \ {x}
    BY CreateFacts DEF Becomes
  <2> HIDE DEF kid
  <2> QED
    BY <2>1, <2>2, <2>3
<1>2. calls'[kid].kids = {} /\ calls'[kid].todo = {}
  BY <1>1 DEF Call
<1>3. \A q \in DOMAIN calls : calls[q].kids \subseteq calls'[q].kids
  BY <1>1
<1>4. Rooted'
  <2>1. SUFFICES ASSUME NEW q \in DOMAIN calls', NEW j \in 1..(Len(q) - 1)
                 PROVE  Upto(q, j) \in DOMAIN calls' /\ Upto(q, j + 1) \in calls'[Upto(q, j)].kids
    BY DEF Rooted, Upto
  <2>2. CASE q \in DOMAIN calls
    BY <1>1, <1>3, <2>2 DEF Rooted
  <2>3. CASE q = kid
    <3>1. k \in Keys /\ Len(k) \in Nat /\ Len(k) # 0 /\ Upto(k, Len(k)) = k /\ Upto(kid, Len(kid)) = kid
      BY <1>1, UptoAll DEF TypeOK
    <3>2. j \in 1..Len(k)
      BY <1>1, <2>1, <2>3, <3>1
    <3>3. <<x, calls[k].file, calls[k].phase>> \in Steps
      BY CallTyped DEF Steps, Calls
    <3>4. Upto(kid, j) = Upto(k, j)
      BY <3>1, <3>2, <3>3, UptoAppend DEF Kid
    <3>5. CASE j = Len(k)
      BY <1>1, <2>3, <3>1, <3>4, <3>5
    <3>6. CASE j # Len(k)
      <4>1. j + 1 \in 1..Len(k) /\ j \in 1..(Len(k) - 1)
        BY <3>1, <3>2, <3>6
      <4>2. Upto(kid, j + 1) = Upto(k, j + 1)
        BY <3>1, <3>3, <4>1, UptoAppend DEF Kid
      <4>3. Upto(k, j) \in DOMAIN calls /\ Upto(k, j + 1) \in calls[Upto(k, j)].kids
        BY <4>1 DEF Rooted
      <4> QED
        BY <1>1, <1>3, <2>3, <3>4, <4>2, <4>3
    <3> QED
      BY <3>5, <3>6
  <2> QED
    BY <1>1, <2>2, <2>3
<1>5. OneRoot'
  BY <1>1 DEF OneRoot
<1>6. Quiet'
  BY <1>1, <1>2 DEF Quiet
<1>7. Fresh'
  <2>1. SUFFICES ASSUME NEW q \in DOMAIN calls', calls'[q].pc = "deps", NEW y \in calls'[q].todo
                 PROVE  Kid(q, y)' \notin calls'[q].kids
    BY DEF Fresh
  <2>2. CASE q # k /\ q # kid
    BY <1>1, <2>1, <2>2 DEF Fresh, Kid
  <2>3. CASE q = kid
    BY <1>2, <2>1, <2>3
  <2>4. CASE q = k
    <3>1. y # x /\ y \in calls[k].todo /\ calls[k].pc = "deps"
      BY <1>1, <2>1, <2>4, CreateFacts
    <3>2. Kid(k, y)' = Kid(k, y) /\ Kid(k, y) \notin calls[k].kids
      BY <1>1, <3>1 DEF Kid, Fresh
    <3>3. Kid(k, y) # kid
      <4>1. k \in Seq(Steps) /\ y \in Packages
        BY <3>1, CallTyped DEF TypeOK, Keys, Calls
      <4>2. <<x, calls[k].file, calls[k].phase>> \in Steps /\ <<y, calls[k].file, calls[k].phase>> \in Steps
        BY <4>1, CallTyped DEF Steps, Calls
      <4>3. /\ Kid(k, x)[Len(k) + 1] = <<x, calls[k].file, calls[k].phase>>
            /\ Kid(k, y)[Len(k) + 1] = <<y, calls[k].file, calls[k].phase>>
        BY <4>1, <4>2 DEF Kid
      <4> QED
        BY <3>1, <4>3
    <3> QED
      BY <1>1, <2>4, <3>2, <3>3
  <2> QED
    BY <1>1, <2>2, <2>3, <2>4
<1>8. Sound'
  <2>1. calls'[kid].unset = 0 /\ calls'[kid].rc = 0
    BY <1>1 DEF Call
  <2>2. calls'[k].unset = calls[k].unset /\ calls'[k].rc = 0
    BY CreateFacts DEF Becomes
  <2> QED
    BY <1>1, <2>1, <2>2 DEF Sound
<1> QED
  BY <1>1, <1>4, <1>5, <1>6, <1>7, <1>8

LEMMA TreeJoin ==
  ASSUME TypeOK, TypeOK', Whole, NEW k \in DOMAIN calls, JoinAll(k) PROVE Whole'
<1> USE DEF Whole, Ended, Tree
<1>1. /\ calls[k].pc = "deps" /\ \A q \in calls[k].kids : calls[q].pc = "done"
      /\ DOMAIN calls' = DOMAIN calls \ calls[k].kids /\ k \in DOMAIN calls' /\ calls'[k].kids = {}
      /\ \A q \in DOMAIN calls' : q # k => calls'[q] = calls[q]
      /\ ended' = ended
  BY JoinFacts
<1>2. Rooted'
  <2>1. SUFFICES ASSUME NEW q \in DOMAIN calls', NEW j \in 1..(Len(q) - 1)
                 PROVE  Upto(q, j) \in DOMAIN calls' /\ Upto(q, j + 1) \in calls'[Upto(q, j)].kids
    BY DEF Rooted, Upto
  <2>2. q \in DOMAIN calls /\ q \in Keys /\ Upto(q, Len(q)) = q /\ Len(q) \in Nat
    BY <1>1, UptoAll DEF TypeOK
  <2>3. Upto(q, j) \in DOMAIN calls /\ Upto(q, j + 1) \in calls[Upto(q, j)].kids
    BY <2>2 DEF Rooted
  <2>4. Upto(q, j) \in DOMAIN calls'
    BY <1>1, <2>3 DEF Quiet
  <2>5. Upto(q, j) # k
    <3>1. SUFFICES ASSUME Upto(q, j) = k PROVE FALSE
      OBVIOUS
    <3>2. Upto(q, j + 1) \in calls[k].kids
      BY <2>3, <3>1
    <3>3. CASE j + 1 = Len(q)
      BY <1>1, <2>1, <2>2, <3>2, <3>3
    <3>4. CASE j + 1 # Len(q)
      <4>1. j + 1 \in 1..(Len(q) - 1)
        BY <2>2, <3>4
      <4>2. Upto(q, j + 1) \in DOMAIN calls /\ calls[Upto(q, j + 1)].kids # {}
        BY <2>2, <4>1 DEF Rooted
      <4> QED
        BY <1>1, <3>2, <4>2 DEF Quiet
    <3> QED
      BY <3>3, <3>4
  <2> QED
    BY <1>1, <2>3, <2>4, <2>5
<1>3. OneRoot'
  BY <1>1 DEF OneRoot
<1>4. Quiet'
  BY <1>1 DEF Quiet
<1>5. Fresh'
  BY <1>1 DEF Fresh, Kid
<1>6. (ended' = "crash" => concurrency' = 0) /\ (ended' = "exit" => DOMAIN calls' = {})
  BY <1>1, JoinFacts DEF given
<1>7. Sound'
  <2>1. calls'[k].unset = calls[k].unset /\ calls'[k].rc = calls[k].rc
    BY JoinFacts DEF Becomes
  <2> QED
    BY <1>1, <2>1 DEF Sound
<1> QED
  BY <1>2, <1>3, <1>4, <1>5, <1>6, <1>7

LEMMA GivenStays == ASSUME [Next]_vars PROVE UNCHANGED given
<1>1. ASSUME NEW k, Local(k) PROVE UNCHANGED given
  BY <1>1 DEF Local, Start, Check, Load, Make, Enter, LoopEnds, Return
<1>2. ASSUME NEW k, JoinAll(k) \/ Misjoin(k) PROVE UNCHANGED given
  BY <1>2 DEF JoinAll, Misjoin
<1>3. ASSUME NEW k, NEW x, Create(k, x) \/ CreateFails(k, x) \/ Overrun(k, x) \/ Lost(k, x) PROVE UNCHANGED given
  BY <1>3 DEF Create, CreateFails, Overrun, Lost
<1>4. CASE UNCHANGED vars \/ MainCall \/ MainReturn \/ MainExit
  BY <1>4 DEF vars, MainCall, MainReturn, MainExit
<1> QED
  BY <1>1, <1>2, <1>3, <1>4, NextCases

LEMMA CalmBefore == ASSUME TreeInv, [Next]_vars, Calm' PROVE Calm
<1>1. TypeOK
  BY DEF TreeInv
<1>2. failed' = failed \/ failed' = failed + 1
  <2>1. ASSUME NEW k, Local(k) PROVE failed' = failed
    BY <2>1 DEF Local, Start, Check, Load, Make, Enter, LoopEnds, Return
  <2>2. ASSUME NEW k, JoinAll(k) \/ Misjoin(k) PROVE failed' = failed
    BY <2>2 DEF JoinAll, Misjoin
  <2>3. ASSUME NEW k, NEW x, Create(k, x) \/ CreateFails(k, x) \/ Overrun(k, x) \/ Lost(k, x)
        PROVE  failed' = failed \/ failed' = failed + 1
    BY <2>3 DEF Create, CreateFails, Overrun, Lost
  <2>4. CASE UNCHANGED vars \/ MainCall \/ MainReturn \/ MainExit
    BY <2>4 DEF vars, MainCall, MainReturn, MainExit
  <2> QED
    BY <2>1, <2>2, <2>3, <2>4, NextCases
<1>3. world' = world /\ failed \in Nat
  BY <1>1, GivenStays DEF given, TypeOK
<1> QED
  BY <1>2, <1>3 DEF Calm

LEMMA TreeStep == ASSUME TreeInv, [Next]_vars PROVE TreeInv'
<1>1. TypeOK /\ TypeOK'
  BY TypeStep DEF TreeInv
<1>2. world' = world /\ concurrency' = concurrency
  BY GivenStays DEF given
<1>3. SUFFICES ASSUME Calm' PROVE Whole'
  BY <1>1 DEF TreeInv
<1>4. Calm
  BY <1>3, CalmBefore
<1>5. Whole /\ Sound /\ world.missing = {} /\ failed' = 0
  BY <1>3, <1>4 DEF TreeInv, Whole, Tree, Calm
<1>6. CASE UNCHANGED vars \/ Still
  BY <1>2, <1>5, <1>6 DEF vars, Still, Whole, Ended, Tree, Rooted, OneRoot, Quiet, Fresh, Sound, Kid
<1> QED
  BY <1>1, <1>5, <1>6, CalmCases, TreeMain, TreeLocal, TreeCreate, TreeJoin

(* The threads are always joined and no frame is read that has been left,  *)
(* so that only a lost manifest, a thread that is not started or arrays    *)
(* without a slot can cut a run (the loop and the joins of                 *)
(* build_package_with_manifest_name, and main's return).                   *)
THEOREM NothingElseCuts == Spec => []CutOnlyIf
<1>1. TreeInv => CutOnlyIf
  BY DEF TreeInv, Calm, Whole, Ended, CutOnlyIf
<1>2. TreeInv /\ [Next]_vars => TreeInv'
  BY TreeStep
<1> QED
  BY <1>1, <1>2, TreeStart, PTL DEF Spec

(***************************************************************************)
(* What has been entered but still lacks a dependency has a call that will *)
(* come to it: the one that lists it, or the one that is at it.            *)
(***************************************************************************)
Willing(k, x) ==
  /\ calls[k].pkg = x /\ ~calls[k].slug
  /\ \/ /\ calls[k].pc \in {"start", "check", "load", "make", "enter"}
        /\ calls[k].file = 1 \/ world.manifest[x] = 2
     \/ calls[k].pc = "return" /\ calls[k].rc # 0 /\ calls[k].file = 1 /\ world.manifest[x] = 2
Owing(k, p, x) ==
  /\ calls[k].pkg = p /\ calls[k].pc = "deps"
  /\ x \in calls[k].todo \/ (calls[k].phase = "deps" /\ dev /\ x \in Development[p])
SuccessEnters ==
  \A k \in DOMAIN calls :
    calls[k].pc = "deps" \/ (calls[k].pc \in {"return", "done"} /\ calls[k].rc = 0) => Entered(calls[k].pkg)
Owed ==
  \A p \in Packages : Entered(p) =>
    \A x \in Needed(p) : x \in Packages /\ world.manifest[x] # 0 =>
      Entered(x) \/ \E k \in DOMAIN calls : Owing(k, p, x) \/ Willing(k, x)
LastArgument ==
  /\ \A k \in DOMAIN calls : Len(k) = 1 => calls[k].pkg = Arg(main)
  /\ main >= 1 /\ DOMAIN calls = {} /\ rc = 0 => Entered(Arg(main))
BuiltInv ==
  /\ TreeInv /\ (ended = "exit" => main = Rounds)
  /\ Calm => SuccessEnters /\ Owed /\ LastArgument

(* Nothing is struck from the table.                                       *)
LEMMA EnteredKept == ASSUME built \subseteq built', NEW p, Entered(p) PROVE Entered(p)'
  BY DEF Entered

LEMMA PathEnters ==
  ASSUME TypeOK, NEW k \in DOMAIN calls, NEW B, Path(k) \in B
  PROVE  \E f \in 1..2, s \in BOOLEAN : <<calls[k].pkg, s, f>> \in B
<1>1. calls[k].slug \in BOOLEAN /\ calls[k].file \in 1..2
  BY CallTyped DEF Calls
<1> QED
  BY <1>1 DEF Path

(* A step of k hands on what k owes.                                       *)
LEMMA Handover ==
  ASSUME TypeOK, UNCHANGED given, built \subseteq built', Owed, NEW k \in DOMAIN calls,
         \A q \in DOMAIN calls : q # k => q \in DOMAIN calls' /\ calls'[q] = calls[q],
         \A p \in Packages, x \in Packages : world.manifest[x] # 0 /\ (Owing(k, p, x) \/ Willing(k, x)) =>
            Entered(x)' \/ \E q \in DOMAIN calls' : Owing(q, p, x)' \/ Willing(q, x)',
         \A p \in Packages : Entered(p)' /\ ~Entered(p) =>
            \A x \in Needed(p) : \E q \in DOMAIN calls' : Owing(q, p, x)'
  PROVE  Owed'
<1>1. SUFFICES ASSUME NEW p \in Packages, Entered(p)', NEW x \in Needed(p)', x \in Packages, (world.manifest[x])' # 0
               PROVE  Entered(x)' \/ \E q \in DOMAIN calls' : Owing(q, p, x)' \/ Willing(q, x)'
  BY DEF Owed
<1>2. x \in Needed(p) /\ world.manifest[x] # 0 /\ world' = world /\ dev' = dev
  BY <1>1, GivenKept
<1>3. CASE ~Entered(p)
  BY <1>1, <1>2, <1>3
<1>4. CASE Entered(p) /\ Entered(x)
  BY <1>4, EnteredKept
<1>5. CASE Entered(p) /\ ~Entered(x)
  <2>1. PICK q \in DOMAIN calls : Owing(q, p, x) \/ Willing(q, x)
    BY <1>1, <1>2, <1>5 DEF Owed
  <2>2. CASE q = k
    BY <1>1, <1>2, <2>1, <2>2
  <2>3. CASE q # k
    <3>1. q \in DOMAIN calls' /\ calls'[q] = calls[q]
      BY <2>3
    <3>2. Owing(q, p, x)' \/ Willing(q, x)'
      BY <1>2, <2>1, <3>1 DEF Owing, Willing
    <3> QED
      BY <3>1, <3>2
  <2> QED
    BY <2>2, <2>3
<1> QED
  BY <1>3, <1>4, <1>5

LEMMA NeededTyped == ASSUME TypeOK, NEW p \in Packages PROVE Needed(p) \subseteq Packages /\ world.manifest[p] \in 0..2
  BY WorldFacts, BuildAssumption DEF TypeOK, World, Needed

LEMMA OwedLocal ==
  ASSUME TypeOK, TypeOK', Owed, Quiet, NEW k \in DOMAIN calls, Local(k) PROVE Owed'
<1>1. /\ DOMAIN calls' = DOMAIN calls /\ \A q \in DOMAIN calls : q # k => calls'[q] = calls[q]
      /\ calls'[k].pkg = calls[k].pkg /\ calls'[k].slug = calls[k].slug /\ UNCHANGED given /\ built \subseteq built'
      /\ world' = world /\ dev' = dev
  BY LocalFacts, GivenKept DEF Keeps
<1>2. calls[k] \in Calls
  BY CallTyped
<1>3. ASSUME NEW p \in Packages, Entered(p)', ~Entered(p)
      PROVE  \A x \in Needed(p) : Owing(k, p, x)'
  <2>1. Enter(k) /\ built' = built \cup {Path(k)} /\ p = calls[k].pkg
    <3>1. calls[k].pc = "enter" /\ built' = built \cup {Path(k)}
      BY <1>3, LocalFacts DEF Entered
    <3>2. Enter(k)
      BY <3>1 DEF Local, Start, Check, Load, Make, LoopEnds, AtDeps, Return
    <3>3. p = calls[k].pkg
      BY <1>3, <3>1 DEF Entered, Path
    <3> QED
      BY <3>1, <3>2, <3>3
  <2>2. calls'[k].pc = "deps" /\ calls'[k].todo = world.deps[p] /\ calls'[k].phase = "deps"
    BY <2>1, EnterFacts DEF Becomes
  <2> QED
    BY <1>1, <2>1, <2>2 DEF Owing, Needed
<1>4. ASSUME NEW p \in Packages, NEW x \in Packages, world.manifest[x] # 0, Owing(k, p, x)
      PROVE  Owing(k, p, x)'
  <2>1. LoopEnds(k)
    BY <1>4 DEF Owing, Local, Start, Check, Load, Make, Enter, Return
  <2>2. calls[k].todo = {}
    BY <2>1, LoopEndsFacts
  <2>3. dev /\ calls[k].phase = "deps" /\ x \in Development[p] /\ calls[k].pkg = p /\ calls[k].pc = "deps"
    BY <1>4, <2>2 DEF Owing
  <2>4. calls'[k].todo = Development[p] /\ calls'[k].pc = "deps"
    BY <2>1, <2>3, LoopEndsFacts DEF Becomes
  <2> QED
    BY <1>1, <2>3, <2>4 DEF Owing
<1>5. ASSUME NEW x \in Packages, world.manifest[x] # 0, Willing(k, x)
      PROVE  Entered(x)' \/ Willing(k, x)'
  <2>1. calls[k].pkg = x /\ ~calls[k].slug /\ calls[k].file \in {1, 2} /\ world.manifest[x] \in {1, 2}
    BY <1>2, <1>5, NeededTyped DEF Willing, Calls
  <2>2. CASE Start(k)
    BY <1>1, <1>5, <2>1, <2>2, StartFacts DEF Willing, Becomes
  <2>3. CASE Check(k)
    <3>1. CASE Path(k) \in built
      <4>1. Entered(x)
        BY <2>1, <3>1, PathEnters DEF Entered
      <4> QED
        BY <1>1, <4>1, EnteredKept
    <3>2. CASE Path(k) \notin built
      BY <1>1, <1>5, <2>1, <2>3, <3>2, CheckFacts DEF Willing, Becomes
    <3> QED
      BY <3>1, <3>2
  <2>4. CASE Load(k)
    <3>1. x # Flag
      BY BuildAssumption
    <3>2. CASE Found(k)
      BY <1>1, <1>5, <2>1, <2>4, <3>2, LoadFacts DEF Willing, Becomes
    <3>3. CASE ~Found(k)
      <4>1. world.manifest[x] # calls[k].file
        BY <2>1, <3>1, <3>3 DEF Found
      <4>2. calls[k].file = 1 /\ world.manifest[x] = 2
        BY <1>5, <2>1, <2>4, <4>1, LoadFacts DEF Willing
      <4>3. calls'[k].pc = "return" /\ calls'[k].rc # 0 /\ calls'[k].file = 1
        BY <2>4, <3>3, <4>2, LoadFacts DEF Becomes, ENOMEM
      <4> QED
        BY <1>1, <2>1, <4>2, <4>3 DEF Willing
    <3> QED
      BY <3>2, <3>3
  <2>5. CASE Make(k)
    BY <1>1, <1>5, <2>1, <2>5, MakeFacts DEF Willing, Becomes
  <2>6. CASE Enter(k)
    <3>1. Path(k) \in built'
      BY <2>6, EnterFacts
    <3> QED
      BY <2>1, <3>1, PathEnters DEF Entered
  <2>7. CASE LoopEnds(k)
    BY <1>5, <2>7, LoopEndsFacts DEF Willing
  <2>8. CASE Return(k)
    <3>1. calls[k].rc # 0 /\ calls[k].file = 1 /\ world.manifest[x] = 2
      BY <1>5, <2>8, ReturnFacts DEF Willing
    <3>2. calls'[k].pc = "check" /\ calls'[k].file = 2
      BY <2>8, <3>1, ReturnFacts DEF Becomes
    <3> QED
      BY <1>1, <2>1, <3>1, <3>2 DEF Willing
  <2> QED
    BY <2>2, <2>3, <2>4, <2>5, <2>6, <2>7, <2>8 DEF Local
<1>6. \A p \in Packages, x \in Packages : world.manifest[x] # 0 /\ (Owing(k, p, x) \/ Willing(k, x)) =>
         Entered(x)' \/ \E q \in DOMAIN calls' : Owing(q, p, x)' \/ Willing(q, x)'
  BY <1>1, <1>4, <1>5
<1>7. \A p \in Packages : Entered(p)' /\ ~Entered(p) => \A x \in Needed(p) : \E q \in DOMAIN calls' : Owing(q, p, x)'
  BY <1>1, <1>3
<1> QED
  BY <1>1, <1>6, <1>7, Handover

LEMMA OwedStep ==
  ASSUME TypeOK, TypeOK', Calm, Calm', Whole, SuccessEnters, Owed, [Next]_vars PROVE Owed'
<1> USE DEF Whole, Ended, Tree
<1>1. UNCHANGED given /\ world' = world /\ dev' = dev
  BY GivenStays, GivenKept
<1>2. CASE UNCHANGED vars \/ Still
  <2>1. calls' = calls /\ built' = built
    BY <1>2 DEF vars, Still
  <2>2. \A p : Entered(p)' = Entered(p) /\ Needed(p)' = Needed(p)
    BY <1>1, <2>1 DEF Entered, Needed
  <2>3. \A k, p, x : Owing(k, p, x)' = Owing(k, p, x) /\ Willing(k, x)' = Willing(k, x)
    BY <1>1, <2>1 DEF Owing, Willing
  <2> QED
    BY <1>1, <2>1, <2>2, <2>3 DEF Owed
<1>3. CASE MainCall
  <2>1. DOMAIN calls = {} /\ built' = built
    BY <1>3, NoRootNoCall, MainCallFacts
  <2> QED
    BY <1>1, <2>1 DEF Owed, Entered, Needed
<1>4. CASE MainReturn
  <2>1. PICK k \in DOMAIN calls : Taken(k)
    BY <1>4, MainReturnFacts
  <2>2. DOMAIN calls = {k} /\ built' = built /\ calls[k].pc = "done"
    BY <2>1, OnlyTheRoot DEF Taken
  <2>3. \A p, x : ~Owing(k, p, x) /\ ~Willing(k, x)
    BY <2>2 DEF Owing, Willing
  <2>4. \A p : Entered(p)' = Entered(p) /\ Needed(p)' = Needed(p)
    BY <1>1, <2>2 DEF Entered, Needed
  <2> QED
    BY <1>1, <2>2, <2>3, <2>4 DEF Owed
<1>5. CASE MainExit
  BY <1>1, <1>5 DEF MainExit, Owed, Entered, Needed, Owing, Willing
<1>6. ASSUME NEW k \in DOMAIN calls, Local(k) PROVE Owed'
  BY <1>6, OwedLocal
<1>7. ASSUME NEW k \in DOMAIN calls, JoinAll(k) PROVE Owed'
  <2>1. /\ \A q \in calls[k].kids : calls[q].pc = "done"
        /\ DOMAIN calls' = DOMAIN calls \ calls[k].kids /\ k \in DOMAIN calls' /\ built' = built
        /\ \A q \in DOMAIN calls' : q # k => calls'[q] = calls[q]
        /\ calls[k].pc = "deps"
    BY <1>7, JoinFacts
  <2>2. /\ calls'[k].pc = calls[k].pc /\ calls'[k].todo = calls[k].todo /\ calls'[k].phase = calls[k].phase
        /\ calls'[k].pkg = calls[k].pkg
    BY <1>7, <2>1, JoinFacts DEF Becomes
  <2>3. \A q \in DOMAIN calls : \A p, x : Owing(q, p, x) \/ Willing(q, x) => q \in DOMAIN calls'
    BY <2>1 DEF Owing, Willing
  <2>4. \A q \in DOMAIN calls' : \A p, x : Owing(q, p, x) \/ Willing(q, x) => Owing(q, p, x)' \/ Willing(q, x)'
    BY <1>1, <2>1, <2>2 DEF Owing, Willing
  <2>5. \A p : Entered(p)' = Entered(p) /\ Needed(p)' = Needed(p)
    BY <1>1, <2>1 DEF Entered, Needed
  <2> QED
    BY <1>1, <2>3, <2>4, <2>5 DEF Owed
<1>8. ASSUME NEW k \in DOMAIN calls, NEW y \in Packages, Create(k, y) PROVE Owed'
  <2>0. PICK kid : kid = Kid(k, y)
    OBVIOUS
  <2>1. /\ kid \notin DOMAIN calls /\ DOMAIN calls' = DOMAIN calls \cup {kid} /\ kid # k
        /\ \A q \in DOMAIN calls : q # k /\ q # kid => calls'[q] = calls[q]
        /\ calls'[kid] = Call(y, FALSE, "start") /\ built' = built /\ calls[k].pc = "deps"
        /\ calls'[k].pkg = calls[k].pkg
    <3>1. kid \notin DOMAIN calls
      BY <1>8, <2>0, KidIsNew
    <3>2. /\ DOMAIN calls' = DOMAIN calls \cup {kid} /\ kid # k
          /\ calls'[kid] = Call(y, FALSE, "start") /\ built' = built /\ calls[k].pc = "deps"
          /\ calls'[k].pkg = calls[k].pkg
      BY <1>8, <2>0, CreateFacts
    <3>3. \A q \in DOMAIN calls : q # k /\ q # Kid(k, y) => calls'[q] = calls[q]
      BY <1>8, CreateFacts
    <3> QED
      BY <2>0, <3>1, <3>2, <3>3
  <2>2. calls'[k].pc = "deps" /\ calls'[k].phase = calls[k].phase /\ calls'[k].todo = calls[k].todo \ {y}
    BY <1>8, CreateFacts DEF Becomes
  <2>3. Willing(kid, y)'
    BY <2>1 DEF Call, Willing
  <2>4. \A p, x : Owing(k, p, x) => Owing(k, p, x)' \/ (x = y /\ Willing(kid, y)')
    BY <1>1, <2>1, <2>2, <2>3 DEF Owing
  <2>5. \A x : ~Willing(k, x)
    BY <2>1 DEF Willing
  <2>6. \A p \in Packages, x \in Packages : world.manifest[x] # 0 /\ (Owing(k, p, x) \/ Willing(k, x)) =>
           Entered(x)' \/ \E q \in DOMAIN calls' : Owing(q, p, x)' \/ Willing(q, x)'
    BY <2>1, <2>4, <2>5
  <2>7. \A p \in Packages : Entered(p)' => Entered(p)
    BY <2>1 DEF Entered
  <2>8. built \subseteq built' /\ \A q \in DOMAIN calls : q # k => q \in DOMAIN calls' /\ calls'[q] = calls[q]
    BY <2>1
  <2> QED
    BY <1>1, <2>6, <2>7, <2>8, Handover
<1> QED
  BY <1>2, <1>3, <1>4, <1>5, <1>6, <1>7, <1>8, CalmCases DEF Calm

LEMMA SuccessLocal == ASSUME TypeOK, SuccessEnters, NEW k \in DOMAIN calls, Local(k) PROVE SuccessEnters'
<1>1. /\ DOMAIN calls' = DOMAIN calls /\ \A q \in DOMAIN calls : q # k => calls'[q] = calls[q]
      /\ calls'[k].pkg = calls[k].pkg /\ built \subseteq built'
  BY LocalFacts DEF Keeps
<1>2. calls'[k].pc = "deps" \/ (calls'[k].pc \in {"return", "done"} /\ calls'[k].rc = 0) => Entered(calls[k].pkg)'
  <2>1. CASE Start(k)
    BY <2>1, StartFacts DEF Becomes
  <2>2. CASE Check(k)
    <3>1. CASE Path(k) \in built
      BY <1>1, <3>1, PathEnters, EnteredKept DEF Entered
    <3>2. CASE Path(k) \notin built
      BY <2>2, <3>2, CheckFacts DEF Becomes
    <3> QED
      BY <3>1, <3>2
  <2>3. CASE Load(k)
    BY <2>3, LoadFacts DEF Becomes, ENOMEM
  <2>4. CASE Make(k)
    BY <2>4, MakeFacts DEF Becomes
  <2>5. CASE Enter(k)
    <3>1. Path(k) \in built'
      BY <2>5, EnterFacts
    <3> QED
      BY <1>1, <3>1, PathEnters DEF Entered
  <2>6. CASE LoopEnds(k)
    <3>1. Entered(calls[k].pkg)
      BY <2>6, LoopEndsFacts DEF SuccessEnters
    <3> QED
      BY <1>1, <3>1, EnteredKept
  <2>7. CASE Return(k)
    <3>1. calls'[k].pc \in {"check", "done"} /\ calls'[k].rc = calls[k].rc /\ calls[k].pc = "return"
      BY <2>7, ReturnFacts DEF Becomes
    <3>2. calls'[k].rc = 0 => Entered(calls[k].pkg)
      BY <3>1 DEF SuccessEnters
    <3> QED
      BY <1>1, <3>1, <3>2, EnteredKept
  <2> QED
    BY <2>1, <2>2, <2>3, <2>4, <2>5, <2>6, <2>7 DEF Local
<1>3. ASSUME NEW q \in DOMAIN calls, q # k,
             calls'[q].pc = "deps" \/ (calls'[q].pc \in {"return", "done"} /\ calls'[q].rc = 0)
      PROVE  Entered(calls[q].pkg)'
  BY <1>1, <1>3, EnteredKept DEF SuccessEnters
<1> QED
  <2>1. ASSUME NEW q \in DOMAIN calls', calls'[q].pc = "deps" \/ (calls'[q].pc \in {"return", "done"} /\ calls'[q].rc = 0)
        PROVE  Entered(calls[q].pkg)' /\ calls'[q].pkg = calls[q].pkg
    BY <1>1, <1>2, <1>3, <2>1
  <2> QED
    BY <2>1 DEF SuccessEnters, Entered

LEMMA SuccessStep ==
  ASSUME TypeOK, Calm, Calm', Sound, SuccessEnters, [Next]_vars PROVE SuccessEnters'
<1>1. CASE UNCHANGED vars \/ Still
  BY <1>1 DEF vars, Still, SuccessEnters, Entered
<1>2. CASE MainCall
  <2>1. /\ DOMAIN calls' = DOMAIN calls \cup {Top} /\ \A q \in DOMAIN calls : q # Top => calls'[q] = calls[q]
        /\ calls'[Top] = Call(Arg(main + 1), FALSE, "check") /\ built' = built
    BY <1>2, MainCallFacts
  <2>2. calls'[Top].pc = "check"
    BY <2>1 DEF Call
  <2> QED
    BY <2>1, <2>2 DEF SuccessEnters, Entered
<1>3. CASE MainReturn
  <2>1. PICK k \in DOMAIN calls : Taken(k) /\ (Dropped(k) \/ Retried(k))
    BY <1>3, MainReturnFacts
  <2>2. \A q \in DOMAIN calls' : calls'[q].pc = "check" \/ (q \in DOMAIN calls /\ calls'[q] = calls[q])
    BY <2>1 DEF Dropped, Retried, Call
  <2>3. built' = built
    BY <2>1 DEF Taken
  <2> QED
    BY <2>2, <2>3 DEF SuccessEnters, Entered
<1>4. CASE MainExit
  BY <1>4 DEF MainExit, SuccessEnters, Entered
<1>5. ASSUME NEW k \in DOMAIN calls, Local(k) PROVE SuccessEnters'
  BY <1>5, SuccessLocal
<1>6. ASSUME NEW k \in DOMAIN calls, JoinAll(k) PROVE SuccessEnters'
  <2>1. /\ DOMAIN calls' \subseteq DOMAIN calls /\ \A q \in DOMAIN calls' : q # k => calls'[q] = calls[q]
        /\ built' = built /\ calls[k].pc = "deps"
    BY <1>6, JoinFacts
  <2>2. calls'[k].pc = calls[k].pc /\ calls'[k].rc = calls[k].rc /\ calls'[k].pkg = calls[k].pkg
    BY <1>6, <2>1, JoinFacts DEF Becomes
  <2> QED
    BY <2>1, <2>2 DEF SuccessEnters, Entered
<1>7. ASSUME NEW k \in DOMAIN calls, NEW x \in Packages, Create(k, x) PROVE SuccessEnters'
  <2>1. PICK kid : kid = Kid(k, x)
    OBVIOUS
  <2>2. /\ DOMAIN calls' = DOMAIN calls \cup {kid} /\ calls'[kid] = Call(x, FALSE, "start") /\ built' = built
        /\ calls[k].pc = "deps" /\ calls'[k].pkg = calls[k].pkg
    BY <1>7, <2>1, CreateFacts
  <2>3. \A q \in DOMAIN calls : q # k /\ q # kid => calls'[q] = calls[q]
    <3>1. \A q \in DOMAIN calls : q # k /\ q # Kid(k, x) => calls'[q] = calls[q]
      BY <1>7, CreateFacts
    <3> QED
      BY <2>1, <3>1
  <2>4. calls'[kid].pc = "start"
    BY <2>2 DEF Call
  <2> QED
    BY <2>2, <2>3, <2>4 DEF SuccessEnters, Entered
<1> QED
  BY <1>1, <1>2, <1>3, <1>4, <1>5, <1>6, <1>7, CalmCases DEF Calm

LEMMA LastStep ==
  ASSUME TypeOK, TypeOK', Calm, Calm', Whole, SuccessEnters, LastArgument, [Next]_vars PROVE LastArgument'
<1> USE DEF Whole, Ended, Tree
<1>0. UNCHANGED given /\ \A j : Arg(j)' = Arg(j)
  BY GivenStays, GivenKept
<1>1. CASE UNCHANGED vars \/ Still
  <2>1. calls' = calls /\ main' = main /\ rc' = rc /\ built' = built
    BY <1>1 DEF vars, Still
  <2> QED
    BY <1>0, <2>1 DEF LastArgument, Entered, Arg, given
<1>2. CASE MainCall
  <2>1. /\ DOMAIN calls' = {Top} /\ calls'[Top] = Call(Arg(main + 1), FALSE, "check") /\ main' = main + 1
    BY <1>2, NoRootNoCall, MainCallFacts
  <2>2. calls'[Top].pkg = Arg(main + 1) /\ Arg(main)' = Arg(main + 1)
    BY <1>0, <2>1 DEF Call, Arg, given
  <2> QED
    BY <2>1, <2>2 DEF LastArgument
<1>3. CASE MainReturn
  <2>1. PICK k \in DOMAIN calls : Taken(k) /\ (Dropped(k) \/ Retried(k))
    BY <1>3, MainReturnFacts
  <2>2. /\ DOMAIN calls = {k} /\ main' = main /\ built' = built /\ rc' = calls[k].rc
        /\ calls[k].pkg = Arg(main) /\ calls[k].pc = "done"
    BY <2>1, OnlyTheRoot DEF Taken, LastArgument
  <2>3. Arg(main)' = Arg(main)
    BY <1>0, <2>2 DEF Arg, given
  <2>4. rc' = 0 => Entered(Arg(main))'
    BY <2>2, <2>3 DEF SuccessEnters, Entered
  <2>5. CASE Dropped(k)
    BY <2>2, <2>4, <2>5 DEF Dropped, LastArgument
  <2>6. CASE Retried(k)
    <3>1. DOMAIN calls' = {Again} /\ calls'[Again].pkg = Arg(main)
      BY <2>2, <2>6 DEF Retried, Call
    <3> QED
      BY <2>2, <2>3, <3>1 DEF LastArgument
  <2> QED
    BY <2>1, <2>5, <2>6
<1>4. CASE MainExit
  <2>1. calls' = calls /\ main' = main /\ rc' = rc /\ built' = built
    BY <1>4 DEF MainExit
  <2> QED
    BY <1>0, <2>1 DEF LastArgument, Entered, Arg, given
<1>5. ASSUME NEW k \in DOMAIN calls, k \in DOMAIN calls', main' = main,
             \A q \in DOMAIN calls' : Len(q) = 1 => q \in DOMAIN calls /\ calls'[q].pkg = calls[q].pkg
      PROVE  LastArgument'
  <2>1. Arg(main)' = Arg(main)
    BY <1>0, <1>5 DEF Arg, given
  <2> QED
    BY <1>5, <2>1 DEF LastArgument
<1>6. ASSUME NEW k \in DOMAIN calls, Local(k) PROVE LastArgument'
  BY <1>5, <1>6, LocalFacts DEF Keeps
<1>7. ASSUME NEW k \in DOMAIN calls, JoinAll(k) PROVE LastArgument'
  BY <1>5, <1>7, JoinFacts
<1>8. ASSUME NEW k \in DOMAIN calls, NEW x \in Packages, Create(k, x) PROVE LastArgument'
  <2>1. PICK kid : kid = Kid(k, x)
    OBVIOUS
  <2>2. /\ DOMAIN calls' = DOMAIN calls \cup {kid} /\ Len(kid) # 1 /\ main' = main /\ calls'[k].pkg = calls[k].pkg
    BY <1>8, <2>1, CreateFacts
  <2>3. \A q \in DOMAIN calls : q # k /\ q # kid => calls'[q] = calls[q]
    <3>1. \A q \in DOMAIN calls : q # k /\ q # Kid(k, x) => calls'[q] = calls[q]
      BY <1>8, CreateFacts
    <3> QED
      BY <2>1, <3>1
  <2> QED
    BY <1>5, <2>2, <2>3
<1> QED
  BY <1>1, <1>2, <1>3, <1>4, <1>6, <1>7, <1>8, CalmCases DEF Calm

LEMMA BuiltStart == Init => BuiltInv
<1> SUFFICES ASSUME Init PROVE BuiltInv
  OBVIOUS
<1>1. DOMAIN calls = {} /\ main = 0 /\ ended = "no" /\ built = {}
  BY DEF Init
<1>2. \A p : ~Entered(p)
  BY <1>1 DEF Entered
<1> QED
  BY <1>1, <1>2, TreeStart DEF BuiltInv, SuccessEnters, Owed, LastArgument

LEMMA BuiltStep == ASSUME BuiltInv, [Next]_vars PROVE BuiltInv'
<1>1. TreeInv /\ TreeInv' /\ TypeOK /\ TypeOK' /\ UNCHANGED given
  BY TreeStep, TypeStep, GivenStays DEF BuiltInv, TreeInv
<1>2. Rounds' = Rounds /\ world' = world
  BY <1>1, GivenKept
<1>3. ended' = "exit" => main' = Rounds'
  <2>1. CASE ended = "exit"
    <3>1. main = Rounds
      BY <2>1 DEF BuiltInv
    <3>2. UNCHANGED vars
      BY <2>1 DEF Next, Step, MainCall, MainReturn, MainExit, Start, Check, Load, Make, Enter, Create,
                  CreateFails, Overrun, Lost, JoinAll, Misjoin, LoopEnds, Room, Joining, AtDeps, Return
    <3> QED
      BY <1>2, <3>1, <3>2 DEF vars
  <2>2. CASE ended # "exit"
    <3>1. CASE MainExit
      BY <1>2, <3>1 DEF MainExit
    <3>2. CASE ~MainExit
      <4>1. ASSUME NEW k, Local(k) \/ JoinAll(k) \/ Misjoin(k) PROVE ended' = ended \/ ended' = "crash"
        BY <4>1 DEF Local, Start, Check, Load, Make, Enter, LoopEnds, Return, JoinAll, Misjoin
      <4>2. ASSUME NEW k, NEW x, Create(k, x) \/ CreateFails(k, x) \/ Overrun(k, x) \/ Lost(k, x)
            PROVE  ended' = ended \/ ended' = "crash"
        BY <4>2 DEF Create, CreateFails, Overrun, Lost
      <4>3. ASSUME UNCHANGED vars PROVE ended' = ended
        BY <4>3 DEF vars
      <4>4. ASSUME MainCall \/ MainReturn PROVE ended' = ended
        BY <4>4 DEF MainCall, MainReturn
      <4>6. ended' = ended \/ ended' = "crash"
        BY <3>2, <4>1, <4>2, <4>3, <4>4, NextCases
      <4> QED
        BY <2>2, <4>6
    <3> QED
      BY <3>1, <3>2
  <2> QED
    BY <2>1, <2>2
<1>4. ASSUME Calm' PROVE SuccessEnters' /\ Owed' /\ LastArgument'
  <2>1. Calm /\ Whole /\ Sound /\ SuccessEnters /\ Owed /\ LastArgument
    BY <1>1, <1>2, <1>4, CalmBefore DEF BuiltInv, TreeInv, Whole, Tree
  <2> QED
    BY <1>1, <1>4, <2>1, SuccessStep, OwedStep, LastStep
<1> QED
  BY <1>1, <1>3, <1>4 DEF BuiltInv

(* Without an option among the arguments there is a name to take, or the   *)
(* working directory.                                                      *)
LEMMA SomeRound == ASSUME TypeOK, Orderly PROVE Rounds >= 1
<1>1. nargv \in CommandLines /\ \A j \in 1..Len(nargv) : nargv[j] # Flag
  BY DEF TypeOK, Orderly
<1>2. PICK n \in Nat : n = Len(nargv)
  BY <1>1, NamesFacts
<1>3. {j \in 1..Len(nargv) : nargv[j] # Flag} = 1..n
  BY <1>1, <1>2
<1>4. CASE Names # 0
  <2>1. n # 0
    BY <1>1, <1>2, <1>4, NamesFacts
  <2>2. Cardinality(1..n) = (IF 1 > n THEN 0 ELSE n - 1 + 1)
    BY FS_Interval
  <2>3. Names = n
    <3>1. Names = Cardinality(1..n)
      BY <1>3 DEF Names
    <3>2. ~(1 > n) /\ n - 1 + 1 = n
      BY <2>1
    <3> QED
      BY <2>2, <3>1, <3>2
  <2> QED
    BY <1>4, <2>1, <2>3 DEF Rounds
<1>5. CASE Names = 0
  BY <1>5 DEF Rounds
<1> QED
  BY <1>4, <1>5

(* A run whose last package succeeded has built it and the dependencies of *)
(* all it built (the lists of build_package and the joins under them).     *)
THEOREM AllIsBuilt == Spec => []EverythingBuilt
<1>1. ASSUME BuiltInv PROVE EverythingBuilt
  <2>1. SUFFICES ASSUME ended = "exit", Calm
                 PROVE  /\ DOMAIN calls = {} /\ (rc = 0 /\ Orderly => Entered(Arg(Rounds)))
                        /\ \A p \in Packages : Entered(p) => \A d \in Needed(p) : world.manifest[d] # 0 => Entered(d)
    BY DEF EverythingBuilt, Calm
  <2>2. TypeOK /\ Whole /\ main = Rounds /\ Owed /\ LastArgument
    BY <1>1, <2>1 DEF BuiltInv, TreeInv
  <2>3. DOMAIN calls = {}
    BY <2>1, <2>2 DEF Whole, Ended
  <2>4. rc = 0 /\ Orderly => Entered(Arg(Rounds))
    BY <2>1, <2>2, <2>3, SomeRound DEF LastArgument
  <2>5. ASSUME NEW p \in Packages, Entered(p), NEW d \in Needed(p), world.manifest[d] # 0 PROVE Entered(d)
    BY <2>2, <2>3, <2>5, NeededTyped DEF Owed
  <2> QED
    BY <2>3, <2>4, <2>5
<1>2. BuiltInv /\ [Next]_vars => BuiltInv'
  BY BuiltStep
<1>3. BuiltInv => EverythingBuilt
  BY <1>1
<1> QED
  BY <1>2, <1>3, BuiltStart, PTL DEF Spec

(***************************************************************************)
(* When no package is a dependency of two, one call at a time is at it.    *)
(***************************************************************************)
Unshared == Calm /\ \A p \in Packages : Cardinality({q \in Packages : p \in Needed(q)}) <= 1
Unsettled(k) ==
  /\ ~calls[k].slug
  /\ \/ calls[k].pc \in {"start", "check", "load", "make", "enter"}
     \/ calls[k].pc = "return" /\ calls[k].rc # 0 /\ calls[k].file = 1
Has(k) == world.manifest[calls[k].pkg]

MadeIsEntered ==
  \A p \in Packages : made[p] # 0 =>
    /\ made[p] = 1
    /\ \/ <<p, FALSE, world.manifest[p]>> \in built
       \/ \E k \in DOMAIN calls : calls[k].pkg = p /\ ~calls[k].slug /\ calls[k].pc = "enter"
OneAtIt ==
  \A k, q \in DOMAIN calls : Unsettled(k) /\ Unsettled(q) /\ calls[k].pkg = calls[q].pkg => k = q
NotYet(k) == ~calls[k].slug /\ calls[k].pc \in {"load", "make", "enter"} => Path(k) \notin built
Reads(k) ==
  ~calls[k].slug /\ calls[k].pkg \in Packages =>
    /\ calls[k].pc \in {"make", "enter", "deps"} => Has(k) = calls[k].file
    /\ calls[k].pc = "return" /\ calls[k].rc # 0 => Has(k) # calls[k].file
    /\ calls[k].file = 2 => Has(k) # 1
    /\ calls[k].pc = "done" /\ calls[k].rc # 0 => Has(k) = 0
OneListing ==
  \A k, q \in DOMAIN calls : calls[k].pc = "deps" /\ calls[q].pc = "deps" /\ calls[k].pkg = calls[q].pkg => k = q
Lists(k) == calls[k].pc = "deps" => Path(k) \in built /\ calls[k].todo \subseteq Needed(calls[k].pkg)
Slugs(k) == calls[k].slug => Len(k) = 1 /\ (calls[k].pkg \in Packages => Has(k) = 0)
Kids(k) ==
  \A q \in calls[k].kids : \E x \in Needed(calls[k].pkg) : q = Kid(k, x) /\ (q \in DOMAIN calls => calls[q].pkg = x)
EachCall == \A k \in DOMAIN calls : NotYet(k) /\ Reads(k) /\ Lists(k) /\ Slugs(k) /\ Kids(k)
Single == MadeIsEntered /\ OneAtIt /\ OneListing /\ EachCall
MadeInv == BuiltInv /\ (Unshared => Single)

LEMMA OneNeeder ==
  ASSUME Unshared, NEW p \in Packages, NEW q \in Packages, NEW r \in Packages, p \in Needed(q), p \in Needed(r)
  PROVE  q = r
<1> DEFINE S == {u \in Packages : p \in Needed(u)}
<1>1. IsFiniteSet(S) /\ q \in S /\ r \in S
  BY BuildAssumption, FS_Subset
<1>2. Cardinality(S) <= 1
  BY DEF Unshared
<1> HIDE DEF S
<1>3. Cardinality(S) \in Nat /\ Cardinality(S) # 0
  BY <1>1, FS_CardinalityType, FS_EmptySet
<1>4. Cardinality(S) = 1
  BY <1>2, <1>3
<1>5. \E u : S = {u}
  BY <1>1, <1>4, FS_Singleton
<1> QED
  BY <1>1, <1>5

LEMMA KidInjective ==
  ASSUME TypeOK, NEW k \in DOMAIN calls, NEW r \in DOMAIN calls, NEW x \in Packages, NEW y \in Packages,
         Kid(k, x) = Kid(r, y)
  PROVE  k = r /\ x = y
<1>1. k \in Seq(Steps) /\ r \in Seq(Steps)
  BY DEF TypeOK, Keys
<1>2. /\ <<x, calls[k].file, calls[k].phase>> \in Steps
      /\ <<y, calls[r].file, calls[r].phase>> \in Steps
  BY CallTyped DEF Steps, Calls
<1> DEFINE a == <<x, calls[k].file, calls[k].phase>>
           b == <<y, calls[r].file, calls[r].phase>>
<1>3. Append(k, a) = Append(r, b) /\ a \in Steps /\ b \in Steps
  BY <1>2 DEF Kid
<1>4. a = b => x = y
  OBVIOUS
<1> HIDE DEF a, b
<1>5. Len(k) = Len(r)
  <2>1. Len(Append(k, a)) = Len(k) + 1 /\ Len(Append(r, b)) = Len(r) + 1 /\ Len(k) \in Nat /\ Len(r) \in Nat
    BY <1>1, <1>3
  <2> QED
    BY <1>3, <2>1
<1>6. a = b
  <2>1. Append(k, a)[Len(k) + 1] = a /\ Append(r, b)[Len(r) + 1] = b
    BY <1>1, <1>3
  <2> QED
    BY <1>3, <1>5, <2>1
<1>7. k = r
  <2>1. k \in Keys /\ r \in Keys
    BY DEF TypeOK
  <2>2. Upto(k, Len(k)) = k /\ Upto(r, Len(r)) = r /\ Len(k) \in 1..Len(k)
    BY <2>1, UptoAll
  <2>3. Upto(Append(k, a), Len(k)) = Upto(k, Len(k)) /\ Upto(Append(r, b), Len(k)) = Upto(r, Len(k))
    BY <1>3, <1>5, <2>1, <2>2, UptoAppend
  <2> QED
    BY <1>3, <1>5, <2>2, <2>3
<1> QED
  BY <1>4, <1>6, <1>7

LEMMA UnsettledLocal == ASSUME TypeOK, Sound, NEW k \in DOMAIN calls, Local(k), Unsettled(k)' PROVE Unsettled(k)
<1>1. calls'[k].slug = calls[k].slug
  BY LocalFacts DEF Keeps
<1>2. CASE Start(k)
  BY <1>1, <1>2, StartFacts DEF Unsettled
<1>3. CASE Check(k)
  BY <1>1, <1>3, CheckFacts DEF Unsettled, Becomes
<1>4. CASE Load(k)
  BY <1>1, <1>4, LoadFacts DEF Unsettled, Becomes
<1>5. CASE Make(k)
  BY <1>1, <1>5, MakeFacts DEF Unsettled, Becomes
<1>6. CASE Enter(k)
  BY <1>1, <1>6, EnterFacts DEF Unsettled, Becomes
<1>7. CASE LoopEnds(k)
  BY <1>1, <1>7, LoopEndsFacts DEF Unsettled, Becomes, Sound
<1>8. CASE Return(k)
  BY <1>1, <1>8, ReturnFacts DEF Unsettled, Becomes
<1> QED
  BY <1>2, <1>3, <1>4, <1>5, <1>6, <1>7, <1>8 DEF Local

(* What the manifest is called, as far as the call has tried.              *)
LEMMA ReadsLocal ==
  ASSUME TypeOK, Sound, NEW k \in DOMAIN calls, Local(k), Reads(k) PROVE Reads(k)'
<1>1. /\ calls'[k].pkg = calls[k].pkg /\ calls'[k].slug = calls[k].slug /\ Has(k)' = Has(k)
      /\ calls[k].file \in {1, 2}
  BY LocalFacts, GivenKept, CallTyped DEF Keeps, Has, Calls
<1>2. SUFFICES ASSUME ~calls[k].slug, calls[k].pkg \in Packages
               PROVE  /\ calls'[k].pc \in {"make", "enter", "deps"} => Has(k) = calls'[k].file
                      /\ calls'[k].pc = "return" /\ calls'[k].rc # 0 => Has(k) # calls'[k].file
                      /\ calls'[k].file = 2 => Has(k) # 1
                      /\ calls'[k].pc = "done" /\ calls'[k].rc # 0 => Has(k) = 0
  BY <1>1 DEF Reads
<1>3. /\ calls[k].pc \in {"make", "enter", "deps"} => Has(k) = calls[k].file
      /\ calls[k].pc = "return" /\ calls[k].rc # 0 => Has(k) # calls[k].file
      /\ calls[k].file = 2 => Has(k) # 1
  BY <1>2 DEF Reads
<1>4. Has(k) \in {0, 1, 2}
  BY <1>2, NeededTyped DEF Has
<1>5. CASE Start(k)
  BY <1>3, <1>5, StartFacts DEF Becomes
<1>6. CASE Check(k)
  BY <1>3, <1>6, CheckFacts DEF Becomes
<1>7. CASE Load(k)
  <2>1. Found(k) <=> Has(k) = calls[k].file
    BY <1>2, BuildAssumption DEF Found, Has
  <2> QED
    BY <1>3, <1>7, <2>1, LoadFacts DEF Becomes
<1>8. CASE Make(k)
  BY <1>3, <1>8, MakeFacts DEF Becomes
<1>9. CASE Enter(k)
  BY <1>3, <1>9, EnterFacts DEF Becomes
<1>10. CASE LoopEnds(k)
  BY <1>3, <1>10, LoopEndsFacts DEF Becomes, Sound
<1>11. CASE Return(k)
  <2>1. CASE calls[k].rc # 0 /\ calls[k].file = 1
    BY <1>3, <1>11, <2>1, ReturnFacts DEF Becomes
  <2>2. CASE ~(calls[k].rc # 0 /\ calls[k].file = 1)
    BY <1>1, <1>3, <1>4, <1>11, <2>2, ReturnFacts DEF Becomes
  <2> QED
    BY <2>1, <2>2
<1> QED
  BY <1>5, <1>6, <1>7, <1>8, <1>9, <1>10, <1>11 DEF Local

LEMMA EnterLocal ==
  ASSUME TypeOK, NEW k \in DOMAIN calls, Local(k), built' # built \/ calls[k].pc = "enter"
  PROVE  Enter(k) /\ built' = built \cup {Path(k)}
<1>1. calls[k].pc = "enter"
  BY LocalFacts
<1>2. Enter(k)
  BY <1>1 DEF Local, Start, Check, Load, Make, LoopEnds, AtDeps, Return
<1> QED
  BY <1>2, EnterFacts

(* Between its look-up and its entry no other call enters the path of k.   *)
LEMMA NotYetLocal ==
  ASSUME TypeOK, OneAtIt, EachCall, NEW k \in DOMAIN calls, Local(k), NEW q \in DOMAIN calls PROVE NotYet(q)'
<1>1. /\ \A r \in DOMAIN calls : r # k => calls'[r] = calls[r]
      /\ calls'[k].pkg = calls[k].pkg /\ calls'[k].slug = calls[k].slug
  BY LocalFacts DEF Keeps
<1>2. CASE q # k
  <2>1. CASE built' = built
    BY <1>1, <1>2, <2>1 DEF EachCall, NotYet, Path
  <2>2. CASE built' # built
    <3>1. Enter(k) /\ built' = built \cup {Path(k)} /\ calls[k].pc = "enter"
      BY <2>2, EnterLocal, LocalFacts
    <3>2. calls'[q] = calls[q] /\ Path(q)' = Path(q)
      BY <1>1, <1>2 DEF Path
    <3>3. SUFFICES ASSUME ~calls[q].slug, calls[q].pc \in {"load", "make", "enter"}, Path(q) = Path(k) PROVE FALSE
      BY <3>1, <3>2 DEF EachCall, NotYet
    <3>4. calls[q].pkg = calls[k].pkg /\ calls[q].slug = calls[k].slug
      BY <3>3 DEF Path
    <3>5. Unsettled(q) /\ Unsettled(k)
      BY <3>1, <3>3, <3>4 DEF Unsettled
    <3> QED
      BY <1>2, <3>4, <3>5 DEF OneAtIt
  <2> QED
    BY <2>1, <2>2
<1>3. CASE q = k
  <2>1. NotYet(k)
    BY DEF EachCall
  <2>2. CASE Start(k)
    BY <1>3, <2>2, StartFacts DEF NotYet, Becomes
  <2>3. CASE Check(k)
    BY <1>1, <1>3, <2>3, CheckFacts DEF NotYet, Becomes, Path
  <2>4. CASE Load(k)
    BY <1>1, <1>3, <2>1, <2>4, LoadFacts DEF NotYet, Becomes, Path
  <2>5. CASE Make(k)
    BY <1>1, <1>3, <2>1, <2>5, MakeFacts DEF NotYet, Becomes, Path
  <2>6. CASE Enter(k)
    BY <1>3, <2>6, EnterFacts DEF NotYet, Becomes
  <2>7. CASE LoopEnds(k)
    BY <1>3, <2>7, LoopEndsFacts DEF NotYet, Becomes
  <2>8. CASE Return(k)
    BY <1>3, <2>8, ReturnFacts DEF NotYet, Becomes
  <2> QED
    BY <2>2, <2>3, <2>4, <2>5, <2>6, <2>7, <2>8 DEF Local
<1> QED
  BY <1>2, <1>3

LEMMA ListsLocal ==
  ASSUME TypeOK, NEW k \in DOMAIN calls, Local(k), Lists(k) PROVE Lists(k)'
<1>1. /\ calls'[k].pkg = calls[k].pkg /\ calls'[k].slug = calls[k].slug /\ built \subseteq built'
      /\ world' = world /\ dev' = dev
  BY LocalFacts, GivenKept DEF Keeps
<1>2. Needed(calls[k].pkg)' = Needed(calls[k].pkg)
  BY <1>1 DEF Needed
<1>3. CASE Enter(k)
  <2>1. /\ Path(k) \in built' /\ calls'[k].todo = world.deps[calls[k].pkg] /\ calls'[k].file = calls[k].file
    BY <1>3, EnterFacts DEF Becomes
  <2> QED
    BY <1>1, <1>2, <2>1 DEF Lists, Needed, Path
<1>4. CASE LoopEnds(k)
  <2>1. calls[k].pc = "deps" /\ calls'[k].file = calls[k].file
    BY <1>4, LoopEndsFacts DEF Becomes
  <2>2. calls'[k].pc = "deps" => dev /\ calls'[k].todo = Development[calls[k].pkg]
    BY <1>4, LoopEndsFacts DEF Becomes
  <2> QED
    BY <1>1, <1>2, <2>1, <2>2 DEF Lists, Needed, Path
<1>5. CASE ~Enter(k) /\ ~LoopEnds(k)
  <2>1. calls'[k].pc # "deps"
    <3>1. CASE Start(k)
      BY <3>1, StartFacts DEF Becomes
    <3>2. CASE Check(k)
      BY <3>2, CheckFacts DEF Becomes
    <3>3. CASE Load(k)
      BY <3>3, LoadFacts DEF Becomes
    <3>4. CASE Make(k)
      BY <3>4, MakeFacts DEF Becomes
    <3>5. CASE Return(k)
      BY <3>5, ReturnFacts DEF Becomes
    <3> QED
      BY <1>5, <3>1, <3>2, <3>3, <3>4, <3>5 DEF Local
  <2> QED
    BY <2>1 DEF Lists
<1> QED
  BY <1>3, <1>4, <1>5

LEMMA ListingStarts ==
  ASSUME TypeOK, NEW k \in DOMAIN calls, Local(k), calls'[k].pc = "deps"
  PROVE  calls[k].pc = "deps" \/ Enter(k)
<1>1. CASE Start(k)
  BY <1>1, StartFacts DEF Becomes
<1>2. CASE Check(k)
  BY <1>2, CheckFacts DEF Becomes
<1>3. CASE Load(k)
  BY <1>3, LoadFacts DEF Becomes
<1>4. CASE Make(k)
  BY <1>4, MakeFacts DEF Becomes
<1>5. CASE Return(k)
  BY <1>5, ReturnFacts DEF Becomes
<1>6. CASE LoopEnds(k)
  BY <1>6, LoopEndsFacts
<1> QED
  BY <1>1, <1>2, <1>3, <1>4, <1>5, <1>6 DEF Local

LEMMA OneListingLocal ==
  ASSUME TypeOK, Whole, Single, NEW k \in DOMAIN calls, Local(k) PROVE OneListing'
<1>1. /\ DOMAIN calls' = DOMAIN calls /\ \A q \in DOMAIN calls : q # k => calls'[q] = calls[q]
      /\ calls'[k].pkg = calls[k].pkg
  BY LocalFacts DEF Keeps
<1>2. ASSUME Enter(k), NEW q \in DOMAIN calls, q # k, calls[q].pc = "deps", calls[q].pkg = calls[k].pkg
      PROVE  FALSE
  <2>1. calls[k].pc = "enter" /\ calls[k].pkg \in Packages /\ calls[q].slug \in BOOLEAN /\ calls[k].slug \in BOOLEAN
        /\ calls[k].file \in {1, 2}
    BY <1>2, EnterFacts, CallTyped DEF TypeOK, Calls
  <2>2. NotYet(k) /\ Reads(k) /\ Slugs(k) /\ Lists(q) /\ Reads(q) /\ Slugs(q)
    BY <1>2 DEF Single, EachCall
  <2>3. Has(q) = Has(k)
    BY <1>2 DEF Has
  <2>4. CASE calls[k].slug
    <3>1. Len(k) = 1 /\ calls[k].pc # "deps"
      BY <2>1, <2>2, <2>4 DEF Slugs
    <3>2. DOMAIN calls = {k}
      BY <3>1, OnlyTheRoot DEF Whole, Tree
    <3> QED
      BY <1>2, <3>2
  <2>5. CASE ~calls[k].slug /\ calls[q].slug
    <3>1. Has(q) = 0
      BY <1>2, <2>1, <2>2, <2>5 DEF Slugs
    <3>2. Has(k) = calls[k].file
      BY <2>1, <2>2, <2>5 DEF Reads
    <3>3. calls[k].file = 0
      BY <2>3, <3>1, <3>2
    <3> QED
      BY <2>1, <3>3
  <2>6. CASE ~calls[k].slug /\ ~calls[q].slug
    <3>1. Has(k) = calls[k].file /\ Has(q) = calls[q].file
      BY <1>2, <2>1, <2>2, <2>6 DEF Reads
    <3>2. calls[k].slug = FALSE /\ calls[q].slug = FALSE
      BY <2>1, <2>6
    <3>3. Path(k) = Path(q)
      BY <1>2, <2>3, <3>1, <3>2 DEF Path
    <3>4. Path(k) \notin built /\ Path(q) \in built
      BY <1>2, <2>1, <2>2, <2>6 DEF NotYet, Lists
    <3> QED
      BY <3>3, <3>4
  <2> QED
    BY <2>4, <2>5, <2>6
<1>3. ASSUME NEW q \in DOMAIN calls, q # k, calls'[k].pc = "deps", calls[q].pc = "deps", calls[q].pkg = calls[k].pkg
      PROVE  FALSE
  <2>1. calls[k].pc = "deps" \/ Enter(k)
    BY <1>3, ListingStarts
  <2> QED
    BY <1>2, <1>3, <2>1 DEF Single, OneListing
<1> QED
  BY <1>1, <1>3 DEF Single, OneListing

LEMMA MadeLocal ==
  ASSUME TypeOK, Single, NEW k \in DOMAIN calls, Local(k) PROVE MadeIsEntered'
<1>1. /\ DOMAIN calls' = DOMAIN calls /\ \A q \in DOMAIN calls : q # k => calls'[q] = calls[q]
      /\ calls'[k].pkg = calls[k].pkg /\ calls'[k].slug = calls[k].slug /\ built \subseteq built' /\ world' = world
  BY LocalFacts, GivenKept DEF Keeps
<1>2. made \in [Packages -> Nat] /\ calls[k].slug \in BOOLEAN
  BY CallTyped DEF TypeOK, Calls
<1>3. SUFFICES ASSUME NEW p \in Packages, made'[p] # 0
               PROVE  /\ made'[p] = 1
                      /\ \/ <<p, FALSE, world.manifest[p]>> \in built'
                         \/ \E q \in DOMAIN calls : calls'[q].pkg = p /\ ~calls'[q].slug /\ calls'[q].pc = "enter"
  <2>1. DOMAIN calls' = DOMAIN calls /\ world' = world
    BY <1>1
  <2> QED
    BY <2>1 DEF MadeIsEntered
<1>4. CASE made' = made
  <2>1. made[p] = 1
    BY <1>3, <1>4 DEF Single, MadeIsEntered
  <2>2. CASE <<p, FALSE, world.manifest[p]>> \in built
    BY <1>1, <1>4, <2>1, <2>2
  <2>3. CASE \E q \in DOMAIN calls : calls[q].pkg = p /\ ~calls[q].slug /\ calls[q].pc = "enter"
    <3>1. PICK q \in DOMAIN calls : calls[q].pkg = p /\ ~calls[q].slug /\ calls[q].pc = "enter"
      BY <2>3
    <3>2. CASE q # k
      BY <1>1, <1>4, <2>1, <3>1, <3>2
    <3>3. CASE q = k
      <4>1. built' = built \cup {Path(k)}
        BY <3>1, <3>3, EnterLocal
      <4>2. Reads(k) /\ calls[k].slug = FALSE
        BY <1>2, <3>1, <3>3 DEF Single, EachCall
      <4>3. Path(k) = <<p, FALSE, world.manifest[p]>>
        BY <3>1, <3>3, <4>2 DEF Reads, Has, Path
      <4> QED
        BY <1>4, <2>1, <4>1, <4>3
    <3> QED
      BY <3>2, <3>3
  <2> QED
    BY <1>3, <1>4, <2>2, <2>3 DEF Single, MadeIsEntered
<1>5. CASE made' # made
  <2>1. calls[k].pc = "make" /\ made' = [made EXCEPT ![calls[k].pkg] = @ + 1] /\ calls[k].pkg \in Packages
    BY <1>5, LocalFacts DEF TypeOK
  <2>2. Make(k)
    BY <2>1 DEF Local, Start, Check, Load, Enter, LoopEnds, AtDeps, Return
  <2>3. ~calls[k].slug /\ calls'[k].pc = "enter" /\ built' = built
    BY <1>5, <2>2, MakeFacts DEF Becomes
  <2>4. CASE p # calls[k].pkg
    <3>1. made'[p] = made[p]
      BY <1>2, <2>1, <2>4
    <3>2. CASE <<p, FALSE, world.manifest[p]>> \in built
      BY <1>1, <1>3, <3>1, <3>2 DEF Single, MadeIsEntered
    <3>3. CASE \E q \in DOMAIN calls : calls[q].pkg = p /\ ~calls[q].slug /\ calls[q].pc = "enter"
      BY <1>1, <1>3, <2>4, <3>1, <3>3 DEF Single, MadeIsEntered
    <3> QED
      BY <1>3, <3>1, <3>2, <3>3 DEF Single, MadeIsEntered
  <2>5. CASE p = calls[k].pkg
    <3>1. made'[p] = made[p] + 1
      BY <1>2, <2>1, <2>5
    <3>2. made[p] = 0
      <4>1. SUFFICES ASSUME made[p] # 0 PROVE FALSE
        OBVIOUS
      <4>2. CASE <<p, FALSE, world.manifest[p]>> \in built
        <5>1. NotYet(k) /\ Reads(k) /\ calls[k].slug = FALSE
          BY <1>2, <2>3 DEF Single, EachCall
        <5>2. Path(k) = <<p, FALSE, world.manifest[p]>>
          BY <2>1, <2>5, <5>1 DEF Reads, Has, Path
        <5> QED
          BY <2>1, <2>3, <4>2, <5>1, <5>2 DEF NotYet
      <4>3. CASE \E q \in DOMAIN calls : calls[q].pkg = p /\ ~calls[q].slug /\ calls[q].pc = "enter"
        <5>1. PICK q \in DOMAIN calls : calls[q].pkg = p /\ ~calls[q].slug /\ calls[q].pc = "enter"
          BY <4>3
        <5>2. Unsettled(q) /\ Unsettled(k)
          BY <2>1, <2>3, <5>1 DEF Unsettled
        <5> QED
          BY <2>1, <2>5, <5>1, <5>2 DEF Single, OneAtIt
      <4> QED
        BY <4>1, <4>2, <4>3 DEF Single, MadeIsEntered
    <3> QED
      BY <1>1, <2>3, <2>5, <3>1, <3>2
  <2> QED
    BY <2>4, <2>5
<1> QED
  BY <1>4, <1>5

LEMMA KidsOfOthers ==
  ASSUME TypeOK, UNCHANGED given, NEW q \in DOMAIN calls, Kids(q), calls'[q] = calls[q],
         \A r \in calls[q].kids : r \in DOMAIN calls' => r \in DOMAIN calls /\ calls'[r].pkg = calls[r].pkg
  PROVE  Kids(q)'
<1>1. Needed(calls[q].pkg)' = Needed(calls[q].pkg) /\ \A x : Kid(q, x)' = Kid(q, x)
  BY GivenKept DEF Needed, Kid
<1> QED
  BY <1>1 DEF Kids

LEMMA SingleLocal ==
  ASSUME TypeOK, TypeOK', Whole, Single, NEW k \in DOMAIN calls, Local(k) PROVE Single'
<1>1. /\ DOMAIN calls' = DOMAIN calls /\ \A q \in DOMAIN calls : q # k => calls'[q] = calls[q]
      /\ calls'[k].pkg = calls[k].pkg /\ calls'[k].slug = calls[k].slug /\ calls'[k].kids = calls[k].kids
      /\ built \subseteq built' /\ world' = world /\ dev' = dev /\ UNCHANGED given
  BY LocalFacts, GivenKept DEF Keeps
<1>2. calls[k].kids = {}
  <2>1. CASE LoopEnds(k)
    BY <2>1, LoopEndsFacts
  <2>2. CASE ~LoopEnds(k)
    BY <2>2 DEF Local, Start, Check, Load, Make, Enter, Return, Quiet, Whole, Tree
  <2> QED
    BY <2>1, <2>2
<1>3. OneAtIt'
  <2>1. \A q \in DOMAIN calls : Unsettled(q)' => Unsettled(q)
    <3>1. \A q \in DOMAIN calls : q # k => (Unsettled(q)' => Unsettled(q))
      BY <1>1 DEF Unsettled
    <3> QED
      BY <3>1, UnsettledLocal DEF Whole, Tree
  <2>2. \A q \in DOMAIN calls : calls'[q].pkg = calls[q].pkg
    BY <1>1
  <2> QED
    BY <1>1, <2>1, <2>2 DEF Single, OneAtIt
<1>4. ASSUME NEW q \in DOMAIN calls PROVE Reads(q)' /\ Lists(q)' /\ Slugs(q)' /\ Kids(q)'
  <2>1. Reads(q) /\ Lists(q) /\ Slugs(q) /\ Kids(q)
    BY DEF Single, EachCall
  <2>2. CASE q = k
    <3>1. Slugs(k)'
      BY <1>1, <2>1, <2>2 DEF Slugs, Has
    <3>2. Kids(k)'
      BY <1>1, <1>2 DEF Kids
    <3> QED
      BY <2>1, <2>2, <3>1, <3>2, ReadsLocal, ListsLocal DEF Whole, Tree
  <2>3. CASE q # k
    <3>1. calls'[q] = calls[q]
      BY <1>1, <2>3
    <3>2. Needed(calls[q].pkg)' = Needed(calls[q].pkg) /\ Path(q)' = Path(q) /\ Has(q)' = Has(q)
      BY <1>1, <3>1 DEF Needed, Path, Has
    <3>3. Reads(q)' /\ Lists(q)' /\ Slugs(q)'
      BY <1>1, <2>1, <3>1, <3>2 DEF Reads, Lists, Slugs
    <3>4. \A r \in DOMAIN calls : calls'[r].pkg = calls[r].pkg
      BY <1>1
    <3>5. Kids(q)'
      BY <1>1, <2>1, <3>1, <3>4, KidsOfOthers
    <3> QED
      BY <3>3, <3>5
  <2> QED
    BY <2>2, <2>3
<1>5. \A q \in DOMAIN calls : NotYet(q)'
  BY NotYetLocal DEF Single
<1>6. EachCall'
  BY <1>1, <1>4, <1>5 DEF EachCall
<1> QED
  BY <1>3, <1>6, OneListingLocal, MadeLocal DEF Single

(* Nobody else is at a dependency that k has still to come to.             *)
LEMMA NobodyAtIt ==
  ASSUME TypeOK, Unshared, Whole, Single, NEW k \in DOMAIN calls, NEW x \in Packages, Create(k, x),
         NEW q \in DOMAIN calls, Unsettled(q), calls[q].pkg = x
  PROVE  FALSE
<1> USE DEF Whole, Ended, Tree
<1>1. calls[k].pc = "deps" /\ x \in calls[k].todo /\ calls[k].pkg \in Packages /\ calls[q].pc # "deps"
  BY CreateFacts DEF TypeOK, Unsettled
<1>2. x \in Needed(calls[k].pkg)
  BY <1>1 DEF Single, EachCall, Lists
<1>3. CASE Len(q) = 1
  <2>1. DOMAIN calls = {q}
    BY <1>1, <1>3, OnlyTheRoot
  <2> QED
    BY <1>1, <2>1
<1>4. CASE Len(q) # 1
  <2>1. PICK r \in DOMAIN calls : calls[r].pc = "deps" /\ q \in calls[r].kids
    BY <1>4, MadeByOne
  <2>2. PICK y \in Needed(calls[r].pkg) : q = Kid(r, y) /\ calls[q].pkg = y
    BY <2>1 DEF Single, EachCall, Kids
  <2>3. y = x /\ calls[r].pkg \in Packages
    BY <2>1, <2>2 DEF TypeOK
  <2>4. calls[r].pkg = calls[k].pkg
    BY <1>1, <1>2, <2>2, <2>3, OneNeeder
  <2>5. r = k
    BY <1>1, <2>1, <2>4 DEF Single, OneListing
  <2> QED
    BY <1>1, <2>1, <2>2, <2>3, <2>5 DEF Fresh
<1> QED
  BY <1>3, <1>4

LEMMA SingleCreate ==
  ASSUME TypeOK, TypeOK', Unshared, Whole, Single, NEW k \in DOMAIN calls, NEW x \in Packages, Create(k, x) PROVE Single'
<1>0. PICK kid : kid = Kid(k, x)
  OBVIOUS
<1>1. /\ DOMAIN calls' = DOMAIN calls \cup {kid} /\ calls'[kid] = Call(x, FALSE, "start") /\ built' = built /\ made' = made
      /\ calls[k].pc = "deps" /\ x \in calls[k].todo /\ calls'[k].pkg = calls[k].pkg /\ calls'[k].slug = calls[k].slug
      /\ calls'[k].kids = calls[k].kids \cup {kid} /\ UNCHANGED given /\ kid # k
  BY <1>0, CreateFacts
<1>2. kid \notin DOMAIN calls
  BY <1>0, KidIsNew DEF Whole, Tree
<1>3. \A q \in DOMAIN calls : q # k => calls'[q] = calls[q]
  <2>1. \A q \in DOMAIN calls : q # k /\ q # Kid(k, x) => calls'[q] = calls[q]
    BY CreateFacts
  <2> QED
    BY <1>0, <1>2, <2>1
<1>4. /\ calls'[k].pc = "deps" /\ calls'[k].file = calls[k].file /\ calls'[k].phase = calls[k].phase
      /\ calls'[k].todo = calls[k].todo \ {x}
  BY CreateFacts DEF Becomes
<1>5. world' = world /\ dev' = dev
  BY <1>1, GivenKept
<1>6. /\ calls'[kid].pkg = x /\ calls'[kid].slug = FALSE /\ calls'[kid].pc = "start" /\ calls'[kid].kids = {}
      /\ calls'[kid].file = 1
  BY <1>1 DEF Call
<1>7. OneAtIt'
  <2>1. \A q \in DOMAIN calls : Unsettled(q)' => Unsettled(q) /\ q # k
    BY <1>3, <1>4 DEF Unsettled
  <2>2. \A q \in DOMAIN calls : Unsettled(q)' => calls[q].pkg # x /\ calls'[q].pkg = calls[q].pkg
    BY <1>3, <2>1, NobodyAtIt
  <2> QED
    BY <1>1, <1>6, <2>1, <2>2 DEF Single, OneAtIt
<1>8. OneListing'
  BY <1>1, <1>3, <1>6 DEF Single, OneListing
<1>9. MadeIsEntered'
  <2>1. SUFFICES ASSUME NEW p \in Packages, made[p] # 0
                 PROVE  /\ made[p] = 1
                        /\ \/ <<p, FALSE, world.manifest[p]>> \in built
                           \/ \E q \in DOMAIN calls' : calls'[q].pkg = p /\ ~calls'[q].slug /\ calls'[q].pc = "enter"
    BY <1>1, <1>5 DEF MadeIsEntered
  <2>2. CASE \E q \in DOMAIN calls : calls[q].pkg = p /\ ~calls[q].slug /\ calls[q].pc = "enter"
    <3>1. PICK q \in DOMAIN calls : calls[q].pkg = p /\ ~calls[q].slug /\ calls[q].pc = "enter"
      BY <2>2
    <3>2. q \in DOMAIN calls' /\ calls'[q] = calls[q]
      BY <1>1, <1>3, <3>1
    <3> QED
      BY <2>1, <3>1, <3>2 DEF Single, MadeIsEntered
  <2> QED
    BY <2>1, <2>2 DEF Single, MadeIsEntered
<1>10. ASSUME NEW q \in DOMAIN calls, q # k
       PROVE  NotYet(q)' /\ Reads(q)' /\ Lists(q)' /\ Slugs(q)' /\ Kids(q)'
  <2>1. NotYet(q) /\ Reads(q) /\ Lists(q) /\ Slugs(q) /\ Kids(q) /\ calls'[q] = calls[q]
    BY <1>3, <1>10 DEF Single, EachCall
  <2>2. Needed(calls[q].pkg)' = Needed(calls[q].pkg) /\ Path(q)' = Path(q) /\ Has(q)' = Has(q)
    BY <1>5, <2>1 DEF Needed, Path, Has
  <2>3. NotYet(q)' /\ Reads(q)' /\ Lists(q)' /\ Slugs(q)'
    BY <1>1, <2>1, <2>2 DEF NotYet, Reads, Lists, Slugs
  <2>4. kid \notin calls[q].kids
    <3>1. SUFFICES ASSUME kid \in calls[q].kids PROVE FALSE
      OBVIOUS
    <3>2. PICK y \in Needed(calls[q].pkg) : kid = Kid(q, y)
      BY <2>1, <3>1 DEF Kids
    <3>3. calls[q].pkg \in Packages
      <4>1. calls[q].pc = "deps"
        BY <3>1 DEF Whole, Tree, Quiet
      <4> QED
        BY <4>1 DEF TypeOK
    <3>4. y \in Packages
      BY <3>2, <3>3, NeededTyped
    <3> QED
      BY <1>0, <1>10, <3>2, <3>4, KidInjective
  <2>5. \A r \in DOMAIN calls : calls'[r].pkg = calls[r].pkg
    BY <1>1, <1>3
  <2>6. \A r \in calls[q].kids : r \in DOMAIN calls' => r \in DOMAIN calls /\ calls'[r].pkg = calls[r].pkg
    BY <1>1, <2>4, <2>5
  <2>7. Kids(q)'
    BY <1>1, <2>1, <2>6, KidsOfOthers
  <2> QED
    BY <2>3, <2>7
<1>11. NotYet(k)' /\ Reads(k)' /\ Lists(k)' /\ Slugs(k)' /\ Kids(k)'
  <2>1. Reads(k) /\ Lists(k) /\ Slugs(k) /\ Kids(k)
    BY DEF Single, EachCall
  <2>2. Needed(calls[k].pkg)' = Needed(calls[k].pkg) /\ Path(k)' = Path(k) /\ Has(k)' = Has(k)
    BY <1>1, <1>4, <1>5 DEF Needed, Path, Has
  <2>3. NotYet(k)'
    BY <1>4 DEF NotYet
  <2>4. Reads(k)'
    BY <1>1, <1>4, <2>1, <2>2 DEF Reads
  <2>5. Lists(k)' /\ Slugs(k)'
    BY <1>1, <1>4, <2>1, <2>2 DEF Lists, Slugs
  <2>6. \A y : Kid(k, y)' = Kid(k, y)
    BY <1>4 DEF Kid
  <2>7. x \in Needed(calls[k].pkg)
    BY <1>1, <2>1 DEF Lists
  <2>8. \A q \in DOMAIN calls : calls'[q].pkg = calls[q].pkg
    BY <1>1, <1>3
  <2>9. ASSUME NEW q \in calls'[k].kids
        PROVE  \E y \in Needed(calls[k].pkg) : q = Kid(k, y) /\ (q \in DOMAIN calls' => calls'[q].pkg = y)
    <3>1. CASE q = kid
      BY <1>0, <1>6, <2>7, <3>1
    <3>2. CASE q # kid
      <4>1. q \in calls[k].kids
        BY <1>1, <2>9, <3>2
      <4>2. PICK y \in Needed(calls[k].pkg) : q = Kid(k, y) /\ (q \in DOMAIN calls => calls[q].pkg = y)
        BY <2>1, <4>1 DEF Kids
      <4> QED
        BY <1>1, <2>8, <3>2, <4>2
    <3> QED
      BY <3>1, <3>2
  <2>10. Kids(k)'
    BY <2>2, <2>6, <2>9 DEF Kids
  <2> QED
    BY <2>3, <2>4, <2>5, <2>10
<1>12. NotYet(kid)' /\ Reads(kid)' /\ Lists(kid)' /\ Slugs(kid)' /\ Kids(kid)'
  BY <1>6 DEF NotYet, Reads, Lists, Slugs, Kids
<1>13. EachCall'
  BY <1>1, <1>10, <1>11, <1>12 DEF EachCall
<1> QED
  BY <1>7, <1>8, <1>9, <1>13 DEF Single

LEMMA SingleJoin ==
  ASSUME TypeOK, TypeOK', Single, NEW k \in DOMAIN calls, JoinAll(k) PROVE Single'
<1>1. /\ \A q \in calls[k].kids : calls[q].pc = "done"
      /\ DOMAIN calls' = DOMAIN calls \ calls[k].kids /\ k \in DOMAIN calls' /\ calls'[k].kids = {}
      /\ \A q \in DOMAIN calls' : q # k => calls'[q] = calls[q]
      /\ calls[k].pc = "deps" /\ calls'[k].pkg = calls[k].pkg /\ calls'[k].slug = calls[k].slug
      /\ built' = built /\ made' = made /\ UNCHANGED given
  BY JoinFacts
<1>2. /\ calls'[k].pc = calls[k].pc /\ calls'[k].file = calls[k].file /\ calls'[k].todo = calls[k].todo
      /\ calls'[k].phase = calls[k].phase
  BY <1>1, JoinFacts DEF Becomes
<1>3. world' = world /\ dev' = dev
  BY <1>1, GivenKept
<1>4. \A q \in DOMAIN calls' : q \in DOMAIN calls /\ calls'[q].pkg = calls[q].pkg /\ calls'[q].pc = calls[q].pc
  BY <1>1, <1>2
<1>5. OneAtIt'
  <2>1. \A q \in DOMAIN calls' : Unsettled(q)' => Unsettled(q)
    BY <1>1, <1>2 DEF Unsettled
  <2> QED
    BY <1>4, <2>1 DEF Single, OneAtIt
<1>6. OneListing'
  BY <1>4 DEF Single, OneListing
<1>7. MadeIsEntered'
  <2>1. SUFFICES ASSUME NEW p \in Packages, made[p] # 0
                 PROVE  /\ made[p] = 1
                        /\ \/ <<p, FALSE, world.manifest[p]>> \in built
                           \/ \E q \in DOMAIN calls' : calls'[q].pkg = p /\ ~calls'[q].slug /\ calls'[q].pc = "enter"
    BY <1>1, <1>3 DEF MadeIsEntered
  <2>2. CASE \E q \in DOMAIN calls : calls[q].pkg = p /\ ~calls[q].slug /\ calls[q].pc = "enter"
    <3>1. PICK q \in DOMAIN calls : calls[q].pkg = p /\ ~calls[q].slug /\ calls[q].pc = "enter"
      BY <2>2
    <3>2. q \in DOMAIN calls' /\ calls'[q] = calls[q]
      BY <1>1, <3>1
    <3> QED
      BY <2>1, <3>1, <3>2 DEF Single, MadeIsEntered
  <2> QED
    BY <2>1, <2>2 DEF Single, MadeIsEntered
<1>8. ASSUME NEW q \in DOMAIN calls', q # k
      PROVE  NotYet(q)' /\ Reads(q)' /\ Lists(q)' /\ Slugs(q)' /\ Kids(q)'
  <2>1. /\ q \in DOMAIN calls /\ NotYet(q) /\ Reads(q) /\ Lists(q) /\ Slugs(q) /\ Kids(q) /\ calls'[q] = calls[q]
    BY <1>1, <1>8 DEF Single, EachCall
  <2>2. Needed(calls[q].pkg)' = Needed(calls[q].pkg) /\ Path(q)' = Path(q) /\ Has(q)' = Has(q)
    BY <1>3, <2>1 DEF Needed, Path, Has
  <2>3. NotYet(q)' /\ Reads(q)' /\ Lists(q)' /\ Slugs(q)'
    BY <1>1, <2>1, <2>2 DEF NotYet, Reads, Lists, Slugs
  <2>4. Kids(q)'
    BY <1>1, <1>4, <2>1, KidsOfOthers
  <2> QED
    BY <2>3, <2>4
<1>9. NotYet(k)' /\ Reads(k)' /\ Lists(k)' /\ Slugs(k)' /\ Kids(k)'
  <2>1. Reads(k) /\ Lists(k) /\ Slugs(k)
    BY DEF Single, EachCall
  <2>2. Needed(calls[k].pkg)' = Needed(calls[k].pkg) /\ Path(k)' = Path(k) /\ Has(k)' = Has(k)
    BY <1>1, <1>2, <1>3 DEF Needed, Path, Has
  <2>3. NotYet(k)' /\ Kids(k)'
    BY <1>1, <1>2 DEF NotYet, Kids
  <2>4. Reads(k)'
    BY <1>1, <1>2, <2>1, <2>2 DEF Reads
  <2>5. Lists(k)' /\ Slugs(k)'
    BY <1>1, <1>2, <2>1, <2>2 DEF Lists, Slugs
  <2> QED
    BY <2>3, <2>4, <2>5
<1>10. EachCall'
  BY <1>8, <1>9 DEF EachCall
<1> QED
  BY <1>5, <1>6, <1>7, <1>10 DEF Single

(* Only the root is left, which has just begun.                            *)
LEMMA SingleBegins ==
  ASSUME TypeOK, Single, \A q \in DOMAIN calls : calls[q].pc = "done", built' = built, made' = made, world' = world,
         NEW k, DOMAIN calls' \subseteq {k},
         k \in DOMAIN calls' => /\ calls'[k].pc = "check" /\ calls'[k].file = 1 /\ calls'[k].kids = {} /\ Len(k) = 1
                                /\ calls'[k].slug /\ calls'[k].pkg \in Packages => world.manifest[calls'[k].pkg] = 0
  PROVE  Single'
<1>1. OneAtIt' /\ OneListing'
  BY DEF OneAtIt, OneListing
<1>2. MadeIsEntered'
  <2>1. \A p \in Packages : made[p] # 0 => made[p] = 1 /\ <<p, FALSE, world.manifest[p]>> \in built
    BY DEF Single, MadeIsEntered
  <2> QED
    BY <2>1 DEF MadeIsEntered
<1>3. k \in DOMAIN calls' => NotYet(k)' /\ Reads(k)' /\ Lists(k)' /\ Kids(k)'
  BY DEF NotYet, Reads, Lists, Kids
<1>4. k \in DOMAIN calls' => Slugs(k)'
  BY DEF Slugs, Has
<1> QED
  BY <1>1, <1>2, <1>3, <1>4 DEF Single, EachCall

LEMMA SingleMain ==
  ASSUME TypeOK, Whole, Single, LastArgument, MainCall \/ MainReturn PROVE Single'
<1> USE DEF Whole, Ended, Tree
<1>1. CASE MainCall
  <2>1. DOMAIN calls = {}
    BY <1>1, NoRootNoCall, MainCallFacts
  <2>2. /\ DOMAIN calls' = {Top} /\ Len(Top) = 1 /\ calls'[Top] = Call(Arg(main + 1), FALSE, "check")
        /\ built' = built /\ made' = made /\ world' = world
    BY <1>1, <2>1, MainCallFacts, GivenKept
  <2>3. /\ calls'[Top].pc = "check" /\ calls'[Top].file = 1 /\ calls'[Top].kids = {} /\ ~calls'[Top].slug
    BY <2>2 DEF Call
  <2> QED
    BY <2>1, <2>2, <2>3, SingleBegins
<1>2. CASE MainReturn
  <2>1. PICK k \in DOMAIN calls : Taken(k) /\ (Dropped(k) \/ Retried(k))
    BY <1>2, MainReturnFacts
  <2>2. /\ DOMAIN calls = {k} /\ built' = built /\ made' = made /\ calls[k].pc = "done" /\ UNCHANGED given
        /\ calls[k].pkg = Arg(main)
    BY <2>1, OnlyTheRoot DEF Taken, LastArgument
  <2>3. world' = world
    BY <2>2, GivenKept
  <2>4. CASE Dropped(k)
    <3>1. DOMAIN calls' = {}
      BY <2>2, <2>4 DEF Dropped
    <3> QED
      BY <2>2, <2>3, <3>1, SingleBegins
  <2>5. CASE Retried(k)
    <3>1. DOMAIN calls' = {Again} /\ Len(Again) = 1 /\ calls'[Again] = Call(Arg(main), TRUE, "check")
      BY <2>2, <2>5 DEF Retried
    <3>2. /\ calls'[Again].pc = "check" /\ calls'[Again].file = 1 /\ calls'[Again].kids = {}
          /\ calls'[Again].pkg = Arg(main)
      BY <3>1 DEF Call
    <3>3. Arg(main) \in Packages => world.manifest[Arg(main)] = 0
      BY <2>2, <2>5 DEF Retried, Single, EachCall, Reads, Has
    <3> QED
      BY <2>2, <2>3, <3>1, <3>2, <3>3, SingleBegins
  <2> QED
    BY <2>1, <2>4, <2>5
<1> QED
  BY <1>1, <1>2

LEMMA MadeStep == ASSUME MadeInv, [Next]_vars PROVE MadeInv'
<1>1. BuiltInv' /\ TypeOK /\ TypeOK' /\ UNCHANGED given
  BY BuiltStep, TypeStep, GivenStays DEF MadeInv, BuiltInv, TreeInv
<1>2. Unshared' => Unshared
  <2>1. world' = world /\ \A q : Needed(q)' = Needed(q)
    BY <1>1, GivenKept
  <2> QED
    BY <1>1, <2>1, CalmBefore DEF Unshared, MadeInv, BuiltInv
<1>3. SUFFICES ASSUME Unshared', Unshared PROVE Single'
  BY <1>1, <1>2 DEF MadeInv
<1>4. Whole /\ Sound /\ Single /\ LastArgument /\ world.missing = {} /\ failed' = 0
  BY <1>3 DEF MadeInv, BuiltInv, TreeInv, Unshared, Calm, Whole, Tree
<1>5. CASE UNCHANGED vars \/ Still \/ MainExit
  <2>1. calls' = calls /\ built' = built /\ made' = made /\ world' = world /\ dev' = dev
    BY <1>5 DEF vars, Still, given, MainExit
  <2>2. MadeIsEntered' /\ OneListing'
    BY <1>4, <2>1 DEF Single, MadeIsEntered, OneListing
  <2>3. OneAtIt'
    BY <1>4, <2>1 DEF Single, OneAtIt, Unsettled
  <2>4. ASSUME NEW q \in DOMAIN calls' PROVE NotYet(q)' /\ Reads(q)' /\ Lists(q)' /\ Slugs(q)' /\ Kids(q)'
    <3>1. NotYet(q) /\ Reads(q) /\ Lists(q) /\ Slugs(q) /\ Kids(q) /\ q \in DOMAIN calls
      BY <1>4, <2>1 DEF Single, EachCall
    <3>2. Needed(calls[q].pkg)' = Needed(calls[q].pkg) /\ Path(q)' = Path(q) /\ Has(q)' = Has(q)
      BY <2>1 DEF Needed, Path, Has
    <3>3. NotYet(q)' /\ Reads(q)' /\ Lists(q)' /\ Slugs(q)'
      BY <2>1, <3>1, <3>2 DEF NotYet, Reads, Lists, Slugs
    <3>4. Kids(q)'
      BY <1>1, <2>1, <3>1, KidsOfOthers
    <3> QED
      BY <3>3, <3>4
  <2> QED
    BY <2>2, <2>3, <2>4 DEF Single, EachCall
<1> QED
  BY <1>1, <1>3, <1>4, <1>5, CalmCases, SingleMain, SingleLocal, SingleCreate, SingleJoin

(* No make runs twice, when no package is a dependency of two others and   *)
(* every manifest can be had and every thread starts: the call that made it is the only one at it  *)
(* until its path is in the table (the check and the entry under the mutex *)
(* in build_package_with_manifest_name).                                   *)
THEOREM MadeOnce == Spec => []MadeTwiceOnlyIfShared
<1>1. Init => MadeInv
  <2>1. Init => DOMAIN calls = {} /\ made = [p \in Packages |-> 0]
    BY DEF Init
  <2>2. DOMAIN calls = {} /\ made = [p \in Packages |-> 0] => Single
    BY DEF Single, MadeIsEntered, OneAtIt, OneListing, EachCall
  <2> QED
    BY <2>1, <2>2, BuiltStart DEF MadeInv
<1>2. MadeInv /\ [Next]_vars => MadeInv'
  BY MadeStep
<1>3. ASSUME MadeInv PROVE MadeTwiceOnlyIfShared
  <2>1. SUFFICES ASSUME Unshared, NEW p \in Packages PROVE made[p] <= 1
    BY DEF MadeTwiceOnlyIfShared, Unshared, Calm
  <2>2. made[p] \in Nat /\ (made[p] # 0 => made[p] = 1)
    BY <1>3, <2>1 DEF MadeInv, BuiltInv, TreeInv, TypeOK, Single, MadeIsEntered
  <2> QED
    BY <2>2
<1>4. MadeInv => MadeTwiceOnlyIfShared
  BY <1>3
<1> QED
  BY <1>1, <1>2, <1>4, PTL DEF Spec
=============================================================================
