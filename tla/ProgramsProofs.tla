--------------------------- MODULE ProgramsProofs ---------------------------
(***************************************************************************)
(* The safety of the small programs and of the recursion of clib install,  *)
(* for any values of their constants. Each program is taken by itself:     *)
(* what a run of Programs does to the variables of one of them is a        *)
(* behaviour of the specification of that program. What needs an induction *)
(* over the data comes second: what the logging library has written        *)
(* (src/HW7), what the column statistics are (src/HW15) and what the log   *)
(* analyser reports (src/HW10).                                            *)
(***************************************************************************)
EXTENDS Programs, SequencesExt, SequenceTheorems, FiniteSetTheorems, WellFoundedInduction, TLAPS

(* What is composed of the programs is what each does by itself: the steps *)
(* of the others leave it alone.                                           *)
THEOREM EachByItself == ProgramsSpec => Spec /\ Logs!Spec /\ Resolve!Spec /\ Sql!Spec /\ Figlet!Spec
                                      /\ Library!Spec
<1> DEFINE all == <<which, programsVars>>
<1>1. ProgramsInit => Init /\ Logs!Init /\ Resolve!Init /\ Sql!Init /\ Figlet!Init /\ Library!Init
  BY DEF ProgramsInit, Beginning
<1>2. [ProgramsNext]_all => [Next]_vars
  BY DEF ProgramsNext, Only, programsVars
<1>3. [ProgramsNext]_all => [Logs!Next]_(Logs!vars)
  BY DEF ProgramsNext, Only, programsVars, logsVars, Logs!vars
<1>4. [ProgramsNext]_all => [Resolve!Next]_(Resolve!vars)
  BY DEF ProgramsNext, Only, programsVars, resolveVars, Resolve!vars, Resolve!world, Resolve!opts
<1>5. [ProgramsNext]_all => [Sql!Next]_(Sql!vars)
  BY DEF ProgramsNext, Only, programsVars, sqlVars, Sql!vars
<1>6. [ProgramsNext]_all => [Figlet!Next]_(Figlet!vars)
  BY DEF ProgramsNext, Only, programsVars, figletVars, Figlet!vars
<1>7. [ProgramsNext]_all => [Library!Next]_(Library!vars)
  BY DEF ProgramsNext, Only, programsVars, loggerVars, Library!vars, Library!written
<1> QED
  BY <1>1, <1>2, <1>3, <1>4, <1>5, <1>6, <1>7, PTL
  DEF ProgramsSpec, Spec, Logs!Spec, Resolve!Spec, Sql!Spec, Figlet!Spec, Library!Spec

-----------------------------------------------------------------------------
(* The file-size daemon (src/HW8), for any number of processes,            *)
(* conversations and sizes of the file.                                    *)

Places ==
  {"none", "lock", "truncate", "write pid", "signals", "signal TERM", "socket", "ended", "hung"} \cup Serving

(* The calls of signal_handler that can be open: each signal's once.       *)
Stacks == {<<>>, <<"HUP">>, <<"TERM">>, <<"HUP", "TERM">>, <<"TERM", "HUP">>}

TypeOK ==
  /\ at \in [Procs -> Places] /\ byInit \subseteq Procs
  /\ handled \in [Procs -> SUBSET {"HUP", "TERM"}]
  /\ size \in Int /\ file_size \in [Procs -> Int]
  /\ waiting \in [Procs -> SUBSET Int] /\ served \in [Procs -> SUBSET Int]
  /\ answered \in [Procs -> Nat]

HandlersOK ==
  /\ running \in [Procs -> Stacks]
  /\ buffered \in [Procs -> SUBSET {"main", "HUP", "TERM"}]
  /\ written \in [Procs -> Int]

-----------------------------------------------------------------------------
(* The rest of the invariant, process by process. A process that was       *)
(* started by process 1 has no lock and no handlers; another one has the   *)
(* lock from set_lock on, and is the one the lock file names once it has   *)
(* written its number there.                                               *)
SettingUp == {"lock", "truncate", "write pid", "signals", "signal TERM"}
Named == {"signals", "signal TERM", "socket", "hung"} \cup Serving
Locked == {"truncate", "write pid"} \cup Named

Owner(q) ==
  /\ q \in byInit => at[q] \notin SettingUp \cup {"none", "hung"}
  /\ q \in byInit \/ at[q] \in {"none", "lock", "truncate", "write pid", "signals"} =>
       handled[q] = {} /\ running[q] = <<>>
  /\ q \notin byInit /\ at[q] \in Locked => holder = q
  /\ q \notin byInit /\ at[q] \in Named => pid = q

(* The sizes collected for a client include the present one, and the one   *)
(* update_size read after the client had been accepted.                    *)
Current(q) ==
  /\ waiting[q] # {} => size \in waiting[q]
  /\ served[q] # {} => size \in served[q]
  /\ at[q] \in {"read", "log query", "send"} => file_size[q] \in served[q]

(* Which calls of signal_handler are open, what of the records they and    *)
(* main() were interrupted in is in a buffer, and how many records have    *)
(* followed the "terminate" record so far.                                 *)
Bound(q) == IF "HUP" \in handled[q] THEN 0 ELSE 1

Silent(q) ==
  \/ /\ running[q] = <<>> /\ "TERM" \notin buffered[q] /\ "HUP" \notin buffered[q]
     /\ Terminated(q) => at[q] = "ended" /\ written[q] <= Bound(q) + 1
  \/ /\ running[q] = <<"HUP">> /\ "HUP" \notin handled[q]
     /\ "TERM" \notin buffered[q] /\ "HUP" \notin buffered[q] /\ ~Terminated(q)
  \/ /\ running[q] = <<"TERM">> /\ "TERM" \notin handled[q] /\ "HUP" \notin buffered[q]
     /\ Terminated(q) => "TERM" \notin buffered[q] /\ written[q] <= Bound(q)
  \/ /\ running[q] = <<"HUP", "TERM">> /\ handled[q] = {} /\ "TERM" \notin buffered[q]
     /\ Terminated(q) => written[q] = 0
  \/ /\ running[q] = <<"TERM", "HUP">> /\ handled[q] = {} /\ "HUP" \notin buffered[q]
     /\ Terminated(q) => "TERM" \notin buffered[q] /\ written[q] = 0

Inv == TypeOK /\ HandlersOK /\ \A q \in Procs : Owner(q) /\ Current(q) /\ Silent(q)

LEMMA InitInv == Init => Inv
  BY DaemonAssumption DEF Init, Inv, TypeOK, HandlersOK, Stacks, Owner, Current, Silent, Terminated,
     SettingUp, Named, Locked, Missing, Places, Serving, Logging

LEMMA SizesAreInt == Sizes \cup {Missing} \subseteq Int
  BY DaemonAssumption DEF Missing

LEMMA Two == ASSUME NEW x, NEW y PROVE <<x>> \o <<y>> = <<x, y>>
<1>1. <<x>> \in Seq({x, y}) /\ <<y>> \in Seq({x, y}) /\ <<x, y>> \in Seq({x, y})
  OBVIOUS
<1>2. <<x>> \o <<y>> \in Seq({x, y}) /\ Len(<<x>> \o <<y>>) = 2 /\ Len(<<x, y>>) = 2
  BY <1>1, ConcatProperties
<1>3. \A j \in 1..2 : (<<x>> \o <<y>>)[j] = <<x, y>>[j]
  BY <1>1, ConcatProperties
<1> QED
  BY <1>1, <1>2, <1>3, SeqEqual

(* What a call and a return make of the open calls.                        *)
LEMMA Calls ==
  /\ Append(<<>>, "HUP") = <<"HUP">> /\ Append(<<>>, "TERM") = <<"TERM">>
  /\ Append(<<"HUP">>, "TERM") = <<"HUP", "TERM">> /\ Append(<<"TERM">>, "HUP") = <<"TERM", "HUP">>
  /\ SubSeq(<<"HUP">>, 1, Len(<<"HUP">>) - 1) = <<>>
  /\ SubSeq(<<"TERM", "HUP">>, 1, Len(<<"TERM", "HUP">>) - 1) = <<"TERM">>
<1>1. Len(<<"HUP">>) - 1 = 0 /\ Len(<<"TERM", "HUP">>) - 1 = 1
  OBVIOUS
<1>2. SubSeq(<<"HUP">>, 1, 0) = <<>>
  <2>1. <<"HUP">> \in Seq({"HUP", "TERM"})
    OBVIOUS
  <2> QED
    BY <2>1, SubSeqProperties
<1>3. SubSeq(<<"TERM", "HUP">>, 1, 1) = <<"TERM">>
  <2> DEFINE both == <<"TERM", "HUP">>
             one == SubSeq(both, 1, 1)
  <2>1. both \in Seq({"HUP", "TERM"}) /\ Len(both) = 2 /\ both[1] = "TERM"
    OBVIOUS
  <2> HIDE DEF both
  <2>2. one \in Seq({"HUP", "TERM"}) /\ Len(one) = 1 /\ one[1] = both[1]
    BY <2>1, SubSeqProperties
  <2> HIDE DEF one
  <2>3. one = <<"TERM">>
    BY <2>1, <2>2
  <2> QED
    BY <2>3 DEF one, both
<1>4. SubSeq(<<"HUP">>, 1, Len(<<"HUP">>) - 1) = <<>>
  BY <1>1, <1>2
<1>5. SubSeq(<<"TERM", "HUP">>, 1, Len(<<"TERM", "HUP">>) - 1) = <<"TERM">>
  BY <1>1, <1>3
<1>6. Append(<<>>, "HUP") = <<"HUP">> /\ Append(<<>>, "TERM") = <<"TERM">>
  BY AppendIsConcat
<1>7. Append(<<"HUP">>, "TERM") = <<"HUP", "TERM">>
  <2>1. <<"HUP">> \in Seq({"HUP", "TERM"})
    OBVIOUS
  <2>2. Append(<<"HUP">>, "TERM") = <<"HUP">> \o <<"TERM">>
    BY <2>1, AppendIsConcat
  <2> QED
    BY <2>2, Two
<1>8. Append(<<"TERM">>, "HUP") = <<"TERM", "HUP">>
  <2>1. <<"TERM">> \in Seq({"HUP", "TERM"})
    OBVIOUS
  <2>2. Append(<<"TERM">>, "HUP") = <<"TERM">> \o <<"HUP">>
    BY <2>1, AppendIsConcat
  <2> QED
    BY <2>2, Two
<1> QED
  BY <1>4, <1>5, <1>6, <1>7, <1>8

LEMMA DistinctStacks ==
  /\ <<>> # <<"HUP">> /\ <<>> # <<"TERM">> /\ <<>> # <<"HUP", "TERM">> /\ <<>> # <<"TERM", "HUP">>
  /\ <<"HUP">> # <<"TERM">> /\ <<"HUP">> # <<"HUP", "TERM">> /\ <<"HUP">> # <<"TERM", "HUP">>
  /\ <<"TERM">> # <<"HUP", "TERM">> /\ <<"TERM">> # <<"TERM", "HUP">>
  /\ <<"HUP", "TERM">> # <<"TERM", "HUP">>
  OBVIOUS

LEMMA Tops ==
  ASSUME NEW p \in Procs
  PROVE  /\ running[p] = <<>> => Top(p) = "main"
         /\ running[p] = <<"HUP">> \/ running[p] = <<"TERM", "HUP">> => Top(p) = "HUP"
         /\ running[p] = <<"TERM">> \/ running[p] = <<"HUP", "TERM">> => Top(p) = "TERM"
<1>1. <<"HUP">>[Len(<<"HUP">>)] = "HUP" /\ <<"TERM">>[Len(<<"TERM">>)] = "TERM"
  OBVIOUS
<1>2. /\ <<"HUP", "TERM">>[Len(<<"HUP", "TERM">>)] = "TERM"
      /\ <<"TERM", "HUP">>[Len(<<"TERM", "HUP">>)] = "HUP"
  OBVIOUS
<1>3. CASE running[p] = <<>>
  BY <1>3, DistinctStacks DEF Top
<1>4. CASE running[p] = <<"HUP">>
  BY <1>1, <1>4, DistinctStacks DEF Top
<1>5. CASE running[p] = <<"TERM">>
  BY <1>1, <1>5, DistinctStacks DEF Top
<1>6. CASE running[p] = <<"HUP", "TERM">>
  BY <1>2, <1>6, DistinctStacks DEF Top
<1>7. CASE running[p] = <<"TERM", "HUP">>
  BY <1>2, <1>7, DistinctStacks DEF Top
<1> QED
  BY <1>3, <1>4, <1>5, <1>6, <1>7

(* exit() flushes two records at most: main()'s and the hangup's.          *)
LEMMA Flushes ==
  ASSUME NEW p \in Procs
  PROVE  /\ Flushed(p) \in 0..2
         /\ "HUP" \notin buffered[p] => Flushed(p) \in 0..1
  BY DEF Flushed

LEMMA AnsweredType ==
  ASSUME TypeOK, NEW p \in Procs,
         answered' = answered \/ answered' = [answered EXCEPT ![p] = @ + 1]
  PROVE  answered' \in [Procs -> Nat]
  BY DEF TypeOK

LEMMA WroteFacts ==
  ASSUME HandlersOK, NEW p \in Procs, NEW who \in {"main", "HUP"}, NEW k \in Nat, Wrote(p, who, k)
  PROVE  /\ written' \in [Procs -> Int]
         /\ buffered' \in [Procs -> SUBSET {"main", "HUP", "TERM"}]
         /\ \A q \in Procs : written'[q] = IF q = p /\ written[q] >= 0 THEN written[q] + k ELSE written[q]
         /\ \A q \in Procs : buffered'[q] = IF q = p THEN buffered[q] \ {who} ELSE buffered[q]
<1>1. /\ written' \in [Procs -> Int]
      /\ \A q \in Procs : written'[q] = IF q = p /\ written[q] >= 0 THEN written[q] + k ELSE written[q]
  BY DEF HandlersOK, Wrote
<1>2. buffered' = [buffered EXCEPT ![p] = buffered[p] \ {who}] /\ buffered[p] \ {who} \subseteq {"main", "HUP", "TERM"}
  BY DEF HandlersOK, Wrote
<1>3. /\ buffered' \in [Procs -> SUBSET {"main", "HUP", "TERM"}]
      /\ \A q \in Procs : buffered'[q] = IF q = p THEN buffered[q] \ {who} ELSE buffered[q]
  BY <1>2 DEF HandlersOK
<1> QED
  BY <1>1, <1>3

(* What a process does in its own handlers' variables keeps their types.   *)
LEMMA HandlersType ==
  ASSUME HandlersOK, NEW p \in Procs, NEW stack \in Stacks, NEW left \in SUBSET {"main", "HUP", "TERM"},
         NEW k \in Int,
         running' = [running EXCEPT ![p] = stack], buffered' = [buffered EXCEPT ![p] = left],
         written' = [written EXCEPT ![p] = k] \/ written' = written
  PROVE  HandlersOK'
<1>1. running' \in [Procs -> Stacks]
  BY DEF HandlersOK
<1>2. buffered' \in [Procs -> SUBSET {"main", "HUP", "TERM"}]
  BY DEF HandlersOK
<1>3. written' \in [Procs -> Int]
  BY DEF HandlersOK
<1> QED
  BY <1>1, <1>2, <1>3 DEF HandlersOK

LEMMA EmptyStack == <<>> \in Stacks /\ {} \in SUBSET {"main", "HUP", "TERM"}
  BY DEF Stacks

LEMMA TypeStep == ASSUME Inv, [Next]_vars PROVE TypeOK'
<1> USE SizesAreInt DEF Inv, TypeOK, Go, End, EndWithin, Main, Places, Serving, Logging
<1>1. ASSUME NEW p \in Procs, NEW init \in BOOLEAN, Start(p, init) PROVE TypeOK'
  BY <1>1 DEF Start
<1>2. ASSUME NEW p \in Procs, SetLock(p) PROVE TypeOK'
  BY <1>2 DEF SetLock
<1>3. ASSUME NEW p \in Procs, Truncate(p) PROVE TypeOK'
  BY <1>3 DEF Truncate
<1>4. ASSUME NEW p \in Procs, WritePid(p) PROVE TypeOK'
  BY <1>4 DEF WritePid
<1>5. ASSUME NEW p \in Procs, Handle(p) PROVE TypeOK'
  <2>1. PICK more \in {"HUP", "TERM"}, place \in {"signal TERM", "socket"} :
          at' = [at EXCEPT ![p] = place] /\ handled' = [handled EXCEPT ![p] = @ \cup {more}]
    BY <1>5 DEF Handle
  <2>2. at' \in [Procs -> Places]
    BY <2>1
  <2>3. handled' \in [Procs -> SUBSET {"HUP", "TERM"}]
    BY <2>1
  <2> QED
    BY <1>5, <2>2, <2>3 DEF Handle
<1>6. ASSUME NEW p \in Procs, SetSocket(p) PROVE TypeOK'
  BY <1>6 DEF SetSocket
<1>7. ASSUME NEW p \in Procs, Fails(p) PROVE TypeOK'
  BY <1>7 DEF Fails
<1>8. ASSUME NEW p \in Procs, Accept(p) PROVE TypeOK'
  BY <1>8 DEF Accept
<1>9. ASSUME NEW p \in Procs, LogIp(p) PROVE TypeOK'
  BY <1>9 DEF LogIp
<1>10. ASSUME NEW p \in Procs, UpdateSize(p) PROVE TypeOK'
  BY <1>10 DEF UpdateSize
<1>11. ASSUME NEW p \in Procs, Read(p) PROVE TypeOK'
  BY <1>11 DEF Read
<1>12. ASSUME NEW p \in Procs, LogQuery(p) PROVE TypeOK'
  BY <1>12 DEF LogQuery
<1>13. ASSUME NEW p \in Procs, Send(p) PROVE TypeOK'
  <2>1. at' \in [Procs -> Places]
    BY <1>13 DEF Send
  <2>2. answered' = answered \/ answered' = [answered EXCEPT ![p] = @ + 1]
    BY <1>13 DEF Send
  <2>3. served' \in [Procs -> SUBSET Int]
    BY <1>13 DEF Send
  <2>4. answered' \in [Procs -> Nat]
    BY <2>2, AnsweredType
  <2> QED
    BY <1>13, <2>1, <2>3, <2>4 DEF Send
<1>14. ASSUME NEW p \in Procs, Interrupted(p) PROVE TypeOK'
  BY <1>14 DEF Interrupted
<1>15. ASSUME NEW p \in Procs, Hangup(p) PROVE TypeOK'
  BY <1>15 DEF Hangup
<1>16. ASSUME NEW p \in Procs, Terminate(p) PROVE TypeOK'
  BY <1>16 DEF Terminate
<1>17. ASSUME NEW p \in Procs, Exit(p) PROVE TypeOK'
  BY <1>17 DEF Exit
<1>18. ASSUME NEW p \in Procs, LogFails(p) PROVE TypeOK'
  BY <1>18 DEF LogFails
<1>19. ASSUME NEW p \in Procs, Hang(p) PROVE TypeOK'
  BY <1>19 DEF Hang
<1>20. ASSUME NEW p \in Procs, Connect(p) PROVE TypeOK'
  BY <1>20 DEF Connect
<1>21. ASSUME NEW p \in Procs, NEW signal \in {"HUP", "TERM"}, Kill(p, signal) PROVE TypeOK'
  BY <1>21 DEF Kill
<1>22. ASSUME NEW p \in Procs, NEW signal \in {"HUP", "TERM"}, Signal(p, signal) PROVE TypeOK'
  BY <1>22 DEF Signal
<1>23. ASSUME NEW p \in Procs, NEW signal \in {"HUP", "TERM"}, Deaf(p, signal) PROVE TypeOK'
  BY <1>23 DEF Deaf
<1>24. ASSUME NEW s \in Sizes \cup {Missing}, Change(s) PROVE TypeOK'
  <2>1. s \in Int
    BY <1>24
  <2>2. waiting' \in [Procs -> SUBSET Int]
    BY <1>24, <2>1 DEF Change
  <2>3. served' \in [Procs -> SUBSET Int]
    BY <1>24, <2>1 DEF Change
  <2> QED
    BY <1>24, <2>1, <2>2, <2>3 DEF Change
<1>25. ASSUME UNCHANGED vars PROVE TypeOK'
  BY <1>25 DEF vars, handlerVars
<1> HIDE DEF Inv, TypeOK, Go, End, EndWithin, Main, Places, Serving, Logging
<1> QED
  BY <1>1, <1>2, <1>3, <1>4, <1>5, <1>6, <1>7, <1>8, <1>9, <1>10,
     <1>11, <1>12, <1>13, <1>14, <1>15, <1>16, <1>17, <1>18, <1>19, <1>20,
     <1>21, <1>22, <1>23, <1>24, <1>25 DEF Next

LEMMA OwnerStep == ASSUME Inv, [Next]_vars, NEW q \in Procs PROVE Owner(q)'
<1> USE DaemonAssumption DEF Inv, TypeOK, HandlersOK, Go, End, EndWithin, Main, Places, Serving, Logging, Owner, SettingUp, Named, Locked, Alive, handlerVars
<1>1. ASSUME NEW p \in Procs, NEW init \in BOOLEAN, Start(p, init) PROVE Owner(q)'
  <2>1. CASE init = TRUE
    BY <1>1, <2>1 DEF Start
  <2>2. CASE init = FALSE
    BY <1>1, <2>2 DEF Start
  <2> QED
    BY <1>1, <2>1, <2>2 DEF Start
<1>2. ASSUME NEW p \in Procs, SetLock(p) PROVE Owner(q)'
  <2>1. CASE holder = NoProc
    BY <1>2, <2>1 DEF SetLock
  <2>2. CASE holder # NoProc /\ q = p
    BY <1>2, <2>2 DEF SetLock
  <2>3. CASE holder # NoProc /\ q # p
    BY <1>2, <2>3 DEF SetLock
  <2> QED
    BY <1>2, <2>1, <2>2, <2>3 DEF SetLock
<1>3. ASSUME NEW p \in Procs, Truncate(p) PROVE Owner(q)'
  BY <1>3 DEF Truncate
<1>4. ASSUME NEW p \in Procs, WritePid(p) PROVE Owner(q)'
  BY <1>4 DEF WritePid
<1>5. ASSUME NEW p \in Procs, Handle(p) PROVE Owner(q)'
  BY <1>5 DEF Handle
<1>6. ASSUME NEW p \in Procs, SetSocket(p) PROVE Owner(q)'
  BY <1>6 DEF SetSocket
<1>7. ASSUME NEW p \in Procs, Fails(p) PROVE Owner(q)'
  BY <1>7 DEF Fails
<1>8. ASSUME NEW p \in Procs, Accept(p) PROVE Owner(q)'
  BY <1>8 DEF Accept
<1>9. ASSUME NEW p \in Procs, LogIp(p) PROVE Owner(q)'
  BY <1>9 DEF LogIp
<1>10. ASSUME NEW p \in Procs, UpdateSize(p) PROVE Owner(q)'
  <2>1. CASE q = p /\ served[p] = {}
    BY <1>10, <2>1 DEF UpdateSize
  <2>2. CASE q = p /\ served[p] # {}
    BY <1>10, <2>2 DEF UpdateSize
  <2>3. CASE q # p
    BY <1>10, <2>3 DEF UpdateSize
  <2> QED
    BY <1>10, <2>1, <2>2, <2>3 DEF UpdateSize
<1>11. ASSUME NEW p \in Procs, Read(p) PROVE Owner(q)'
  <2>1. CASE Go(p, "log query") /\ UNCHANGED holder
    BY <1>11, <2>1 DEF Read
  <2>2. CASE End(p)
    BY <1>11, <2>2 DEF Read
  <2> QED
    BY <1>11, <2>1, <2>2 DEF Read
<1>12. ASSUME NEW p \in Procs, LogQuery(p) PROVE Owner(q)'
  BY <1>12 DEF LogQuery
<1>13. ASSUME NEW p \in Procs, Send(p) PROVE Owner(q)'
  <2>1. CASE Go(p, "accept") /\ UNCHANGED holder
    BY <1>13, <2>1 DEF Send
  <2>2. CASE End(p)
    BY <1>13, <2>2 DEF Send
  <2> QED
    BY <1>13, <2>1, <2>2 DEF Send
<1>14. ASSUME NEW p \in Procs, Interrupted(p) PROVE Owner(q)'
  <2>1. CASE q = p /\ served[p] = {}
    BY <1>14, <2>1 DEF Interrupted
  <2>2. CASE q = p /\ served[p] # {}
    BY <1>14, <2>2 DEF Interrupted
  <2>3. CASE q # p
    BY <1>14, <2>3 DEF Interrupted
  <2> QED
    BY <1>14, <2>1, <2>2, <2>3 DEF Interrupted
<1>15. ASSUME NEW p \in Procs, Hangup(p) PROVE Owner(q)'
  BY <1>15, Tops DEF Hangup, Wrote
<1>16. ASSUME NEW p \in Procs, Terminate(p) PROVE Owner(q)'
  BY <1>16 DEF Terminate
<1>17. ASSUME NEW p \in Procs, Exit(p) PROVE Owner(q)'
  BY <1>17 DEF Exit
<1>18. ASSUME NEW p \in Procs, LogFails(p) PROVE Owner(q)'
  BY <1>18 DEF LogFails
<1>19. ASSUME NEW p \in Procs, Hang(p) PROVE Owner(q)'
  BY <1>19 DEF Hang
<1>20. ASSUME NEW p \in Procs, Connect(p) PROVE Owner(q)'
  BY <1>20 DEF Connect
<1>21. ASSUME NEW p \in Procs, NEW signal \in {"HUP", "TERM"}, Kill(p, signal) PROVE Owner(q)'
  BY <1>21 DEF Kill
<1>22. ASSUME NEW p \in Procs, NEW signal \in {"HUP", "TERM"}, Signal(p, signal) PROVE Owner(q)'
  <2>1. CASE Blocked(p)
    BY <1>22, <2>1 DEF Signal, Blocked
  <2>2. CASE ~Blocked(p)
    BY <1>22, <2>2 DEF Signal
  <2> QED
    BY <2>1, <2>2
<1>23. ASSUME NEW p \in Procs, NEW signal \in {"HUP", "TERM"}, Deaf(p, signal) PROVE Owner(q)'
  BY <1>23 DEF Deaf
<1>24. ASSUME NEW s \in Sizes \cup {Missing}, Change(s) PROVE Owner(q)'
  BY <1>24 DEF Change
<1>25. ASSUME UNCHANGED vars PROVE Owner(q)'
  BY <1>25 DEF vars, handlerVars
<1> HIDE DEF Inv, TypeOK, HandlersOK, Go, End, EndWithin, Main, Places, Serving, Logging, Owner, SettingUp, Named, Locked, Alive, handlerVars
<1> QED
  BY <1>1, <1>2, <1>3, <1>4, <1>5, <1>6, <1>7, <1>8, <1>9, <1>10,
     <1>11, <1>12, <1>13, <1>14, <1>15, <1>16, <1>17, <1>18, <1>19, <1>20,
     <1>21, <1>22, <1>23, <1>24, <1>25 DEF Next

LEMMA CurrentStep == ASSUME Inv, [Next]_vars, NEW q \in Procs PROVE Current(q)'
<1> USE DaemonAssumption DEF Inv, TypeOK, Go, End, EndWithin, Main, Places, Serving, Logging, Current, Alive, Blocked
<1>1. ASSUME NEW p \in Procs, NEW init \in BOOLEAN, Start(p, init) PROVE Current(q)'
  BY <1>1 DEF Start
<1>2. ASSUME NEW p \in Procs, SetLock(p) PROVE Current(q)'
  BY <1>2 DEF SetLock
<1>3. ASSUME NEW p \in Procs, Truncate(p) PROVE Current(q)'
  BY <1>3 DEF Truncate
<1>4. ASSUME NEW p \in Procs, WritePid(p) PROVE Current(q)'
  BY <1>4 DEF WritePid
<1>5. ASSUME NEW p \in Procs, Handle(p) PROVE Current(q)'
  BY <1>5 DEF Handle
<1>6. ASSUME NEW p \in Procs, SetSocket(p) PROVE Current(q)'
  BY <1>6 DEF SetSocket
<1>7. ASSUME NEW p \in Procs, Fails(p) PROVE Current(q)'
  BY <1>7 DEF Fails
<1>8. ASSUME NEW p \in Procs, Accept(p) PROVE Current(q)'
  BY <1>8 DEF Accept
<1>9. ASSUME NEW p \in Procs, LogIp(p) PROVE Current(q)'
  BY <1>9 DEF LogIp
<1>10. ASSUME NEW p \in Procs, UpdateSize(p) PROVE Current(q)'
  BY <1>10 DEF UpdateSize
<1>11. ASSUME NEW p \in Procs, Read(p) PROVE Current(q)'
  BY <1>11 DEF Read
<1>12. ASSUME NEW p \in Procs, LogQuery(p) PROVE Current(q)'
  BY <1>12 DEF LogQuery
<1>13. ASSUME NEW p \in Procs, Send(p) PROVE Current(q)'
  BY <1>13 DEF Send
<1>14. ASSUME NEW p \in Procs, Interrupted(p) PROVE Current(q)'
  BY <1>14 DEF Interrupted
<1>15. ASSUME NEW p \in Procs, Hangup(p) PROVE Current(q)'
  BY <1>15 DEF Hangup
<1>16. ASSUME NEW p \in Procs, Terminate(p) PROVE Current(q)'
  BY <1>16 DEF Terminate
<1>17. ASSUME NEW p \in Procs, Exit(p) PROVE Current(q)'
  BY <1>17 DEF Exit
<1>18. ASSUME NEW p \in Procs, LogFails(p) PROVE Current(q)'
  BY <1>18 DEF LogFails
<1>19. ASSUME NEW p \in Procs, Hang(p) PROVE Current(q)'
  BY <1>19 DEF Hang
<1>20. ASSUME NEW p \in Procs, Connect(p) PROVE Current(q)'
  BY <1>20 DEF Connect
<1>21. ASSUME NEW p \in Procs, NEW signal \in {"HUP", "TERM"}, Kill(p, signal) PROVE Current(q)'
  BY <1>21 DEF Kill
<1>22. ASSUME NEW p \in Procs, NEW signal \in {"HUP", "TERM"}, Signal(p, signal) PROVE Current(q)'
  BY <1>22 DEF Signal
<1>23. ASSUME NEW p \in Procs, NEW signal \in {"HUP", "TERM"}, Deaf(p, signal) PROVE Current(q)'
  BY <1>23 DEF Deaf
<1>24. ASSUME NEW s \in Sizes \cup {Missing}, Change(s) PROVE Current(q)'
  BY <1>24 DEF Change
<1>25. ASSUME UNCHANGED vars PROVE Current(q)'
  BY <1>25 DEF vars, handlerVars
<1> HIDE DEF Inv, TypeOK, Go, End, EndWithin, Main, Places, Serving, Logging, Current, Alive, Blocked
<1> QED
  BY <1>1, <1>2, <1>3, <1>4, <1>5, <1>6, <1>7, <1>8, <1>9, <1>10,
     <1>11, <1>12, <1>13, <1>14, <1>15, <1>16, <1>17, <1>18, <1>19, <1>20,
     <1>21, <1>22, <1>23, <1>24, <1>25 DEF Next

LEMMA HandlersStep == ASSUME Inv, [Next]_vars PROVE HandlersOK'
<1> USE DEF Inv, HandlersOK, Go, End, EndWithin, Main, handlerVars
<1>1. ASSUME NEW p \in Procs, NEW init \in BOOLEAN, Start(p, init) PROVE HandlersOK'
  BY <1>1 DEF Start
<1>2. ASSUME NEW p \in Procs, SetLock(p) PROVE HandlersOK'
  BY <1>2 DEF SetLock
<1>3. ASSUME NEW p \in Procs, Truncate(p) PROVE HandlersOK'
  BY <1>3 DEF Truncate
<1>4. ASSUME NEW p \in Procs, WritePid(p) PROVE HandlersOK'
  BY <1>4 DEF WritePid
<1>5. ASSUME NEW p \in Procs, Handle(p) PROVE HandlersOK'
  BY <1>5 DEF Handle
<1>6. ASSUME NEW p \in Procs, SetSocket(p) PROVE HandlersOK'
  BY <1>6 DEF SetSocket
<1>7. ASSUME NEW p \in Procs, Fails(p) PROVE HandlersOK'
  BY <1>7 DEF Fails
<1>8. ASSUME NEW p \in Procs, Accept(p) PROVE HandlersOK'
  BY <1>8 DEF Accept
<1>9. ASSUME NEW p \in Procs, LogIp(p) PROVE HandlersOK'
  BY <1>9, WroteFacts DEF LogIp
<1>10. ASSUME NEW p \in Procs, UpdateSize(p) PROVE HandlersOK'
  BY <1>10 DEF UpdateSize
<1>11. ASSUME NEW p \in Procs, Read(p) PROVE HandlersOK'
  BY <1>11 DEF Read
<1>12. ASSUME NEW p \in Procs, LogQuery(p) PROVE HandlersOK'
  BY <1>12, WroteFacts DEF LogQuery
<1>13. ASSUME NEW p \in Procs, Send(p) PROVE HandlersOK'
  BY <1>13 DEF Send
<1>14. ASSUME NEW p \in Procs, Interrupted(p) PROVE HandlersOK'
  BY <1>14 DEF Interrupted
<1>15. ASSUME NEW p \in Procs, Hangup(p) PROVE HandlersOK'
  <2>1. running' = [running EXCEPT ![p] = SubSeq(running[p], 1, Len(running[p]) - 1)] /\ Top(p) = "HUP"
    BY <1>15 DEF Hangup
  <2>2. running[p] = <<"HUP">> \/ running[p] = <<"TERM", "HUP">>
    BY <2>1, Tops DEF Stacks
  <2>3. SubSeq(running[p], 1, Len(running[p]) - 1) \in Stacks
    BY <2>2, Calls DEF Stacks
  <2> QED
    BY <1>15, <2>1, <2>3, WroteFacts DEF Hangup
<1>16. ASSUME NEW p \in Procs, Terminate(p) PROVE HandlersOK'
  BY <1>16 DEF Terminate
<1>17. ASSUME NEW p \in Procs, Exit(p) PROVE HandlersOK'
  <2>1. /\ running' = [running EXCEPT ![p] = <<>>] /\ buffered' = [buffered EXCEPT ![p] = {}]
        /\ written' = [written EXCEPT ![p] = written[p] + Flushed(p)]
    BY <1>17 DEF Exit
  <2>2. written[p] + Flushed(p) \in Int
    BY Flushes
  <2> HIDE DEF HandlersOK
  <2> QED
    BY <2>1, <2>2, EmptyStack, HandlersType DEF Inv
<1>18. ASSUME NEW p \in Procs, LogFails(p) PROVE HandlersOK'
  <2>1. PICK n \in 0..Flushed(p) :
          /\ running' = [running EXCEPT ![p] = <<>>] /\ buffered' = [buffered EXCEPT ![p] = {}]
          /\ written' = [written EXCEPT ![p] = IF Terminated(p) THEN written[p] + Flushed(p)
                                               ELSE IF "TERM" \in buffered[p] THEN n ELSE written[p]]
    BY <1>18 DEF LogFails
  <2> DEFINE v == IF Terminated(p) THEN written[p] + Flushed(p)
                  ELSE IF "TERM" \in buffered[p] THEN n ELSE written[p]
  <2>2. v \in Int
    BY Flushes
  <2>3. written' = [written EXCEPT ![p] = v]
    BY <2>1
  <2> HIDE DEF HandlersOK, v
  <2> QED
    BY <2>1, <2>2, <2>3, EmptyStack, HandlersType DEF Inv
<1>19. ASSUME NEW p \in Procs, Hang(p) PROVE HandlersOK'
  BY <1>19 DEF Hang
<1>20. ASSUME NEW p \in Procs, Connect(p) PROVE HandlersOK'
  BY <1>20 DEF Connect
<1>21. ASSUME NEW p \in Procs, NEW signal \in {"HUP", "TERM"}, Kill(p, signal) PROVE HandlersOK'
  <2>1. running' = [running EXCEPT ![p] = <<>>] /\ buffered' = [buffered EXCEPT ![p] = {}] /\ written' = written
    BY <1>21 DEF Kill
  <2> QED
    BY <2>1, EmptyStack, HandlersType
<1>22. ASSUME NEW p \in Procs, NEW signal \in {"HUP", "TERM"}, Signal(p, signal) PROVE HandlersOK'
  <2>1. running' = [running EXCEPT ![p] = Append(running[p], signal)] /\ signal \in handled[p] /\ Silent(p)
    BY <1>22 DEF Signal
  <2>2. \/ running[p] = <<>>
        \/ running[p] = <<"HUP">> /\ signal = "TERM"
        \/ running[p] = <<"TERM">> /\ signal = "HUP"
    BY <2>1 DEF Silent
  <2>3. Append(running[p], signal) \in Stacks
    BY <2>2, Calls DEF Stacks
  <2>4. running' \in [Procs -> Stacks]
    BY <2>1, <2>3
  <2>5. Top(p) \in {"main", "HUP", "TERM"}
    BY <2>2, Tops
  <2>6. buffered' \in [Procs -> SUBSET {"main", "HUP", "TERM"}]
    BY <1>22, <2>5 DEF Signal
  <2> QED
    BY <1>22, <2>4, <2>6 DEF Signal
<1>23. ASSUME NEW p \in Procs, NEW signal \in {"HUP", "TERM"}, Deaf(p, signal) PROVE HandlersOK'
  BY <1>23 DEF Deaf
<1>24. ASSUME NEW s \in Sizes \cup {Missing}, Change(s) PROVE HandlersOK'
  BY <1>24 DEF Change
<1>25. ASSUME UNCHANGED vars PROVE HandlersOK'
  BY <1>25 DEF vars, handlerVars
<1> HIDE DEF Inv, HandlersOK, Go, End, EndWithin, Main, handlerVars
<1> QED
  BY <1>1, <1>2, <1>3, <1>4, <1>5, <1>6, <1>7, <1>8, <1>9, <1>10,
     <1>11, <1>12, <1>13, <1>14, <1>15, <1>16, <1>17, <1>18, <1>19, <1>20,
     <1>21, <1>22, <1>23, <1>24, <1>25 DEF Next

(* A process that is left alone, or that is not terminated and goes        *)
(* somewhere else.                                                         *)
LEMMA SilentSame ==
  ASSUME NEW q, Silent(q), running'[q] = running[q], buffered'[q] = buffered[q],
         written'[q] = written[q], handled'[q] = handled[q],
         at'[q] = at[q] \/ at'[q] = "hung" \/ ~Terminated(q)
  PROVE  at[q] # "ended" \/ at'[q] = at[q] => Silent(q)'
  BY DistinctStacks DEF Silent, Bound, Terminated

(* A process in main() that has not ended has no "terminate" record.       *)
LEMMA MainGoesOn ==
  ASSUME Inv, NEW p \in Procs, running[p] = <<>>, at[p] # "ended"
  PROVE  ~Terminated(p)
  BY DistinctStacks DEF Inv, Silent

(* Steps of main().                                                        *)
LEMMA SilentMain ==
  ASSUME Inv, NEW p \in Procs, NEW q \in Procs, running[p] = <<>>, at[p] # "ended",
         UNCHANGED running, written'[q] = written[q],
         q # p => at'[q] = at[q] /\ handled'[q] = handled[q] /\ buffered'[q] = buffered[q],
         buffered'[p] \subseteq buffered[p]
  PROVE  Silent(q)'
<1>1. CASE q # p
  BY <1>1, SilentSame DEF Inv
<1>2. CASE q = p
  <2>1. ~Terminated(q) /\ running'[q] = <<>> /\ "TERM" \notin buffered[q] /\ "HUP" \notin buffered[q]
    BY <1>2, MainGoesOn, DistinctStacks DEF Inv, Silent
  <2> QED
    BY <1>2, <2>1 DEF Silent, Terminated
<1> QED
  BY <1>1, <1>2

(* Steps that end a process in main() or in a handler.                     *)
LEMMA SilentEnd ==
  ASSUME Inv, NEW p \in Procs, NEW q \in Procs, EndWithin(p), UNCHANGED handled,
         q # p => written'[q] = written[q],
         written'[p] \in Int, written'[p] < 0 \/ written'[p] <= Bound(p) + 1
  PROVE  Silent(q)'
<1>1. CASE q # p
  BY <1>1, SilentSame DEF Inv, TypeOK, HandlersOK, EndWithin, End, Go
<1>2. CASE q = p
  <2>1. running'[q] = <<>> /\ buffered'[q] = {} /\ at'[q] = "ended"
    BY <1>2 DEF Inv, TypeOK, HandlersOK, EndWithin, End, Go
  <2>2. written[q] \in Int /\ Bound(q)' = Bound(q)
    BY DEF Inv, HandlersOK, Bound
  <2> QED
    BY <1>2, <2>1, <2>2 DEF Silent, Terminated
<1> QED
  BY <1>1, <1>2

LEMMA SilentSignal ==
  ASSUME Inv, NEW p \in Procs, NEW q \in Procs, NEW signal \in {"HUP", "TERM"}, Signal(p, signal)
  PROVE  Silent(q)'
<1>1. CASE q # p
  <2>1. /\ at'[q] = at[q] /\ handled'[q] = handled[q] /\ running'[q] = running[q]
        /\ buffered'[q] = buffered[q] /\ written'[q] = written[q]
    BY <1>1 DEF Signal, Inv, TypeOK, HandlersOK, Go
  <2> QED
    BY <2>1, SilentSame DEF Inv
<1>2. CASE q = p
  <2>1. /\ handled'[q] = handled[q] \ {signal} /\ signal \in handled[q]
        /\ running'[q] = Append(running[q], signal) /\ written' = written
        /\ buffered'[q] \subseteq buffered[q] \cup {Top(q)}
        /\ Top(q) \in buffered'[q] => InLog(q) \/ Top(q) \in buffered[q]
        /\ Alive(q) /\ Silent(q)
    BY <1>2 DEF Signal, Inv, TypeOK, HandlersOK
  <2>2. running[q] = <<>> => ~Terminated(q)
    BY <2>1, MainGoesOn DEF Alive
  <2>3. handled[q] \subseteq {"HUP", "TERM"}
    BY DEF Inv, TypeOK
  <2>4. CASE running[q] = <<>>
    <3>1. Top(q) = "main" /\ "TERM" \notin buffered[q] /\ "HUP" \notin buffered[q]
      BY <2>1, <2>4, Tops, DistinctStacks DEF Silent
    <3>2. "TERM" \notin buffered'[q] /\ "HUP" \notin buffered'[q] /\ ~Terminated(q)'
      BY <2>1, <2>2, <2>4, <3>1 DEF Terminated
    <3>3. CASE signal = "HUP"
      BY <2>1, <2>4, <3>2, <3>3, Calls DEF Silent
    <3>4. CASE signal = "TERM"
      BY <2>1, <2>4, <3>2, <3>4, Calls DEF Silent
    <3> QED
      BY <3>3, <3>4
  <2>5. CASE running[q] = <<"HUP">>
    <3>1. /\ Top(q) = "HUP" /\ "TERM" \notin buffered[q] /\ ~Terminated(q)
          /\ "HUP" \notin handled[q]
      BY <2>1, <2>5, Tops, DistinctStacks DEF Silent
    <3>2. "TERM" \notin buffered'[q] /\ ~Terminated(q)' /\ signal = "TERM" /\ handled'[q] = {}
      BY <2>1, <2>3, <3>1 DEF Terminated
    <3> QED
      BY <2>1, <2>5, <3>2, Calls DEF Silent
  <2>6. CASE running[q] = <<"TERM">>
    <3>1. /\ Top(q) = "TERM" /\ "HUP" \notin buffered[q] /\ "TERM" \notin handled[q]
          /\ Terminated(q) => "TERM" \notin buffered[q] /\ written[q] <= Bound(q)
      BY <2>1, <2>6, Tops, DistinctStacks DEF Silent
    <3>2. "HUP" \notin buffered'[q] /\ signal = "HUP" /\ handled'[q] = {}
      BY <2>1, <2>3, <3>1
    <3>3. Terminated(q)' => "TERM" \notin buffered'[q] /\ written'[q] = 0
      <4>1. Bound(q) = 0
        BY <2>1, <3>2 DEF Bound
      <4>2. written[q] \in Int
        BY DEF Inv, HandlersOK
      <4>3. Terminated(q) => written[q] = 0
        BY <3>1, <4>1, <4>2 DEF Terminated
      <4>4. Terminated(q) => "TERM" \notin buffered'[q]
        BY <2>1, <3>1 DEF InLog
      <4> QED
        BY <2>1, <4>3, <4>4 DEF Terminated
    <3> QED
      BY <2>1, <2>6, <3>2, <3>3, Calls DEF Silent
  <2> QED
    BY <2>1, <2>4, <2>5, <2>6 DEF Silent
<1> QED
  BY <1>1, <1>2

LEMMA SilentHangup ==
  ASSUME Inv, NEW p \in Procs, NEW q \in Procs, Hangup(p)
  PROVE  Silent(q)'
<1>1. /\ \A s \in Procs : written'[s] = IF s = p /\ written[s] >= 0 THEN written[s] + 1 ELSE written[s]
      /\ \A s \in Procs : buffered'[s] = IF s = p THEN buffered[s] \ {"HUP"} ELSE buffered[s]
  BY WroteFacts DEF Hangup, Inv
<1>2. CASE q # p
  <2>1. /\ at'[q] = at[q] /\ handled'[q] = handled[q] /\ running'[q] = running[q]
        /\ buffered'[q] = buffered[q] /\ written'[q] = written[q]
    BY <1>1, <1>2 DEF Hangup, Inv, TypeOK, HandlersOK
  <2> QED
    BY <2>1, SilentSame DEF Inv
<1>3. CASE q = p
  <2>1. /\ handled' = handled /\ running'[q] = SubSeq(running[q], 1, Len(running[q]) - 1)
        /\ Top(q) = "HUP" /\ Silent(q)
    BY <1>3 DEF Hangup, Inv, HandlersOK
  <2>2. running[q] = <<"HUP">> \/ running[q] = <<"TERM", "HUP">>
    BY <2>1, Tops DEF Silent
  <2>3. buffered'[q] = buffered[q] \ {"HUP"}
    BY <1>1, <1>3
  <2>4. CASE running[q] = <<"HUP">>
    <3>1. ~Terminated(q) /\ "TERM" \notin buffered[q]
      BY <2>1, <2>4, DistinctStacks DEF Silent
    <3>2. ~Terminated(q)' /\ running'[q] = <<>>
      BY <1>1, <2>1, <2>4, <3>1, Calls DEF Terminated
    <3> QED
      BY <2>3, <3>1, <3>2 DEF Silent
  <2>5. CASE running[q] = <<"TERM", "HUP">>
    <3>1. handled[q] = {} /\ (Terminated(q) => "TERM" \notin buffered[q] /\ written[q] = 0)
      BY <2>1, <2>5, DistinctStacks DEF Silent
    <3>2. running'[q] = <<"TERM">>
      BY <2>1, <2>5, Calls
    <3>3. Terminated(q)' => Terminated(q) /\ written'[q] = written[q] + 1
      BY <1>1, <1>3 DEF Terminated
    <3>4. Bound(q)' = 1
      BY <2>1, <3>1 DEF Bound
    <3>5. Terminated(q)' => written'[q] <= Bound(q)'
      BY <3>1, <3>3, <3>4
    <3> QED
      BY <2>1, <2>3, <3>1, <3>2, <3>3, <3>5 DEF Silent
  <2> QED
    BY <2>2, <2>4, <2>5
<1> QED
  BY <1>2, <1>3

LEMMA SilentTerminate ==
  ASSUME Inv, NEW p \in Procs, NEW q \in Procs, Terminate(p)
  PROVE  Silent(q)'
<1>2. CASE q # p
  <2>1. /\ at'[q] = at[q] /\ handled'[q] = handled[q] /\ running'[q] = running[q]
        /\ buffered'[q] = buffered[q] /\ written'[q] = written[q]
    BY <1>2 DEF Terminate, Inv, TypeOK, HandlersOK
  <2> QED
    BY <2>1, SilentSame DEF Inv
<1>3. CASE q = p
  <2>1. /\ handled' = handled /\ running' = running /\ written'[q] = 0
        /\ buffered'[q] = buffered[q] \ {"TERM"} /\ Top(q) = "TERM" /\ Silent(q)
    BY <1>3 DEF Terminate, Inv, HandlersOK
  <2>2. running[q] = <<"TERM">> \/ running[q] = <<"HUP", "TERM">>
    BY <2>1, Tops DEF Silent
  <2>3. Bound(q)' \in {0, 1}
    BY DEF Bound
  <2>4. written'[q] <= Bound(q)'
    BY <2>1, <2>3
  <2>5. CASE running[q] = <<"TERM">>
    <3>1. "TERM" \notin handled[q] /\ "HUP" \notin buffered[q]
      BY <2>1, <2>5, DistinctStacks DEF Silent
    <3> QED
      BY <2>1, <2>4, <2>5, <3>1 DEF Silent
  <2>6. CASE running[q] = <<"HUP", "TERM">>
    <3>1. handled[q] = {} /\ "TERM" \notin buffered[q]
      BY <2>1, <2>6, DistinctStacks DEF Silent
    <3> QED
      BY <2>1, <2>6, <3>1 DEF Silent
  <2> QED
    BY <2>2, <2>5, <2>6
<1> QED
  BY <1>2, <1>3

(* What a process has logged after "terminate" when exit() has flushed.    *)
LEMMA AfterExit ==
  ASSUME Inv, NEW p \in Procs, Alive(p), Terminated(p)
  PROVE  written[p] + Flushed(p) <= Bound(p) + 1
<1>1. running[p] # <<>> /\ Silent(p) /\ written[p] \in Int
  BY MainGoesOn DEF Alive, Inv, HandlersOK
<1>2. Flushed(p) \in 0..2 /\ ("HUP" \notin buffered[p] => Flushed(p) \in 0..1)
  BY Flushes
<1>3. handled[p] = {} => Bound(p) = 1
  BY DEF Bound
<1>4. Bound(p) \in {0, 1}
  BY DEF Bound
<1>5. CASE running[p] = <<"TERM">>
  <2>1. written[p] <= Bound(p) /\ "HUP" \notin buffered[p]
    BY <1>1, <1>5, DistinctStacks DEF Silent
  <2> QED
    BY <1>1, <1>2, <1>4, <2>1
<1>6. CASE running[p] = <<"HUP", "TERM">> \/ running[p] = <<"TERM", "HUP">>
  <2>1. written[p] = 0 /\ handled[p] = {}
    BY <1>1, <1>6, DistinctStacks DEF Silent
  <2> QED
    BY <1>2, <1>3, <2>1
<1> QED
  BY <1>1, <1>5, <1>6 DEF Silent

LEMMA SilentExit ==
  ASSUME Inv, NEW p \in Procs, NEW q \in Procs, Exit(p)
  PROVE  Silent(q)'
<1>1. /\ EndWithin(p) /\ UNCHANGED handled /\ Alive(p) /\ Terminated(p)
      /\ written'[p] = written[p] + Flushed(p) /\ (q # p => written'[q] = written[q])
  BY DEF Exit, Inv, HandlersOK
<1>2. written'[p] <= Bound(p) + 1 /\ written'[p] \in Int
  <2>1. Flushed(p) \in Int /\ written[p] \in Int
    BY Flushes DEF Inv, HandlersOK
  <2> QED
    BY <1>1, <2>1, AfterExit
<1> QED
  BY <1>1, <1>2, SilentEnd

LEMMA SilentLogFails ==
  ASSUME Inv, NEW p \in Procs, NEW q \in Procs, LogFails(p)
  PROVE  Silent(q)'
<1>1. EndWithin(p) /\ UNCHANGED handled /\ Alive(p) /\ Top(p) \notin buffered[p] /\ Silent(p)
  BY DEF LogFails, Inv
<1>2. PICK n \in 0..Flushed(p) :
        written' = [written EXCEPT ![p] = IF Terminated(p) THEN @ + Flushed(p)
                                          ELSE IF "TERM" \in buffered[p] THEN n ELSE @]
  BY DEF LogFails
<1>3. written[p] \in Int /\ (q # p => written'[q] = written[q])
  BY <1>2 DEF Inv, HandlersOK
<1>4. CASE Terminated(p)
  <2>1. written'[p] = written[p] + Flushed(p)
    BY <1>2, <1>4 DEF Inv, HandlersOK
  <2>2. written'[p] <= Bound(p) + 1 /\ written'[p] \in Int
    BY <1>1, <1>3, <1>4, <2>1, AfterExit, Flushes
  <2> QED
    BY <1>1, <1>3, <2>2, SilentEnd
<1>5. CASE ~Terminated(p) /\ "TERM" \notin buffered[p]
  <2>1. written'[p] = written[p]
    BY <1>2, <1>5 DEF Inv, HandlersOK
  <2>2. written'[p] < 0 /\ written'[p] \in Int
    BY <1>3, <1>5, <2>1 DEF Terminated
  <2> QED
    BY <1>1, <1>3, <2>2, SilentEnd
<1>6. CASE ~Terminated(p) /\ "TERM" \in buffered[p]
  <2>1. written'[p] = n
    BY <1>2, <1>6 DEF Inv, HandlersOK
  <2>2. running[p] = <<"TERM">> \/ running[p] = <<"TERM", "HUP">>
    BY <1>1, <1>6 DEF Silent
  <2>3. running[p] # <<"TERM">>
    BY <1>1, <1>6, Tops
  <2>4. handled[p] = {} /\ "HUP" \notin buffered[p]
    BY <1>1, <2>2, <2>3, DistinctStacks DEF Silent
  <2>5. Flushed(p) \in 0..1 /\ Bound(p) = 1
    BY <2>4, Flushes DEF Bound
  <2>6. written'[p] <= Bound(p) + 1 /\ written'[p] \in Int
    BY <2>1, <2>5
  <2> QED
    BY <1>1, <1>3, <2>6, SilentEnd
<1> QED
  BY <1>4, <1>5, <1>6

LEMMA SilentStep == ASSUME Inv, [Next]_vars, NEW q \in Procs PROVE Silent(q)'
<1>1. ASSUME NEW p \in Procs, NEW init \in BOOLEAN, Start(p, init) PROVE Silent(q)'
  <2>1. /\ running[p] = <<>> /\ at[p] # "ended" /\ UNCHANGED running /\ written'[q] = written[q]
        /\ q # p => at'[q] = at[q] /\ handled'[q] = handled[q] /\ buffered'[q] = buffered[q]
        /\ buffered'[p] \subseteq buffered[p]
    BY <1>1 DEF Start, Inv, TypeOK, HandlersOK, Main, Go, End, handlerVars, Owner
  <2> QED
    BY <2>1, SilentMain
<1>2. ASSUME NEW p \in Procs, SetLock(p) PROVE Silent(q)'
  <2>1. /\ running[p] = <<>> /\ at[p] # "ended" /\ UNCHANGED running /\ written'[q] = written[q]
        /\ q # p => at'[q] = at[q] /\ handled'[q] = handled[q] /\ buffered'[q] = buffered[q]
        /\ buffered'[p] \subseteq buffered[p]
    BY <1>2 DEF SetLock, Inv, TypeOK, HandlersOK, Main, Go, End, handlerVars
  <2> QED
    BY <2>1, SilentMain
<1>3. ASSUME NEW p \in Procs, Truncate(p) PROVE Silent(q)'
  <2>1. /\ running[p] = <<>> /\ at[p] # "ended" /\ UNCHANGED running /\ written'[q] = written[q]
        /\ q # p => at'[q] = at[q] /\ handled'[q] = handled[q] /\ buffered'[q] = buffered[q]
        /\ buffered'[p] \subseteq buffered[p]
    BY <1>3 DEF Truncate, Inv, TypeOK, HandlersOK, Main, Go, End, handlerVars
  <2> QED
    BY <2>1, SilentMain
<1>4. ASSUME NEW p \in Procs, WritePid(p) PROVE Silent(q)'
  <2>1. /\ running[p] = <<>> /\ at[p] # "ended" /\ UNCHANGED running /\ written'[q] = written[q]
        /\ q # p => at'[q] = at[q] /\ handled'[q] = handled[q] /\ buffered'[q] = buffered[q]
        /\ buffered'[p] \subseteq buffered[p]
    BY <1>4 DEF WritePid, Inv, TypeOK, HandlersOK, Main, Go, End, handlerVars
  <2> QED
    BY <2>1, SilentMain
<1>5. ASSUME NEW p \in Procs, Handle(p) PROVE Silent(q)'
  <2>1. /\ running[p] = <<>> /\ at[p] # "ended" /\ UNCHANGED running /\ written'[q] = written[q]
        /\ q # p => at'[q] = at[q] /\ handled'[q] = handled[q] /\ buffered'[q] = buffered[q]
        /\ buffered'[p] \subseteq buffered[p]
    BY <1>5 DEF Handle, Inv, TypeOK, HandlersOK, Main, Go, End, handlerVars
  <2> QED
    BY <2>1, SilentMain
<1>6. ASSUME NEW p \in Procs, SetSocket(p) PROVE Silent(q)'
  <2>1. /\ running[p] = <<>> /\ at[p] # "ended" /\ UNCHANGED running /\ written'[q] = written[q]
        /\ q # p => at'[q] = at[q] /\ handled'[q] = handled[q] /\ buffered'[q] = buffered[q]
        /\ buffered'[p] \subseteq buffered[p]
    BY <1>6 DEF SetSocket, Inv, TypeOK, HandlersOK, Main, Go, End, handlerVars
  <2> QED
    BY <2>1, SilentMain
<1>7. ASSUME NEW p \in Procs, Fails(p) PROVE Silent(q)'
  <2>1. /\ running[p] = <<>> /\ at[p] # "ended" /\ UNCHANGED running /\ written'[q] = written[q]
        /\ q # p => at'[q] = at[q] /\ handled'[q] = handled[q] /\ buffered'[q] = buffered[q]
        /\ buffered'[p] \subseteq buffered[p]
    BY <1>7 DEF Fails, Inv, TypeOK, HandlersOK, Main, Go, End, handlerVars
  <2> QED
    BY <2>1, SilentMain
<1>8. ASSUME NEW p \in Procs, Accept(p) PROVE Silent(q)'
  <2>1. /\ running[p] = <<>> /\ at[p] # "ended" /\ UNCHANGED running /\ written'[q] = written[q]
        /\ q # p => at'[q] = at[q] /\ handled'[q] = handled[q] /\ buffered'[q] = buffered[q]
        /\ buffered'[p] \subseteq buffered[p]
    BY <1>8 DEF Accept, Inv, TypeOK, HandlersOK, Main, Go, End, handlerVars
  <2> QED
    BY <2>1, SilentMain
<1>9. ASSUME NEW p \in Procs, LogIp(p) PROVE Silent(q)'
  <2>0. running[p] = <<>> /\ at[p] # "ended" /\ ~Terminated(p)
    BY <1>9, MainGoesOn DEF LogIp, Main
  <2>1. /\ running[p] = <<>> /\ at[p] # "ended" /\ UNCHANGED running /\ written'[q] = written[q]
        /\ q # p => at'[q] = at[q] /\ handled'[q] = handled[q] /\ buffered'[q] = buffered[q]
        /\ buffered'[p] \subseteq buffered[p]
    BY <1>9, <2>0, WroteFacts DEF LogIp, Inv, TypeOK, HandlersOK, Main, Go, End, Terminated
  <2> QED
    BY <2>1, SilentMain
<1>10. ASSUME NEW p \in Procs, UpdateSize(p) PROVE Silent(q)'
  <2>1. /\ running[p] = <<>> /\ at[p] # "ended" /\ UNCHANGED running /\ written'[q] = written[q]
        /\ q # p => at'[q] = at[q] /\ handled'[q] = handled[q] /\ buffered'[q] = buffered[q]
        /\ buffered'[p] \subseteq buffered[p]
    BY <1>10 DEF UpdateSize, Inv, TypeOK, HandlersOK, Main, Go, End, handlerVars
  <2> QED
    BY <2>1, SilentMain
<1>11. ASSUME NEW p \in Procs, Read(p) PROVE Silent(q)'
  <2>1. /\ running[p] = <<>> /\ at[p] # "ended" /\ UNCHANGED running /\ written'[q] = written[q]
        /\ q # p => at'[q] = at[q] /\ handled'[q] = handled[q] /\ buffered'[q] = buffered[q]
        /\ buffered'[p] \subseteq buffered[p]
    BY <1>11 DEF Read, Inv, TypeOK, HandlersOK, Main, Go, End, handlerVars
  <2> QED
    BY <2>1, SilentMain
<1>12. ASSUME NEW p \in Procs, LogQuery(p) PROVE Silent(q)'
  <2>0. running[p] = <<>> /\ at[p] # "ended" /\ ~Terminated(p)
    BY <1>12, MainGoesOn DEF LogQuery, Main
  <2>1. /\ running[p] = <<>> /\ at[p] # "ended" /\ UNCHANGED running /\ written'[q] = written[q]
        /\ q # p => at'[q] = at[q] /\ handled'[q] = handled[q] /\ buffered'[q] = buffered[q]
        /\ buffered'[p] \subseteq buffered[p]
    BY <1>12, <2>0, WroteFacts DEF LogQuery, Inv, TypeOK, HandlersOK, Main, Go, End, Terminated
  <2> QED
    BY <2>1, SilentMain
<1>13. ASSUME NEW p \in Procs, Send(p) PROVE Silent(q)'
  <2>1. /\ running[p] = <<>> /\ at[p] # "ended" /\ UNCHANGED running /\ written'[q] = written[q]
        /\ q # p => at'[q] = at[q] /\ handled'[q] = handled[q] /\ buffered'[q] = buffered[q]
        /\ buffered'[p] \subseteq buffered[p]
    BY <1>13 DEF Send, Inv, TypeOK, HandlersOK, Main, Go, End, handlerVars
  <2> QED
    BY <2>1, SilentMain
<1>14. ASSUME NEW p \in Procs, Interrupted(p) PROVE Silent(q)'
  <2>1. /\ running[p] = <<>> /\ at[p] # "ended" /\ UNCHANGED running /\ written'[q] = written[q]
        /\ q # p => at'[q] = at[q] /\ handled'[q] = handled[q] /\ buffered'[q] = buffered[q]
        /\ buffered'[p] \subseteq buffered[p]
    BY <1>14 DEF Interrupted, Inv, TypeOK, HandlersOK, Main, Go, End, handlerVars
  <2> QED
    BY <2>1, SilentMain
<1>15. ASSUME NEW p \in Procs, Hangup(p) PROVE Silent(q)'
  BY <1>15, SilentHangup
<1>16. ASSUME NEW p \in Procs, Terminate(p) PROVE Silent(q)'
  BY <1>16, SilentTerminate
<1>17. ASSUME NEW p \in Procs, Exit(p) PROVE Silent(q)'
  BY <1>17, SilentExit
<1>18. ASSUME NEW p \in Procs, LogFails(p) PROVE Silent(q)'
  BY <1>18, SilentLogFails
<1>19. ASSUME NEW p \in Procs, Hang(p) PROVE Silent(q)'
  <2>1. /\ handled'[q] = handled[q] /\ running'[q] = running[q] /\ buffered'[q] = buffered[q]
        /\ written'[q] = written[q] /\ (at'[q] = at[q] \/ (at'[q] = "hung" /\ at[q] # "ended"))
    BY <1>19 DEF Hang, Inv, TypeOK, HandlersOK, Go, Alive, handlerVars
  <2> QED
    BY <2>1, SilentSame DEF Inv
<1>20. ASSUME NEW p \in Procs, Connect(p) PROVE Silent(q)'
  <2>1. /\ handled'[q] = handled[q] /\ running'[q] = running[q] /\ buffered'[q] = buffered[q]
        /\ written'[q] = written[q] /\ (at'[q] = at[q] \/ (at'[q] = "hung" /\ at[q] # "ended"))
    BY <1>20 DEF Connect, Inv, TypeOK, HandlersOK, Go, Alive, handlerVars
  <2> QED
    BY <2>1, SilentSame DEF Inv
<1>21. ASSUME NEW p \in Procs, NEW signal \in {"HUP", "TERM"}, Kill(p, signal) PROVE Silent(q)'
  <2>1. EndWithin(p) /\ UNCHANGED handled /\ written' = written
    BY <1>21 DEF Kill
  <2>2. written[p] \in Int /\ (written[p] < 0 \/ written[p] <= Bound(p) + 1)
    <3>1. written[p] \in Int /\ Bound(p) \in {0, 1}
      BY DEF Inv, HandlersOK, Bound
    <3>2. Silent(p)
      BY DEF Inv
    <3>3. Terminated(p) => written[p] <= Bound(p) + 1
      BY <3>1, <3>2 DEF Silent
    <3> QED
      BY <3>1, <3>3 DEF Terminated
  <2> QED
    BY <2>1, <2>2, SilentEnd
<1>22. ASSUME NEW p \in Procs, NEW signal \in {"HUP", "TERM"}, Signal(p, signal) PROVE Silent(q)'
  BY <1>22, SilentSignal
<1>23. ASSUME NEW p \in Procs, NEW signal \in {"HUP", "TERM"}, Deaf(p, signal) PROVE Silent(q)'
  <2>1. CASE q # p
    <3>1. /\ handled'[q] = handled[q] /\ running'[q] = running[q] /\ buffered'[q] = buffered[q]
          /\ written'[q] = written[q] /\ at'[q] = at[q]
      BY <1>23, <2>1 DEF Deaf, Inv, TypeOK, handlerVars
    <3> QED
      BY <3>1, SilentSame DEF Inv
  <2>2. CASE q = p
    <3>1. /\ handled'[q] \subseteq handled[q] /\ running' = running /\ buffered' = buffered
          /\ written' = written /\ at' = at
      BY <1>23, <2>2 DEF Deaf, Inv, TypeOK, handlerVars
    <3>2. Bound(q) \in {0, 1} /\ Bound(q)' \in {0, 1} /\ Bound(q) <= Bound(q)'
      BY <3>1 DEF Bound
    <3>3. written[q] \in Int /\ Silent(q)
      BY DEF Inv, HandlersOK
    <3>4. written[q] <= Bound(q) => written'[q] <= Bound(q)'
      BY <3>1, <3>2, <3>3
    <3>5. written[q] <= Bound(q) + 1 => written'[q] <= Bound(q)' + 1
      BY <3>1, <3>2, <3>3
    <3> QED
      BY <3>1, <3>3, <3>4, <3>5 DEF Silent, Terminated
  <2> QED
    BY <2>1, <2>2
<1>24. ASSUME NEW s \in Sizes \cup {Missing}, Change(s) PROVE Silent(q)'
  <2>1. /\ handled'[q] = handled[q] /\ running'[q] = running[q] /\ buffered'[q] = buffered[q]
        /\ written'[q] = written[q] /\ at'[q] = at[q]
    BY <1>24 DEF Change, handlerVars
  <2> QED
    BY <2>1, SilentSame DEF Inv
<1>25. ASSUME UNCHANGED vars PROVE Silent(q)'
  <2>1. /\ handled'[q] = handled[q] /\ running'[q] = running[q] /\ buffered'[q] = buffered[q]
        /\ written'[q] = written[q] /\ at'[q] = at[q]
    BY <1>25 DEF vars, handlerVars
  <2> QED
    BY <2>1, SilentSame DEF Inv
<1> QED
  BY <1>1, <1>2, <1>3, <1>4, <1>5, <1>6, <1>7, <1>8, <1>9, <1>10,
     <1>11, <1>12, <1>13, <1>14, <1>15, <1>16, <1>17, <1>18, <1>19, <1>20,
     <1>21, <1>22, <1>23, <1>24, <1>25 DEF Next

LEMMA Invariance == Spec => []Inv
<1>1. Inv /\ [Next]_vars => Inv'
  BY TypeStep, HandlersStep, OwnerStep, CurrentStep, SilentStep DEF Inv
<1> QED
  BY InitInv, <1>1, PTL DEF Spec

(* Of the processes that forked, one at most serves, whatever became of    *)
(* the others, and /tmp/otus.lock names it (set_lock).                     *)
THEOREM OneServer == Spec => []OneServes
<1>1. Inv => OneServes
  BY DEF Inv, Owner, OneServes, Locked, Named
<1> QED
  BY Invariance, <1>1, PTL

(* Nobody is told a size the file had only before the connection           *)
(* (update_size and dialog in the loop of main()).                         *)
THEOREM AnswersAreCurrent == Spec => []AnswersCurrent
<1>1. Inv => AnswersCurrent
  BY DEF Inv, Current, AnswersCurrent
<1> QED
  BY Invariance, <1>1, PTL

(* The "terminate" record of signal_handler is the last but for the        *)
(* records of calls of log_message that signals interrupted.               *)
THEOREM TerminateIsTheEnd == Spec => []TerminateEndsLog
<1>1. ASSUME Inv, NEW p \in Procs, Terminated(p)
      PROVE  /\ written[p] <= IF "HUP" \in handled[p] THEN 1 ELSE 2
             /\ at[p] = "ended" \/ \E k \in 1..Len(running[p]) : running[p][k] = "TERM"
  <2> DEFINE opened == \E k \in 1..Len(running[p]) : running[p][k] = "TERM"
  <2>1. written[p] \in Int /\ Silent(p)
    BY <1>1 DEF Inv, HandlersOK
  <2>2. (Bound(p) = 0 /\ "HUP" \in handled[p]) \/ (Bound(p) = 1 /\ "HUP" \notin handled[p])
    BY DEF Bound
  <2>3. \/ at[p] = "ended" /\ written[p] <= Bound(p) + 1
        \/ running[p] = <<"TERM">> /\ written[p] <= Bound(p)
        \/ running[p] \in {<<"HUP", "TERM">>, <<"TERM", "HUP">>} /\ written[p] = 0
    BY <1>1, <2>1, Zenon DEF Silent
  <2>4. at[p] = "ended" \/ opened
    <3>1. ASSUME running[p] = <<"TERM">> PROVE opened
      BY <3>1
    <3>2. ASSUME running[p] = <<"HUP", "TERM">> PROVE opened
      <4>1. 2 \in 1..Len(running[p]) /\ running[p][2] = "TERM"
        BY <3>2
      <4> QED
        BY <4>1
    <3>3. ASSUME running[p] = <<"TERM", "HUP">> PROVE opened
      <4>1. 1 \in 1..Len(running[p]) /\ running[p][1] = "TERM"
        BY <3>3
      <4> QED
        BY <4>1
    <3> HIDE DEF opened
    <3> QED
      BY <2>3, <3>1, <3>2, <3>3, Zenon
  <2>5. written[p] <= IF "HUP" \in handled[p] THEN 1 ELSE 2
    <3>1. written[p] <= Bound(p) + 1
      BY <2>1, <2>2, <2>3
    <3> QED
      BY <2>1, <2>2, <3>1
  <2> QED
    BY <2>4, <2>5
<1>2. Inv => TerminateEndsLog
  BY <1>1 DEF TerminateEndsLog
<1> QED
  BY Invariance, <1>2, PTL

-----------------------------------------------------------------------------
(* The recursion of clib_package_install (src/HW5/clib) ends on cycles of  *)
(* dependencies, for any packages, names and dependencies.                 *)

(* A frame; what its directory and its list are does not matter here.      *)
StackFrames(D, T) ==
  [pkg : Slugs \cup {Resolve!Root}, dir : D, phase : {"deps", "install", "dev"}, todo : T]

CallStack(f) == \E D, T : f \in Seq(StackFrames(D, T))

(* Above the first frame, which is the user's, every name has been met and *)
(* none is there twice.                                                    *)
Distinct(f, visited) ==
  /\ \A k \in 2..Len(f) : NameOf[f[k].pkg] \in visited
  /\ \A j, k \in 2..Len(f) : j # k => NameOf[f[j].pkg] # NameOf[f[k].pkg]

ResolveInv == CallStack(frames) /\ force \in BOOLEAN /\ (~force => Distinct(frames, visited_packages))

-----------------------------------------------------------------------------
(* The shapes a step gives to the stack: the same packages, one fewer, or  *)
(* one more on top.                                                        *)
LEMMA StackLength == ASSUME CallStack(frames), frames # <<>> PROVE Len(frames) \in Nat \ {0}
  BY DEF CallStack

LEMMA NotAbove ==
  ASSUME NEW f, CallStack(f), NEW g, CallStack(g), Len(g) <= Len(f),
         \A k \in 1..Len(g) : g[k].pkg = f[k].pkg,
         NEW visited, NEW more, visited \subseteq more, Distinct(f, visited)
  PROVE  Distinct(g, more)
<1>1. Len(f) \in Nat /\ Len(g) \in Nat
  BY DEF CallStack
<1>2. \A k \in 2..Len(g) : k \in 2..Len(f) /\ k \in 1..Len(g)
  BY <1>1
<1> QED
  BY <1>2 DEF Distinct

LEMMA OneAbove ==
  ASSUME NEW f, CallStack(f), NEW p \in Slugs \cup {Resolve!Root}, NEW d, NEW list,
         NEW phase \in {"deps", "install", "dev"},
         NEW visited, Distinct(f, visited), Len(f) = 1 \/ NameOf[p] \notin visited
  PROVE  Distinct(Append(f, Resolve!Frame(p, d, phase, list)), visited \cup {NameOf[p]})
<1> DEFINE x == Resolve!Frame(p, d, phase, list)
           g == Append(f, x)
<1>1. Len(f) \in Nat /\ Len(g) = Len(f) + 1 /\ g[Len(f) + 1] = x /\ \A k \in 1..Len(f) : g[k] = f[k]
  BY DEF CallStack
<1>2. x.pkg = p
  BY DEF Resolve!Frame
<1>3. Len(f) = 1 => 2..Len(f) = {}
  OBVIOUS
<1>4. \A k \in 2..Len(f) : NameOf[f[k].pkg] \in visited /\ NameOf[f[k].pkg] # NameOf[p]
  BY <1>3 DEF Distinct
<1>5. \A k \in 2..(Len(f) + 1) : (k \in 2..Len(f) /\ k \in 1..Len(f)) \/ k = Len(f) + 1
  BY <1>1
<1> HIDE DEF x, g
<1>6. \A k \in 2..Len(g) : NameOf[g[k].pkg] \in visited \cup {NameOf[p]}
  BY <1>1, <1>2, <1>4, <1>5
<1>7. \A j, k \in 2..Len(f) : j # k => NameOf[f[j].pkg] # NameOf[f[k].pkg]
  BY DEF Distinct
<1>8. \A j, k \in 2..Len(g) : j # k => NameOf[g[j].pkg] # NameOf[g[k].pkg]
  BY <1>1, <1>2, <1>4, <1>5, <1>7
<1> QED
  BY <1>6, <1>8 DEF Distinct, g, x

(* A frame on a stack makes a stack.                                       *)
LEMMA Pushed ==
  ASSUME NEW f, CallStack(f), NEW p \in Slugs \cup {Resolve!Root}, NEW d, NEW list,
         NEW phase \in {"deps", "install", "dev"}
  PROVE  CallStack(Append(f, Resolve!Frame(p, d, phase, list)))
<1>1. PICK D, T : f \in Seq(StackFrames(D, T))
  BY DEF CallStack
<1>2. StackFrames(D, T) \subseteq StackFrames(D \cup {d}, T \cup {list})
  BY DEF StackFrames
<1>3. f \in Seq(StackFrames(D \cup {d}, T \cup {list}))
  BY <1>1, <1>2, SeqMonotonic
<1>4. Resolve!Frame(p, d, phase, list) \in StackFrames(D \cup {d}, T \cup {list})
  BY DEF Resolve!Frame, StackFrames
<1> QED
  BY <1>3, <1>4 DEF CallStack

LEMMA TookFacts ==
  ASSUME CallStack(frames), frames # <<>>, NEW s
  PROVE  /\ CallStack(Resolve!Took(s)) /\ Len(Resolve!Took(s)) = Len(frames)
         /\ \A k \in 1..Len(frames) : Resolve!Took(s)[k].pkg = frames[k].pkg
<1>1. PICK D, T : frames \in Seq(StackFrames(D, T))
  BY DEF CallStack
<1>2. Len(frames) \in 1..Len(frames) /\ Resolve!Top \in StackFrames(D, T)
  BY <1>1 DEF Resolve!Top
<1> DEFINE U == T \cup {Resolve!Top.todo \ {s}}
           x == [Resolve!Top EXCEPT !.todo = @ \ {s}]
<1>3. StackFrames(D, T) \subseteq StackFrames(D, U)
  BY DEF StackFrames
<1>4. x \in StackFrames(D, U) /\ x.pkg = Resolve!Top.pkg
  BY <1>2 DEF StackFrames
<1>5. Resolve!Took(s) = [frames EXCEPT ![Len(frames)] = x]
  BY <1>1, <1>2 DEF Resolve!Took, Resolve!Top
<1>6. frames \in Seq(StackFrames(D, U))
  BY <1>1, <1>3, SeqMonotonic
<1> HIDE DEF U, x
<1>7. Resolve!Took(s) \in Seq(StackFrames(D, U)) /\ Len(Resolve!Took(s)) = Len(frames)
  BY <1>2, <1>4, <1>5, <1>6
<1>8. \A k \in 1..Len(frames) : Resolve!Took(s)[k].pkg = frames[k].pkg
  BY <1>1, <1>2, <1>4, <1>5 DEF Resolve!Top
<1> QED
  BY <1>7, <1>8 DEF CallStack

LEMMA BelowFacts ==
  ASSUME CallStack(frames), frames # <<>>
  PROVE  /\ CallStack(Resolve!Below) /\ Len(Resolve!Below) = Len(frames) - 1
         /\ \A k \in 1..(Len(frames) - 1) : Resolve!Below[k] = frames[k]
         /\ Resolve!Top.pkg \in Slugs \cup {Resolve!Root}
<1>1. PICK D, T : frames \in Seq(StackFrames(D, T))
  BY DEF CallStack
<1>2. PICK n \in Nat \ {0} : n = Len(frames)
  BY StackLength
<1>3. \A k \in 1..n : frames[k] \in StackFrames(D, T)
  BY <1>1, <1>2
<1>4. \A k \in 1..(n - 1) : frames[k] \in StackFrames(D, T)
  BY <1>3, \A k \in 1..(n - 1) : k \in 1..n
<1>5. /\ Resolve!Below \in Seq(StackFrames(D, T))
      /\ Len(Resolve!Below) = IF 1 <= n - 1 THEN n - 1 - 1 + 1 ELSE 0
      /\ \A k \in 1..(n - 1 - 1 + 1) : Resolve!Below[k] = frames[1 + k - 1]
  BY <1>2, <1>4, SubSeqProperties DEF Resolve!Below
<1>6. Len(Resolve!Below) = n - 1 /\ \A k \in 1..(n - 1) : Resolve!Below[k] = frames[k]
  BY <1>2, <1>5
<1>7. Resolve!Top \in StackFrames(D, T)
  BY <1>2, <1>3, n \in 1..n DEF Resolve!Top
<1> QED
  BY <1>2, <1>5, <1>6, <1>7 DEF CallStack, StackFrames

(* The frame on top is replaced by one of the same package.                *)
LEMMA SameTop ==
  ASSUME CallStack(frames), frames # <<>>, NEW d, NEW list, NEW phase \in {"deps", "install", "dev"}
  PROVE  LET g == Append(Resolve!Below, Resolve!Frame(Resolve!Top.pkg, d, phase, list)) IN
         /\ CallStack(g) /\ Len(g) = Len(frames)
         /\ \A k \in 1..Len(frames) : g[k].pkg = frames[k].pkg
<1> DEFINE x == Resolve!Frame(Resolve!Top.pkg, d, phase, list)
           g == Append(Resolve!Below, x)
<1>1. PICK n \in Nat \ {0} : n = Len(frames)
  BY StackLength
<1>2. CallStack(g)
  BY BelowFacts, Pushed
<1>3. Len(g) = n /\ g[n] = x /\ \A k \in 1..(n - 1) : g[k] = Resolve!Below[k]
  BY <1>1, BelowFacts DEF CallStack
<1>4. x.pkg = Resolve!Top.pkg
  BY DEF Resolve!Frame
<1>5. \A k \in 1..n : k \in 1..(n - 1) \/ k = n
  OBVIOUS
<1> HIDE DEF x, g
<1>6. \A k \in 1..n : g[k].pkg = frames[k].pkg
  BY <1>1, <1>3, <1>4, <1>5, BelowFacts DEF Resolve!Top
<1> QED
  BY <1>1, <1>2, <1>3, <1>6 DEF g, x

-----------------------------------------------------------------------------
LEMMA BeginStep ==
  ASSUME NEW x, NEW f \in BOOLEAN, NEW g, NEW d, NEW wanted, Resolve!Begin(x, f, g, d, wanted) PROVE ResolveInv'
<1>1. force' \in BOOLEAN
  BY DEF Resolve!Begin
<1>2. CallStack(<<>>)
  BY DEF CallStack
<1>3. frames' = Append(<<>>, Resolve!Frame(Resolve!Root, Resolve!Deps, "deps", wanted))
  BY DEF Resolve!Begin
<1>4. CallStack(frames')
  BY <1>2, <1>3, Pushed
<1>5. Len(frames') = 1
  BY DEF Resolve!Begin
<1> QED
  BY <1>1, <1>4, <1>5 DEF ResolveInv, Distinct

(* A name that has been met is asked for again: only the development       *)
(* packages of what the user named may follow, in the second frame.        *)
LEMMA VisitStep == ASSUME ResolveInv, NEW s \in Slugs, Resolve!Visit(s) PROVE ResolveInv'
<1>1. frames # <<>> /\ Resolve!Seen(s) /\ UNCHANGED <<force, visited_packages>>
  BY DEF Resolve!Visit, Resolve!Running, Resolve!opts
<1>2. CallStack(Resolve!Took(s)) /\ (~force => Distinct(Resolve!Took(s), visited_packages))
  BY <1>1, TookFacts, NotAbove DEF ResolveInv
<1>3. CASE frames' = Resolve!Took(s)
  BY <1>1, <1>2, <1>3 DEF ResolveInv
<1>4. CASE frames' # Resolve!Took(s)
  <2>1. /\ frames' = Append(Resolve!Took(s), Resolve!Frame(s, Resolve!Deps, "dev", Development[s]))
        /\ Resolve!DevDue(Len(frames) + 1, "deps")
    BY <1>4 DEF Resolve!Visit
  <2>2. Len(Resolve!Took(s)) = 1
    BY <1>1, <2>1, StackLength, TookFacts, \A m \in Nat \ {0} : m + 1 \in {1, 2} => m = 1 DEF Resolve!DevDue, ResolveInv
  <2>3. CallStack(frames')
    BY <1>2, <2>1, Pushed
  <2>4. ~force => Distinct(frames', visited_packages \cup {NameOf[s]})
    BY <1>2, <2>1, <2>2, OneAbove
  <2>5. ~force => visited_packages \cup {NameOf[s]} = visited_packages
    BY <1>1 DEF Resolve!Seen
  <2> QED
    BY <1>1, <2>3, <2>4, <2>5 DEF ResolveInv
<1> QED
  BY <1>3, <1>4

LEMMA PlaceStep == ASSUME ResolveInv, NEW s \in Slugs, Resolve!Place(s) PROVE ResolveInv'
<1>1. /\ frames # <<>> /\ ~Resolve!Seen(s) /\ UNCHANGED force
      /\ visited_packages' = visited_packages \cup {NameOf[s]}
  BY DEF Resolve!Place, Resolve!Running, Resolve!opts
<1>2. \E phase \in {"install", "deps"} : \E d :
        frames' = Append(Resolve!Took(s), Resolve!Frame(s, d, phase, dependencies[s]))
  <2>1. CASE s \in executable
    BY <2>1 DEF Resolve!Place
  <2>2. CASE s \notin executable
    BY <2>2 DEF Resolve!Place
  <2> QED
    BY <2>1, <2>2
<1>3. CallStack(Resolve!Took(s)) /\ (~force => Distinct(Resolve!Took(s), visited_packages))
  BY <1>1, TookFacts, NotAbove DEF ResolveInv
<1>4. CallStack(frames')
  BY <1>2, <1>3, Pushed
<1>5. ~force => Distinct(frames', visited_packages')
  BY <1>1, <1>2, <1>3, OneAbove DEF Resolve!Seen
<1> QED
  BY <1>1, <1>4, <1>5 DEF ResolveInv

LEMMA TopStep == ASSUME ResolveInv, Resolve!Executed \/ Resolve!Develop PROVE ResolveInv'
<1>1. frames # <<>> /\ UNCHANGED <<force, visited_packages>>
  BY DEF Resolve!Executed, Resolve!Develop, Resolve!Running, Resolve!opts
<1>2. \E phase \in {"deps", "dev"} : \E d, list : frames' = Append(Resolve!Below, Resolve!Frame(Resolve!Top.pkg, d, phase, list))
  <2>1. CASE Resolve!Executed
    BY <2>1 DEF Resolve!Executed
  <2>2. CASE Resolve!Develop
    BY <2>2 DEF Resolve!Develop
  <2> QED
    BY <2>1, <2>2
<1>3. CallStack(frames') /\ Len(frames') = Len(frames) /\ \A k \in 1..Len(frames) : frames'[k].pkg = frames[k].pkg
  BY <1>1, <1>2, SameTop DEF ResolveInv
<1>4. ~force => Distinct(frames', visited_packages)
  BY <1>1, <1>3, StackLength, NotAbove DEF ResolveInv
<1> QED
  BY <1>1, <1>3, <1>4 DEF ResolveInv

(* A call returns, or the program ends or begins again with its second     *)
(* manifest.                                                               *)
LEMMA ShorterStep ==
  ASSUME ResolveInv, frames # <<>>, UNCHANGED force, visited_packages \subseteq visited_packages',
         frames' \in {Resolve!Below, <<>>, <<Resolve!Frame(Resolve!Root, Resolve!Deps, "deps", args)>>}
  PROVE  ResolveInv'
<1>1. CASE frames' = Resolve!Below
  <2>1. Len(Resolve!Below) <= Len(frames) /\ \A k \in 1..Len(Resolve!Below) : Resolve!Below[k].pkg = frames[k].pkg
    BY StackLength, BelowFacts DEF ResolveInv
  <2> QED
    BY <1>1, <2>1, BelowFacts, NotAbove DEF ResolveInv
<1>2. CallStack(<<>>)
  BY DEF CallStack
<1>3. CASE frames' = <<>>
  BY <1>2, <1>3 DEF ResolveInv, Distinct
<1>4. CASE frames' = <<Resolve!Frame(Resolve!Root, Resolve!Deps, "deps", args)>>
  <2>1. CallStack(frames') /\ Len(frames') = 1
    <3> DEFINE x == Resolve!Frame(Resolve!Root, Resolve!Deps, "deps", args)
    <3>1. <<x>> = Append(<<>>, x) /\ Len(Append(<<>>, x)) = 1
      OBVIOUS
    <3> QED
      BY <1>2, <1>4, <3>1, Pushed
  <2> QED
    BY <2>1 DEF ResolveInv, Distinct
<1> QED
  BY <1>1, <1>3, <1>4

LEMMA ResolveStep == ASSUME ResolveInv, [Resolve!Next]_(Resolve!vars) PROVE ResolveInv'
<1>1. CASE Resolve!CommandFails \/ Resolve!Return \/ Resolve!Exit
  <2>1. /\ frames # <<>> /\ UNCHANGED force /\ visited_packages \subseteq visited_packages'
        /\ frames' \in {Resolve!Below, <<>>}
    BY <1>1 DEF Resolve!CommandFails, Resolve!Return, Resolve!Exit, Resolve!Running, Resolve!opts
  <2> QED
    BY <2>1, ShorterStep
<1>2. ASSUME NEW s \in Slugs, Resolve!Fail(s) PROVE ResolveInv'
  <2>1. /\ frames # <<>> /\ UNCHANGED force /\ visited_packages \subseteq visited_packages'
        /\ frames' \in {<<>>, <<Resolve!Frame(Resolve!Root, Resolve!Deps, "deps", args)>>}
    BY <1>2 DEF Resolve!Fail, Resolve!GiveUp, Resolve!Running, Resolve!opts
  <2> QED
    BY <2>1, ShorterStep
<1>3. CASE Resolve!ArchiveFails
  <2>1. /\ frames # <<>> /\ UNCHANGED force /\ visited_packages \subseteq visited_packages'
        /\ frames' \in {<<>>, <<Resolve!Frame(Resolve!Root, Resolve!Deps, "deps", args)>>}
    BY <1>3 DEF Resolve!ArchiveFails, Resolve!GiveUp, Resolve!Running, Resolve!opts
  <2> QED
    BY <2>1, ShorterStep
<1>4. CASE UNCHANGED Resolve!vars
  BY <1>4 DEF Resolve!vars, Resolve!opts, ResolveInv
<1> QED
  BY <1>1, <1>2, <1>3, <1>4, BeginStep, VisitStep, PlaceStep, TopStep
     DEF Resolve!Next, Resolve!ClibInstall, Resolve!ClibUpdate, Resolve!ClibUpgrade

(* No name is under installation twice, however the dependencies of the    *)
(* packages are (visited_packages), unless --force or an update installs   *)
(* what has been met.                                                      *)
THEOREM NoNameTwice == Resolve!Spec => []CyclesEnd
<1>1. Resolve!Init => ResolveInv
  <2>1. CallStack(<<>>)
    BY DEF CallStack
  <2>2. Distinct(<<>>, {})
    BY DEF Distinct
  <2> QED
    BY <2>1, <2>2 DEF Resolve!Init, ResolveInv
<1>2. ResolveInv => CyclesEnd
  BY DEF ResolveInv, Distinct, CyclesEnd, Resolve!CyclesEnd
<1> QED
  BY <1>1, ResolveStep, <1>2, PTL DEF Resolve!Spec

-----------------------------------------------------------------------------
(* What a successful run of clib_package_install has put in place, for any *)
(* packages, names, dependencies and order of installation.                *)

(* Something of the name of s is in place, or s is still on some list.     *)
NamePlaced(s, there) == \E p \in there : NameOf[p[1]] = NameOf[s]
Pending(s, f, there) == NamePlaced(s, there) \/ \E k \in 1..Len(f) : s \in f[k].todo

(* The development packages of the user's own manifest are still to be     *)
(* listed, or pending; so are those of each package the user named.        *)
DevelopmentDue(f, there) ==
  IF command = "local"
  THEN f[1].phase = "deps" \/ \A d \in Development[Resolve!Root] : Pending(d, f, there)
  ELSE \A p \in args :
         \/ p \in f[1].todo
         \/ Len(f) > 1 /\ f[2].pkg = p /\ f[2].phase \in {"deps", "install"}
         \/ \A d \in Development[p] : Pending(d, f, there)

Directories == {Resolve!Deps, Resolve!Tmp}
Shape ==
  /\ placed \subseteq Slugs \X Directories
  /\ \A k \in 1..Len(frames) : frames[k].dir \in Directories
  /\ frames # <<>> => frames[1].pkg = Resolve!Root /\ frames[1].phase \in {"deps", "dev"}
  /\ code # Resolve!NoCode => frames = <<>>
  /\ command = "none" => frames = <<>> /\ placed = {} /\ visited_packages = {} /\ code = Resolve!NoCode

(* As long as nothing has failed, whatever is needed is pending.           *)
Going == ~failed /\ ~global /\ manifest = 1
Owed ==
  Going /\ frames # <<>> =>
    /\ \A x \in visited_packages : \E p \in placed : NameOf[p[1]] = x
    /\ \A s \in args : Pending(s, frames, placed)
    /\ \A p \in placed : \A s \in dependencies[p[1]] : Pending(s, frames, placed)
    /\ dev => DevelopmentDue(frames, placed)

InstallInv == ResolveInv /\ Shape /\ Owed /\ SuccessInstalls

LEMMA FrameFields ==
  ASSUME NEW p, NEW d, NEW phase, NEW list
  PROVE  LET x == Resolve!Frame(p, d, phase, list) IN
         x.pkg = p /\ x.dir = d /\ x.phase = phase /\ x.todo = list
  BY DEF Resolve!Frame

LEMMA PushedFrames ==
  ASSUME NEW f, CallStack(f), NEW x
  PROVE  /\ Len(f) \in Nat /\ Len(Append(f, x)) = Len(f) + 1 /\ Append(f, x)[Len(f) + 1] = x
         /\ \A k \in 1..Len(f) : Append(f, x)[k] = f[k]
  BY DEF CallStack

(* Only the list of the frame on top changes when a package is taken off.  *)
LEMMA TookFrames ==
  ASSUME CallStack(frames), frames # <<>>, NEW s
  PROVE  LET f == Resolve!Took(s) IN
         /\ \A k \in 1..Len(frames) :
              /\ f[k].phase = frames[k].phase /\ f[k].dir = frames[k].dir
              /\ \A x \in frames[k].todo : x = s \/ x \in f[k].todo
         /\ \A k \in 1..Len(frames) : k < Len(frames) => f[k] = frames[k]
<1>1. PICK D, T : frames \in Seq(StackFrames(D, T))
  BY DEF CallStack
<1>2. Len(frames) \in 1..Len(frames) /\ Resolve!Top \in StackFrames(D, T)
  BY <1>1 DEF Resolve!Top
<1> DEFINE y == [Resolve!Top EXCEPT !.todo = @ \ {s}]
<1>3. y.phase = Resolve!Top.phase /\ y.dir = Resolve!Top.dir /\ y.todo = Resolve!Top.todo \ {s}
  BY <1>2 DEF StackFrames
<1>4. Resolve!Took(s) = [frames EXCEPT ![Len(frames)] = y]
  BY <1>1, <1>2 DEF Resolve!Took, Resolve!Top
<1> HIDE DEF y
<1>5. /\ \A k \in 1..Len(frames) : k # Len(frames) => Resolve!Took(s)[k] = frames[k]
      /\ Resolve!Took(s)[Len(frames)] = y
  BY <1>1, <1>2, <1>4
<1>6. \A k \in 1..Len(frames) : k < Len(frames) => k # Len(frames)
  BY <1>1
<1> QED
  BY <1>3, <1>5, <1>6 DEF Resolve!Top

-----------------------------------------------------------------------------
(* The three changes of the stack of a run that goes on: a package is      *)
(* taken off the list on top, and a frame may follow; the frame on top,    *)
(* whose list is empty, is replaced, or dropped.                           *)
LEMMA Taken ==
  ASSUME InstallInv, Resolve!Running, NEW s, NEW x, x.dir \in Directories,
         frames' = Resolve!Took(s) \/ frames' = Append(Resolve!Took(s), x),
         UNCHANGED <<command, code>>, placed \subseteq placed', placed' \subseteq Slugs \X Directories
  PROVE  /\ Shape'
         /\ \A k \in 1..Len(frames) :
              /\ k \in 1..Len(frames') /\ frames'[k].pkg = frames[k].pkg /\ frames'[k].phase = frames[k].phase
              /\ \A y \in frames[k].todo : y = s \/ y \in frames'[k].todo
         /\ frames' = Append(Resolve!Took(s), x) => Len(frames') = Len(frames) + 1 /\ frames'[Len(frames) + 1] = x
         /\ \A y : Pending(y, frames, placed) => y = s \/ Pending(y, frames', placed')
<1> DEFINE f == Resolve!Took(s)
<1>1. frames # <<>> /\ CallStack(frames) /\ code = Resolve!NoCode /\ command # "none"
  BY DEF Resolve!Running, InstallInv, ResolveInv, Shape
<1>2. PICK n \in Nat \ {0} : n = Len(frames)
  BY <1>1, StackLength
<1>3. /\ CallStack(f) /\ Len(f) = n
      /\ \A k \in 1..n : f[k].pkg = frames[k].pkg /\ f[k].phase = frames[k].phase /\ f[k].dir = frames[k].dir
      /\ \A k \in 1..n : \A y \in frames[k].todo : y = s \/ y \in f[k].todo
  BY <1>1, <1>2, TookFacts, TookFrames
<1> HIDE DEF f
<1>4. \A k \in 1..n : k \in 1..Len(frames') /\ frames'[k] = f[k]
  <2>1. CASE frames' = f
    BY <1>3, <2>1
  <2>2. CASE frames' = Append(f, x)
    BY <1>3, <2>2, PushedFrames, \A k \in 1..n : k \in 1..(n + 1)
  <2> QED
    BY <2>1, <2>2 DEF f
<1>5. frames' = Append(f, x) => Len(frames') = n + 1 /\ frames'[n + 1] = x
  BY <1>3, PushedFrames
<1>6. \A k \in 1..Len(frames') : k \in 1..n \/ (k = n + 1 /\ frames'[k] = x)
  <2>1. CASE frames' = f
    BY <1>3, <2>1
  <2>2. CASE frames' = Append(f, x)
    BY <1>5, <2>2, \A k \in 1..(n + 1) : k \in 1..n \/ k = n + 1
  <2> QED
    BY <2>1, <2>2 DEF f
<1>7. \A y : Pending(y, frames, placed) => y = s \/ Pending(y, frames', placed')
  BY <1>2, <1>3, <1>4 DEF Pending, NamePlaced
<1>8. \A k \in 1..Len(frames') : frames'[k].dir \in Directories
  BY <1>2, <1>3, <1>4, <1>6 DEF InstallInv, Shape
<1>9. frames'[1].pkg = Resolve!Root /\ frames'[1].phase \in {"deps", "dev"}
  BY <1>1, <1>2, <1>3, <1>4, 1 \in 1..n DEF InstallInv, Shape
<1>10. Shape'
  BY <1>1, <1>8, <1>9 DEF Shape
<1> QED
  BY <1>2, <1>3, <1>4, <1>5, <1>7, <1>10 DEF f

LEMMA Replaced ==
  ASSUME InstallInv, Resolve!Running, Resolve!Top.todo = {}, NEW x, x.dir \in Directories,
         x.pkg = Resolve!Top.pkg, Len(frames) = 1 => x.phase \in {"deps", "dev"},
         frames' = Append(Resolve!Below, x), UNCHANGED <<command, code, placed>>
  PROVE  /\ Shape' /\ Len(frames') = Len(frames) /\ frames'[Len(frames)] = x
         /\ \A k \in 1..(Len(frames) - 1) : frames'[k] = frames[k]
         /\ \A y : Pending(y, frames, placed) => Pending(y, frames', placed')
<1>1. frames # <<>> /\ CallStack(frames) /\ code = Resolve!NoCode /\ command # "none"
  BY DEF Resolve!Running, InstallInv, ResolveInv, Shape
<1>2. PICK n \in Nat \ {0} : n = Len(frames)
  BY <1>1, StackLength
<1>3. CallStack(Resolve!Below) /\ Len(Resolve!Below) = n - 1 /\ \A k \in 1..(n - 1) : Resolve!Below[k] = frames[k]
  BY <1>1, <1>2, BelowFacts
<1>4. Len(frames') = n /\ frames'[n] = x /\ \A k \in 1..(n - 1) : frames'[k] = frames[k]
  BY <1>2, <1>3, PushedFrames
<1>5. \A k \in 1..n : k \in 1..(n - 1) \/ k = n
  OBVIOUS
<1>6. \A y : Pending(y, frames, placed) => Pending(y, frames', placed')
  BY <1>2, <1>4, <1>5 DEF Pending, NamePlaced, Resolve!Top
<1>7. \A k \in 1..Len(frames') : frames'[k].dir \in Directories
  BY <1>2, <1>4, <1>5, \A k \in 1..(n - 1) : k \in 1..n DEF InstallInv, Shape
<1>8. frames'[1].pkg = Resolve!Root /\ frames'[1].phase \in {"deps", "dev"}
  BY <1>1, <1>2, <1>4, n = 1 \/ 1 \in 1..(n - 1) DEF InstallInv, Shape, Resolve!Top
<1> QED
  BY <1>1, <1>2, <1>4, <1>6, <1>7, <1>8 DEF Shape, InstallInv

LEMMA Dropped ==
  ASSUME InstallInv, Resolve!Running, frames' = Resolve!Below, UNCHANGED <<command, code, placed>>
  PROVE  /\ Shape' /\ Len(frames') = Len(frames) - 1
         /\ \A k \in 1..(Len(frames) - 1) : frames'[k] = frames[k]
         /\ Resolve!Top.todo = {} => \A y : Pending(y, frames, placed) => Pending(y, frames', placed')
<1>1. frames # <<>> /\ CallStack(frames) /\ code = Resolve!NoCode /\ command # "none"
  BY DEF Resolve!Running, InstallInv, ResolveInv, Shape
<1>2. PICK n \in Nat \ {0} : n = Len(frames)
  BY <1>1, StackLength
<1>3. Len(frames') = n - 1 /\ \A k \in 1..(n - 1) : frames'[k] = frames[k]
  BY <1>1, <1>2, BelowFacts
<1>4. \A k \in 1..n : k \in 1..(n - 1) \/ k = n
  OBVIOUS
<1>5. Resolve!Top.todo = {} => \A y : Pending(y, frames, placed) => Pending(y, frames', placed')
  BY <1>2, <1>3, <1>4 DEF Pending, NamePlaced, Resolve!Top
<1>6. \A k \in 1..Len(frames') : frames'[k].dir \in Directories
  BY <1>2, <1>3, \A k \in 1..(n - 1) : k \in 1..n DEF InstallInv, Shape
<1>7. frames' # <<>> => frames'[1].pkg = Resolve!Root /\ frames'[1].phase \in {"deps", "dev"}
  <2>1. CASE n = 1
    BY <1>1, <1>3, <2>1, BelowFacts DEF CallStack
  <2>2. CASE n # 1
    BY <1>1, <1>3, <2>2, 1 \in 1..(n - 1) DEF InstallInv, Shape
  <2> QED
    BY <2>1, <2>2
<1> QED
  BY <1>1, <1>2, <1>3, <1>5, <1>6, <1>7 DEF Shape, InstallInv

(* The promise is kept by a step that keeps the parts of it.               *)
LEMMA PromiseKept ==
  ASSUME Owed, frames # <<>>, UNCHANGED <<dependencies, command, dev, args, failed, global, manifest>>,
         Going => \A x \in visited_packages' : x \in visited_packages \/ \E p \in placed' : NameOf[p[1]] = x,
         placed \subseteq placed',
         Going => \A x : Pending(x, frames, placed) => Pending(x, frames', placed'),
         Going => \A p \in placed' : p \in placed \/ \A x \in dependencies[p[1]] : Pending(x, frames', placed'),
         Going /\ dev => DevelopmentDue(frames', placed')
  PROVE  Owed'
<1> SUFFICES ASSUME Going PROVE
     /\ \A x \in visited_packages' : \E p \in placed' : NameOf[p[1]] = x
     /\ \A s \in args : Pending(s, frames', placed')
     /\ \A p \in placed' : \A s \in dependencies[p[1]] : Pending(s, frames', placed')
  BY DEF Owed, Going, DevelopmentDue
<1> QED
  BY DEF Owed

-----------------------------------------------------------------------------
LEMMA VisitKeeps == ASSUME InstallInv, NEW s \in Slugs, Resolve!Visit(s) PROVE Shape' /\ Owed'
<1> DEFINE x == Resolve!Frame(s, Resolve!Deps, "dev", Development[s])
<1>1. /\ Resolve!Running /\ frames # <<>> /\ s \in Resolve!Top.todo /\ NameOf[s] \in visited_packages
      /\ UNCHANGED <<dependencies, command, dev, args, failed, global, manifest, visited_packages, placed, code>>
  BY DEF Resolve!Visit, Resolve!Running, Resolve!Seen, Resolve!world, Resolve!opts
<1>2. frames' = IF Resolve!DevDue(Len(frames) + 1, "deps") THEN Append(Resolve!Took(s), x) ELSE Resolve!Took(s)
  BY DEF Resolve!Visit
<1>3. x.pkg = s /\ x.dir \in Directories /\ x.todo = Development[s]
  BY FrameFields DEF Directories
<1> HIDE DEF x
<1>4. PICK n \in Nat \ {0} : n = Len(frames)
  BY <1>1, StackLength DEF InstallInv, ResolveInv
<1>5. /\ Shape'
      /\ \A k \in 1..n :
           /\ k \in 1..Len(frames') /\ frames'[k].pkg = frames[k].pkg /\ frames'[k].phase = frames[k].phase
           /\ \A y \in frames[k].todo : y = s \/ y \in frames'[k].todo
      /\ frames' = Append(Resolve!Took(s), x) => Len(frames') = n + 1 /\ frames'[n + 1] = x
      /\ \A y : Pending(y, frames, placed) => y = s \/ Pending(y, frames', placed')
  BY <1>1, <1>2, <1>3, <1>4, Taken DEF InstallInv, Shape
<1>6. Going => Pending(s, frames', placed')
  BY <1>1 DEF InstallInv, Owed, Pending, NamePlaced
<1>7. ASSUME Going, dev PROVE DevelopmentDue(frames', placed')
  <2>1. DevelopmentDue(frames, placed) /\ 1 \in 1..n
    BY <1>1, <1>7 DEF InstallInv, Owed
  <2>2. CASE command = "local"
    BY <1>1, <1>5, <1>6, <1>7, <2>1, <2>2 DEF DevelopmentDue
  <2>3. ASSUME command # "local", NEW p \in args
        PROVE  \/ p \in frames'[1].todo
               \/ Len(frames') > 1 /\ frames'[2].pkg = p /\ frames'[2].phase \in {"deps", "install"}
               \/ \A d \in Development[p] : Pending(d, frames', placed')
    <3>1. CASE p \in frames[1].todo /\ p # s
      BY <1>5, <2>1, <3>1
    <3>2. CASE p = s /\ n = 1
      <4>1. Resolve!DevDue(Len(frames) + 1, "deps")
        BY <1>4, <1>7, <2>3, <3>2 DEF Resolve!DevDue
      <4>2. Len(frames') = 2 /\ frames'[2] = x
        BY <1>2, <1>5, <3>2, <4>1
      <4> QED
        BY <1>3, <3>2, <4>2, 2 \in 1..2 DEF Pending
    <3>3. CASE p \in frames[1].todo /\ n # 1
      <4>1. frames'[1] = frames[1]
        <5>1. Resolve!Took(s)[1] = frames[1] /\ Len(Resolve!Took(s)) = n /\ CallStack(Resolve!Took(s))
          BY <1>1, <1>4, <3>3, TookFrames, TookFacts DEF InstallInv, ResolveInv
        <5> QED
          BY <1>2, <2>1, <5>1, PushedFrames
      <4> QED
        BY <3>3, <4>1
    <3>4. CASE Len(frames) > 1 /\ frames[2].pkg = p /\ frames[2].phase \in {"deps", "install"}
      <4>1. 2 \in 1..n
        BY <1>4, <3>4
      <4>2. Len(frames') \in Nat
        BY <1>1, <1>2, <1>4, <1>5, TookFacts DEF InstallInv, ResolveInv
      <4> QED
        BY <1>5, <3>4, <4>1, <4>2
    <3>5. CASE \A d \in Development[p] : Pending(d, frames, placed)
      BY <1>5, <1>6, <1>7, <3>5
    <3> QED
      BY <2>1, <2>3, <3>1, <3>2, <3>3, <3>4, <3>5 DEF DevelopmentDue
  <2> QED
    BY <1>1, <2>2, <2>3 DEF DevelopmentDue
<1> QED
  BY <1>1, <1>5, <1>6, <1>7, PromiseKept DEF InstallInv

LEMMA PlaceKeeps == ASSUME InstallInv, NEW s \in Slugs, Resolve!Place(s) PROVE Shape' /\ Owed'
<1>1. /\ Resolve!Running /\ frames # <<>> /\ s \in Resolve!Top.todo
      /\ UNCHANGED <<dependencies, command, dev, args, failed, global, manifest, code>>
      /\ visited_packages' = visited_packages \cup {NameOf[s]}
      /\ placed' = IF global THEN placed ELSE placed \cup {<<s, Resolve!Top.dir>>}
  BY DEF Resolve!Place, Resolve!Running, Resolve!world, Resolve!opts
<1>2. PICK n \in Nat \ {0} : n = Len(frames)
  BY <1>1, StackLength DEF InstallInv, ResolveInv
<1>3. Resolve!Top.dir \in Directories
  BY <1>2, n \in 1..n DEF InstallInv, Shape, Resolve!Top
<1>4. \E d \in Directories, phase \in {"install", "deps"} :
        frames' = Append(Resolve!Took(s), Resolve!Frame(s, d, phase, dependencies[s]))
  <2>1. CASE s \in executable
    BY <2>1 DEF Resolve!Place, Directories
  <2>2. CASE s \notin executable
    BY <1>3, <2>2 DEF Resolve!Place
  <2> QED
    BY <2>1, <2>2
<1>5. PICK x : /\ frames' = Append(Resolve!Took(s), x) /\ x.pkg = s /\ x.dir \in Directories
               /\ x.phase \in {"install", "deps"} /\ x.todo = dependencies[s]
  BY <1>4, FrameFields
<1>6. placed \subseteq placed' /\ placed' \subseteq Slugs \X Directories
  BY <1>1, <1>3 DEF InstallInv, Shape
<1>7. /\ Shape'
      /\ \A k \in 1..n :
           /\ k \in 1..Len(frames') /\ frames'[k].pkg = frames[k].pkg /\ frames'[k].phase = frames[k].phase
           /\ \A y \in frames[k].todo : y = s \/ y \in frames'[k].todo
      /\ Len(frames') = n + 1 /\ frames'[n + 1] = x
      /\ \A y : Pending(y, frames, placed) => y = s \/ Pending(y, frames', placed')
  <2>1. frames' = Append(Resolve!Took(s), x) /\ UNCHANGED <<command, code>>
    BY <1>1, <1>5
  <2> QED
    BY <1>1, <1>2, <1>5, <1>6, <2>1, Taken
<1>8. Going => \E p \in placed' : p[1] = s /\ NameOf[p[1]] = NameOf[s]
  <2>1. ~global => <<s, Resolve!Top.dir>> \in placed'
    BY <1>1
  <2>2. <<s, Resolve!Top.dir>>[1] = s
    OBVIOUS
  <2> QED
    BY <2>1, <2>2 DEF Going
<1>9. Going => Pending(s, frames', placed')
  BY <1>8 DEF Pending, NamePlaced
<1>10. \A p \in placed' : p \in placed \/ \A y \in dependencies[p[1]] : Pending(y, frames', placed')
  <2>1. \A p \in placed' : p \in placed \/ p[1] = s
    BY <1>1
  <2>2. \A y \in dependencies[s] : Pending(y, frames', placed')
    BY <1>5, <1>7, n + 1 \in 1..(n + 1) DEF Pending
  <2> QED
    BY <2>1, <2>2
<1>11. ASSUME Going, dev PROVE DevelopmentDue(frames', placed')
  <2>1. DevelopmentDue(frames, placed) /\ 1 \in 1..n
    BY <1>1, <1>11 DEF InstallInv, Owed
  <2>2. CASE command = "local"
    BY <1>1, <1>7, <1>9, <1>11, <2>1, <2>2 DEF DevelopmentDue
  <2>3. ASSUME command # "local", NEW p \in args
        PROVE  \/ p \in frames'[1].todo
               \/ Len(frames') > 1 /\ frames'[2].pkg = p /\ frames'[2].phase \in {"deps", "install"}
               \/ \A d \in Development[p] : Pending(d, frames', placed')
    <3>1. CASE p \in frames[1].todo /\ p # s
      BY <1>7, <2>1, <3>1
    <3>2. CASE p = s /\ n = 1
      BY <1>5, <1>7, <3>2
    <3>3. CASE p \in frames[1].todo /\ n # 1
      <4>1. Resolve!Took(s)[1] = frames[1] /\ Len(Resolve!Took(s)) = n /\ CallStack(Resolve!Took(s))
        BY <1>1, <1>2, <3>3, TookFrames, TookFacts DEF InstallInv, ResolveInv
      <4>2. frames'[1] = frames[1]
        BY <1>5, <2>1, <4>1, PushedFrames
      <4> QED
        BY <3>3, <4>2
    <3>4. CASE Len(frames) > 1 /\ frames[2].pkg = p /\ frames[2].phase \in {"deps", "install"}
      <4>1. 2 \in 1..n
        BY <1>2, <3>4
      <4> QED
        BY <1>7, <3>4, <4>1
    <3>5. CASE \A d \in Development[p] : Pending(d, frames, placed)
      BY <1>7, <1>9, <1>11, <3>5
    <3> QED
      BY <2>1, <2>3, <3>1, <3>2, <3>3, <3>4, <3>5 DEF DevelopmentDue
  <2> QED
    BY <1>1, <2>2, <2>3 DEF DevelopmentDue
<1>12. Going => \A y : Pending(y, frames, placed) => Pending(y, frames', placed')
  BY <1>7, <1>9
<1>13. Going => \A y \in visited_packages' : y \in visited_packages \/ \E p \in placed' : NameOf[p[1]] = y
  BY <1>1, <1>8
<1>14. Owed'
  BY <1>1, <1>6, <1>10, <1>11, <1>12, <1>13, PromiseKept DEF InstallInv
<1> QED
  BY <1>7, <1>14

LEMMA ExecutedKeeps == ASSUME InstallInv, Resolve!Executed PROVE Shape' /\ Owed'
<1> DEFINE d == Resolve!Below[Len(Resolve!Below)].dir
           x == Resolve!Frame(Resolve!Top.pkg, d, "deps", dependencies[Resolve!Top.pkg])
<1>1. /\ Resolve!Running /\ frames # <<>> /\ Resolve!Top.todo = {} /\ Resolve!Top.phase = "install"
      /\ UNCHANGED <<dependencies, command, dev, args, failed, global, manifest, visited_packages, placed, code>>
      /\ frames' = Append(Resolve!Below, x)
  BY DEF Resolve!Executed, Resolve!Running, Resolve!world, Resolve!opts
<1>2. PICK n \in Nat \ {0} : n = Len(frames)
  BY <1>1, StackLength DEF InstallInv, ResolveInv
<1>3. n # 1
  BY <1>1, <1>2 DEF InstallInv, Shape, Resolve!Top
<1>4. d \in Directories
  <2>1. n - 1 \in 1..(n - 1) /\ n - 1 \in 1..n
    BY <1>3
  <2>2. d = frames[n - 1].dir
    BY <1>1, <1>2, <2>1, BelowFacts DEF InstallInv, ResolveInv
  <2> QED
    BY <1>2, <2>1, <2>2 DEF InstallInv, Shape
<1>5. x.pkg = Resolve!Top.pkg /\ x.dir = d /\ x.phase = "deps"
  BY FrameFields
<1> HIDE DEF x, d
<1>6. /\ Shape' /\ Len(frames') = n /\ frames'[n] = x
      /\ \A k \in 1..(n - 1) : frames'[k] = frames[k]
      /\ \A y : Pending(y, frames, placed) => Pending(y, frames', placed')
  BY <1>1, <1>2, <1>4, <1>5, Replaced
<1>7. frames'[1] = frames[1] /\ frames'[2].pkg = frames[2].pkg
  BY <1>2, <1>3, <1>5, <1>6, 1 \in 1..(n - 1), n = 2 \/ 2 \in 1..(n - 1) DEF Resolve!Top
<1>8. frames'[2].phase = frames[2].phase \/ frames'[2].phase = "deps"
  BY <1>2, <1>3, <1>5, <1>6, n = 2 \/ 2 \in 1..(n - 1)
<1>9. ASSUME Going, dev PROVE DevelopmentDue(frames', placed')
  <2>1. DevelopmentDue(frames, placed)
    BY <1>1, <1>9 DEF InstallInv, Owed
  <2> QED
    BY <1>1, <1>2, <1>6, <1>7, <1>8, <2>1 DEF DevelopmentDue
<1> QED
  BY <1>1, <1>6, <1>9, PromiseKept DEF InstallInv

LEMMA DevelopKeeps == ASSUME InstallInv, Resolve!Develop PROVE Shape' /\ Owed'
<1> DEFINE x == Resolve!Frame(Resolve!Top.pkg, Resolve!Top.dir, "dev", Development[Resolve!Top.pkg])
<1>1. /\ Resolve!Running /\ frames # <<>> /\ Resolve!Top.todo = {} /\ dev
      /\ Len(frames) = IF command = "local" THEN 1 ELSE 2
      /\ UNCHANGED <<dependencies, command, dev, args, failed, global, manifest, visited_packages, placed, code>>
      /\ frames' = Append(Resolve!Below, x)
  BY DEF Resolve!Develop, Resolve!DevDue, Resolve!Running, Resolve!world, Resolve!opts
<1>2. PICK n \in Nat \ {0} : n = Len(frames)
  BY <1>1, StackLength DEF InstallInv, ResolveInv
<1>3. /\ x.pkg = Resolve!Top.pkg /\ x.dir = Resolve!Top.dir /\ x.phase = "dev"
      /\ x.todo = Development[Resolve!Top.pkg]
  BY FrameFields
<1>4. Resolve!Top.dir \in Directories
  BY <1>2, n \in 1..n DEF InstallInv, Shape, Resolve!Top
<1> HIDE DEF x
<1>5. /\ Shape' /\ Len(frames') = n /\ frames'[n] = x
      /\ \A k \in 1..(n - 1) : frames'[k] = frames[k]
      /\ \A y : Pending(y, frames, placed) => Pending(y, frames', placed')
  BY <1>1, <1>2, <1>3, <1>4, Replaced
<1>6. \A y \in Development[Resolve!Top.pkg] : Pending(y, frames', placed')
  BY <1>3, <1>5, n \in 1..n DEF Pending
<1>7. ASSUME Going PROVE DevelopmentDue(frames', placed')
  <2>1. DevelopmentDue(frames, placed)
    BY <1>1, <1>7 DEF InstallInv, Owed
  <2>2. CASE command = "local"
    <3>1. Resolve!Top.pkg = Resolve!Root
      BY <1>1, <2>2 DEF InstallInv, Shape, Resolve!Top
    <3> QED
      BY <1>1, <1>6, <2>2, <3>1 DEF DevelopmentDue
  <2>3. CASE command # "local"
    <3>1. n = 2 /\ frames'[1] = frames[1] /\ frames[2].pkg = Resolve!Top.pkg
      BY <1>1, <1>2, <1>5, <2>3, 1 \in 1..(2 - 1) DEF Resolve!Top
    <3> QED
      BY <1>1, <1>5, <1>6, <2>1, <2>3, <3>1 DEF DevelopmentDue
  <2> QED
    BY <2>2, <2>3
<1> QED
  BY <1>1, <1>5, <1>7, PromiseKept DEF InstallInv

LEMMA ReturnKeeps == ASSUME InstallInv, Resolve!Return PROVE Shape' /\ Owed'
<1>1. /\ Resolve!Running /\ frames # <<>> /\ Resolve!Top.todo = {} /\ frames' = Resolve!Below
      /\ Len(frames) > 1 /\ ~Resolve!DevDue(Len(frames), Resolve!Top.phase) /\ Resolve!Top.phase # "install"
      /\ UNCHANGED <<dependencies, command, dev, args, failed, global, manifest, visited_packages, placed, code>>
  BY DEF Resolve!Return, Resolve!Running, Resolve!world, Resolve!opts
<1>2. PICK n \in Nat \ {0} : n = Len(frames)
  BY <1>1, StackLength DEF InstallInv, ResolveInv
<1>3. /\ Shape' /\ Len(frames') = n - 1 /\ \A k \in 1..(n - 1) : frames'[k] = frames[k]
      /\ \A y : Pending(y, frames, placed) => Pending(y, frames', placed')
  BY <1>1, <1>2, Dropped
<1>4. frames'[1] = frames[1] /\ (n > 2 => Len(frames') > 1 /\ frames'[2] = frames[2])
  BY <1>1, <1>2, <1>3, 1 \in 1..(n - 1), n > 2 => 2 \in 1..(n - 1)
<1>5. ASSUME Going, dev PROVE DevelopmentDue(frames', placed')
  <2>1. DevelopmentDue(frames, placed)
    BY <1>1, <1>5 DEF InstallInv, Owed
  <2>2. command # "local" /\ n = 2 => frames[2].phase \notin {"deps", "install"}
    BY <1>1, <1>2, <1>5 DEF Resolve!DevDue, Resolve!Top
  <2>3. n = 2 \/ n > 2
    BY <1>1, <1>2
  <2> QED
    BY <1>1, <1>2, <1>3, <1>4, <2>1, <2>2, <2>3 DEF DevelopmentDue
<1> QED
  BY <1>1, <1>3, <1>5, PromiseKept DEF InstallInv

(* The steps that do not go on: the run begins, gives up, or a command     *)
(* fails.                                                                  *)
LEMMA BeginKeeps ==
  ASSUME InstallInv, NEW x, NEW f \in BOOLEAN, NEW g, NEW d, NEW wanted, Resolve!Begin(x, f, g, d, wanted),
         x # "none"
  PROVE  Shape' /\ Owed' /\ code' # 0
<1> DEFINE y == Resolve!Frame(Resolve!Root, Resolve!Deps, "deps", wanted)
<1>1. /\ placed' = {} /\ visited_packages' = {} /\ code' = Resolve!NoCode
      /\ command' = x /\ args' = wanted /\ dev' = d /\ frames' = <<y>>
  BY DEF Resolve!Begin, InstallInv, Shape
<1>2. y.pkg = Resolve!Root /\ y.phase = "deps" /\ y.todo = wanted /\ y.dir \in Directories
  BY FrameFields DEF Directories
<1> HIDE DEF y
<1>3. Len(frames') = 1 /\ frames'[1] = y /\ \A k \in 1..Len(frames') : frames'[k] = y
  BY <1>1
<1>4. Shape'
  BY <1>1, <1>2, <1>3 DEF Shape
<1>5. \A s \in args' : Pending(s, frames', placed')
  BY <1>1, <1>2, <1>3, 1 \in 1..1 DEF Pending
<1>6. DevelopmentDue(frames, placed)'
  BY <1>1, <1>2, <1>3 DEF DevelopmentDue
<1> QED
  BY <1>1, <1>4, <1>5, <1>6 DEF Owed, Resolve!NoCode

LEMMA EmptyKeeps ==
  ASSUME InstallInv, frames' = <<>>, command # "none", UNCHANGED <<command, placed>>
  PROVE  Shape' /\ Owed'
<1>1. Len(frames') = 0
  OBVIOUS
<1> QED
  BY <1>1 DEF InstallInv, Shape, Owed

LEMMA CommandFailsKeeps ==
  ASSUME InstallInv, Resolve!CommandFails PROVE Shape' /\ Owed' /\ failed'
<1>1. Resolve!Running /\ failed' /\ UNCHANGED <<command, placed>> /\ command # "none"
  BY DEF Resolve!CommandFails, Resolve!Running, Resolve!opts, InstallInv, Shape
<1>2. CASE frames' = <<>>
  BY <1>1, <1>2, EmptyKeeps
<1>3. CASE frames' # <<>>
  <2>1. frames' = Resolve!Below /\ UNCHANGED code
    BY <1>3 DEF Resolve!CommandFails
  <2>2. Shape'
    BY <1>1, <2>1, Dropped
  <2> QED
    BY <1>1, <2>2 DEF Owed, Going
<1> QED
  BY <1>1, <1>2, <1>3

LEMMA GiveUpKeeps ==
  ASSUME InstallInv, Resolve!Running, Resolve!GiveUp PROVE Shape' /\ Owed' /\ code' # 0
<1> DEFINE y == Resolve!Frame(Resolve!Root, Resolve!Deps, "deps", args)
<1>1. UNCHANGED <<command, placed>> /\ command # "none" /\ code = Resolve!NoCode
  BY DEF Resolve!GiveUp, Resolve!Running, Resolve!opts, InstallInv, Shape
<1>2. CASE frames' = <<>> /\ code' = 1
  BY <1>1, <1>2, EmptyKeeps
<1>3. CASE manifest' = 2 /\ UNCHANGED code /\ frames' = <<y>>
  <2>1. y.pkg = Resolve!Root /\ y.phase = "deps" /\ y.dir \in Directories
    BY FrameFields DEF Directories
  <2> HIDE DEF y
  <2>2. \A k \in 1..Len(frames') : frames'[k] = y /\ frames'[1] = y
    BY <1>3
  <2>3. frames'[1] = y
    BY <1>3
  <2>4. Shape'
    BY <1>1, <1>3, <2>1, <2>2, <2>3 DEF Shape, InstallInv
  <2> QED
    BY <1>1, <1>3, <2>4 DEF Owed, Going, Resolve!NoCode
<1> QED
  BY <1>2, <1>3 DEF Resolve!GiveUp

(* A run ends well: every list is empty, so what is pending is in place.   *)
LEMMA ExitKeeps == ASSUME InstallInv, Resolve!Exit PROVE Shape' /\ Owed' /\ SuccessInstalls'
<1>1. /\ Resolve!Running /\ frames # <<>> /\ Len(frames) = 1 /\ Resolve!Top.todo = {}
      /\ ~Resolve!DevDue(1, Resolve!Top.phase) /\ frames' = <<>>
      /\ UNCHANGED <<dependencies, command, dev, args, failed, global, manifest, placed>>
  BY DEF Resolve!Exit, Resolve!Running, Resolve!world, Resolve!opts
<1>2. Shape' /\ Owed'
  BY <1>1, EmptyKeeps DEF InstallInv, Shape
<1>3. frames[1].todo = {} /\ ~Resolve!DevDue(1, frames[1].phase)
  BY <1>1 DEF Resolve!Top
<1>4. \A s : Pending(s, frames, placed) => Resolve!HasName(s, Resolve!Deps) \/ Resolve!HasName(s, Resolve!Tmp)
  BY <1>1, <1>3, \A k \in 1..1 : k = 1
     DEF Pending, NamePlaced, Resolve!HasName, InstallInv, Shape, Directories
<1>5. ASSUME Going
      PROVE  \A s \in (args \cup UNION {dependencies[p[1]] : p \in placed})
                      \cup (IF dev THEN UNION {Development[p] : p \in IF command = "local" THEN {Resolve!Root} ELSE args}
                            ELSE {}) :
               Pending(s, frames, placed)
  <2>1. \A s \in args : Pending(s, frames, placed)
    BY <1>1, <1>5 DEF InstallInv, Owed
  <2>2. \A s \in UNION {dependencies[p[1]] : p \in placed} : Pending(s, frames, placed)
    BY <1>1, <1>5 DEF InstallInv, Owed
  <2>3. ASSUME dev, command = "local" PROVE \A s \in Development[Resolve!Root] : Pending(s, frames, placed)
    BY <1>1, <1>3, <1>5, <2>3 DEF InstallInv, Owed, DevelopmentDue, Resolve!DevDue
  <2>4. ASSUME dev, command # "local", NEW p \in args PROVE \A s \in Development[p] : Pending(s, frames, placed)
    BY <1>1, <1>3, <1>5, <2>4 DEF InstallInv, Owed, DevelopmentDue
  <2>5. \A p \in (IF command = "local" THEN {Resolve!Root} ELSE args) :
          dev => \A s \in Development[p] : Pending(s, frames, placed)
    BY <2>3, <2>4
  <2>6. \A s \in (IF dev THEN UNION {Development[p] : p \in IF command = "local" THEN {Resolve!Root} ELSE args} ELSE {}) :
          Pending(s, frames, placed)
    BY <2>5
  <2> DEFINE B == UNION {dependencies[p[1]] : p \in placed}
             C == IF dev THEN UNION {Development[p] : p \in IF command = "local" THEN {Resolve!Root} ELSE args} ELSE {}
  <2>7. (\A s \in B : Pending(s, frames, placed)) /\ (\A s \in C : Pending(s, frames, placed))
    BY <2>2, <2>6
  <2> HIDE DEF B, C
  <2>8. \A s \in args \cup B \cup C : Pending(s, frames, placed)
    BY <2>1, <2>7
  <2> QED
    BY <2>8 DEF B, C
<1>6. SuccessInstalls'
  BY <1>1, <1>4, <1>5 DEF SuccessInstalls, Resolve!SuccessInstalls, Resolve!HasName, Going
<1> QED
  BY <1>2, <1>6

LEMMA InstallStep == ASSUME InstallInv, [Resolve!Next]_(Resolve!vars) PROVE InstallInv'
<1>1. ResolveInv'
  BY ResolveStep DEF InstallInv
<1>2. code' # 0 \/ failed' => SuccessInstalls'
  BY DEF SuccessInstalls, Resolve!SuccessInstalls
<1>3. CASE UNCHANGED Resolve!vars
  <2>1. UNCHANGED <<dependencies, command, global, dev, args, manifest, frames, visited_packages, placed, code, failed>>
    BY <1>3 DEF Resolve!vars, Resolve!world, Resolve!opts
  <2>2. Shape' /\ Owed'
    BY <2>1 DEF InstallInv, Shape, Owed, Going, Pending, NamePlaced, DevelopmentDue
  <2>3. SuccessInstalls'
    BY <2>1 DEF InstallInv, SuccessInstalls, Resolve!SuccessInstalls, Resolve!HasName
  <2> QED
    BY <1>1, <2>2, <2>3 DEF InstallInv
<1>4. ASSUME NEW x \in {"install", "update", "upgrade", "local"}, NEW f \in BOOLEAN, NEW g, NEW d, NEW wanted,
             Resolve!Begin(x, f, g, d, wanted)
      PROVE  InstallInv'
  BY <1>1, <1>2, <1>4, BeginKeeps DEF InstallInv
<1>5. Resolve!Running => code # 0
  BY DEF Resolve!Running, Resolve!NoCode
<1>6. ASSUME NEW s \in Slugs, Resolve!Visit(s) \/ Resolve!Place(s) PROVE InstallInv'
  <2>1. code' # 0
    BY <1>5, <1>6 DEF Resolve!Visit, Resolve!Place
  <2> QED
    BY <1>1, <1>2, <1>6, <2>1, VisitKeeps, PlaceKeeps DEF InstallInv
<1>7. CASE Resolve!Executed \/ Resolve!Develop \/ Resolve!Return
  <2>1. code' # 0
    BY <1>5, <1>7 DEF Resolve!Executed, Resolve!Develop, Resolve!Return
  <2> QED
    BY <1>1, <1>2, <1>7, <2>1, ExecutedKeeps, DevelopKeeps, ReturnKeeps DEF InstallInv
<1>8. ASSUME NEW s \in Slugs, Resolve!Fail(s) PROVE InstallInv'
  BY <1>1, <1>2, <1>8, GiveUpKeeps DEF InstallInv, Resolve!Fail
<1>9. CASE Resolve!ArchiveFails
  BY <1>1, <1>2, <1>9, GiveUpKeeps DEF InstallInv, Resolve!ArchiveFails
<1>10. CASE Resolve!CommandFails
  BY <1>1, <1>2, <1>10, CommandFailsKeeps DEF InstallInv
<1>11. CASE Resolve!Exit
  BY <1>1, <1>11, ExitKeeps DEF InstallInv
<1>12. ASSUME NEW f \in BOOLEAN, NEW g \in BOOLEAN, NEW d \in BOOLEAN, NEW wanted \in Wanted,
              \/ \E x \in {"install", "local"} : Resolve!ClibInstall(x, f, g, d, wanted)
              \/ \E x \in {"update", "local"} : Resolve!ClibUpdate(x, d, wanted)
       PROVE  InstallInv'
  BY <1>4, <1>12 DEF Resolve!ClibInstall, Resolve!ClibUpdate
<1>13. ASSUME NEW s \in Slugs, NEW f \in BOOLEAN, Resolve!ClibUpgrade(s, f) PROVE InstallInv'
  BY <1>4, <1>13 DEF Resolve!ClibUpgrade
<1> QED
  BY <1>3, <1>6, <1>7, <1>8, <1>9, <1>10, <1>11, <1>12, <1>13 DEF Resolve!Next

(* An installation that ends well, without a failed command or a second    *)
(* manifest, has put something of the right name in place for everything   *)
(* it was to install (install_packages and clib_package_install), though a *)
(* name that has been met is never installed again (visited_packages).     *)
THEOREM SuccessIsComplete == Resolve!Spec => []SuccessInstalls
<1>1. Resolve!Init => InstallInv
  <2>1. CallStack(<<>>) /\ Distinct(<<>>, {}) /\ Len(<<>>) = 0
    BY DEF CallStack, Distinct
  <2>2. ASSUME Resolve!Init PROVE Shape /\ Owed /\ code # 0
    BY <2>1, <2>2 DEF Resolve!Init, Shape, Owed, Resolve!NoCode
  <2>3. code # 0 => SuccessInstalls
    BY DEF SuccessInstalls, Resolve!SuccessInstalls
  <2>4. Resolve!Init => ResolveInv
    BY <2>1 DEF Resolve!Init, ResolveInv
  <2> QED
    BY <2>2, <2>3, <2>4 DEF InstallInv
<1>2. InstallInv => SuccessInstalls
  BY DEF InstallInv
<1> QED
  BY <1>1, InstallStep, <1>2, PTL DEF Resolve!Spec

-----------------------------------------------------------------------------
(* The statements and the connection of main() of the column statistics    *)
(* (src/HW15), for any columns and any width of an int.                    *)

SecondDue == column # <<>> /\ column[1].type = "integer"
Nothing == statistics = Sql!NoStatistics

(* What is prepared and what has been printed, at each stage. A second     *)
(* statement follows a first one that found an integer.                    *)
SqlInv ==
  \/ stage \in {"main", "init"} /\ prepared = 0 /\ Nothing
  \/ stage = "prepare" /\ stmt /\ prepared = 1 /\ SecondDue /\ Nothing
  \/ stage = "select" /\ stmt /\ prepared = 2 /\ SecondDue /\ Nothing
  \/ stage = "st" /\ stmt /\ ((prepared = 1 /\ Nothing) \/ (prepared = 2 /\ SecondDue))
  \/ stage = "db" /\ ((prepared = 0 /\ Nothing) \/ (prepared = 1 /\ SecondDue))
  \/ stage = "exited" /\ ((prepared = 0 /\ Nothing) \/ (prepared = 1 /\ SecondDue /\ db = "left"))

LEMMA SqlStep == ASSUME SqlInv, [Sql!Next]_(Sql!vars) PROVE SqlInv'
<1> USE DEF SqlInv, SecondDue, Nothing
<1>1. ASSUME NEW rows \in Columns, Sql!Open(rows) PROVE SqlInv'
  BY <1>1 DEF Sql!Open, Sql!Exits
<1>2. CASE Sql!PrepareType
  <2>1. prepared = 0 /\ Nothing /\ UNCHANGED <<column, statistics>>
    BY <1>2 DEF Sql!PrepareType
  <2>2. CASE stage' = "db" /\ UNCHANGED prepared
    BY <2>1, <2>2
  <2>3. CASE stmt' = TRUE /\ prepared' = prepared + 1
    <3>1. prepared' = 1 /\ (stage' = "st" \/ (stage' = "prepare" /\ SecondDue))
      BY <1>2, <2>1, <2>3 DEF Sql!PrepareType
    <3> QED
      BY <2>1, <2>3, <3>1
  <2> QED
    BY <1>2, <2>2, <2>3 DEF Sql!PrepareType
<1>3. CASE Sql!Prepare
  <2>1. prepared = 1 /\ stmt /\ SecondDue /\ Nothing /\ UNCHANGED <<column, statistics>>
    BY <1>3 DEF Sql!Prepare
  <2>2. prepared + 1 = 2
    BY <2>1
  <2>3. SecondDue' /\ Nothing'
    BY <2>1
  <2> QED
    BY <1>3, <2>1, <2>2, <2>3 DEF Sql!Prepare
<1>4. CASE Sql!Row \/ Sql!NoMemory
  BY <1>4 DEF Sql!Row, Sql!NoMemory
<1>5. CASE Sql!Statistics
  BY <1>5 DEF Sql!Statistics
<1>6. CASE Sql!Finalize \/ Sql!Close
  BY <1>6 DEF Sql!Finalize, Sql!Close
<1>7. CASE UNCHANGED Sql!vars
  BY <1>7 DEF Sql!vars
<1> QED
  BY <1>1, <1>2, <1>3, <1>4, <1>5, <1>6, <1>7 DEF Sql!Next

(* At most one statement is left behind, the first one, and it keeps the   *)
(* connection open (sqlite3_close in main); whatever was printed, one is.  *)
THEOREM OneStatementLeft == Sql!Spec => []FirstStatementLeft
<1>1. Sql!Init => SqlInv
  BY DEF Sql!Init, SqlInv, Nothing
<1>2. SqlInv => FirstStatementLeft
  BY DEF SqlInv, SecondDue, Nothing, FirstStatementLeft, Sql!FirstStatementLeft
<1> QED
  BY <1>1, SqlStep, <1>2, PTL DEF Sql!Spec

-----------------------------------------------------------------------------
(* What goes wrong in main() of the log analyser (src/HW10).               *)

LogPlaces == {"count", "list", "create", "join", "done", "exited", "undefined"}
Stored == FileNames \cup Logs!Dots \cup {"garbage"}

LogsType ==
  /\ main \in LogPlaces /\ dir \in SUBSET FileNames /\ counted \in SUBSET FileNames
  /\ rotations \in Nat /\ thrds \in Int /\ slots \in Int
  /\ counter \in Nat \ {0} /\ files \in Seq(Stored)

(* n is negative when -n is or when nothing could be counted; otherwise    *)
(* the array has its length.                                               *)
SlotsRight ==
  /\ slots >= 0 => Len(files) = slots /\ slots = Logs!Workers(Logs!Cardinality(counted))
  /\ slots < 0 => Len(files) = 0 /\ (thrds < 0 \/ (slots = -1 /\ counted = {}))

(* As long as the directory has not changed, the names that were listed    *)
(* fill the whole array.                                                   *)
LogsInv ==
  /\ LogsType
  /\ main \notin {"count", "exited"} /\ rotations = 0 /\ slots >= 0 => dir = counted
  /\ main = "list" => SlotsRight
  /\ main \in {"create", "join"} /\ rotations = 0 => \A k \in 1..Len(files) : files[k] # "garbage"
  /\ main \in {"count", "list"} => \A w \in 1..Len(files) : worker[w] = "none"
  /\ UndefinedOnlyIf

(* The cardinality of the module of the analyser is the one of the library.*)
LEMMA LogsCardinality ==
  ASSUME NEW S
  PROVE  (Logs!IsFiniteSet(S) <=> IsFiniteSet(S)) /\ Logs!Cardinality(S) = Cardinality(S)
<1>1. Logs!IsFiniteSet(S) <=> IsFiniteSet(S)
  BY DEF Logs!IsFiniteSet, IsFiniteSet
<1>2. Logs!Cardinality(S) = Cardinality(S)
  BY DEF Logs!Cardinality, Cardinality
<1>3. QED BY <1>1, <1>2

LEMMA FoundFinite ==
  ASSUME NEW found \in SUBSET FileNames
  PROVE  IsFiniteSet(found) /\ Cardinality(found) \in Nat
<1>1. IsFiniteSet(FileNames)
  BY LogsCardinality, ProgramsAssumption DEF Logs!LogDistributorAssumption
<1>2. QED BY <1>1, FS_Subset, FS_CardinalityType

(* n is at most the number found, and less only when -n is.               *)
LEMMA ThreadsFacts ==
  ASSUME NEW found \in Int, thrds \in Int
  PROVE  /\ Logs!Workers(found) \in Int /\ Logs!Workers(found) <= found
         /\ Logs!Workers(found) < found => thrds < found
         /\ Logs!Workers(found) = found \/ Logs!Workers(found) = thrds
  BY DEF Logs!Workers

LEMMA ArrayIsSeq ==
  ASSUME NEW S, NEW len \in Nat, NEW f \in [1..len -> S]
  PROVE  f \in Seq(S) /\ Len(f) = len
OBVIOUS

(* An array of n names.                                                    *)
LEMMA Garbage ==
  ASSUME NEW k \in Int, NEW f, f = [j \in 1..k |-> "garbage"]
  PROVE  /\ f \in Seq(Stored) /\ Len(f) = IF k >= 0 THEN k ELSE 0
<1> DEFINE len == IF k >= 0 THEN k ELSE 0
<1>1. len \in Nat /\ 1..k = 1..len
  BY DEF len
<1>2. f \in [1..len -> Stored]
  BY <1>1 DEF Stored
<1> HIDE DEF len
<1>3. f \in Seq(Stored) /\ Len(f) = len
  BY <1>1, <1>2, ArrayIsSeq
<1> QED
  BY <1>3 DEF len

(* The entries of the directory but for the first two are as many as it    *)
(* has files.                                                              *)
LEMMA ListedFacts ==
  ASSUME NEW found \in SUBSET FileNames, NEW entries \in Logs!SetToSeqs(found \cup Logs!Dots)
  PROVE  /\ Logs!Listed(entries) \in Seq(FileNames \cup Logs!Dots)
         /\ Len(Logs!Listed(entries)) = Cardinality(found)
<1>1. IsFiniteSet(found) /\ Cardinality(found) \in Nat
  BY FoundFinite
<1>2. "." \notin found /\ ".." \notin found \cup {"."}
  BY ProgramsAssumption DEF Logs!LogDistributorAssumption, Logs!Dots
<1>3. IsFiniteSet(found \cup {"."}) /\ Cardinality(found \cup {"."}) = Cardinality(found) + 1
  BY <1>1, <1>2, FS_AddElement
<1>4. Cardinality((found \cup {"."}) \cup {".."}) = Cardinality(found) + 2
  BY <1>1, <1>2, <1>3, FS_AddElement
<1>5. found \cup Logs!Dots = (found \cup {"."}) \cup {".."}
  BY DEF Logs!Dots
<1>6. PICK m \in Nat : m = Cardinality(found)
  BY <1>1
<1>7. entries \in [1..(m + 2) -> FileNames \cup Logs!Dots]
  BY <1>4, <1>5, <1>6, LogsCardinality DEF Logs!SetToSeqs
<1>8. entries \in Seq(FileNames \cup Logs!Dots) /\ Len(entries) = m + 2
  BY <1>6, <1>7
<1>9. /\ SubSeq(entries, 3, m + 2) \in Seq(FileNames \cup Logs!Dots)
      /\ Len(SubSeq(entries, 3, m + 2)) = m
  BY <1>6, <1>8
<1>10. QED BY <1>6, <1>8, <1>9 DEF Logs!Listed

LEMMA LogsStep == ASSUME LogsInv, [Logs!Next]_(Logs!vars) PROVE LogsInv'
<1> USE DEF LogsInv, LogsType, LogPlaces, UndefinedOnlyIf, Logs!UndefinedOnlyIf,
           Logs!n, Logs!Running
<1>1. CASE Logs!Rotate
  <2>1. rotations' # 0 /\ rotations' \in Nat
    BY <1>1 DEF Logs!Rotate
  <2>2. SlotsRight => SlotsRight'
    BY <1>1 DEF Logs!Rotate, SlotsRight, Logs!Workers
  <2> QED
    BY <1>1, <2>1, <2>2 DEF Logs!Rotate
<1>2. CASE Logs!Exit
  BY <1>2 DEF Logs!Exit
<1>3. ASSUME NEW k \in Int, Logs!Count(k), counted' \in SUBSET FileNames,
             (k >= 0 /\ k = Logs!Cardinality(counted)' /\ counted' = dir) \/ (k = -1 /\ counted' = {})
      PROVE  LogsInv'
  <2>1. slots' \in Int /\ slots' = Logs!Workers(k)
    BY <1>3, ThreadsFacts DEF Logs!Count
  <2>2. files' = [j \in 1..slots' |-> "garbage"] /\ worker' = [j \in 1..slots' |-> "none"]
    BY <1>3, <2>1 DEF Logs!Count
  <2>3. files' \in Seq(Stored) /\ Len(files') = IF slots' >= 0 THEN slots' ELSE 0
    BY <2>1, <2>2, Garbage
  <2>4. SlotsRight'
    <3>1. slots' >= 0 => k >= 0
      BY <2>1, ThreadsFacts
    <3>2. slots' >= 0 => slots' = Logs!Workers(Logs!Cardinality(counted))'
      BY <1>3, <2>1, <3>1 DEF Logs!Count, Logs!Workers
    <3>3. slots' < 0 => thrds' < 0 \/ (slots' = -1 /\ counted' = {})
      <4>1. thrds' = thrds /\ thrds \in Int /\ (k >= 0 \/ (k = -1 /\ counted' = {}))
        BY <1>3 DEF Logs!Count
      <4>2. Logs!Workers(k) = k \/ Logs!Workers(k) = thrds
        BY <4>1, ThreadsFacts
      <4> QED
        BY <2>1, <4>1, <4>2
    <3> QED
      BY <2>3, <3>2, <3>3 DEF SlotsRight
  <2>5. \A w \in 1..Len(files') : worker'[w] = "none"
    <3>1. 1..Len(files') \subseteq 1..slots'
      BY <2>1, <2>3
    <3> QED
      BY <2>2, <3>1
  <2>6. slots' >= 0 => dir' = counted'
    BY <1>3, <2>1, ThreadsFacts DEF Logs!Count
  <2> QED
    BY <1>3, <2>1, <2>3, <2>4, <2>5, <2>6 DEF Logs!Count
<1>31. CASE Logs!CountFiles
  <2>1. Cardinality(dir) \in Nat /\ Logs!Cardinality(dir) = Cardinality(dir) /\ counted' = dir
    BY <1>31, FoundFinite, LogsCardinality DEF Logs!CountFiles
  <2>2. Logs!Cardinality(counted)' = Logs!Cardinality(dir)
    BY <2>1
  <2> QED
    BY <1>3, <1>31, <2>1, <2>2 DEF Logs!CountFiles
<1>32. CASE Logs!CannotCount
  BY <1>3, <1>32 DEF Logs!CannotCount
<1>4. CASE Logs!ListFiles
  <2>1. PICK entries \in Logs!SetToSeqs(dir \cup Logs!Dots) :
          /\ files' = [k \in 1..Len(files) |->
                         IF k <= Len(Logs!Listed(entries)) THEN Logs!Listed(entries)[k] ELSE files[k]]
          /\ \/ main' = "create"
             \/ (slots < 0 \/ Len(Logs!Listed(entries)) > Len(files)) /\ main' = "undefined"
    BY <1>4 DEF Logs!ListFiles
  <2>2. PICK m \in Nat : m = Len(Logs!Listed(entries))
    BY <2>1, ListedFacts
  <2>3. /\ \A k \in 1..m : Logs!Listed(entries)[k] \in FileNames \cup Logs!Dots
        /\ m = Cardinality(dir)
    BY <2>1, <2>2, ListedFacts
  <2>4. \A k \in 1..Len(files) : k <= m => k \in 1..m
    BY <2>2
  <2>5. files' \in Seq(Stored) /\ Len(files') = Len(files)
    BY <2>1, <2>2, <2>3, <2>4 DEF Stored
  <2>6. /\ SlotsRight /\ main = "list"
        /\ rotations = 0 /\ slots >= 0 => dir = counted
    BY <1>4 DEF Logs!ListFiles
  <2>a. rotations = 0 /\ slots >= 0 => Len(files) = slots /\ slots = Logs!Workers(m)
    BY <2>3, <2>6, LogsCardinality DEF SlotsRight
  <2>b. slots >= 0 \/ Len(files) = 0
    BY <2>6 DEF SlotsRight
  <2>7. rotations = 0 => \A k \in 1..Len(files) : files'[k] # "garbage"
    <3> SUFFICES ASSUME rotations = 0, NEW k \in 1..Len(files) PROVE files'[k] # "garbage"
      OBVIOUS
    <3>0. slots >= 0
      BY <2>b
    <3>1. k \in 1..m
      BY <2>2, <2>a, <3>0, ThreadsFacts
    <3>2. files'[k] \in FileNames \cup Logs!Dots
      BY <2>1, <2>2, <2>3, <3>1
    <3>3. QED BY <3>2, ProgramsAssumption DEF Logs!LogDistributorAssumption, Logs!Dots
  <2>8. UNCHANGED <<dir, rotations, counted, thrds, slots, worker, counter>>
    BY <1>4 DEF Logs!ListFiles
  <2>9. main' = "undefined" =>
          thrds < Logs!Cardinality(counted) \/ (slots = -1 /\ counted = {}) \/ rotations > 0
    <3> SUFFICES ASSUME main' = "undefined", rotations = 0
                 PROVE  thrds < Logs!Cardinality(counted) \/ (slots = -1 /\ counted = {})
      BY DEF LogsInv
    <3>1. Logs!Cardinality(counted) \in Nat
      BY FoundFinite, LogsCardinality
    <3>2. CASE slots < 0
      BY <2>6, <3>1, <3>2 DEF SlotsRight
    <3>3. CASE slots >= 0
      <4>1. dir = counted /\ m > Len(files) /\ Len(files) = slots /\ slots = Logs!Workers(m)
        BY <2>1, <2>2, <2>6, <2>a, <3>3
      <4>2. thrds < m
        BY <2>2, <4>1, ThreadsFacts
      <4> QED
        BY <2>3, <4>1, <4>2, LogsCardinality
    <3> QED
      BY <3>2, <3>3
  <2>10. main = "list" /\ main' \in {"create", "undefined"}
    BY <1>4, <2>1 DEF Logs!ListFiles
  <2>11. QED BY <2>5, <2>7, <2>8, <2>9, <2>10
<1>5. CASE Logs!CreateWorker
  BY <1>5 DEF Logs!CreateWorker
<1>6. CASE Logs!AllCreated
  BY <1>6 DEF Logs!AllCreated
<1>7. CASE Logs!JoinWorker
  BY <1>7 DEF Logs!JoinWorker
<1>8. CASE Logs!JoinNull
  <2>1. counter \in 1..Len(files) /\ worker[counter] = "null"
    BY <1>8 DEF Logs!JoinNull
  <2>2. QED BY <1>8, <2>1 DEF Logs!JoinNull
<1>9. CASE Logs!Report
  BY <1>9 DEF Logs!Report
<1>10. ASSUME NEW w \in 1..Len(files), Logs!OpenGarbage(w) PROVE LogsInv'
  BY <1>10 DEF Logs!OpenGarbage
<1>11. ASSUME NEW w \in 1..Len(files),
              Logs!OpenLog(w) \/ Logs!CannotOpen(w) \/ Logs!ReadLine(w) \/ Logs!Return(w)
       PROVE  LogsInv'
  <2>1. worker[w] \in {"open", "read"} /\ Logs!Running
    BY <1>11 DEF Logs!OpenLog, Logs!CannotOpen, Logs!ReadLine, Logs!Return
  <2>2. main \in {"create", "join"}
    BY <2>1
  <2>3. UNCHANGED <<dir, rotations, counted, thrds, slots, files, main, counter>>
    BY <1>11 DEF Logs!OpenLog, Logs!CannotOpen, Logs!ReadLine, Logs!Return
  <2>4. QED BY <2>2, <2>3
<1>12. CASE UNCHANGED Logs!vars
  BY <1>12 DEF Logs!vars, SlotsRight, Logs!Workers
<1>13. QED
  BY <1>1, <1>2, <1>31, <1>32, <1>4, <1>5, <1>6, <1>7, <1>8, <1>9, <1>10, <1>11, <1>12
     DEF Logs!Next, Logs!Main, Logs!Worker

(* The analyser reads what it has not written, or through NULL, only when  *)
(* a log could not be opened, -n was below the number of files, these      *)
(* could not be counted, or the directory changed between the counting and *)
(* the listing (main()).                                                   *)
THEOREM OnlyFourReasons == Logs!Spec => []UndefinedOnlyIf
<1>1. Logs!Init => LogsInv
  BY ProgramsAssumption
     DEF Logs!Init, LogsInv, LogsType, LogPlaces, UndefinedOnlyIf, Logs!UndefinedOnlyIf,
         Logs!LogDistributorAssumption
<1>2. LogsInv => UndefinedOnlyIf
  BY DEF LogsInv
<1>3. QED BY <1>1, <1>2, LogsStep, PTL DEF Logs!Spec

-----------------------------------------------------------------------------
(* What the figlet client (src/HW11) prints, however the stream is cut and *)
(* whatever the size of its buffer.                                        *)

(* What the client gets of all the server says, and what it prints, is a   *)
(* piece of it.                                                            *)
Tokens == {"hello", "press", "control-C", "f", "newline", "iglet", "art", "work", "?"}
Sent == Figlet!Transcript
Piece(j, k) == SubSeq(Sent, j, k)

LEMMA SentFacts ==
  /\ Sent \in Seq(Tokens) /\ Len(Sent) = 10 /\ \A q \in 1..10 : Sent[q] \in Tokens
  /\ Sent[1] = "hello" /\ \A q \in 1..10 : Sent[q] = Figlet!Newline <=> q \in {5, 7, 10}
  BY DEF Sent, Tokens, Figlet!Transcript, Figlet!Newline

(* The answer leaves room in the buffer.                                   *)
LEMMA Room == BufSize \in Nat /\ BufSize > 5
  BY SentFacts, ProgramsAssumption DEF Figlet!FigletAssumption, Sent

LEMMA PieceFacts ==
  ASSUME NEW j \in 1..10, NEW k \in j..10
  PROVE  /\ Piece(j, k) \in Seq(Tokens) /\ Len(Piece(j, k)) = k - j + 1
         /\ \A q \in 1..(k - j + 1) : Piece(j, k)[q] = Sent[j + q - 1]
<1>1. \A q \in j..k : Sent[q] \in Tokens
  BY SentFacts
<1> QED
  BY <1>1, SubSeqProperties DEF Piece

LEMMA PieceOfPiece ==
  ASSUME NEW j \in 1..10, NEW k \in j..10, NEW m \in 1..(k - j + 1), NEW q \in m..(k - j + 1)
  PROVE  SubSeq(Piece(j, k), m, q) = Piece(j + m - 1, j + q - 1)
<1>1. j \in 1..Len(Sent) /\ k \in 1..Len(Sent)
  BY SentFacts
<1> QED
  BY <1>1, SentFacts, SubSeqOfSubSeq DEF Piece

LEMMA TheAnswer == Figlet!Answer = Piece(7, 10)
<1> DEFINE s == Figlet!Answer
<1>1. s \in Seq(Tokens) /\ Len(s) = 4
  BY DEF Figlet!Answer, Figlet!Newline, Tokens
<1>2. \A q \in 1..4 : s[q] = Sent[7 + q - 1]
  BY DEF Figlet!Answer, Figlet!Newline, Sent, Figlet!Transcript
<1> HIDE DEF s
<1>3. /\ Piece(7, 10) \in Seq(Tokens) /\ Len(Piece(7, 10)) = 4
      /\ \A q \in 1..4 : Piece(7, 10)[q] = Sent[7 + q - 1]
  BY PieceFacts, 7 \in 1..10, 10 \in 7..10, 10 - 7 + 1 = 4
<1>4. s = Piece(7, 10)
  BY <1>1, <1>2, <1>3, SeqEqual
<1> QED
  BY <1>4 DEF s

Buffered == buffer \in Seq(Tokens) /\ Len(buffer) = BufSize

(* A recv puts what it got at the beginning of the buffer.                 *)
LEMMA PutFacts ==
  ASSUME Buffered, NEW x \in Seq(Tokens), Len(x) <= BufSize, Figlet!Put(x)
  PROVE  /\ Buffered' /\ r' = Len(x) /\ SubSeq(buffer', 1, r') = x
         /\ \A j \in 1..BufSize : buffer'[j] = IF j <= Len(x) THEN x[j] ELSE buffer[j]
<1> DEFINE rest == SubSeq(buffer, Len(x) + 1, BufSize)
<1>1. BufSize \in Nat /\ Len(x) \in Nat /\ buffer \in Seq(Tokens) /\ Len(buffer) = BufSize
      /\ buffer' = x \o rest /\ r' = Len(x)
  BY Room DEF Buffered, Figlet!Put
<1>2. /\ rest \in Seq(Tokens) /\ Len(rest) = BufSize - Len(x)
      /\ \A j \in 1..(BufSize - Len(x)) : rest[j] = buffer[Len(x) + j]
  BY <1>1, SubSeqProperties
<1> HIDE DEF rest
<1>3. /\ buffer' \in Seq(Tokens) /\ Len(buffer') = BufSize
      /\ \A j \in 1..BufSize : buffer'[j] = IF j <= Len(x) THEN x[j] ELSE rest[j - Len(x)]
  BY <1>1, <1>2, ConcatProperties
<1>4. \A j \in 1..BufSize : buffer'[j] = IF j <= Len(x) THEN x[j] ELSE buffer[j]
  <2> SUFFICES ASSUME NEW j \in 1..BufSize PROVE buffer'[j] = IF j <= Len(x) THEN x[j] ELSE buffer[j]
    OBVIOUS
  <2>1. CASE j <= Len(x)
    BY <1>3, <2>1
  <2>2. CASE ~(j <= Len(x))
    <3>1. j - Len(x) \in 1..(BufSize - Len(x)) /\ Len(x) + (j - Len(x)) = j
      BY <1>1, <2>2
    <3> QED
      BY <1>2, <1>3, <2>2, <3>1
  <2> QED
    BY <2>1, <2>2
<1>5. SubSeq(buffer', 1, Len(x)) = x
  <2>1. /\ SubSeq(buffer', 1, Len(x)) \in Seq(Tokens) /\ Len(SubSeq(buffer', 1, Len(x))) = Len(x)
        /\ \A j \in 1..Len(x) : SubSeq(buffer', 1, Len(x))[j] = x[j]
    BY <1>1, <1>3, <1>4
  <2> QED
    BY <2>1, SeqEqual
<1> QED
  BY <1>1, <1>3, <1>4, <1>5 DEF Buffered

LEMMA Single == ASSUME NEW S, NEW x \in S PROVE <<x>> \in Seq(S) /\ Len(<<x>>) = 1 /\ SubSeq(<<x>>, 1, 1) = <<x>>
<1>1. <<x>> \in Seq(S) /\ Len(<<x>>) = 1
  OBVIOUS
<1> QED
  BY <1>1, SubSeqFull

LEMMA OneOf == ASSUME NEW S, NEW x \in Seq(S), NEW n \in 1..Len(x) PROVE SubSeq(x, n, n) = <<x[n]>>
<1>1. x[n] \in S /\ <<x[n]>> \in Seq(S) /\ Len(<<x[n]>>) = 1 /\ <<x[n]>>[1] = x[n]
  BY Single
<1>2. SubSeq(x, n, n) \in Seq(S) /\ Len(SubSeq(x, n, n)) = 1 /\ SubSeq(x, n, n)[1] = x[n]
  OBVIOUS
<1>3. \A j \in 1..1 : SubSeq(x, n, n)[j] = <<x[n]>>[j]
  BY <1>1, <1>2
<1> QED
  BY <1>1, <1>2, <1>3, SeqEqual

-----------------------------------------------------------------------------
(* After a message of the transcript comes the next one.                   *)
LEMMA NextMessage ==
  ASSUME NEW from \in Nat, NEW to \in Nat, from < to, Figlet!OneMessage(from, to)
  PROVE  to \in {1, 3, 5, 10} /\ (from = 0 => to = 1) /\ (from = 1 => to = 3)
         /\ (from = 3 => to = 5) /\ (from = 5 => to = 10) /\ from # 10
<1>1. \A e \in {1, 3, 5, 10} : (from < e /\ e <= to) <=> e = to
  BY DEF Figlet!OneMessage, Figlet!Ends
<1>2. to \in {1, 3, 5, 10}
  BY DEF Figlet!OneMessage, Figlet!Ends
<1> QED
  BY <1>1, <1>2

Unmet == \A j \in 1..BufSize : buffer[j] # "control-C"
Got(j, k) == r = k - j + 1 /\ SubSeq(buffer, 1, r) = Piece(j, k)
Ready == \/ r \in {0, -1} /\ cut
         \/ \E j \in 1..received : Got(j, received) /\ (~cut => j = 6 /\ received = 10)

(* How much was received at each step of main() when nothing was cut, and  *)
(* what of it is in the buffer when it is to be printed.                   *)
FigletInv ==
  /\ Buffered /\ cut \in BOOLEAN
  /\ received \in Nat /\ sent \in Nat /\ received <= sent /\ sent <= 10
  /\ step \in {"options", "greeting", "send", "skip", "receive", "print", "ended"}
  /\ step # "ended" => result = "none" /\ output = <<>>
  /\ step = "options" => received = 0 /\ Unmet
  /\ step = "greeting" /\ ~cut =>
       received \in {0, 1, 3} /\ sent <= 3 /\ (received = 0 => Unmet)
  /\ step \in {"send", "skip"} /\ ~cut => received = 3
  /\ step = "receive" /\ ~cut => received = 5
  /\ step = "print" => Ready
  /\ AnswerUnlessCut

LEMMA FigletInit == Figlet!Init => FigletInv
<1> SUFFICES ASSUME Figlet!Init PROVE FigletInv
  OBVIOUS
<1> USE Room DEF Figlet!Init, Figlet!Stale
<1>1. buffer = [k \in 1..BufSize |-> "?"] /\ buffer \in Seq(Tokens) /\ Len(buffer) = BufSize
  BY DEF Tokens
<1>2. Buffered /\ Unmet
  BY <1>1 DEF Buffered, Unmet
<1>3. AnswerUnlessCut
  BY DEF AnswerUnlessCut, Figlet!AnswerUnlessCut
<1>4. step = "options" /\ received = 0 /\ sent = 0 /\ result = "none" /\ output = <<>> /\ cut = FALSE
  OBVIOUS
<1> HIDE DEF Figlet!Init, Figlet!Stale
<1>5. received \in Nat /\ sent \in Nat /\ received <= sent /\ sent <= 10
  BY <1>4
<1>7. cut \in BOOLEAN
  BY <1>4, Zenon
<1>6. /\ step \in {"options", "greeting", "send", "skip", "receive", "print", "ended"}
      /\ step \notin {"greeting", "send", "skip", "receive", "print", "ended"}
  BY <1>4
<1> QED
  BY <1>2, <1>3, <1>4, <1>5, <1>6, <1>7, Zenon DEF FigletInv

(* Before something is printed there is nothing to say of it.              *)
LEMMA NothingPrinted ==
  ASSUME result' = "none", output' = <<>>
  PROVE  AnswerUnlessCut'
  BY DEF AnswerUnlessCut, Figlet!AnswerUnlessCut

LEMMA OptionsStep == ASSUME FigletInv, NEW given, Figlet!Options(given) PROVE FigletInv'
<1>1. /\ Buffered' /\ output' = <<>> /\ Unmet' /\ received' = 0 /\ cut' \in BOOLEAN
      /\ sent \in Nat /\ sent <= 10 /\ received' <= sent /\ result = "none"
  BY DEF FigletInv, Figlet!Options, Buffered, Unmet
<1>2. CASE step' = "ended" /\ result' = "failure" /\ UNCHANGED sent
  BY <1>1, <1>2 DEF FigletInv, AnswerUnlessCut, Figlet!AnswerUnlessCut
<1>3. CASE step' = "greeting" /\ sent' = 3 /\ UNCHANGED result
  BY <1>1, <1>3, NothingPrinted DEF FigletInv
<1> QED
  BY <1>2, <1>3 DEF Figlet!Options, Figlet!End, Figlet!Greeting

(* A recv either fails or puts the next piece at the buffer's beginning.   *)
LEMMA RecvFacts ==
  ASSUME FigletInv, NEW room \in Nat, room <= BufSize, Figlet!Recv(room)
  PROVE  /\ Buffered' /\ cut' \in BOOLEAN /\ received' \in Nat /\ received' <= sent
         /\ \/ r' \in {0, -1} /\ cut'
            \/ /\ r' > 0 /\ \E j \in 1..received' : j = received + 1 /\ Got(j, received)'
               /\ \A q \in 1..BufSize : buffer'[q] = IF q <= r' THEN Sent[received + q] ELSE buffer[q]
               /\ ~cut' => ~cut /\ Figlet!OneMessage(received, received')
<1>1. /\ Buffered /\ cut \in BOOLEAN /\ received \in Nat /\ sent \in Nat /\ received <= sent /\ sent <= 10
  BY DEF FigletInv
<1>2. CASE r' \in {0, -1} /\ cut' = TRUE /\ UNCHANGED <<buffer, received>>
  BY <1>1, <1>2 DEF Buffered
<1>3. ASSUME NEW to \in (received + 1)..sent, to - received <= room, received' = to,
             Figlet!Put(SubSeq(Figlet!Transcript, received + 1, to)),
             cut' = (cut \/ ~Figlet!OneMessage(received, to))
      PROVE  /\ Buffered' /\ cut' \in BOOLEAN /\ received' \in Nat /\ received' <= sent
             /\ r' > 0 /\ \E j \in 1..received' : j = received + 1 /\ Got(j, received)'
             /\ \A q \in 1..BufSize : buffer'[q] = IF q <= r' THEN Sent[received + q] ELSE buffer[q]
             /\ ~cut' => ~cut /\ Figlet!OneMessage(received, received')
  <2>1. /\ received + 1 \in 1..10 /\ to \in (received + 1)..10 /\ to - (received + 1) + 1 = to - received
        /\ received + 1 \in 1..to /\ to \in Nat /\ to <= sent /\ to - received > 0 /\ to - received <= BufSize
    BY <1>1, <1>3, Room
  <2> DEFINE x == Piece(received + 1, to)
  <2>2. /\ x \in Seq(Tokens) /\ Len(x) = to - received
        /\ \A q \in 1..(to - received) : x[q] = Sent[received + 1 + q - 1]
    BY <2>1, PieceFacts
  <2>3. Figlet!Put(x)
    BY <1>3 DEF Piece, Sent
  <2> HIDE DEF x
  <2>4. /\ Buffered' /\ r' = Len(x) /\ SubSeq(buffer', 1, r') = x
        /\ \A j \in 1..BufSize : buffer'[j] = IF j <= Len(x) THEN x[j] ELSE buffer[j]
    BY <1>1, <2>1, <2>2, <2>3, PutFacts
  <2>5. \A q \in 1..BufSize : buffer'[q] = IF q <= r' THEN Sent[received + q] ELSE buffer[q]
    <3> SUFFICES ASSUME NEW q \in 1..BufSize
                 PROVE  buffer'[q] = IF q <= r' THEN Sent[received + q] ELSE buffer[q]
      OBVIOUS
    <3>1. CASE q <= r'
      <4>1. q \in 1..(to - received) /\ received + 1 + q - 1 = received + q
        BY <1>1, <2>1, <2>2, <2>4, <3>1, Room
      <4> QED
        BY <2>2, <2>4, <3>1, <4>1
    <3>2. CASE ~(q <= r')
      BY <2>4, <3>2
    <3> QED
      BY <3>1, <3>2
  <2>6. r' = received' - (received + 1) + 1 /\ SubSeq(buffer', 1, r') = Piece(received + 1, received')
    BY <1>3, <2>1, <2>2, <2>4 DEF x
  <2>7. cut' \in BOOLEAN /\ (~cut' => ~cut /\ Figlet!OneMessage(received, received'))
    BY <1>1, <1>3
  <2>8. \E j \in 1..received' : j = received + 1 /\ Got(j, received)'
    <3>1. PICK j \in 1..received' : j = received + 1
      BY <1>3, <2>1
    <3> QED
      BY <2>6, <3>1 DEF Got
  <2> QED
    BY <1>3, <2>1, <2>2, <2>4, <2>5, <2>7, <2>8
<1> QED
  BY <1>2, <1>3 DEF Figlet!Recv


(* The phrase is in the buffer only when the whole greeting is there.      *)
LEMMA GreetingStep == ASSUME FigletInv, Figlet!AwaitGreeting PROVE FigletInv'
<1>1. /\ FigletInv /\ step = "greeting" /\ Figlet!Recv(BufSize - 1) /\ BufSize - 1 \in Nat /\ BufSize \in Nat
      /\ UNCHANGED <<options, sent, open, output, result>> /\ result = "none" /\ output = <<>>
      /\ step' = IF r' <= 0 \/ Figlet!Contains(buffer', Figlet!Phrase) THEN "send" ELSE "greeting"
      /\ sent \in Nat /\ sent <= 10 /\ received \in Nat
      /\ ~cut => received \in {0, 1, 3} /\ sent <= 3 /\ (received = 0 => Unmet)
  BY Room DEF FigletInv, Figlet!AwaitGreeting
<1>2. /\ Buffered' /\ cut' \in BOOLEAN /\ received' \in Nat /\ received' <= sent
      /\ \/ r' \in {0, -1} /\ cut'
         \/ /\ r' > 0 /\ \E j \in 1..received' : j = received + 1 /\ Got(j, received)'
            /\ \A q \in 1..BufSize : buffer'[q] = IF q <= r' THEN Sent[received + q] ELSE buffer[q]
            /\ ~cut' => ~cut /\ Figlet!OneMessage(received, received')
  BY <1>1, RecvFacts
<1>3. step' \in {"send", "greeting"} /\ result' = "none" /\ output' = <<>> /\ sent' = sent
  BY <1>1
<1>4. CASE cut'
  BY <1>1, <1>2, <1>3, <1>4, NothingPrinted DEF FigletInv
<1>5. CASE ~cut'
  <2>1. /\ ~cut /\ Figlet!OneMessage(received, received') /\ received < received' /\ received' <= 3
        /\ r' > 0 /\ r' = received' - received
    BY <1>1, <1>2, <1>5 DEF Got
  <2>2. (received' = 1 /\ received = 0) \/ received' = 3
    BY <1>1, <1>2, <2>1, NextMessage
  <2>3. CASE received' = 3
    BY <1>1, <1>2, <1>3, <2>3, NothingPrinted DEF FigletInv
  <2>4. CASE received' = 1 /\ received = 0
    <3>1. ~Figlet!Contains(buffer', Figlet!Phrase)
      <4> SUFFICES ASSUME Figlet!Contains(buffer', Figlet!Phrase) PROVE FALSE
        OBVIOUS
      <4>1. PICK k \in 0..(Len(buffer') - Len(Figlet!Phrase)) :
               SubSeq(buffer', k + 1, k + Len(Figlet!Phrase)) = Figlet!Phrase
        BY DEF Figlet!Contains
      <4>2. Len(Figlet!Phrase) = 2 /\ Figlet!Phrase[2] = "control-C" /\ Len(buffer') = BufSize /\ buffer' \in Seq(Tokens)
        BY <1>2 DEF Figlet!Phrase, Buffered
      <4>3. SubSeq(buffer', k + 1, k + 2)[2] = buffer'[k + 2] /\ k + 2 \in 1..BufSize /\ k + 2 > 1
        BY <4>1, <4>2, Room
      <4>4. r' = 1 /\ Unmet
        BY <1>1, <2>1, <2>4
      <4>5. buffer'[k + 2] = buffer[k + 2] /\ buffer[k + 2] # "control-C"
        BY <1>2, <2>1, <4>3, <4>4 DEF Unmet
      <4> QED
        BY <4>1, <4>2, <4>3, <4>5
    <3>2. step' = "greeting"
      BY <1>1, <2>1, <3>1
    <3> QED
      BY <1>1, <1>2, <1>3, <2>1, <2>4, <3>2, NothingPrinted DEF FigletInv
  <2> QED
    BY <2>2, <2>3, <2>4
<1> QED
  BY <1>2, <1>4, <1>5

LEMMA SendStep == ASSUME FigletInv, Figlet!Send PROVE FigletInv'
<1>1. /\ Buffered /\ step = "send" /\ cut \in BOOLEAN /\ result = "none" /\ output = <<>>
      /\ UNCHANGED <<options, received, open, buffer, r, output, cut>> /\ (~cut => received = 3)
      /\ received \in Nat /\ sent \in Nat /\ received <= sent /\ sent <= 10
  BY DEF FigletInv, Figlet!Send
<1>2. Buffered'
  BY <1>1 DEF Buffered
<1>3. CASE step' = "ended" /\ (options # {"f", "m"} \/ result' = "failure") /\ UNCHANGED sent
  BY <1>1, <1>2, <1>3 DEF FigletInv, AnswerUnlessCut, Figlet!AnswerUnlessCut
<1>4. CASE step' = "skip" /\ UNCHANGED result /\ sent' = IF open THEN Len(Figlet!Transcript) ELSE sent
  <2>1. sent' \in Nat /\ sent <= sent' /\ sent' <= 10
    BY <1>1, <1>4, SentFacts DEF Sent
  <2> QED
    BY <1>1, <1>2, <1>4, <2>1, NothingPrinted DEF FigletInv
<1> QED
  BY <1>1, <1>3, <1>4 DEF Figlet!Send, Figlet!End

LEMMA SkipStep == ASSUME FigletInv, Figlet!Skip PROVE FigletInv'
<1>1. /\ Figlet!Recv(BufSize) /\ step' = "receive" /\ sent' = sent /\ sent <= 10 /\ sent \in Nat
      /\ result' = "none" /\ output' = <<>> /\ (~cut => received = 3) /\ received \in Nat
  BY DEF FigletInv, Figlet!Skip
<1>2. /\ Buffered' /\ cut' \in BOOLEAN /\ received' \in Nat /\ received' <= sent
      /\ \/ r' \in {0, -1} /\ cut'
         \/ /\ r' > 0 /\ \E j \in 1..received' : j = received + 1 /\ Got(j, received)'
            /\ ~cut' => ~cut /\ Figlet!OneMessage(received, received')
  BY <1>1, Room, RecvFacts
<1>3. ~cut' => received' = 5
  BY <1>1, <1>2, NextMessage
<1> QED
  BY <1>1, <1>2, <1>3, NothingPrinted DEF FigletInv

LEMMA ReceiveStep == ASSUME FigletInv, Figlet!Receive PROVE FigletInv'
<1>1. /\ Figlet!Recv(BufSize) /\ step' = "print" /\ sent' = sent /\ sent <= 10 /\ sent \in Nat
      /\ result' = "none" /\ output' = <<>> /\ (~cut => received = 5) /\ received \in Nat
  BY DEF FigletInv, Figlet!Receive
<1>2. /\ Buffered' /\ cut' \in BOOLEAN /\ received' \in Nat /\ received' <= sent
      /\ \/ r' \in {0, -1} /\ cut'
         \/ /\ r' > 0 /\ \E j \in 1..received' : j = received + 1 /\ Got(j, received)'
            /\ ~cut' => ~cut /\ Figlet!OneMessage(received, received')
  BY <1>1, Room, RecvFacts
<1>3. Ready'
  <2>1. CASE r' \in {0, -1} /\ cut'
    BY <2>1 DEF Ready
  <2>2. CASE ~(r' \in {0, -1} /\ cut')
    <3>1. PICK j \in 1..received' : j = received + 1 /\ Got(j, received)'
      BY <1>2, <2>2
    <3>2. ~cut' => j = 6 /\ received' = 10
      BY <1>1, <1>2, <2>2, <3>1, NextMessage
    <3> QED
      BY <3>1, <3>2 DEF Ready
  <2> QED
    BY <2>1, <2>2
<1> QED
  BY <1>1, <1>2, <1>3, NothingPrinted DEF FigletInv

(* What is printed of a piece begins at its first newline.                 *)
From(j) == IF j <= 5 THEN 5 ELSE IF j <= 7 THEN 7 ELSE 10

LEMMA FirstNewline ==
  ASSUME NEW k \in 1..10, NEW j \in 1..k, Figlet!Contains(Piece(j, k), <<Figlet!Newline>>)
  PROVE  LET piece == Piece(j, k)
             first == CHOOSE q \in 1..(k - j + 1) : piece[q] = Figlet!Newline
                                                    /\ \A p \in 1..(q - 1) : piece[p] # Figlet!Newline
         IN SubSeq(piece, first, k - j + 1) = Piece(From(j), k) /\ k \in From(j)..10 /\ From(j) \in 5..10
<1> DEFINE piece == Piece(j, k)
           Is(q) == piece[q] = Figlet!Newline /\ \A p \in 1..(q - 1) : piece[p] # Figlet!Newline
           first == CHOOSE q \in 1..(k - j + 1) : Is(q)
<1>0. j \in 1..10 /\ k \in j..10
  OBVIOUS
<1>1. /\ piece \in Seq(Tokens) /\ Len(piece) = k - j + 1
      /\ \A q \in 1..(k - j + 1) : piece[q] = Sent[j + q - 1]
  BY <1>0, PieceFacts
<1>2. \A q \in 1..(k - j + 1) : piece[q] = Figlet!Newline <=> j + q - 1 \in {5, 7, 10}
  <2> SUFFICES ASSUME NEW q \in 1..(k - j + 1)
               PROVE  piece[q] = Figlet!Newline <=> j + q - 1 \in {5, 7, 10}
    OBVIOUS
  <2>1. j + q - 1 \in 1..10
    OBVIOUS
  <2> QED
    BY <1>1, <2>1, SentFacts
<1>3. PICK q \in 1..(k - j + 1) : piece[q] = Figlet!Newline
  <2>1. Len(<<Figlet!Newline>>) = 1 /\ <<Figlet!Newline>>[1] = Figlet!Newline
    OBVIOUS
  <2>2. PICK n \in 0..(k - j + 1 - 1) : SubSeq(piece, n + 1, n + 1) = <<Figlet!Newline>>
    BY <1>1, <2>1 DEF Figlet!Contains
  <2>3. n + 1 \in 1..Len(piece) /\ n + 1 \in 1..(k - j + 1)
    BY <1>1, <2>2
  <2>4. SubSeq(piece, n + 1, n + 1) = <<piece[n + 1]>>
    BY <1>1, <2>3, OneOf
  <2> QED
    BY <2>1, <2>2, <2>3, <2>4
<1> HIDE DEF piece
<1>4. /\ From(j) \in 5..10 /\ From(j) \in {5, 7, 10} /\ j <= From(j) /\ From(j) <= k
      /\ \A m \in {5, 7, 10} : j <= m => From(j) <= m
  <2>1. j + q - 1 \in {5, 7, 10} /\ j <= j + q - 1 /\ j + q - 1 <= k
    BY <1>2, <1>3
  <2> QED
    BY <2>1 DEF From
<1>5. PICK m \in 1..(k - j + 1) : m = From(j) - j + 1
  BY <1>4
<1>6. Is(m)
  <2>1. j + m - 1 = From(j)
    BY <1>4, <1>5
  <2>2. piece[m] = Figlet!Newline
    BY <1>2, <1>4, <2>1
  <2>3. ASSUME NEW p \in 1..(m - 1) PROVE piece[p] # Figlet!Newline
    <3>1. p \in 1..(k - j + 1) /\ j <= j + p - 1 /\ j + p - 1 < From(j)
      BY <1>4, <2>1
    <3> QED
      BY <1>2, <1>4, <3>1
  <2> QED
    BY <2>2, <2>3
<1>7. first = m
  <2>1. ASSUME NEW p \in 1..(k - j + 1), Is(p) PROVE p = m
    <3>1. ~(m < p)
      <4> SUFFICES ASSUME m < p PROVE FALSE
        OBVIOUS
      <4>1. m \in 1..(p - 1)
        OBVIOUS
      <4> QED
        BY <1>6, <2>1, <4>1
    <3>2. ~(p < m)
      <4> SUFFICES ASSUME p < m PROVE FALSE
        OBVIOUS
      <4>1. p \in 1..(m - 1)
        OBVIOUS
      <4> QED
        BY <1>6, <2>1, <4>1
    <3> QED
      BY <3>1, <3>2
  <2> HIDE DEF Is
  <2> QED
    BY <1>6, <2>1
<1> HIDE DEF first
<1>8. SubSeq(piece, first, k - j + 1) = Piece(From(j), k)
  <2>1. /\ k - j + 1 \in m..(k - j + 1) /\ j + m - 1 = From(j) /\ j + (k - j + 1) - 1 = k
    BY <1>4, <1>5
  <2>2. SubSeq(Piece(j, k), m, k - j + 1) = Piece(j + m - 1, j + (k - j + 1) - 1)
    BY <1>0, <2>1, PieceOfPiece
  <2> QED
    BY <1>7, <2>1, <2>2 DEF piece
<1>9. k \in From(j)..10 /\ From(j) \in 5..10
  BY <1>4
<1> QED
  BY <1>8, <1>9 DEF first, piece

(* From a newline on, it is a piece of what a newline and the rest make.   *)
LEMMA PieceOfReply ==
  ASSUME NEW m \in 5..10, NEW k \in m..10
  PROVE  Figlet!Contains(SubSeq(Figlet!Transcript, 5, 10), Piece(m, k))
<1>1. m \in 1..10 /\ k \in m..10 /\ 5 \in 1..10 /\ 10 \in 5..10
  OBVIOUS
<1>2. Len(Piece(m, k)) = k - m + 1 /\ Len(Piece(5, 10)) = 6
  BY <1>1, PieceFacts, 10 - 5 + 1 = 6
<1>3. m - 4 \in 1..(10 - 5 + 1) /\ k - 4 \in (m - 4)..(10 - 5 + 1) /\ 5 + (m - 4) - 1 = m /\ 5 + (k - 4) - 1 = k
  OBVIOUS
<1>4. SubSeq(Piece(5, 10), m - 4, k - 4) = Piece(m, k)
  BY <1>1, <1>3, PieceOfPiece
<1>5. /\ m - 5 \in 0..(Len(Piece(5, 10)) - Len(Piece(m, k)))
      /\ m - 5 + 1 = m - 4 /\ m - 5 + Len(Piece(m, k)) = k - 4
  <2>1. m - 5 \in 0..(6 - (k - m + 1)) /\ m - 5 + 1 = m - 4 /\ m - 5 + (k - m + 1) = k - 4
    OBVIOUS
  <2> QED
    BY <1>2, <2>1
<1>6. Figlet!Contains(Piece(5, 10), Piece(m, k))
  BY <1>4, <1>5 DEF Figlet!Contains
<1> QED
  BY <1>6 DEF Piece, Sent

LEMMA ShowStep == ASSUME FigletInv, Figlet!ShowAnswer PROVE FigletInv'
<1> DEFINE Bad == r \notin 0..(BufSize - 1) \/ ~Figlet!Contains(SubSeq(buffer, 1, r), <<Figlet!Newline>>)
<1>1. /\ Buffered /\ step = "print" /\ output = <<>> /\ cut \in BOOLEAN /\ Ready
      /\ UNCHANGED <<options, sent, received, open, buffer, r, cut>> /\ step' = "ended"
      /\ received \in Nat /\ sent \in Nat /\ received <= sent /\ sent <= 10
  BY DEF FigletInv, Figlet!ShowAnswer, Figlet!End
<1>2. Buffered'
  BY <1>1 DEF Buffered
<1>3. AnswerUnlessCut' => FigletInv'
  BY <1>1, <1>2 DEF FigletInv
<1>4. CASE Bad /\ output' = output
  <2>1. cut
    <3> SUFFICES ASSUME ~cut PROVE ~Bad
      BY <1>4
    <3>1. r = 5 /\ SubSeq(buffer, 1, r) = Piece(6, 10)
      BY <1>1 DEF Got, Ready
    <3>9. Len(Piece(6, 10)) = 5
      BY PieceFacts, 6 \in 1..10, 10 \in 6..10, 10 - 6 + 1 = 5
    <3>2. r \in 0..(BufSize - 1)
      BY <3>1, Room
    <3>3. 7 \in 1..Len(Sent) /\ Sent[7] = Figlet!Newline /\ Sent \in Seq(Tokens)
      BY SentFacts
    <3>4. Piece(7, 7) = <<Figlet!Newline>>
      BY <3>3, OneOf DEF Piece
    <3>5. SubSeq(Piece(6, 10), 2, 2) = Piece(7, 7)
      <4>1. 6 \in 1..10 /\ 10 \in 6..10 /\ 2 \in 1..(10 - 6 + 1) /\ 2 \in 2..(10 - 6 + 1) /\ 6 + 2 - 1 = 7
        OBVIOUS
      <4>2. SubSeq(Piece(6, 10), 2, 2) = Piece(6 + 2 - 1, 6 + 2 - 1)
        BY <4>1, PieceOfPiece
      <4> QED
        BY <4>1, <4>2
    <3>6. Len(Piece(6, 10)) = 5 /\ Len(<<Figlet!Newline>>) = 1
      BY <3>9
    <3>7. SubSeq(Piece(6, 10), 1 + 1, 1 + Len(<<Figlet!Newline>>)) = <<Figlet!Newline>>
          /\ 1 \in 0..(Len(Piece(6, 10)) - Len(<<Figlet!Newline>>))
      BY <3>4, <3>5, <3>6, 1 + 1 = 2, 1 \in 0..(5 - 1)
    <3>8. Figlet!Contains(Piece(6, 10), <<Figlet!Newline>>)
      BY <3>7 DEF Figlet!Contains
    <3> QED
      BY <3>1, <3>2, <3>8
  <2>2. AnswerUnlessCut'
    BY <1>1, <1>4, <2>1 DEF AnswerUnlessCut, Figlet!AnswerUnlessCut
  <2> QED
    BY <1>3, <2>2
<1>5. CASE /\ ~Bad /\ result' \in {"success", "failure"}
           /\ output' = LET piece == SubSeq(buffer, 1, r)
                            first == CHOOSE k \in 1..r : piece[k] = Figlet!Newline
                                                         /\ \A j \in 1..(k - 1) : piece[j] # Figlet!Newline
                        IN SubSeq(piece, first, r)
  <2>1. r # 0 /\ r # -1
    <3>1. SUFFICES ASSUME r = 0 PROVE FALSE
      BY <1>5
    <3>2. Len(SubSeq(buffer, 1, 0)) = 0 /\ Len(<<Figlet!Newline>>) = 1
      BY <1>1 DEF Buffered
    <3> QED
      BY <1>5, <3>1, <3>2 DEF Figlet!Contains
  <2>2. PICK j \in 1..received : Got(j, received) /\ (~cut => j = 6 /\ received = 10)
    BY <1>1, <2>1 DEF Ready
  <2>3. PICK k \in 1..10 : k = received /\ j \in 1..k
    BY <1>1, <2>2
  <2>4. r = k - j + 1 /\ SubSeq(buffer, 1, r) = Piece(j, k)
    BY <2>2, <2>3 DEF Got
  <2>5. Figlet!Contains(Piece(j, k), <<Figlet!Newline>>)
    BY <1>5, <2>4
  <2> DEFINE piece == Piece(j, k)
             first == CHOOSE q \in 1..(k - j + 1) : piece[q] = Figlet!Newline
                                                    /\ \A p \in 1..(q - 1) : piece[p] # Figlet!Newline
  <2>10. output' = SubSeq(piece, first, k - j + 1)
    BY <1>5, <2>4
  <2>11. SubSeq(piece, first, k - j + 1) = Piece(From(j), k) /\ k \in From(j)..10 /\ From(j) \in 5..10
    BY <2>3, <2>5, FirstNewline
  <2>6. output' = Piece(From(j), k) /\ k \in From(j)..10 /\ From(j) \in 5..10
    BY <2>10, <2>11
  <2>7. Figlet!Contains(SubSeq(Figlet!Transcript, 5, 10), output')
    BY <2>6, PieceOfReply
  <2>8. ~cut' => output' = Figlet!Answer
    BY <1>1, <2>2, <2>3, <2>6, TheAnswer DEF From
  <2>9. AnswerUnlessCut'
    BY <1>5, <2>7, <2>8 DEF AnswerUnlessCut, Figlet!AnswerUnlessCut
  <2> QED
    BY <1>3, <2>9
<1> QED
  BY <1>4, <1>5 DEF Figlet!ShowAnswer, Figlet!End

LEMMA FigletStep == FigletInv /\ [Figlet!Next]_(Figlet!vars) => FigletInv'
<1> SUFFICES ASSUME FigletInv, [Figlet!Next]_(Figlet!vars) PROVE FigletInv'
  OBVIOUS
<1>1. ASSUME NEW given, Figlet!Options(given) PROVE FigletInv'
  BY <1>1, OptionsStep
<1>2. ASSUME UNCHANGED <<step, options, received, buffer, r, output, result, cut>>, sent' \in received..sent
      PROVE  FigletInv'
  <2>1. sent' \in Nat /\ received' <= sent' /\ sent' <= sent
    BY <1>2 DEF FigletInv
  <2> QED
    BY <1>2, <2>1 DEF FigletInv, Buffered, Unmet, Ready, Got, AnswerUnlessCut, Figlet!AnswerUnlessCut
<1>3. CASE Figlet!Next
  BY <1>1, <1>2, <1>3, GreetingStep, SendStep, SkipStep, ReceiveStep, ShowStep
  DEF Figlet!Next, Figlet!ServerCloses
<1>4. CASE UNCHANGED Figlet!vars
  <2>1. sent' \in received..sent
    BY <1>4 DEF FigletInv, Figlet!vars
  <2> QED
    BY <1>2, <1>4, <2>1 DEF Figlet!vars
<1> QED
  BY <1>3, <1>4

(* When both options are given and no recv is cut, all of the answer is    *)
(* printed; and what is printed is at any rate of this answer.             *)
THEOREM WholeAnswer == Figlet!Spec => []AnswerUnlessCut
<1>1. FigletInv => AnswerUnlessCut
  BY DEF FigletInv
<1> QED
  BY <1>1, FigletInit, FigletStep, PTL DEF Figlet!Spec

-----------------------------------------------------------------------------
(***************************************************************************)
(* Induction.  The theorems of the library take the formula to be proved   *)
(* as an operator; here it is a set, for which a smallest element of its   *)
(* complement will do.                                                     *)
(***************************************************************************)
Below == {ss \in Nat \X Nat : ss[1] < ss[2]}

LEMMA BelowWellFounded == IsWellFoundedOn(Below, Nat)
  BY NatLessThanWellFounded, Zenon DEF OpToRel, Below

LEMMA Smallest ==
  ASSUME NEW T, T \subseteq Nat, T # {}
  PROVE  \E x \in T : \A y \in T : x <= y
<1>1. PICK x \in T : \A y \in T : ~(<<y, x>> \in Below)
  BY BelowWellFounded, WFMin
<1>2. x \in Nat /\ \A y \in T : y \in Nat /\ <<y, x>> \in Nat \X Nat
  OBVIOUS
<1>3. \A y \in T : ~(y < x)
  BY <1>1, <1>2 DEF Below
<1> QED
  BY <1>2, <1>3

LEMMA Induction ==
  ASSUME NEW T, 0 \in T, \A k \in Nat : k \in T => k + 1 \in T
  PROVE  Nat \subseteq T
<1> DEFINE U == Nat \ T
<1> SUFFICES ASSUME U # {} PROVE FALSE
  OBVIOUS
<1>1. PICK x \in U : \A y \in U : x <= y
  BY Smallest
<1>2. x # 0 /\ x - 1 \in Nat
  OBVIOUS
<1>3. x - 1 \in T
  BY <1>1, <1>2
<1>4. x - 1 + 1 \in T
  BY <1>2, <1>3
<1> QED
  BY <1>2, <1>4

LEMMA UpTo ==
  ASSUME NEW n \in Nat, NEW T, 0 \in T, \A k \in 1..n : k - 1 \in T => k \in T
  PROVE  0..n \subseteq T
<1> DEFINE U == {k \in Nat : k <= n => k \in T}
<1>1. 0 \in U
  OBVIOUS
<1>2. ASSUME NEW k \in Nat, k \in U PROVE k + 1 \in U
  <2> SUFFICES ASSUME k + 1 <= n PROVE k + 1 \in T
    OBVIOUS
  <2>1. k + 1 \in 1..n /\ k + 1 - 1 \in T
    BY <1>2
  <2> QED
    BY <2>1
<1> HIDE DEF U
<1>3. Nat \subseteq U
  BY <1>1, <1>2, Induction
<1> QED
  BY <1>3 DEF U

(* A maximum of indices.                                                   *)
LEMMA MaxOf ==
  ASSUME NEW n \in Nat, NEW d \in SUBSET (1..n), d # {}
  PROVE  Max(d) \in d /\ \A y \in d : Max(d) >= y
<1> DEFINE T == {n - y : y \in d}
<1>1. T \subseteq Nat /\ T # {}
  <2>1. \A y \in d : n - y \in Nat
    OBVIOUS
  <2>2. T # {}
    OBVIOUS
  <2> QED
    BY <2>1, <2>2
<1>2. PICK x \in T : \A y \in T : x <= y
  BY <1>1, Smallest
<1>3. PICK z \in d : x = n - z
  BY <1>2
<1>4. \A y \in d : z >= y
  <2> TAKE y \in d
  <2>1. x <= n - y
    BY <1>2
  <2> QED
    BY <1>3, <2>1
<1> QED
  BY <1>3, <1>4 DEF Max

LEMMA MaxUpTo ==
  ASSUME NEW n \in Nat, NEW k \in 1..n
  PROVE  /\ 1..k \in SUBSET (1..n) /\ 1..k # {}
         /\ Max(1..k) = k /\ (1..k) \ {k} = 1..(k - 1)
<1>1. 1..k \in SUBSET (1..n) /\ k \in 1..k /\ (1..k) \ {k} = 1..(k - 1)
  OBVIOUS
<1>2. Max(1..k) \in 1..k /\ \A y \in 1..k : Max(1..k) >= y
  BY <1>1, MaxOf, 1..k # {}
<1>3. Max(1..k) \in 1..k /\ Max(1..k) >= k
  BY <1>1, <1>2
<1> QED
  BY <1>1, <1>3

LEMMA MaxWithin ==
  ASSUME NEW n \in Nat, NEW d \in SUBSET (1..n), d # {}
  PROVE  Max(d) \in 1..n /\ d \ {Max(d)} \in SUBSET (1..n)
<1>1. Max(d) \in d
  BY MaxOf
<1> QED
  BY <1>1

(* A step that keeps within S, and what a fold by it begins with.          *)
Folder(S, T, base, op) == base \in S /\ op \in [S \X T -> S]

(* What FoldLeft defines: a function of the sets of indices.               *)
Iterates(g, n, base, op, s) ==
  \A d \in SUBSET (1..n) :
    g[d] = IF d = {} THEN base ELSE op[<<g[d \ {Max(d)}], s[Max(d)]>>]

LEMMA Iteration ==
  ASSUME NEW S, NEW T, NEW base, NEW op, Folder(S, T, base, op), NEW s \in Seq(T)
  PROVE  \E g \in [SUBSET (1..Len(s)) -> S] : Iterates(g, Len(s), base, op, s)
<1> USE DEF Folder
<1> DEFINE P(n) == \E g \in [SUBSET (1..n) -> S] : Iterates(g, n, base, op, s)
           N == {n \in Nat : n <= Len(s) => P(n)}
<1>1. P(0)
  <2> DEFINE g == [d \in SUBSET (1..0) |-> base]
  <2>1. g \in [SUBSET (1..0) -> S] /\ Iterates(g, 0, base, op, s)
    BY DEF Iterates
  <2> QED
    BY <2>1
<1>2. ASSUME NEW n \in Nat, P(n), n + 1 <= Len(s)
      PROVE  P(n + 1)
  <2>1. PICK g \in [SUBSET (1..n) -> S] : Iterates(g, n, base, op, s)
    BY <1>2
  <2>2. s[n + 1] \in T
    BY <1>2
  <2>3. \A d \in SUBSET (1..(n + 1)) : d \ {n + 1} \in SUBSET (1..n) /\ (n + 1 \notin d => d \in SUBSET (1..n))
    <3>1. \A y \in 1..(n + 1) : y # n + 1 => y \in 1..n
      OBVIOUS
    <3> QED
      BY <3>1
  <2> DEFINE h == [d \in SUBSET (1..(n + 1)) |->
                     IF n + 1 \in d THEN op[<<g[d \ {n + 1}], s[n + 1]>>] ELSE g[d]]
  <2>4. h \in [SUBSET (1..(n + 1)) -> S]
    BY <2>1, <2>2, <2>3
  <2>5. ASSUME NEW d \in SUBSET (1..(n + 1))
        PROVE  h[d] = IF d = {} THEN base ELSE op[<<h[d \ {Max(d)}], s[Max(d)]>>]
    <3>1. CASE n + 1 \in d
      <4>1. Max(d) = n + 1
        <5>1. Max(d) \in d /\ \A y \in d : Max(d) >= y
          BY <3>1, MaxOf, n + 1 \in Nat, d # {}
        <5>2. Max(d) \in 1..(n + 1) /\ Max(d) >= n + 1
          BY <3>1, <5>1
        <5> QED
          BY <5>2
      <4>2. d \ {n + 1} \in SUBSET (1..(n + 1)) /\ h[d \ {n + 1}] = g[d \ {n + 1}]
        BY <2>3
      <4> QED
        BY <3>1, <4>1, <4>2
    <3>2. CASE n + 1 \notin d
      <4>1. d \in SUBSET (1..n) /\ d \ {Max(d)} \in SUBSET (1..n) /\ d \ {Max(d)} \in SUBSET (1..(n + 1))
        BY <2>3, <3>2
      <4>2. h[d] = g[d] /\ h[d \ {Max(d)}] = g[d \ {Max(d)}]
        BY <3>2, <4>1
      <4> QED
        BY <2>1, <4>1, <4>2 DEF Iterates
    <3> QED
      BY <3>1, <3>2
  <2> QED
    BY <2>4, <2>5 DEF Iterates
<1> HIDE DEF P
<1>3. 0 \in N /\ \A n \in Nat : n \in N => n + 1 \in N
  BY <1>1, <1>2
<1> HIDE DEF N
<1>4. Nat \subseteq N /\ Len(s) \in Nat
  BY <1>3, Induction
<1>5. P(Len(s))
  BY <1>4 DEF N
<1> QED
  BY <1>5 DEF P

(* A fold of a step that is a function, by the length of the sequence.     *)
Fold(op, base, s) ==
  LET f[k \in 0..Len(s)] == IF k = 0 THEN base ELSE op[<<f[k - 1], s[k]>>]
  IN  f[Len(s)]

Folds(f, op, base, s) ==
  /\ f[0] = base /\ Fold(op, base, s) = f[Len(s)]
  /\ \A k \in 1..Len(s) : f[k] = op[<<f[k - 1], s[k]>>]

LEMMA FoldIs ==
  ASSUME NEW S, NEW T, NEW base, NEW op, Folder(S, T, base, op), NEW s \in Seq(T)
  PROVE  \E f \in [0..Len(s) -> S] : Folds(f, op, base, s)
<1> USE DEF Folder
<1> DEFINE n == Len(s)
           Eq(f) == f = [k \in 0..n |-> IF k = 0 THEN base ELSE op[<<f[k - 1], s[k]>>]]
<1>1. PICK g \in [SUBSET (1..n) -> S] : Iterates(g, n, base, op, s)
  BY Iteration
<1>2. n \in Nat
  OBVIOUS
<1>3. \E f : Eq(f)
  <2> DEFINE f == [k \in 0..n |-> g[1..k]]
  <2>1. f[0] = base
    <3>1. 1..0 = {} /\ 0 \in 0..n /\ {} \in SUBSET (1..n)
      BY <1>2
    <3> QED
      BY <1>1, <3>1 DEF Iterates
  <2>2. ASSUME NEW k \in 1..n PROVE f[k] = op[<<f[k - 1], s[k]>>]
    <3>1. /\ 1..k \in SUBSET (1..n) /\ 1..k # {}
          /\ Max(1..k) = k /\ (1..k) \ {k} = 1..(k - 1)
      BY <1>2, MaxUpTo
    <3>2. k \in 0..n /\ k - 1 \in 0..n
      BY <1>2
    <3>3. g[1..k] = op[<<g[1..(k - 1)], s[k]>>]
      BY <1>1, <3>1 DEF Iterates
    <3> QED
      BY <3>2, <3>3
  <2> HIDE DEF f
  <2>3. \A k \in 0..n : f[k] = IF k = 0 THEN base ELSE op[<<f[k - 1], s[k]>>]
    <3>1. \A k \in 0..n : k = 0 \/ k \in 1..n
      BY <1>2
    <3> QED
      BY <2>1, <2>2, <3>1
  <2>4. Eq(f)
    BY <2>3 DEF f
  <2> QED
    BY <2>4
<1>4. Fold(op, base, s) = (CHOOSE f : Eq(f))[n]
  BY DEF Fold
<1>5. PICK f : Eq(f) /\ Fold(op, base, s) = f[n]
  BY <1>3, <1>4
<1>6. f[0] = base /\ \A k \in 1..n : f[k] = op[<<f[k - 1], s[k]>>]
  <2>1. 0 \in 0..n /\ \A k \in 1..n : k \in 0..n /\ k # 0
    BY <1>2
  <2>2. \A k \in 0..n : f[k] = IF k = 0 THEN base ELSE op[<<f[k - 1], s[k]>>]
    BY <1>5
  <2> HIDE DEF n, Eq
  <2> QED
    BY <2>1, <2>2
<1> DEFINE U == {k \in 0..n : f[k] \in S}
<1>7. 0 \in U
  BY <1>2, <1>6
<1>8. ASSUME NEW k \in 1..n, k - 1 \in U PROVE k \in U
  <2>1. <<f[k - 1], s[k]>> \in S \X T /\ k \in 0..n
    BY <1>2, <1>8
  <2> QED
    BY <1>6, <2>1
<1>9. \A k \in 0..n : f[k] \in S
  <2> HIDE DEF U
  <2>1. 0..n \subseteq U
    BY <1>2, <1>7, <1>8, UpTo
  <2> QED
    BY <2>1 DEF U
<1>10. f \in [0..n -> S]
  BY <1>5, <1>9
<1> QED
  BY <1>5, <1>6, <1>10 DEF Folds

LEMMA FoldEmpty ==
  ASSUME NEW S, NEW T, NEW base, NEW op, Folder(S, T, base, op)
  PROVE  Fold(op, base, <<>>) = base
<1>1. <<>> \in Seq(T) /\ Len(<<>>) = 0
  OBVIOUS
<1>2. PICK f \in [0..Len(<<>>) -> S] : Folds(f, op, base, <<>>)
  BY <1>1, FoldIs, Zenon
<1> QED
  BY <1>1, <1>2 DEF Folds

LEMMA FoldAppend ==
  ASSUME NEW S, NEW T, NEW base, NEW op, Folder(S, T, base, op), NEW s \in Seq(T), NEW x \in T
  PROVE  /\ Fold(op, base, s) \in S
         /\ Fold(op, base, Append(s, x)) = op[<<Fold(op, base, s), x>>]
<1> DEFINE n == Len(s)
           longer == Append(s, x)
<1>1. /\ n \in Nat /\ longer \in Seq(T) /\ Len(longer) = n + 1 /\ longer[n + 1] = x
      /\ \A k \in 1..n : longer[k] = s[k]
  OBVIOUS
<1> HIDE DEF longer
<1>first. PICK f \in [0..n -> S] : Folds(f, op, base, s)
  BY FoldIs, Zenon
<1>2. /\ f[0] = base /\ Fold(op, base, s) = f[n]
      /\ \A k \in 1..n : f[k] = op[<<f[k - 1], s[k]>>]
  BY <1>first DEF Folds
<1>second. PICK g \in [0..Len(longer) -> S] : Folds(g, op, base, longer)
  BY <1>1, FoldIs, Zenon
<1>3. /\ g[0] = base /\ Fold(op, base, longer) = g[Len(longer)]
      /\ \A k \in 1..Len(longer) : g[k] = op[<<g[k - 1], longer[k]>>]
  BY <1>second DEF Folds
<1> DEFINE U == {k \in 0..n : f[k] = g[k]}
<1>4. 0 \in U
  BY <1>1, <1>2, <1>3
<1>5. ASSUME NEW k \in 1..n, k - 1 \in U PROVE k \in U
  <2>1. k \in 0..n /\ k \in 1..Len(longer)
    BY <1>1
  <2> QED
    BY <1>1, <1>2, <1>3, <1>5, <2>1
<1> HIDE DEF U
<1>6. 0..n \subseteq U
  BY <1>1, <1>4, <1>5, UpTo
<1>7. f[n] = g[n] /\ n + 1 \in 1..Len(longer) /\ n + 1 - 1 = n /\ n \in 0..n
  BY <1>1, <1>6 DEF U
<1> QED
  BY <1>1, <1>2, <1>3, <1>7 DEF longer

(* FoldLeft of a step that agrees with the function is the fold.           *)
Agrees(h, S, base, op, s) ==
  /\ h[{}] = base
  /\ \A d \in SUBSET (1..Len(s)) : d # {} /\ h[d \ {Max(d)}] \in S
       => h[d] = op[<<h[d \ {Max(d)}], s[Max(d)]>>]

LEMMA FoldOf ==
  ASSUME NEW S, NEW T, NEW base, NEW op, Folder(S, T, base, op), NEW s \in Seq(T),
         NEW h, Agrees(h, S, base, op, s)
  PROVE  h[1..Len(s)] = Fold(op, base, s)
<1> USE DEF Agrees
<1> DEFINE n == Len(s)
<1>1. n \in Nat /\ 1..0 = {}
  OBVIOUS
<1>first. PICK f \in [0..n -> S] : Folds(f, op, base, s)
  BY FoldIs, Zenon
<1>2. /\ f[0] = base /\ Fold(op, base, s) = f[n]
      /\ \A k \in 1..n : f[k] = op[<<f[k - 1], s[k]>>]
  BY <1>first DEF Folds
<1> DEFINE U == {k \in 0..n : h[1..k] = f[k]}
<1>3. 0 \in U
  BY <1>1, <1>2
<1>4. ASSUME NEW k \in 1..n, k - 1 \in U PROVE k \in U
  <2>1. 1..k \in SUBSET (1..n) /\ 1..k # {} /\ Max(1..k) = k /\ (1..k) \ {k} = 1..(k - 1)
    BY <1>1, MaxUpTo
  <2>2. k \in 0..n /\ k - 1 \in 0..n /\ h[1..(k - 1)] = f[k - 1]
    BY <1>1, <1>4
  <2>3. h[1..k] = op[<<h[1..(k - 1)], s[k]>>]
    BY <2>1, <2>2
  <2> QED
    BY <1>2, <2>2, <2>3
<1> HIDE DEF U
<1>5. 0..n \subseteq U
  BY <1>1, <1>3, <1>4, UpTo
<1> QED
  BY <1>1, <1>2, <1>5 DEF U

-----------------------------------------------------------------------------
(* The logging library (src/HW7): the parts of a thread's records, as the  *)
(* file has them and as the thread has asked for them.                     *)
Levels == {"INFO", "ERROR"}
Pieces == {"head", "frame", "newline"}
Entries == [thread : Threads, part : Pieces]

LEMMA PartsFacts ==
  ASSUME NEW level
  PROVE  /\ Library!Parts(level) \in Seq(Pieces) /\ Len(Library!Parts(level)) \in Nat \ {0}
         /\ Library!Parts(level)[Len(Library!Parts(level))] = "newline"
<1> DEFINE n == IF level = "ERROR" THEN Frames ELSE 0
           trace == [i \in 1..n |-> "frame"]
<1>1. n \in Nat
  BY ProgramsAssumption DEF Library!RecordAssumption
<1> HIDE DEF n
<1>2. trace \in Seq(Pieces) /\ Len(trace) = n
  BY <1>1 DEF Pieces
<1> HIDE DEF trace
<1>3. <<"head">> \in Seq(Pieces) /\ <<"newline">> \in Seq(Pieces)
  BY DEF Pieces
<1>4. /\ <<"head">> \o trace \in Seq(Pieces) /\ Len(<<"head">> \o trace) = n + 1
  BY <1>1, <1>2, <1>3
<1>5. Library!Parts(level) = (<<"head">> \o trace) \o <<"newline">>
  BY DEF Library!Parts, trace, n
<1> QED
  BY <1>1, <1>3, <1>4, <1>5

(* The parts of a thread are the file taken entry by entry.                *)
Picks(t) == [x \in Seq(Pieces) \X Entries |-> IF x[2].thread = t THEN Append(x[1], x[2].part) ELSE x[1]]

LEMMA PicksFolder == \A t \in Threads : Folder(Seq(Pieces), Entries, <<>>, Picks(t))
<1> SUFFICES ASSUME NEW t \in Threads, NEW x \in Seq(Pieces) \X Entries
             PROVE  (IF x[2].thread = t THEN Append(x[1], x[2].part) ELSE x[1]) \in Seq(Pieces)
  BY DEF Folder, Picks
<1>1. x[1] \in Seq(Pieces) /\ x[2] \in Entries
  OBVIOUS
<1>2. x[2].part \in Pieces
  BY <1>1 DEF Entries
<1> QED
  BY <1>1, <1>2

LEMMA WrittenByIs ==
  ASSUME NEW t \in Threads, NEW file \in Seq(Entries)
  PROVE  Library!WrittenBy(t, file) = Fold(Picks(t), <<>>, file)
<1> DEFINE n == Len(file)
           D == SUBSET (1..n)
           Eq(h) == h = [d \in D |-> IF d = {} THEN <<>>
                                     ELSE IF file[Max(d)].thread = t
                                          THEN Append(h[d \ {Max(d)}], file[Max(d)].part)
                                          ELSE h[d \ {Max(d)}]]
<1>1. n \in Nat /\ <<>> \in Seq(Pieces)
  OBVIOUS
<1>2. PICK g \in [D -> Seq(Pieces)] : Iterates(g, n, <<>>, Picks(t), file)
  BY <1>1, PicksFolder, Iteration, Zenon
<1>3. Eq(g)
  <2> SUFFICES ASSUME NEW d \in D, d # {}
               PROVE  g[d] = IF file[Max(d)].thread = t
                             THEN Append(g[d \ {Max(d)}], file[Max(d)].part) ELSE g[d \ {Max(d)}]
    BY <1>2 DEF Iterates
  <2>1. Max(d) \in 1..n /\ d \ {Max(d)} \in D
    BY <1>1, MaxWithin
  <2>2. <<g[d \ {Max(d)}], file[Max(d)]>> \in Seq(Pieces) \X Entries
    BY <2>1
  <2>3. g[d] = Picks(t)[<<g[d \ {Max(d)}], file[Max(d)]>>]
    BY <1>2 DEF Iterates
  <2> QED
    BY <2>2, <2>3 DEF Picks
<1>4. Library!WrittenBy(t, file) = (CHOOSE h : Eq(h))[1..n]
  BY DOMAIN file = 1..n DEF Library!WrittenBy, Library!FoldLeft, Library!MapThenFoldSet, Library!Max, Max
<1>5. PICK h : Eq(h) /\ Library!WrittenBy(t, file) = h[1..n]
  BY <1>3, <1>4
<1>6. h[{}] = <<>>
  BY <1>5
<1>7. \A d \in SUBSET (1..Len(file)) : d # {} /\ h[d \ {Max(d)}] \in Seq(Pieces)
        => h[d] = Picks(t)[<<h[d \ {Max(d)}], file[Max(d)]>>]
  <2> SUFFICES ASSUME NEW d \in D, d # {}, h[d \ {Max(d)}] \in Seq(Pieces)
               PROVE  h[d] = Picks(t)[<<h[d \ {Max(d)}], file[Max(d)]>>]
    OBVIOUS
  <2>1. Max(d) \in 1..n
    BY <1>1, MaxWithin
  <2>2. <<h[d \ {Max(d)}], file[Max(d)]>> \in Seq(Pieces) \X Entries
    BY <2>1
  <2> QED
    BY <1>5, <2>2 DEF Picks
<1>8. Agrees(h, Seq(Pieces), <<>>, Picks(t), file) /\ Folder(Seq(Pieces), Entries, <<>>, Picks(t))
  BY <1>6, <1>7, PicksFolder DEF Agrees
<1>9. h[1..Len(file)] = Fold(Picks(t), <<>>, file)
  BY <1>8, FoldOf
<1> QED
  BY <1>5, <1>9

LEMMA WrittenByEmpty == \A t \in Threads : Library!WrittenBy(t, <<>>) = <<>>
<1>1. <<>> \in Seq(Pieces) /\ <<>> \in Seq(Entries)
  OBVIOUS
<1> QED
  BY <1>1, PicksFolder, WrittenByIs, FoldEmpty, Zenon

LEMMA WrittenByAppend ==
  ASSUME NEW t \in Threads, NEW file \in Seq(Entries), NEW e \in Entries
  PROVE  /\ Library!WrittenBy(t, file) \in Seq(Pieces)
         /\ Library!WrittenBy(t, Append(file, e)) =
              IF e.thread = t THEN Append(Library!WrittenBy(t, file), e.part)
                              ELSE Library!WrittenBy(t, file)
<1>1. <<>> \in Seq(Pieces) /\ Append(file, e) \in Seq(Entries)
  OBVIOUS
<1>folder. Folder(Seq(Pieces), Entries, <<>>, Picks(t))
  BY PicksFolder
<1>2. /\ Fold(Picks(t), <<>>, file) \in Seq(Pieces)
      /\ Fold(Picks(t), <<>>, Append(file, e)) = Picks(t)[<<Fold(Picks(t), <<>>, file), e>>]
  BY <1>1, <1>folder, FoldAppend
<1>3. /\ Library!WrittenBy(t, file) = Fold(Picks(t), <<>>, file)
      /\ Library!WrittenBy(t, Append(file, e)) = Fold(Picks(t), <<>>, Append(file, e))
  BY <1>1, WrittenByIs
<1>4. <<Library!WrittenBy(t, file), e>> \in Seq(Pieces) \X Entries
  BY <1>2, <1>3
<1> QED
  BY <1>2, <1>3, <1>4 DEF Picks

(* Records laid end to end.                                                *)
Join == [x \in Seq(Pieces) \X Seq(Pieces) |-> x[1] \o x[2]]

LEMMA JoinFolder == Folder(Seq(Pieces), Seq(Pieces), <<>>, Join)
<1>1. \A x \in Seq(Pieces) \X Seq(Pieces) : x[1] \o x[2] \in Seq(Pieces)
  OBVIOUS
<1> QED
  BY <1>1 DEF Folder, Join

LEMMA FlattenIs ==
  ASSUME NEW ss \in Seq(Seq(Pieces))
  PROVE  Library!FlattenSeq(ss) = Fold(Join, <<>>, ss)
<1> DEFINE n == Len(ss)
           Eq(h) == h = [i \in 1..n |-> IF i = 1 THEN ss[i] ELSE h[i - 1] \o ss[i]]
<1>1. n \in Nat
  OBVIOUS
<1>2. PICK f \in [0..n -> Seq(Pieces)] : Folds(f, Join, <<>>, ss)
  BY JoinFolder, FoldIs
<1>3. /\ f[0] = <<>> /\ Fold(Join, <<>>, ss) = f[n]
      /\ \A k \in 1..n : f[k] = f[k - 1] \o ss[k]
  <2>1. \A k \in 1..n : k - 1 \in 0..n /\ ss[k] \in Seq(Pieces)
    BY <1>1
  <2>2. \A k \in 1..n : <<f[k - 1], ss[k]>> \in Seq(Pieces) \X Seq(Pieces)
    BY <2>1
  <2> QED
    BY <1>2, <2>2 DEF Folds, Join
<1>4. CASE n = 0
  BY <1>3, <1>4, ss = <<>> DEF Library!FlattenSeq
<1>5. CASE n # 0
  <2>1. 1 \in 1..n => f[1] = ss[1]
    <3> SUFFICES ASSUME 1 \in 1..n PROVE f[1] = ss[1]
      OBVIOUS
    <3>1. f[1] = f[0] \o ss[1]
      BY <1>3, 1 - 1 = 0
    <3>2. ss[1] \in Seq(Pieces)
      OBVIOUS
    <3> QED
      BY <1>3, <3>1, <3>2
  <2>2. \E h : Eq(h)
    <3> DEFINE h == [i \in 1..n |-> f[i]]
    <3>1. \A i \in 1..n : h[i] = IF i = 1 THEN ss[i] ELSE h[i - 1] \o ss[i]
      <4> TAKE i \in 1..n
      <4>1. i # 1 => i - 1 \in 1..n
        BY <1>1
      <4> QED
        BY <1>3, <2>1, <4>1
    <3>2. Eq(h)
      BY <3>1
    <3> QED
      BY <3>2
  <2>3. Library!FlattenSeq(ss) = (CHOOSE h : Eq(h))[n]
    BY <1>5 DEF Library!FlattenSeq
  <2>4. PICK h : Eq(h) /\ Library!FlattenSeq(ss) = h[n]
    BY <2>2, <2>3
  <2> DEFINE U == {k \in 0..n : k = 0 \/ h[k] = f[k]}
  <2>5. 0 \in U
    BY <1>1
  <2>6. ASSUME NEW k \in 1..n, k - 1 \in U PROVE k \in U
    <3>1. k \in 0..n /\ (k = 1 \/ k - 1 # 0)
      BY <1>1
    <3>2. h[k] = IF k = 1 THEN ss[k] ELSE h[k - 1] \o ss[k]
      BY <2>4
    <3> QED
      BY <1>3, <2>1, <2>6, <3>1, <3>2
  <2> HIDE DEF U
  <2>7. 0..n \subseteq U
    BY <1>1, <2>5, <2>6, UpTo
  <2>8. n \in U
    BY <1>1, <2>7
  <2>9. h[n] = f[n]
    BY <1>5, <2>8 DEF U
  <2> QED
    BY <1>3, <2>4, <2>9
<1> QED
  BY <1>4, <1>5

LEMMA FlattenAppend ==
  ASSUME NEW ss \in Seq(Seq(Pieces)), NEW x \in Seq(Pieces)
  PROVE  /\ Library!FlattenSeq(ss) \in Seq(Pieces)
         /\ Library!FlattenSeq(Append(ss, x)) = Library!FlattenSeq(ss) \o x
<1>1. Append(ss, x) \in Seq(Seq(Pieces))
  OBVIOUS
<1>2. /\ Library!FlattenSeq(ss) = Fold(Join, <<>>, ss)
      /\ Library!FlattenSeq(Append(ss, x)) = Fold(Join, <<>>, Append(ss, x))
  BY <1>1, FlattenIs
<1>3. /\ Fold(Join, <<>>, ss) \in Seq(Pieces)
      /\ Fold(Join, <<>>, Append(ss, x)) = Join[<<Fold(Join, <<>>, ss), x>>]
  BY JoinFolder, FoldAppend
<1>4. <<Fold(Join, <<>>, ss), x>> \in Seq(Pieces) \X Seq(Pieces)
  BY <1>3
<1> QED
  BY <1>2, <1>3, <1>4 DEF Join

(* What a thread has asked for when it has made the calls c and has        *)
(* written k parts of the last one.                                        *)
Due(c, k) ==
  IF c = <<>> THEN <<>>
  ELSE Library!FlattenSeq([i \in 1..(Len(c) - 1) |-> Library!Parts(c[i])])
       \o SubSeq(Library!Parts(c[Len(c)]), 1, k)

LEMMA EarlierType ==
  ASSUME NEW c \in Seq(Levels), c # <<>>
  PROVE  /\ [i \in 1..(Len(c) - 1) |-> Library!Parts(c[i])] \in Seq(Seq(Pieces))
         /\ Len(c) \in Nat \ {0}
         /\ Library!FlattenSeq([i \in 1..(Len(c) - 1) |-> Library!Parts(c[i])]) \in Seq(Pieces)
<1>1. Len(c) \in Nat \ {0} /\ Len(c) - 1 \in Nat
  OBVIOUS
<1>2. \A i \in 1..(Len(c) - 1) : Library!Parts(c[i]) \in Seq(Pieces)
  BY PartsFacts
<1>3. [i \in 1..(Len(c) - 1) |-> Library!Parts(c[i])] \in Seq(Seq(Pieces))
  BY <1>1, <1>2
<1>4. <<>> \in Seq(Pieces)
  OBVIOUS
<1> QED
  BY <1>1, <1>3, <1>4, FlattenAppend

(* A further call asks for nothing yet, when the last one is complete.     *)
LEMMA DueNext ==
  ASSUME NEW c \in Seq(Levels), NEW level \in Levels, NEW k \in Nat,
         c # <<>> => k = Len(Library!Parts(c[Len(c)]))
  PROVE  /\ Due(Append(c, level), 0) = Due(c, k)
         /\ Due(c, k) = Library!FlattenSeq([i \in 1..Len(c) |-> Library!Parts(c[i])])
<1> DEFINE d == Append(c, level)
           before(s) == [i \in 1..(Len(s) - 1) |-> Library!Parts(s[i])]
<1>1. d \in Seq(Levels) /\ d # <<>> /\ Len(d) = Len(c) + 1 /\ Len(c) \in Nat /\ \A i \in 1..Len(c) : d[i] = c[i]
  OBVIOUS
<1> HIDE DEF d
<1>2. before(d) = [i \in 1..Len(c) |-> Library!Parts(c[i])]
  BY <1>1
<1>3. /\ before(d) \in Seq(Seq(Pieces)) /\ Library!FlattenSeq(before(d)) \in Seq(Pieces)
      /\ SubSeq(Library!Parts(d[Len(d)]), 1, 0) = <<>>
  <2>1. before(d) \in Seq(Seq(Pieces)) /\ Library!FlattenSeq(before(d)) \in Seq(Pieces)
    BY <1>1, EarlierType
  <2>2. Library!Parts(d[Len(d)]) \in Seq(Pieces)
    BY PartsFacts
  <2>3. SubSeq(Library!Parts(d[Len(d)]), 1, 0) = <<>>
    BY <2>2
  <2> QED
    BY <2>1, <2>3
<1>4. Due(d, 0) = Library!FlattenSeq(before(d)) \o <<>>
  BY <1>1, <1>3 DEF Due
<1>5. Due(d, 0) = Library!FlattenSeq(before(d))
  BY <1>3, <1>4
<1>6. ASSUME c = <<>> PROVE Due(d, 0) = Due(c, k)
  <2>1. before(d) = <<>>
    <3> HIDE DEF before
    <3>1. before(d) = [i \in 1..0 |-> Library!Parts(c[i])]
      BY <1>2, <1>6
    <3>2. Len(before(d)) = 0
      BY <3>1
    <3> QED
      BY <1>3, <3>2
  <2>2. Library!FlattenSeq(<<>>) = <<>>
    BY DEF Library!FlattenSeq
  <2> QED
    BY <1>5, <1>6, <2>1, <2>2 DEF Due
<1>7. ASSUME c # <<>> PROVE Due(d, 0) = Due(c, k)
  <2>1. Library!Parts(c[Len(c)]) \in Seq(Pieces)
    BY PartsFacts
  <2>2. SubSeq(Library!Parts(c[Len(c)]), 1, k) = Library!Parts(c[Len(c)])
    BY <1>7, <2>1
  <2>3. before(d) = Append(before(c), Library!Parts(c[Len(c)]))
    <3>1. Len(c) \in Nat \ {0} /\ before(c) \in Seq(Seq(Pieces))
      BY <1>7, EarlierType
    <3>2. Len(before(c)) = Len(c) - 1
      BY <3>1
    <3> QED
      BY <1>2, <3>1, <3>2
  <2>4. Library!FlattenSeq(before(d)) = Library!FlattenSeq(before(c)) \o Library!Parts(c[Len(c)])
    BY <1>7, <2>1, <2>3, EarlierType, FlattenAppend
  <2> QED
    BY <1>5, <1>7, <2>2, <2>4 DEF Due
<1>8. Due(d, 0) = Due(c, k)
  BY <1>6, <1>7
<1>9. Due(d, 0) = Library!FlattenSeq([i \in 1..Len(c) |-> Library!Parts(c[i])])
  BY <1>2, <1>5
<1> QED
  BY <1>8, <1>9 DEF d

(* A further part.                                                         *)
LEMMA DueMore ==
  ASSUME NEW c \in Seq(Levels), c # <<>>, NEW k \in Nat, k < Len(Library!Parts(c[Len(c)]))
  PROVE  /\ Library!Parts(c[Len(c)])[k + 1] \in Pieces
         /\ Due(c, k + 1) = Append(Due(c, k), Library!Parts(c[Len(c)])[k + 1])
<1> DEFINE x == Library!Parts(c[Len(c)])
           y == Library!FlattenSeq([i \in 1..(Len(c) - 1) |-> Library!Parts(c[i])])
<1>1. x \in Seq(Pieces) /\ y \in Seq(Pieces) /\ k + 1 \in 1..Len(x)
  BY PartsFacts, EarlierType
<1>2. Due(c, k) = y \o SubSeq(x, 1, k) /\ Due(c, k + 1) = y \o SubSeq(x, 1, k + 1)
  BY DEF Due
<1> HIDE DEF x, y
<1>3. SubSeq(x, 1, k + 1) = Append(SubSeq(x, 1, k), x[k + 1]) /\ SubSeq(x, 1, k) \in Seq(Pieces) /\ x[k + 1] \in Pieces
  BY <1>1
<1>4. y \o Append(SubSeq(x, 1, k), x[k + 1]) = Append(y \o SubSeq(x, 1, k), x[k + 1])
  BY <1>1, <1>3
<1> QED
  BY <1>2, <1>3, <1>4 DEF x

LoggerType ==
  /\ pc \in [Threads -> {"out", "lock", "write", "failed", "ended"}]
  /\ calls \in [Threads -> Seq(Levels)] /\ part \in [Threads -> Nat] /\ lost \in BOOLEAN

PartsOfLast(t) == Library!Parts(calls[t][Len(calls[t])])

(* How far a thread is with its last record: it has printed nothing of it  *)
(* before it has locked its mutex, and all of it when it has returned.     *)
Progress(t) ==
  /\ pc[t] \in {"lock", "write"} => calls[t] # <<>>
  /\ pc[t] = "lock" => part[t] = 0
  /\ pc[t] = "write" => part[t] <= Len(PartsOfLast(t))
  /\ pc[t] \in {"out", "ended"} /\ calls[t] # <<>> => part[t] = Len(PartsOfLast(t))
  /\ pc[t] = "ended" => Len(calls[t]) = Records

(* The file and the buffer behind it have what was printed.                *)
Kept ==
  /\ log_file \in Seq(Entries) /\ unwritten \in Seq(Entries)
  /\ \A t \in Threads : Library!WrittenBy(t, log_file \o unwritten) = Due(calls[t], part[t])

(* What a failing write loses ends the process: a thread that has seen it  *)
(* is before exit().                                                       *)
Noticed ==
  /\ lost => job = "exited" \/ \E t \in Threads : pc[t] = "failed"
  /\ job # "run" /\ ~lost => unwritten = <<>>
  /\ job = "closed" => ~lost /\ \A t \in Threads : pc[t] = "ended"

LoggerInv ==
  /\ LoggerType /\ \A t \in Threads : Progress(t)
  /\ ~lost => Kept
  /\ Noticed

LEMMA LoggerInit == Library!Init => LoggerInv
<1> SUFFICES ASSUME Library!Init PROVE LoggerInv
  OBVIOUS
<1>0. lost \in BOOLEAN
  BY Zenon DEF Library!Init
<1>1. /\ LoggerType /\ log_file = <<>> /\ unwritten = <<>> /\ job = "init" /\ lost = FALSE
      /\ \A t \in Threads : pc[t] = "out" /\ calls[t] = <<>>
  BY <1>0 DEF Library!Init, LoggerType
<1>2. \A t \in Threads : Progress(t)
  BY <1>1 DEF Progress
<1>3. Kept
  <2>1. <<>> \in Seq(Entries) /\ <<>> \o <<>> = <<>>
    OBVIOUS
  <2> QED
    BY <1>1, <2>1, WrittenByEmpty DEF Kept, Due
<1> QED
  BY <1>1, <1>2, <1>3 DEF LoggerInv, Noticed

(* Writing the buffer out moves what it held.                              *)
LEMMA FlushKeeps ==
  ASSUME Kept, UNCHANGED <<calls, part>>, Library!Flushed(unwritten)
  PROVE  Kept' /\ unwritten' = <<>> /\ lost' = lost
<1>1. log_file \in Seq(Entries) /\ unwritten \in Seq(Entries) /\ log_file' = log_file \o unwritten
      /\ unwritten' = <<>> /\ lost' = lost
  BY DEF Kept, Library!Flushed
<1>2. log_file' \in Seq(Entries) /\ unwritten' \in Seq(Entries) /\ log_file' \o unwritten' = log_file \o unwritten
  BY <1>1
<1> QED
  BY <1>1, <1>2 DEF Kept

(* Of a step that leaves the file, its buffer, the calls and the parts     *)
(* alone only where the threads and main() are matters.                    *)
LEMMA QuietStep ==
  ASSUME LoggerInv, UNCHANGED <<log_file, unwritten, lost, calls, part>>, LoggerType',
         \A t \in Threads : Progress(t)', Noticed'
  PROVE  LoggerInv'
  BY DEF LoggerInv, Kept

LEMMA RecordBegins == ASSUME LoggerInv, NEW t \in Threads, Library!Begin(t) PROVE LoggerInv'
<1>1. PICK level \in Levels : calls' = [calls EXCEPT ![t] = Append(@, level)]
  BY DEF Library!Begin, Levels
<1>2. /\ pc[t] = "out" /\ pc' = [pc EXCEPT ![t] = "lock"] /\ part' = [part EXCEPT ![t] = 0]
      /\ log_file' = log_file /\ unwritten' = unwritten /\ lost' = lost /\ job = "run" /\ job' = job
  BY DEF Library!Begin, Library!written
<1>3. LoggerType'
  BY <1>1, <1>2 DEF LoggerInv, LoggerType
<1>4. calls[t] \in Seq(Levels) /\ part[t] \in Nat /\ calls'[t] = Append(calls[t], level) /\ part'[t] = 0 /\ pc'[t] = "lock"
  BY <1>1, <1>2 DEF LoggerInv, LoggerType
<1>5. ASSUME NEW u \in Threads PROVE Progress(u)' /\ Due(calls'[u], part'[u]) = Due(calls[u], part[u])
  <2>1. CASE u # t
    <3>1. calls'[u] = calls[u] /\ part'[u] = part[u] /\ pc'[u] = pc[u]
      BY <1>1, <1>2, <2>1 DEF LoggerInv, LoggerType
    <3> QED
      BY <1>2, <3>1 DEF LoggerInv, Progress, PartsOfLast
  <2>2. CASE u = t
    <3>1. calls[t] # <<>> => part[t] = Len(Library!Parts(calls[t][Len(calls[t])]))
      BY <1>2 DEF LoggerInv, Progress, PartsOfLast
    <3>2. Due(Append(calls[t], level), 0) = Due(calls[t], part[t])
      BY <1>4, <3>1, DueNext
    <3>3. Append(calls[t], level) # <<>>
      BY <1>4
    <3> QED
      BY <1>2, <1>4, <2>2, <3>2, <3>3 DEF Progress
  <2> QED
    BY <2>1, <2>2
<1>6. ~lost' => Kept'
  BY <1>2, <1>5 DEF LoggerInv, Kept
<1>7. Noticed'
  <2>1. ASSUME NEW u \in Threads, pc[u] = "failed" PROVE pc'[u] = "failed"
    BY <1>2, <2>1 DEF LoggerInv, LoggerType
  <2> QED
    BY <1>2, <2>1 DEF LoggerInv, Noticed
<1> QED
  BY <1>3, <1>5, <1>6, <1>7 DEF LoggerInv

LEMMA WriteKeeps == ASSUME LoggerInv, NEW t \in Threads, Library!Write(t) PROVE LoggerInv'
<1> DEFINE x == Library!Parts(calls[t][Len(calls[t])])
           e == [thread |-> t, part |-> x[part[t] + 1]]
<1>1. /\ pc[t] = "write" /\ part[t] < Len(x) /\ part' = [part EXCEPT ![t] = @ + 1]
      /\ \/ unwritten' = Append(unwritten, e) /\ log_file' = log_file
         \/ unwritten' = <<>> /\ log_file' = log_file \o Append(unwritten, e)
      /\ UNCHANGED <<pc, calls, job, lost>> /\ job = "run"
  BY DEF Library!Write, Library!Level, Library!Last, Library!Printed, Library!Flushed
<1>2. calls[t] \in Seq(Levels) /\ calls[t] # <<>> /\ part[t] \in Nat
  BY <1>1 DEF LoggerInv, LoggerType, Progress
<1>3. x[part[t] + 1] \in Pieces /\ Due(calls[t], part[t] + 1) = Append(Due(calls[t], part[t]), x[part[t] + 1])
  BY <1>1, <1>2, DueMore
<1>4. e \in Entries /\ e.thread = t /\ e.part = x[part[t] + 1]
  BY <1>3 DEF Entries
<1>5. LoggerType' /\ part'[t] = part[t] + 1 /\ \A u \in Threads \ {t} : part'[u] = part[u]
  BY <1>1, <1>2 DEF LoggerInv, LoggerType
<1> HIDE DEF e
<1>6. ASSUME NEW u \in Threads PROVE Progress(u)'
  <2>1. CASE u # t
    BY <1>1, <1>5, <2>1 DEF LoggerInv, Progress, PartsOfLast
  <2>2. CASE u = t
    <3>1. part[t] + 1 <= Len(x)
      BY <1>1, <1>2, PartsFacts
    <3> QED
      BY <1>1, <1>5, <2>2, <3>1 DEF LoggerInv, Progress, PartsOfLast
  <2> QED
    BY <2>1, <2>2
<1>7. ASSUME ~lost PROVE Kept'
  <2>1. log_file \in Seq(Entries) /\ unwritten \in Seq(Entries)
    BY <1>7 DEF LoggerInv, Kept
  <2> DEFINE all == log_file \o unwritten
  <2>2. all \in Seq(Entries) /\ log_file \o Append(unwritten, e) = Append(all, e)
        /\ Append(unwritten, e) \in Seq(Entries) /\ Append(all, e) \in Seq(Entries)
        /\ Append(all, e) \o <<>> = Append(all, e) /\ <<>> \in Seq(Entries)
    BY <1>4, <2>1
  <2>3. log_file' \in Seq(Entries) /\ unwritten' \in Seq(Entries) /\ log_file' \o unwritten' = Append(all, e)
    BY <1>1, <2>1, <2>2
  <2> HIDE DEF all
  <2>4. ASSUME NEW u \in Threads
        PROVE  Library!WrittenBy(u, log_file' \o unwritten') = Due(calls'[u], part'[u])
    <3>1. /\ Library!WrittenBy(u, Append(all, e)) = IF e.thread = u THEN Append(Library!WrittenBy(u, all), e.part)
                                                                   ELSE Library!WrittenBy(u, all)
          /\ Library!WrittenBy(u, all) = Due(calls[u], part[u])
      BY <1>4, <1>7, <2>2, WrittenByAppend DEF LoggerInv, Kept, all
    <3>2. CASE u # t
      BY <1>1, <1>4, <1>5, <2>3, <3>1, <3>2
    <3>3. CASE u = t
      BY <1>1, <1>3, <1>4, <1>5, <2>3, <3>1, <3>3
    <3> QED
      BY <3>2, <3>3
  <2> QED
    BY <2>3, <2>4 DEF Kept
<1>8. Noticed'
  BY <1>1 DEF LoggerInv, Noticed
<1> QED
  BY <1>1, <1>5, <1>6, <1>7, <1>8 DEF LoggerInv

(* A thread whose fprintf has failed is the one that has seen it.          *)
LEMMA FailedSeen ==
  ASSUME LoggerInv, NEW t \in Threads, Library!WriteFails(t)
  PROVE  LoggerInv'
<1>1. /\ pc' = [pc EXCEPT ![t] = "failed"] /\ lost' = TRUE /\ job = "run"
      /\ UNCHANGED <<calls, part, job>>
  BY DEF Library!WriteFails, Library!FlushFails
<1>2. LoggerType' /\ \A u \in Threads : Progress(u)'
  BY <1>1 DEF LoggerInv, LoggerType, Progress, PartsOfLast
<1>3. Noticed'
  BY <1>1 DEF LoggerInv, LoggerType, Noticed
<1> QED
  BY <1>1, <1>2, <1>3 DEF LoggerInv

(* exit() and fclose().                                                    *)
LEMMA FlushEnds ==
  ASSUME LoggerInv, job = "run", UNCHANGED <<calls, part, pc>>,
         \/ Library!Flushed(unwritten) /\ job' = "exited"
         \/ Library!FlushFails(unwritten) /\ job' = "exited"
         \/ Library!Flushed(unwritten) /\ job' = "closed" /\ \A t \in Threads : pc[t] = "ended"
  PROVE  LoggerInv'
<1>1. CASE Library!FlushFails(unwritten) /\ job' = "exited"
  <2>1. lost' = TRUE
    BY <1>1 DEF Library!FlushFails
  <2> QED
    BY <1>1, <2>1 DEF LoggerInv, LoggerType, Progress, PartsOfLast, Noticed
<1>2. CASE Library!Flushed(unwritten)
  <2>1. lost' = lost /\ unwritten' = <<>> /\ (~lost => Kept')
    BY <1>2, FlushKeeps DEF LoggerInv, Library!Flushed
  <2>2. LoggerType' /\ \A t \in Threads : Progress(t)'
    BY <2>1 DEF LoggerInv, LoggerType, Progress, PartsOfLast
  <2>3. Noticed'
    BY <2>1 DEF LoggerInv, Noticed
  <2> QED
    BY <2>1, <2>2, <2>3 DEF LoggerInv
<1> QED
  BY <1>1, <1>2

LEMMA LoggerStep == ASSUME LoggerInv, [Library!Next]_(Library!vars) PROVE LoggerInv'
<1>1. CASE Library!InitLogger
  BY <1>1, QuietStep DEF Library!InitLogger, Library!written, LoggerInv, LoggerType, Progress, PartsOfLast, Noticed
<1>2. CASE Library!CloseLogger
  BY <1>2, FlushEnds DEF Library!CloseLogger
<1>3. ASSUME NEW t \in Threads, Library!End(t) PROVE LoggerInv'
  BY <1>3, QuietStep DEF Library!End, Library!written, LoggerInv, LoggerType, Progress, PartsOfLast, Noticed
<1>4. ASSUME NEW t \in Threads, Library!Lock(t) PROVE LoggerInv'
  BY <1>4, QuietStep, PartsFacts
  DEF Library!Lock, Library!written, LoggerInv, LoggerType, Progress, PartsOfLast, Noticed
<1>5. ASSUME NEW t \in Threads, Library!Unlock(t) PROVE LoggerInv'
  BY <1>5, QuietStep
  DEF Library!Unlock, Library!Level, Library!Last, Library!written, LoggerInv, LoggerType, Progress, PartsOfLast,
      Noticed
<1>6. ASSUME NEW t \in Threads, Library!Fail(t) PROVE LoggerInv'
  BY <1>6, QuietStep DEF Library!Fail, Library!written, LoggerInv, LoggerType, Progress, PartsOfLast, Noticed
<1>7. ASSUME NEW t \in Threads, Library!Exit(t) PROVE LoggerInv'
  BY <1>7, FlushEnds DEF Library!Exit
<1>8. CASE UNCHANGED Library!vars
  BY <1>8, QuietStep DEF Library!vars, Library!written, LoggerInv, LoggerType, Progress, PartsOfLast, Noticed
<1> QED
  BY <1>1, <1>2, <1>3, <1>4, <1>5, <1>6, <1>7, <1>8, RecordBegins, WriteKeeps, FailedSeen
  DEF Library!Next, Library!Step

(* A file that was closed holds all records of every thread in the order   *)
(* of the thread: no write of the buffer has failed unseen, whoever's      *)
(* parts it held. And exit() loses nothing unless a write fails.           *)
THEOREM RecordsComplete == Library!Spec => []NothingLost
<1>1. LoggerInv => NothingLost
  <2> SUFFICES ASSUME LoggerInv PROVE NothingLost
    OBVIOUS
  <2>1. ASSUME NEW t \in Threads, ~lost, job \in {"closed", "exited"}
        PROVE  Library!WrittenBy(t, log_file) = Due(calls[t], part[t])
    <3>1. unwritten = <<>> /\ log_file \in Seq(Entries)
          /\ Library!WrittenBy(t, log_file \o unwritten) = Due(calls[t], part[t])
      BY <2>1 DEF LoggerInv, Kept, Noticed
    <3>2. log_file \o unwritten = log_file
      BY <3>1
    <3> QED
      BY <3>1, <3>2
  <2>2. ASSUME job = "closed", NEW t \in Threads
        PROVE  /\ Len(calls[t]) = Records
               /\ Library!WrittenBy(t, log_file)
                    = Library!FlattenSeq([i \in 1..Records |-> Library!Parts(calls[t][i])])
    <3>1. /\ calls[t] \in Seq(Levels) /\ part[t] \in Nat /\ Len(calls[t]) = Records
          /\ calls[t] # <<>> => part[t] = Len(Library!Parts(calls[t][Len(calls[t])]))
      BY <2>2 DEF LoggerInv, LoggerType, Noticed, Progress, PartsOfLast
    <3>2. "INFO" \in Levels
      BY DEF Levels
    <3>3. Due(calls[t], part[t]) = Library!FlattenSeq([i \in 1..Len(calls[t]) |-> Library!Parts(calls[t][i])])
      BY <3>1, <3>2, DueNext
    <3>4. ~lost
      BY <2>2 DEF LoggerInv, Noticed
    <3> QED
      BY <2>1, <2>2, <3>1, <3>3, <3>4
  <2>3. ASSUME job = "exited", ~lost, NEW t \in Threads
        PROVE  Library!WrittenBy(t, log_file) = Library!Asked(t)
    <3>1. Library!Asked(t) = Due(calls[t], part[t])
      BY DEF Library!Asked, Library!Level, Library!Last, Due
    <3> QED
      BY <2>1, <2>3, <3>1
  <2> QED
    BY <2>2, <2>3 DEF NothingLost, Library!NothingLost
<1> QED
  BY LoggerInit, LoggerStep, <1>1, PTL DEF Library!Spec

-----------------------------------------------------------------------------
(* The column statistics (src/HW15): the loop of main() over the array.    *)

(* Arithmetic in an int.                                                   *)
LEMMA IntMaxType == IntMax \in Nat /\ Columns \subseteq Seq([type : STRING, value : Int])
  BY ProgramsAssumption DEF Sql!SqlStatsAssumption

LEMMA ToIntFacts ==
  ASSUME NEW v \in Int
  PROVE  /\ Sql!ToInt(v) \in Int
         /\ Sql!Exactly(v) <=> (-IntMax - 1 <= v /\ v <= IntMax)
<1> DEFINE m == 2 * (IntMax + 1)
           w == v + IntMax + 1
<1>1. IntMax \in Nat /\ m \in Nat /\ m > 0 /\ w \in Int
  BY IntMaxType
<1>2. (w % m) \in Int /\ 0 <= (w % m) /\ (w % m) < m
  BY <1>1
<1>3. 0 <= w /\ w < m => (w % m) = w
  BY <1>1
<1>4. Sql!ToInt(v) = (w % m) - IntMax - 1
  BY DEF Sql!ToInt
<1> QED
  BY <1>1, <1>2, <1>3, <1>4 DEF Sql!Exactly

(* The four folds, as steps that are functions.                            *)
Lower == [x \in Int \X Int |-> IF x[2] < x[1] THEN x[2] ELSE x[1]]
Higher == [x \in Int \X Int |-> IF x[2] > x[1] THEN x[2] ELSE x[1]]
AddInt == [x \in Int \X Int |-> Sql!ToInt(x[1] + x[2])]
AddSquare == [x \in Int \X Int |-> Sql!ToInt(x[1] + Sql!ToInt(x[2] * x[2]))]

LEMMA StepFolders ==
  \A v \in Int : /\ Folder(Int, Int, v, Lower) /\ Folder(Int, Int, v, Higher)
                 /\ Folder(Int, Int, v, AddInt) /\ Folder(Int, Int, v, AddSquare)
<1>1. ASSUME NEW x \in Int \X Int
      PROVE  /\ x[1] \in Int /\ x[2] \in Int /\ Sql!ToInt(x[1] + x[2]) \in Int
             /\ Sql!ToInt(x[1] + Sql!ToInt(x[2] * x[2])) \in Int
  <2>1. x[1] \in Int /\ x[2] \in Int /\ x[2] * x[2] \in Int
    OBVIOUS
  <2>2. x[1] + x[2] \in Int /\ x[1] + Sql!ToInt(x[2] * x[2]) \in Int
    BY <2>1, ToIntFacts
  <2> QED
    BY <2>1, <2>2, ToIntFacts
<1> QED
  BY <1>1 DEF Folder, Lower, Higher, AddInt, AddSquare

LEMMA LeastIs ==
  ASSUME NEW s \in Seq(Int), s # <<>>
  PROVE  Sql!Least(s) = Fold(Lower, s[1], s)
<1> DEFINE n == Len(s)
           D == SUBSET (1..n)
           Eq(h) == h = [d \in D |-> IF d = {} THEN s[1] ELSE (IF s[Max(d)] < h[d \ {Max(d)}] THEN s[Max(d)] ELSE h[d \ {Max(d)}])]
<1>1. n \in Nat /\ s[1] \in Int
  OBVIOUS
<1>2. Folder(Int, Int, s[1], Lower)
  BY <1>1, StepFolders
<1>3. PICK g \in [D -> Int] : Iterates(g, n, s[1], Lower, s)
  BY <1>2, Iteration
<1>4. Eq(g)
  <2> SUFFICES ASSUME NEW d \in D, d # {} PROVE g[d] = (IF s[Max(d)] < g[d \ {Max(d)}] THEN s[Max(d)] ELSE g[d \ {Max(d)}])
    BY <1>3 DEF Iterates
  <2>1. Max(d) \in 1..n /\ d \ {Max(d)} \in D
    BY <1>1, MaxWithin
  <2>2. <<g[d \ {Max(d)}], s[Max(d)]>> \in Int \X Int
    BY <2>1
  <2>3. g[d] = Lower[<<g[d \ {Max(d)}], s[Max(d)]>>]
    BY <1>3 DEF Iterates
  <2> QED
    BY <2>2, <2>3 DEF Lower
<1>5. Sql!Least(s) = (CHOOSE h : Eq(h))[1..n]
  BY DOMAIN s = 1..n DEF Sql!Least, Sql!FoldLeft, Sql!MapThenFoldSet, Sql!Max, Max
<1>6. PICK h : Eq(h) /\ Sql!Least(s) = h[1..n]
  BY <1>4, <1>5
<1>7. h[{}] = s[1]
  BY <1>6
<1>8. \A d \in SUBSET (1..Len(s)) : d # {} /\ h[d \ {Max(d)}] \in Int
        => h[d] = Lower[<<h[d \ {Max(d)}], s[Max(d)]>>]
  <2> SUFFICES ASSUME NEW d \in D, d # {}, h[d \ {Max(d)}] \in Int
               PROVE  h[d] = Lower[<<h[d \ {Max(d)}], s[Max(d)]>>]
    OBVIOUS
  <2>1. Max(d) \in 1..n
    BY <1>1, MaxWithin
  <2>2. <<h[d \ {Max(d)}], s[Max(d)]>> \in Int \X Int
    BY <2>1
  <2> QED
    BY <1>6, <2>2 DEF Lower
<1>9. Agrees(h, Int, s[1], Lower, s)
  BY <1>7, <1>8 DEF Agrees
<1>10. h[1..Len(s)] = Fold(Lower, s[1], s)
  BY <1>2, <1>9, FoldOf
<1> QED
  BY <1>6, <1>10

LEMMA GreatestIs ==
  ASSUME NEW s \in Seq(Int), s # <<>>
  PROVE  Sql!Greatest(s) = Fold(Higher, s[1], s)
<1> DEFINE n == Len(s)
           D == SUBSET (1..n)
           Eq(h) == h = [d \in D |-> IF d = {} THEN s[1] ELSE (IF s[Max(d)] > h[d \ {Max(d)}] THEN s[Max(d)] ELSE h[d \ {Max(d)}])]
<1>1. n \in Nat /\ s[1] \in Int
  OBVIOUS
<1>2. Folder(Int, Int, s[1], Higher)
  BY <1>1, StepFolders
<1>3. PICK g \in [D -> Int] : Iterates(g, n, s[1], Higher, s)
  BY <1>2, Iteration
<1>4. Eq(g)
  <2> SUFFICES ASSUME NEW d \in D, d # {} PROVE g[d] = (IF s[Max(d)] > g[d \ {Max(d)}] THEN s[Max(d)] ELSE g[d \ {Max(d)}])
    BY <1>3 DEF Iterates
  <2>1. Max(d) \in 1..n /\ d \ {Max(d)} \in D
    BY <1>1, MaxWithin
  <2>2. <<g[d \ {Max(d)}], s[Max(d)]>> \in Int \X Int
    BY <2>1
  <2>3. g[d] = Higher[<<g[d \ {Max(d)}], s[Max(d)]>>]
    BY <1>3 DEF Iterates
  <2> QED
    BY <2>2, <2>3 DEF Higher
<1>5. Sql!Greatest(s) = (CHOOSE h : Eq(h))[1..n]
  BY DOMAIN s = 1..n DEF Sql!Greatest, Sql!FoldLeft, Sql!MapThenFoldSet, Sql!Max, Max
<1>6. PICK h : Eq(h) /\ Sql!Greatest(s) = h[1..n]
  BY <1>4, <1>5
<1>7. h[{}] = s[1]
  BY <1>6
<1>8. \A d \in SUBSET (1..Len(s)) : d # {} /\ h[d \ {Max(d)}] \in Int
        => h[d] = Higher[<<h[d \ {Max(d)}], s[Max(d)]>>]
  <2> SUFFICES ASSUME NEW d \in D, d # {}, h[d \ {Max(d)}] \in Int
               PROVE  h[d] = Higher[<<h[d \ {Max(d)}], s[Max(d)]>>]
    OBVIOUS
  <2>1. Max(d) \in 1..n
    BY <1>1, MaxWithin
  <2>2. <<h[d \ {Max(d)}], s[Max(d)]>> \in Int \X Int
    BY <2>1
  <2> QED
    BY <1>6, <2>2 DEF Higher
<1>9. Agrees(h, Int, s[1], Higher, s)
  BY <1>7, <1>8 DEF Agrees
<1>10. h[1..Len(s)] = Fold(Higher, s[1], s)
  BY <1>2, <1>9, FoldOf
<1> QED
  BY <1>6, <1>10

LEMMA IntSumIs ==
  ASSUME NEW s \in Seq(Int)
  PROVE  Sql!IntSum(s) = Fold(AddInt, 0, s)
<1> DEFINE n == Len(s)
           D == SUBSET (1..n)
           Eq(h) == h = [d \in D |-> IF d = {} THEN 0 ELSE Sql!ToInt(h[d \ {Max(d)}] + s[Max(d)])]
<1>1. n \in Nat /\ 0 \in Int
  OBVIOUS
<1>2. Folder(Int, Int, 0, AddInt)
  BY <1>1, StepFolders
<1>3. PICK g \in [D -> Int] : Iterates(g, n, 0, AddInt, s)
  BY <1>2, Iteration
<1>4. Eq(g)
  <2> SUFFICES ASSUME NEW d \in D, d # {} PROVE g[d] = Sql!ToInt(g[d \ {Max(d)}] + s[Max(d)])
    BY <1>3 DEF Iterates
  <2>1. Max(d) \in 1..n /\ d \ {Max(d)} \in D
    BY <1>1, MaxWithin
  <2>2. <<g[d \ {Max(d)}], s[Max(d)]>> \in Int \X Int
    BY <2>1
  <2>3. g[d] = AddInt[<<g[d \ {Max(d)}], s[Max(d)]>>]
    BY <1>3 DEF Iterates
  <2> QED
    BY <2>2, <2>3 DEF AddInt
<1>5. Sql!IntSum(s) = (CHOOSE h : Eq(h))[1..n]
  BY DOMAIN s = 1..n DEF Sql!IntSum, Sql!FoldLeft, Sql!MapThenFoldSet, Sql!Max, Max
<1>6. PICK h : Eq(h) /\ Sql!IntSum(s) = h[1..n]
  BY <1>4, <1>5
<1>7. h[{}] = 0
  BY <1>6
<1>8. \A d \in SUBSET (1..Len(s)) : d # {} /\ h[d \ {Max(d)}] \in Int
        => h[d] = AddInt[<<h[d \ {Max(d)}], s[Max(d)]>>]
  <2> SUFFICES ASSUME NEW d \in D, d # {}, h[d \ {Max(d)}] \in Int
               PROVE  h[d] = AddInt[<<h[d \ {Max(d)}], s[Max(d)]>>]
    OBVIOUS
  <2>1. Max(d) \in 1..n
    BY <1>1, MaxWithin
  <2>2. <<h[d \ {Max(d)}], s[Max(d)]>> \in Int \X Int
    BY <2>1
  <2> QED
    BY <1>6, <2>2 DEF AddInt
<1>9. Agrees(h, Int, 0, AddInt, s)
  BY <1>7, <1>8 DEF Agrees
<1>10. h[1..Len(s)] = Fold(AddInt, 0, s)
  BY <1>2, <1>9, FoldOf
<1> QED
  BY <1>6, <1>10

LEMMA IntSquaresIs ==
  ASSUME NEW s \in Seq(Int)
  PROVE  Sql!IntSquares(s) = Fold(AddSquare, 0, s)
<1> DEFINE n == Len(s)
           D == SUBSET (1..n)
           Eq(h) == h = [d \in D |-> IF d = {} THEN 0 ELSE Sql!ToInt(h[d \ {Max(d)}] + Sql!ToInt(s[Max(d)] * s[Max(d)]))]
<1>1. n \in Nat /\ 0 \in Int
  OBVIOUS
<1>2. Folder(Int, Int, 0, AddSquare)
  BY <1>1, StepFolders
<1>3. PICK g \in [D -> Int] : Iterates(g, n, 0, AddSquare, s)
  BY <1>2, Iteration
<1>4. Eq(g)
  <2> SUFFICES ASSUME NEW d \in D, d # {} PROVE g[d] = Sql!ToInt(g[d \ {Max(d)}] + Sql!ToInt(s[Max(d)] * s[Max(d)]))
    BY <1>3 DEF Iterates
  <2>1. Max(d) \in 1..n /\ d \ {Max(d)} \in D
    BY <1>1, MaxWithin
  <2>2. <<g[d \ {Max(d)}], s[Max(d)]>> \in Int \X Int
    BY <2>1
  <2>3. g[d] = AddSquare[<<g[d \ {Max(d)}], s[Max(d)]>>]
    BY <1>3 DEF Iterates
  <2> QED
    BY <2>2, <2>3 DEF AddSquare
<1>5. Sql!IntSquares(s) = (CHOOSE h : Eq(h))[1..n]
  BY DOMAIN s = 1..n DEF Sql!IntSquares, Sql!FoldLeft, Sql!MapThenFoldSet, Sql!Max, Max
<1>6. PICK h : Eq(h) /\ Sql!IntSquares(s) = h[1..n]
  BY <1>4, <1>5
<1>7. h[{}] = 0
  BY <1>6
<1>8. \A d \in SUBSET (1..Len(s)) : d # {} /\ h[d \ {Max(d)}] \in Int
        => h[d] = AddSquare[<<h[d \ {Max(d)}], s[Max(d)]>>]
  <2> SUFFICES ASSUME NEW d \in D, d # {}, h[d \ {Max(d)}] \in Int
               PROVE  h[d] = AddSquare[<<h[d \ {Max(d)}], s[Max(d)]>>]
    OBVIOUS
  <2>1. Max(d) \in 1..n
    BY <1>1, MaxWithin
  <2>2. <<h[d \ {Max(d)}], s[Max(d)]>> \in Int \X Int
    BY <2>1
  <2> QED
    BY <1>6, <2>2 DEF AddSquare
<1>9. Agrees(h, Int, 0, AddSquare, s)
  BY <1>7, <1>8 DEF Agrees
<1>10. h[1..Len(s)] = Fold(AddSquare, 0, s)
  BY <1>2, <1>9, FoldOf
<1> QED
  BY <1>6, <1>10

LEMMA LeastFacts ==
  ASSUME NEW s \in Seq(Int), s # <<>>
  PROVE  /\ \E j \in 1..Len(s) : Sql!Least(s) = s[j]
         /\ \A j \in 1..Len(s) : Sql!Least(s) \in Int /\ Sql!Least(s) <= s[j]
<1> DEFINE n == Len(s)
<1>1. n \in Nat \ {0} /\ s[1] \in Int /\ \A j \in 1..n : s[j] \in Int
  OBVIOUS
<1>2. Folder(Int, Int, s[1], Lower)
  BY <1>1, StepFolders
<1>3. PICK f \in [0..n -> Int] : Folds(f, Lower, s[1], s)
  BY <1>2, FoldIs
<1>4. f[0] = s[1] /\ Sql!Least(s) = f[n]
  BY <1>3, LeastIs DEF Folds
<1>5. \A k \in 1..n : f[k] = IF s[k] < f[k - 1] THEN s[k] ELSE f[k - 1]
  <2> TAKE k \in 1..n
  <2>1. <<f[k - 1], s[k]>> \in Int \X Int
    <3>1. k - 1 \in 0..n
      BY <1>1
    <3> QED
      BY <1>1, <3>1
  <2> QED
    BY <1>3, <2>1 DEF Folds, Lower
<1> DEFINE U == {k \in 0..n : /\ \E j \in 1..n : f[k] = s[j]
                             /\ \A j \in 1..k : f[k] <= s[j]}
<1>6. 0 \in U
  <2>1. 1 \in 1..n /\ 0 \in 0..n /\ 1..0 = {}
    BY <1>1
  <2> QED
    BY <1>4, <2>1
<1>7. ASSUME NEW k \in 1..n, k - 1 \in U PROVE k \in U
  <2>1. k \in 0..n /\ k - 1 \in 0..n /\ \A j \in 1..k : j = k \/ j \in 1..(k - 1)
    BY <1>1
  <2>2. f[k] \in Int /\ f[k - 1] \in Int /\ s[k] \in Int
    BY <1>1, <2>1
  <2>3. \E j \in 1..n : f[k] = s[j]
    BY <1>5, <1>7
  <2>4. f[k] <= s[k] /\ f[k] <= f[k - 1]
    BY <1>5, <2>2
  <2>5. ASSUME NEW j \in 1..k PROVE f[k] <= s[j]
    <3>1. CASE j = k
      BY <2>4, <3>1
    <3>2. CASE j \in 1..(k - 1)
      <4>1. f[k - 1] <= s[j] /\ s[j] \in Int
        BY <1>1, <1>7, <2>1, <3>2
      <4> QED
        BY <2>2, <2>4, <4>1
    <3> QED
      BY <2>1, <3>1, <3>2
  <2> QED
    BY <2>1, <2>3, <2>5
<1> HIDE DEF U
<1>8. 0..n \subseteq U
  BY <1>1, <1>6, <1>7, UpTo
<1>9. n \in U /\ n \in 0..n
  BY <1>1, <1>8
<1> QED
  BY <1>4, <1>9 DEF U

LEMMA GreatestFacts ==
  ASSUME NEW s \in Seq(Int), s # <<>>
  PROVE  /\ \E j \in 1..Len(s) : Sql!Greatest(s) = s[j]
         /\ \A j \in 1..Len(s) : Sql!Greatest(s) \in Int /\ s[j] <= Sql!Greatest(s)
<1> DEFINE n == Len(s)
<1>1. n \in Nat \ {0} /\ s[1] \in Int /\ \A j \in 1..n : s[j] \in Int
  OBVIOUS
<1>2. Folder(Int, Int, s[1], Higher)
  BY <1>1, StepFolders
<1>3. PICK f \in [0..n -> Int] : Folds(f, Higher, s[1], s)
  BY <1>2, FoldIs
<1>4. f[0] = s[1] /\ Sql!Greatest(s) = f[n]
  BY <1>3, GreatestIs DEF Folds
<1>5. \A k \in 1..n : f[k] = IF s[k] > f[k - 1] THEN s[k] ELSE f[k - 1]
  <2> TAKE k \in 1..n
  <2>1. <<f[k - 1], s[k]>> \in Int \X Int
    <3>1. k - 1 \in 0..n
      BY <1>1
    <3> QED
      BY <1>1, <3>1
  <2> QED
    BY <1>3, <2>1 DEF Folds, Higher
<1> DEFINE U == {k \in 0..n : /\ \E j \in 1..n : f[k] = s[j]
                             /\ \A j \in 1..k : s[j] <= f[k]}
<1>6. 0 \in U
  <2>1. 1 \in 1..n /\ 0 \in 0..n /\ 1..0 = {}
    BY <1>1
  <2> QED
    BY <1>4, <2>1
<1>7. ASSUME NEW k \in 1..n, k - 1 \in U PROVE k \in U
  <2>1. k \in 0..n /\ k - 1 \in 0..n /\ \A j \in 1..k : j = k \/ j \in 1..(k - 1)
    BY <1>1
  <2>2. f[k] \in Int /\ f[k - 1] \in Int /\ s[k] \in Int
    BY <1>1, <2>1
  <2>3. \E j \in 1..n : f[k] = s[j]
    BY <1>5, <1>7
  <2>4. s[k] <= f[k] /\ f[k - 1] <= f[k]
    BY <1>5, <2>2
  <2>5. ASSUME NEW j \in 1..k PROVE s[j] <= f[k]
    <3>1. CASE j = k
      BY <2>4, <3>1
    <3>2. CASE j \in 1..(k - 1)
      <4>1. s[j] <= f[k - 1] /\ s[j] \in Int
        BY <1>1, <1>7, <2>1, <3>2
      <4> QED
        BY <2>2, <2>4, <4>1
    <3> QED
      BY <2>1, <3>1, <3>2
  <2> QED
    BY <2>1, <2>3, <2>5
<1> HIDE DEF U
<1>8. 0..n \subseteq U
  BY <1>1, <1>6, <1>7, UpTo
<1>9. n \in U /\ n \in 0..n
  BY <1>1, <1>8
<1> QED
  BY <1>4, <1>9 DEF U

(* Totals that run along a sequence, as StatisticsExact defines them.      *)
Totals(g, v, n) == g[0] = 0 /\ \A k \in 1..n : g[k] = g[k - 1] + v[k]

LEMMA TotalsType ==
  ASSUME NEW n \in Nat, NEW v \in [1..n -> Int], NEW g, Totals(g, v, n)
  PROVE  \A k \in 0..n : g[k] \in Int
<1> DEFINE U == {k \in 0..n : g[k] \in Int}
<1>1. 0 \in U
  BY DEF Totals
<1>2. ASSUME NEW k \in 1..n, k - 1 \in U PROVE k \in U
  BY <1>2 DEF Totals
<1> HIDE DEF U
<1>3. 0..n \subseteq U
  BY <1>1, <1>2, UpTo
<1> QED
  BY <1>3 DEF U

Plus == [x \in Int \X Int |-> x[1] + x[2]]

LEMMA TotalsExist ==
  ASSUME NEW n \in Nat, NEW v \in [1..n -> Int]
  PROVE  \E g : g = [k \in 0..n |-> IF k = 0 THEN 0 ELSE g[k - 1] + v[k]]
<1>1. Folder(Int, Int, 0, Plus) /\ v \in Seq(Int) /\ Len(v) = n
  BY DEF Folder, Plus
<1>2. PICK f \in [0..Len(v) -> Int] : Folds(f, Plus, 0, v)
  BY <1>1, FoldIs
<1>3. \A k \in 0..n : f[k] = IF k = 0 THEN 0 ELSE f[k - 1] + v[k]
  <2> SUFFICES ASSUME NEW k \in 0..n, k # 0 PROVE f[k] = f[k - 1] + v[k]
    BY <1>2 DEF Folds
  <2>1. k \in 1..n /\ k - 1 \in 0..n
    OBVIOUS
  <2>2. <<f[k - 1], v[k]>> \in Int \X Int
    BY <1>1, <1>2, <2>1
  <2>3. f[k] = Plus[<<f[k - 1], v[k]>>]
    BY <1>1, <1>2, <2>1 DEF Folds
  <2> QED
    BY <2>2, <2>3 DEF Plus
<1>4. f = [k \in 0..n |-> IF k = 0 THEN 0 ELSE f[k - 1] + v[k]]
  BY <1>1, <1>2, <1>3
<1> QED
  BY <1>4

LEMMA TotalsOf ==
  ASSUME NEW n \in Nat, NEW v, NEW g, g = [k \in 0..n |-> IF k = 0 THEN 0 ELSE g[k - 1] + v[k]]
  PROVE  Totals(g, v, n)
<1>1. 0 \in 0..n /\ \A k \in 1..n : k \in 0..n /\ k # 0
  OBVIOUS
<1> QED
  BY <1>1 DEF Totals

(* A sum in int is the sum, as long as no partial sum leaves int.          *)
LEMMA SumExact ==
  ASSUME NEW s \in Seq(Int), NEW g, Totals(g, s, Len(s)), \A k \in 1..Len(s) : Sql!Exactly(g[k])
  PROVE  Sql!IntSum(s) = g[Len(s)]
<1> DEFINE n == Len(s)
<1>1. n \in Nat /\ s \in [1..n -> Int]
  OBVIOUS
<1>2. \A k \in 0..n : g[k] \in Int
  BY <1>1, TotalsType
<1>3. Folder(Int, Int, 0, AddInt)
  BY StepFolders
<1>4. PICK f \in [0..n -> Int] : Folds(f, AddInt, 0, s)
  BY <1>3, FoldIs
<1> DEFINE U == {k \in 0..n : f[k] = g[k]}
<1>5. 0 \in U
  BY <1>1, <1>4 DEF Folds, Totals
<1>6. ASSUME NEW k \in 1..n, k - 1 \in U PROVE k \in U
  <2>1. k \in 0..n /\ k - 1 \in 0..n /\ f[k - 1] = g[k - 1] /\ s[k] \in Int
    BY <1>1, <1>6
  <2>2. <<f[k - 1], s[k]>> \in Int \X Int /\ f[k] = AddInt[<<f[k - 1], s[k]>>]
    BY <1>4, <2>1 DEF Folds
  <2>3. f[k] = Sql!ToInt(f[k - 1] + s[k])
    BY <2>2 DEF AddInt
  <2>4. g[k] = f[k - 1] + s[k] /\ Sql!ToInt(g[k]) = g[k]
    BY <2>1 DEF Totals, Sql!Exactly
  <2> QED
    BY <2>1, <2>3, <2>4
<1> HIDE DEF U
<1>7. 0..n \subseteq U
  BY <1>1, <1>5, <1>6, UpTo
<1>8. f[n] = g[n]
  BY <1>1, <1>7 DEF U
<1> QED
  BY <1>4, <1>8, IntSumIs DEF Folds

LEMMA SquareFacts == \A a \in Int : a * a \in Int /\ a * a >= 0
  OBVIOUS

LEMMA SquaresExact ==
  ASSUME NEW s \in Seq(Int), NEW q, Totals(q, [k \in 1..Len(s) |-> s[k] * s[k]], Len(s)),
         \A k \in 1..Len(s) : Sql!Exactly(q[k])
  PROVE  Sql!IntSquares(s) = q[Len(s)]
<1> DEFINE n == Len(s)
<1>1. n \in Nat /\ \A k \in 1..n : s[k] \in Int /\ s[k] * s[k] \in Int /\ s[k] * s[k] >= 0
  BY SquareFacts
<1>2. q[0] = 0 /\ \A k \in 1..n : q[k] = q[k - 1] + s[k] * s[k]
  BY DEF Totals
<1>3. Folder(Int, Int, 0, AddSquare)
  BY StepFolders
<1>4. PICK f \in [0..n -> Int] : Folds(f, AddSquare, 0, s)
  BY <1>3, FoldIs
<1> DEFINE U == {k \in 0..n : f[k] = q[k] /\ q[k] \in Nat}
<1>5. 0 \in U
  BY <1>1, <1>2, <1>4 DEF Folds
<1>6. ASSUME NEW k \in 1..n, k - 1 \in U PROVE k \in U
  <2>1. k \in 0..n /\ k - 1 \in 0..n /\ f[k - 1] = q[k - 1] /\ q[k - 1] \in Nat
    BY <1>1, <1>6
  <2>2. <<f[k - 1], s[k]>> \in Int \X Int /\ f[k] = AddSquare[<<f[k - 1], s[k]>>]
    BY <1>1, <1>4, <2>1 DEF Folds
  <2>3. f[k] = Sql!ToInt(q[k - 1] + Sql!ToInt(s[k] * s[k]))
    BY <2>1, <2>2 DEF AddSquare
  <2>4. q[k] \in Nat /\ s[k] * s[k] <= q[k]
    <3> DEFINE x == s[k] * s[k]
    <3>1. x \in Int /\ x >= 0 /\ q[k] = q[k - 1] + x
      BY <1>1, <1>2
    <3> HIDE DEF x
    <3>2. q[k] \in Nat /\ x <= q[k]
      BY <2>1, <3>1
    <3> QED
      BY <3>2 DEF x
  <2>5. Sql!Exactly(q[k]) /\ q[k] <= IntMax
    <3>1. Sql!Exactly(q[k]) /\ q[k] \in Int
      BY <2>4
    <3> QED
      BY <3>1, ToIntFacts
  <2>6. Sql!Exactly(s[k] * s[k])
    <3> DEFINE x == s[k] * s[k]
    <3>1. x \in Int /\ x >= 0 /\ x <= q[k]
      BY <1>1, <2>4
    <3> HIDE DEF x
    <3>2. -IntMax - 1 <= x /\ x <= IntMax
      BY <2>4, <2>5, <3>1, IntMaxType
    <3>3. Sql!Exactly(x)
      BY <3>1, <3>2, ToIntFacts
    <3> QED
      BY <3>3 DEF x
  <2>7. f[k] = q[k]
    BY <1>2, <2>3, <2>5, <2>6 DEF Sql!Exactly
  <2> QED
    BY <2>1, <2>4, <2>7
<1> HIDE DEF U
<1>7. 0..n \subseteq U
  BY <1>1, <1>5, <1>6, UpTo
<1>8. f[n] = q[n]
  BY <1>1, <1>7 DEF U
<1> QED
  BY <1>4, <1>8, IntSquaresIs DEF Folds

(* The average of squares is at least the square of the average: first,    *)
(* the squared distances of the numbers from any v are not negative.       *)
LEMMA Distance ==
  ASSUME NEW S \in Int, NEW Q \in Int, NEW k \in Int, NEW x \in Int, NEW v \in Int,
         Q - 2 * (v * S) + k * (v * v) >= 0
  PROVE  (Q + x * x) - 2 * (v * (S + x)) + (k + 1) * (v * v) >= 0
<1>1. (x - v) * (x - v) >= 0
  BY SquareFacts
<1>2. (x - v) * (x - v) = x * x - 2 * (v * x) + v * v
  OBVIOUS
<1>3. v * (S + x) = v * S + v * x /\ (k + 1) * (v * v) = k * (v * v) + v * v
  OBVIOUS
<1> DEFINE vx == v * x
           vS == v * S
           vv == v * v
           xx == x * x
           kvv == k * vv
<1>4. /\ vx \in Int /\ vS \in Int /\ vv \in Int /\ xx \in Int /\ kvv \in Int
      /\ Q - 2 * vS + kvv >= 0 /\ xx - 2 * vx + vv >= 0
  BY <1>1, <1>2
<1>5. (Q + xx) - 2 * (vS + vx) + (kvv + vv) >= 0
  <2> HIDE DEF vx, vS, vv, xx, kvv
  <2> QED
    BY <1>4
<1> QED
  BY <1>3, <1>5

LEMMA Spread ==
  ASSUME NEW S \in Int, NEW Q \in Int, NEW k \in Int, NEW x \in Int,
         Q - 2 * (x * S) + k * (x * x) >= 0, k * Q >= S * S
  PROVE  (k + 1) * (Q + x * x) >= (S + x) * (S + x)
<1>1. /\ (k + 1) * (Q + x * x) = k * Q + k * (x * x) + Q + x * x
      /\ (S + x) * (S + x) = S * S + 2 * (x * S) + x * x
  OBVIOUS
<1> DEFINE kQ == k * Q
           kxx == k * (x * x)
           xx == x * x
           SS == S * S
           xS == x * S
<1>2. /\ kQ \in Int /\ kxx \in Int /\ xx \in Int /\ SS \in Int /\ xS \in Int
      /\ Q - 2 * xS + kxx >= 0 /\ kQ >= SS
  OBVIOUS
<1>3. kQ + kxx + Q + xx >= SS + 2 * xS + xx
  <2> HIDE DEF kQ, kxx, xx, SS, xS
  <2> QED
    BY <1>2
<1> QED
  BY <1>1, <1>3

LEMMA SpreadOfAll ==
  ASSUME NEW s \in Seq(Int), NEW g, Totals(g, s, Len(s)),
         NEW q, Totals(q, [k \in 1..Len(s) |-> s[k] * s[k]], Len(s))
  PROVE  Len(s) * q[Len(s)] >= g[Len(s)] * g[Len(s)]
<1> DEFINE n == Len(s)
<1>1. n \in Nat /\ s \in [1..n -> Int] /\ [k \in 1..n |-> s[k] * s[k]] \in [1..n -> Int]
  OBVIOUS
<1>2. \A k \in 0..n : g[k] \in Int /\ q[k] \in Int
  BY <1>1, TotalsType
<1>3. /\ g[0] = 0 /\ \A k \in 1..n : g[k] = g[k - 1] + s[k]
      /\ q[0] = 0 /\ \A k \in 1..n : q[k] = q[k - 1] + s[k] * s[k]
  BY DEF Totals
<1> DEFINE Far(k, v) == q[k] - 2 * (v * g[k]) + k * (v * v) >= 0
           V == {k \in 0..n : \A v \in Int : Far(k, v)}
           U == {k \in 0..n : k * q[k] >= g[k] * g[k]}
<1>4. 0 \in V
  <2>1. \A v \in Int : v * 0 = 0 /\ 0 * (v * v) = 0
    OBVIOUS
  <2> QED
    BY <1>1, <1>3, <2>1
<1>5. ASSUME NEW k \in 1..n, k - 1 \in V PROVE k \in V
  <2>1. k \in 0..n /\ k - 1 \in 0..n /\ k - 1 \in Int /\ (k - 1) + 1 = k /\ s[k] \in Int
    BY <1>1
  <2>2. ASSUME NEW v \in Int PROVE Far(k, v)
    <3>1. Far(k - 1, v) /\ g[k - 1] \in Int /\ q[k - 1] \in Int
      BY <1>2, <1>5, <2>1
    <3>2. (q[k - 1] + s[k] * s[k]) - 2 * (v * (g[k - 1] + s[k])) + ((k - 1) + 1) * (v * v) >= 0
      BY <2>1, <3>1, Distance
    <3> QED
      BY <1>3, <2>1, <3>2
  <2> QED
    BY <2>1, <2>2
<1>6. 0..n \subseteq V
  <2> HIDE DEF V
  <2> QED
    BY <1>1, <1>4, <1>5, UpTo
<1>7. 0 \in U
  BY <1>1, <1>3
<1>8. ASSUME NEW k \in 1..n, k - 1 \in U PROVE k \in U
  <2>1. k \in 0..n /\ k - 1 \in 0..n /\ k - 1 \in Int /\ (k - 1) + 1 = k /\ s[k] \in Int
    BY <1>1
  <2>2. Far(k - 1, s[k]) /\ g[k - 1] \in Int /\ q[k - 1] \in Int /\ (k - 1) * q[k - 1] >= g[k - 1] * g[k - 1]
    BY <1>2, <1>6, <1>8, <2>1
  <2>3. ((k - 1) + 1) * (q[k - 1] + s[k] * s[k]) >= (g[k - 1] + s[k]) * (g[k - 1] + s[k])
    BY <2>1, <2>2, Spread
  <2> QED
    BY <1>3, <2>1, <2>3
<1>9. 0..n \subseteq U
  <2> HIDE DEF U
  <2> QED
    BY <1>1, <1>7, <1>8, UpTo
<1> QED
  BY <1>1, <1>9

(* What is printed, and of what: the array holds a beginning of the        *)
(* column, all of it unless a step failed, and an exit code of 0 stands    *)
(* for statistics of it.                                                   *)
Cells == [type : STRING, value : Int]
OfArray ==
  [count |-> Len(arr), min |-> Sql!Least(arr), max |-> Sql!Greatest(arr),
   s1 |-> Sql!IntSum(arr), s2 |-> Sql!IntSquares(arr)]

Copied ==
  /\ column \in Seq(Cells) /\ arr \in Seq(Int) /\ Len(arr) <= Len(column)
  /\ \A k \in 1..Len(arr) : arr[k] = Sql!ToInt(column[k].value)
  /\ stage = "main" => arr = <<>>

Printed ==
  /\ statistics # Sql!NoStatistics =>
       /\ stage \in {"st", "db", "exited"} /\ rc = 0
       /\ arr # <<>> /\ statistics = OfArray /\ (broken \/ Len(arr) = Len(column))
  /\ statistics = Sql!NoStatistics /\ stage \notin {"main", "init"} => rc # 0

LEMMA CopiedStep == ASSUME Copied, [Sql!Next]_(Sql!vars) PROVE Copied'
<1>1. ASSUME NEW rows \in Columns, Sql!Open(rows) PROVE Copied'
  <2>1. stage = "main" /\ column' = rows /\ arr' = arr /\ arr = <<>>
    BY <1>1 DEF Sql!Open, Copied
  <2>2. rows \in Seq(Cells) /\ Len(rows) \in Nat
    BY IntMaxType DEF Cells
  <2> QED
    BY <2>1, <2>2 DEF Copied
<1>2. CASE Sql!Row
  <2> DEFINE n == Len(arr)
             v == column[n + 1].value
  <2>1. n < Len(column) /\ arr' = Append(arr, Sql!ToInt(v)) /\ UNCHANGED <<column, stage>> /\ stage = "select"
    BY <1>2 DEF Sql!Row
  <2>2. n \in Nat /\ arr \in Seq(Int) /\ column \in Seq(Cells) /\ n + 1 \in 1..Len(column)
    BY <2>1 DEF Copied
  <2>3. column[n + 1] \in Cells
    BY <2>2
  <2>4. Sql!ToInt(v) \in Int
    BY <2>3, ToIntFacts DEF Cells
  <2> HIDE DEF v
  <2>5. /\ arr' \in Seq(Int) /\ Len(arr') = n + 1 /\ arr'[n + 1] = Sql!ToInt(v)
        /\ \A k \in 1..n : arr'[k] = arr[k]
    BY <2>1, <2>2, <2>4
  <2>6. \A k \in 1..(n + 1) : k = n + 1 \/ k \in 1..n
    BY <2>2
  <2> QED
    BY <2>1, <2>2, <2>5, <2>6 DEF Copied, v
<1>3. CASE Sql!PrepareType
  BY <1>3 DEF Sql!PrepareType, Copied
<1>4. CASE Sql!Prepare \/ Sql!NoMemory \/ Sql!Statistics
  BY <1>4 DEF Sql!Prepare, Sql!NoMemory, Sql!Statistics, Copied
<1>5. CASE Sql!Finalize \/ Sql!Close
  BY <1>5 DEF Sql!Finalize, Sql!Close, Copied
<1>6. CASE UNCHANGED Sql!vars
  BY <1>6 DEF Sql!vars, Copied
<1> QED
  BY <1>1, <1>2, <1>3, <1>4, <1>5, <1>6 DEF Sql!Next

LEMMA PrintedStep == ASSUME Copied, Printed, [Sql!Next]_(Sql!vars) PROVE Printed'
<1> USE DEF Printed
<1>1. ASSUME NEW rows \in Columns, Sql!Open(rows) PROVE Printed'
  BY <1>1 DEF Sql!Open, Sql!Exits
<1>2. CASE Sql!PrepareType
  BY <1>2 DEF Sql!PrepareType
<1>3. CASE Sql!Prepare \/ Sql!Row \/ Sql!NoMemory
  BY <1>3 DEF Sql!Prepare, Sql!Row, Sql!NoMemory
<1>4. CASE Sql!Statistics
  <2>1. stage' = "st" /\ UNCHANGED <<column, arr>> /\ statistics = Sql!NoStatistics /\ rc # 0 /\ stage = "select"
    BY <1>4 DEF Sql!Statistics
  <2>2. CASE arr = <<>>
    BY <1>4, <2>1, <2>2 DEF Sql!Statistics
  <2>3. CASE arr # <<>>
    <3>1. rc' = 0 /\ statistics' = OfArray /\ broken' \in {Len(arr) < Len(column), TRUE}
      BY <1>4, <2>3 DEF Sql!Statistics, OfArray
    <3>2. OfArray # Sql!NoStatistics
      <4>1. OfArray.count # 0 /\ Sql!NoStatistics.count = 0
        BY <2>3 DEF OfArray, Sql!NoStatistics, Copied
      <4> QED
        BY <4>1
    <3>3. OfArray' = OfArray
      BY <2>1 DEF OfArray
    <3>4. Len(arr) < Len(column) \/ Len(arr) = Len(column)
      BY DEF Copied
    <3>5. broken' \/ Len(arr) = Len(column)
      BY <3>1, <3>4, Zenon
    <3> QED
      BY <2>1, <2>3, <3>1, <3>2, <3>3, <3>5
  <2> QED
    BY <2>2, <2>3
<1>5. CASE Sql!Finalize \/ Sql!Close
  BY <1>5 DEF Sql!Finalize, Sql!Close, OfArray
<1>6. CASE UNCHANGED Sql!vars
  BY <1>6 DEF Sql!vars, OfArray
<1> QED
  BY <1>1, <1>2, <1>3, <1>4, <1>5, <1>6 DEF Sql!Next

LEMMA PrintedRight == ASSUME Copied, Printed PROVE StatisticsExact
<1> DEFINE n == Len(column)
           value(k) == column[k].value
           SumEq(g) == g = [k \in 0..n |-> IF k = 0 THEN 0 ELSE g[k - 1] + value(k)]
           SquaresEq(g) == g = [k \in 0..n |-> IF k = 0 THEN 0 ELSE g[k - 1] + value(k) * value(k)]
           sum == CHOOSE g : SumEq(g)
           squares == CHOOSE g : SquaresEq(g)
           values == [k \in 1..n |-> value(k)]
           valueSquares == [k \in 1..n |-> value(k) * value(k)]
<1>1. n \in Nat /\ \A k \in 1..n : value(k) \in Int
  <2>1. n \in Nat /\ \A k \in 1..n : column[k] \in Cells
    BY DEF Copied
  <2> QED
    BY <2>1 DEF Cells
<1>2. values \in [1..n -> Int] /\ valueSquares \in [1..n -> Int]
  BY <1>1
<1>3. SumEq(sum)
  <2>1. PICK g : g = [k \in 0..n |-> IF k = 0 THEN 0 ELSE g[k - 1] + values[k]]
    BY <1>1, <1>2, TotalsExist
  <2>2. \A k \in 0..n : k # 0 => k \in 1..n
    BY <1>1
  <2>3. SumEq(g)
    BY <2>1, <2>2
  <2> QED
    BY <2>3
<1>4. SquaresEq(squares)
  <2>1. PICK g : g = [k \in 0..n |-> IF k = 0 THEN 0 ELSE g[k - 1] + valueSquares[k]]
    BY <1>1, <1>2, TotalsExist
  <2>2. \A k \in 0..n : k # 0 => k \in 1..n
    BY <1>1
  <2>3. SquaresEq(g)
    BY <2>1, <2>2
  <2> QED
    BY <2>3
<1> HIDE DEF sum, squares
<1>5. Totals(sum, values, n) /\ Totals(squares, valueSquares, n)
  <2>1. 0 \in 0..n /\ \A k \in 1..n : k \in 0..n /\ k # 0
    BY <1>1
  <2>2. sum[0] = 0 /\ \A k \in 1..n : sum[k] = sum[k - 1] + values[k]
    BY <1>3, <2>1
  <2>3. squares[0] = 0 /\ \A k \in 1..n : squares[k] = squares[k - 1] + valueSquares[k]
    BY <1>4, <2>1
  <2> QED
    BY <2>2, <2>3 DEF Totals
<1>6. ASSUME statistics # Sql!NoStatistics, ~broken, \A k \in 1..n : Sql!Exactly(value(k))
      PROVE  /\ statistics.count = n
             /\ \A k \in 1..n : statistics.min <= value(k) /\ value(k) <= statistics.max
             /\ {statistics.min, statistics.max} \subseteq {value(k) : k \in 1..n}
             /\ (\A k \in 1..n : Sql!Exactly(sum[k]) /\ Sql!Exactly(squares[k])) =>
                  /\ statistics.s1 = sum[n]
                  /\ statistics.s2 * n >= statistics.s1 * statistics.s1
  <2>1. arr # <<>> /\ statistics = OfArray /\ Len(arr) = n /\ arr \in Seq(Int)
    BY <1>6 DEF Printed, Copied
  <2>2. \A k \in 1..n : arr[k] = value(k)
    BY <1>6, <2>1 DEF Copied, Sql!Exactly
  <2>3. arr = values
    BY <2>1, <2>2
  <2>4. /\ statistics.count = n /\ statistics.min = Sql!Least(arr) /\ statistics.max = Sql!Greatest(arr)
        /\ statistics.s1 = Sql!IntSum(arr) /\ statistics.s2 = Sql!IntSquares(arr)
    BY <2>1 DEF OfArray
  <2>5. \A k \in 1..n : statistics.min <= value(k) /\ value(k) <= statistics.max
    BY <2>1, <2>2, <2>4, LeastFacts, GreatestFacts
  <2>6. {statistics.min, statistics.max} \subseteq {value(k) : k \in 1..n}
    <3>1. PICK j \in 1..n : Sql!Least(arr) = arr[j]
      BY <2>1, LeastFacts
    <3>2. PICK k \in 1..n : Sql!Greatest(arr) = arr[k]
      BY <2>1, GreatestFacts
    <3>3. statistics.min = value(j) /\ statistics.max = value(k)
      BY <2>2, <2>4, <3>1, <3>2
    <3> QED
      BY <3>3
  <2>7. ASSUME \A k \in 1..n : Sql!Exactly(sum[k]) /\ Sql!Exactly(squares[k])
        PROVE  statistics.s1 = sum[n] /\ statistics.s2 * n >= statistics.s1 * statistics.s1
    <3>1. Totals(sum, arr, Len(arr)) /\ \A k \in 1..Len(arr) : Sql!Exactly(sum[k])
      BY <1>5, <2>1, <2>3, <2>7
    <3>2. valueSquares = [k \in 1..Len(arr) |-> arr[k] * arr[k]]
      BY <2>1, <2>2
    <3>3. Totals(squares, [k \in 1..Len(arr) |-> arr[k] * arr[k]], Len(arr)) /\ \A k \in 1..Len(arr) : Sql!Exactly(squares[k])
      BY <1>5, <2>1, <2>7, <3>2
    <3>4. Sql!IntSum(arr) = sum[Len(arr)]
      BY <2>1, <3>1, SumExact
    <3>5. Sql!IntSquares(arr) = squares[Len(arr)]
      BY <2>1, <3>3, SquaresExact
    <3>6. Len(arr) * squares[Len(arr)] >= sum[Len(arr)] * sum[Len(arr)]
      BY <2>1, <3>1, <3>3, SpreadOfAll
    <3>7. squares[n] \in Int
      <4>1. n \in 0..n
        BY <1>1
      <4>2. \A k \in 0..n : squares[k] \in Int
        <5> HIDE DEF n, valueSquares
        <5> QED
          BY <1>1, <1>2, <1>5, TotalsType
      <4> QED
        BY <4>1, <4>2
    <3>8. squares[n] * n = n * squares[n]
      BY <1>1, <3>7
    <3> QED
      BY <2>1, <2>4, <3>4, <3>5, <3>6, <3>8
  <2> QED
    BY <2>4, <2>5, <2>6, <2>7
<1>7. stage = "exited" => (rc = 0) = (statistics # Sql!NoStatistics)
  BY DEF Printed
<1> QED
  BY <1>6, <1>7 DEF StatisticsExact, Sql!StatisticsExact, sum, squares

(* The statistics of main() are those of the column: least and greatest    *)
(* are, for any column that fits an int, and the sums and with them the    *)
(* deviation, as long as no partial sum leaves int.                        *)
THEOREM StatisticsRight == Sql!Spec => []StatisticsExact
<1>1. Sql!Init => Copied /\ Printed
  <2>1. <<>> \in Seq(Cells) /\ <<>> \in Seq(Int) /\ Len(<<>>) = 0
    OBVIOUS
  <2> QED
    BY <2>1 DEF Sql!Init, Copied, Printed
<1> QED
  BY <1>1, CopiedStep, PrintedStep, PrintedRight, PTL DEF Sql!Spec

-----------------------------------------------------------------------------
(***************************************************************************)
(* Sums over finite sets, which the library takes in the order of CHOOSE.  *)
(***************************************************************************)
First(d) == CHOOSE x \in d : TRUE

(* Two functions of the subsets of S that a fold by First cannot tell      *)
(* apart.                                                                  *)
Alike(g, h, S) ==
  \A d \in SUBSET S : (d # {} => g[d \ {First(d)}] = h[d \ {First(d)}]) => g[d] = h[d]

LEMMA SameFold ==
  ASSUME NEW S, IsFiniteSet(S), NEW g, NEW h, Alike(g, h, S)
  PROVE  g[S] = h[S]
<1> DEFINE U == {k \in Nat : \A d \in SUBSET S : Cardinality(d) = k => g[d] = h[d]}
<1>1. \A d \in SUBSET S : IsFiniteSet(d) /\ Cardinality(d) \in Nat
  BY FS_Subset, FS_CardinalityType
<1>2. 0 \in U
  <2> SUFFICES ASSUME NEW d \in SUBSET S, Cardinality(d) = 0 PROVE g[d] = h[d]
    OBVIOUS
  <2>1. d = {}
    BY <1>1, FS_EmptySet
  <2> QED
    BY <2>1 DEF Alike
<1>3. ASSUME NEW k \in Nat, k \in U PROVE k + 1 \in U
  <2> SUFFICES ASSUME NEW d \in SUBSET S, Cardinality(d) = k + 1 PROVE g[d] = h[d]
    OBVIOUS
  <2>1. d # {}
    BY FS_EmptySet
  <2>2. First(d) \in d /\ d \ {First(d)} \in SUBSET S
    BY <2>1 DEF First
  <2>finite. IsFiniteSet(d)
    BY <1>1
  <2>3. Cardinality(d \ {First(d)}) = k
    <3>1. Cardinality(d \ {First(d)}) = Cardinality(d) - 1
      BY <2>2, <2>finite, FS_RemoveElement
    <3> QED
      BY <3>1
  <2>4. g[d \ {First(d)}] = h[d \ {First(d)}]
    BY <1>3, <2>2, <2>3
  <2> QED
    BY <2>4 DEF Alike
<1> HIDE DEF U
<1>4. Cardinality(S) \in U
  BY <1>1, <1>2, <1>3, Induction
<1> QED
  BY <1>4 DEF U

(* The values of a function, as a sum for each subset of its domain.       *)
Numbers(F) == IsFiniteSet(DOMAIN F) /\ \A x \in DOMAIN F : F[x] \in Int

Sums(g, F) ==
  /\ g \in [SUBSET DOMAIN F -> Int] /\ g[{}] = 0
  /\ \A d \in SUBSET DOMAIN F : \A x \in d : g[d] = F[x] + g[d \ {x}]

LEMMA SumsOn ==
  ASSUME NEW F, Numbers(F)
  PROVE  \E g : Sums(g, F)
<1> DEFINE P(S) == \E g \in [SUBSET S -> Int] :
                     g[{}] = 0 /\ \A d \in SUBSET S : \A x \in d : g[d] = F[x] + g[d \ {x}]
           U == {k \in Nat : \A S \in SUBSET DOMAIN F : Cardinality(S) = k => P(S)}
<1>1. \A S \in SUBSET DOMAIN F : IsFiniteSet(S) /\ Cardinality(S) \in Nat
  BY FS_Subset, FS_CardinalityType DEF Numbers
<1>2. P({})
  <2> DEFINE g == [d \in SUBSET {} |-> 0]
  <2>1. g \in [SUBSET {} -> Int] /\ g[{}] = 0 /\ \A d \in SUBSET {} : \A x \in d : g[d] = F[x] + g[d \ {x}]
    OBVIOUS
  <2> QED
    BY <2>1
<1>3. ASSUME NEW S \in SUBSET DOMAIN F, NEW e \in S, P(S \ {e}) PROVE P(S)
  <2> DEFINE R == S \ {e}
  <2>1. PICK g \in [SUBSET R -> Int] : g[{}] = 0 /\ \A d \in SUBSET R : \A x \in d : g[d] = F[x] + g[d \ {x}]
    BY <1>3
  <2>2. F[e] \in Int /\ \A x \in S : F[x] \in Int
    BY DEF Numbers
  <2> DEFINE h == [d \in SUBSET S |-> IF e \in d THEN F[e] + g[d \ {e}] ELSE g[d]]
  <2>3. \A d \in SUBSET S : d \ {e} \in SUBSET R /\ (e \notin d => d \in SUBSET R)
    OBVIOUS
  <2>4. h \in [SUBSET S -> Int] /\ h[{}] = 0
    BY <2>1, <2>2, <2>3
  <2>5. ASSUME NEW d \in SUBSET S, NEW x \in d PROVE h[d] = F[x] + h[d \ {x}]
    <3>1. d \ {x} \in SUBSET S /\ x \in S
      OBVIOUS
    <3>2. CASE x = e
      <4>1. h[d] = F[e] + g[d \ {e}] /\ h[d \ {e}] = g[d \ {e}]
        BY <3>1, <3>2
      <4> QED
        BY <3>2, <4>1
    <3>3. CASE x # e /\ e \in d
      <4>1. h[d] = F[e] + g[d \ {e}] /\ h[d \ {x}] = F[e] + g[(d \ {x}) \ {e}]
        BY <3>1, <3>3
      <4>2. (d \ {x}) \ {e} = (d \ {e}) \ {x} /\ d \ {e} \in SUBSET R /\ x \in d \ {e}
            /\ (d \ {e}) \ {x} \in SUBSET R
        BY <3>3
      <4>3. g[d \ {e}] = F[x] + g[(d \ {e}) \ {x}] /\ g[(d \ {e}) \ {x}] \in Int
        BY <2>1, <4>2
      <4>4. F[e] \in Int /\ F[x] \in Int
        BY <2>2
      <4>5. h[d] = F[e] + (F[x] + g[(d \ {e}) \ {x}]) /\ h[d \ {x}] = F[e] + g[(d \ {e}) \ {x}]
        BY <4>1, <4>2, <4>3
      <4> HIDE DEF h
      <4> QED
        BY <4>3, <4>4, <4>5
    <3>4. CASE e \notin d
      <4>1. d \in SUBSET R /\ h[d] = g[d] /\ h[d \ {x}] = g[d \ {x}]
        BY <2>3, <3>1, <3>4
      <4> QED
        BY <2>1, <4>1
    <3> QED
      BY <3>2, <3>3, <3>4
  <2> QED
    BY <2>4, <2>5
<1> HIDE DEF P
<1>4. 0 \in U
  <2> SUFFICES ASSUME NEW S \in SUBSET DOMAIN F, Cardinality(S) = 0 PROVE P(S)
    OBVIOUS
  <2>1. S = {}
    BY <1>1, FS_EmptySet
  <2> QED
    BY <1>2, <2>1
<1>5. ASSUME NEW k \in Nat, k \in U PROVE k + 1 \in U
  <2> SUFFICES ASSUME NEW S \in SUBSET DOMAIN F, Cardinality(S) = k + 1 PROVE P(S)
    OBVIOUS
  <2>1. PICK e : e \in S
    BY FS_EmptySet
  <2>2. Cardinality(S \ {e}) = k /\ S \ {e} \in SUBSET DOMAIN F
    <3>1. IsFiniteSet(S)
      BY <1>1
    <3>2. Cardinality(S \ {e}) = Cardinality(S) - 1
      BY <2>1, <3>1, FS_RemoveElement
    <3> QED
      BY <3>2
  <2>3. P(S \ {e})
    BY <1>5, <2>2
  <2> QED
    BY <1>3, <2>1, <2>3
<1> HIDE DEF U
<1>6. Cardinality(DOMAIN F) \in U
  BY <1>1, <1>4, <1>5, Induction
<1>7. P(DOMAIN F)
  BY <1>6 DEF U
<1> QED
  BY <1>7 DEF P, Sums

(* The sum of a function.                                                  *)
SumOf(F) == (CHOOSE g : Sums(g, F))[DOMAIN F]

LEMMA SumsAgree ==
  ASSUME NEW F, Numbers(F), NEW g, Sums(g, F)
  PROVE  SumOf(F) = g[DOMAIN F] /\ SumOf(F) \in Int
<1>1. PICK h : Sums(h, F) /\ SumOf(F) = h[DOMAIN F]
  BY DEF SumOf
<1>2. Alike(h, g, DOMAIN F)
  <2> SUFFICES ASSUME NEW d \in SUBSET DOMAIN F, d # {} => h[d \ {First(d)}] = g[d \ {First(d)}]
               PROVE  h[d] = g[d]
    BY DEF Alike
  <2>1. CASE d = {}
    BY <1>1, <2>1 DEF Sums
  <2>2. CASE d # {}
    <3>1. First(d) \in d
      BY <2>2 DEF First
    <3>2. h[d] = F[First(d)] + h[d \ {First(d)}] /\ g[d] = F[First(d)] + g[d \ {First(d)}]
      BY <1>1, <3>1 DEF Sums
    <3> QED
      BY <2>2, <3>2
  <2> QED
    BY <2>1, <2>2
<1>3. h[DOMAIN F] = g[DOMAIN F] /\ h[DOMAIN F] \in Int
  BY <1>1, <1>2, SameFold DEF Numbers, Sums
<1> QED
  BY <1>1, <1>3

(* The sum of all but one value.                                           *)
LEMMA SumWithout ==
  ASSUME NEW F, Numbers(F), NEW x \in DOMAIN F
  PROVE  LET G == [y \in DOMAIN F \ {x} |-> F[y]]
         IN  Numbers(G) /\ SumOf(F) = F[x] + SumOf(G) /\ SumOf(G) \in Int
<1> DEFINE G == [y \in DOMAIN F \ {x} |-> F[y]]
<1>1. PICK g : Sums(g, F)
  BY SumsOn
<1>2. Numbers(G)
  BY FS_Subset, DOMAIN F \ {x} \subseteq DOMAIN F DEF Numbers
<1> DEFINE h == [d \in SUBSET DOMAIN G |-> g[d]]
<1>3. Sums(h, G)
  <2>1. \A d \in SUBSET DOMAIN G : d \in SUBSET DOMAIN F
    OBVIOUS
  <2>2. h \in [SUBSET DOMAIN G -> Int] /\ h[{}] = 0
    BY <1>1, <2>1 DEF Sums
  <2>3. ASSUME NEW d \in SUBSET DOMAIN G, NEW y \in d PROVE h[d] = G[y] + h[d \ {y}]
    <3>1. d \ {y} \in SUBSET DOMAIN G /\ y \in DOMAIN G /\ d \in SUBSET DOMAIN F
      OBVIOUS
    <3>2. G[y] = F[y] /\ h[d] = g[d] /\ h[d \ {y}] = g[d \ {y}]
      BY <3>1
    <3> QED
      BY <1>1, <3>1, <3>2 DEF Sums
  <2> HIDE DEF h, G
  <2> QED
    BY <2>2, <2>3 DEF Sums
<1>4. SumOf(G) = h[DOMAIN G] /\ SumOf(G) \in Int
  <2> HIDE DEF h, G
  <2> QED
    BY <1>2, <1>3, SumsAgree
<1>5. h[DOMAIN G] = g[DOMAIN F \ {x}]
  OBVIOUS
<1>6. SumOf(F) = g[DOMAIN F] /\ g[DOMAIN F] = F[x] + g[DOMAIN F \ {x}]
  BY <1>1, SumsAgree DEF Sums
<1> QED
  BY <1>2, <1>4, <1>5, <1>6

LEMMA SumEmpty ==
  ASSUME NEW F, DOMAIN F = {}
  PROVE  SumOf(F) = 0
<1>1. Numbers(F)
  BY FS_EmptySet DEF Numbers
<1>2. PICK g : Sums(g, F)
  BY <1>1, SumsOn
<1> QED
  BY <1>1, <1>2, SumsAgree DEF Sums

(* What the library's operators define is such a sum.                      *)
AddsUp(h, F) ==
  h = [d \in SUBSET DOMAIN F |-> IF d = {} THEN 0 ELSE F[First(d)] + h[d \ {First(d)}]]

LEMMA AddedUp ==
  ASSUME NEW F, Numbers(F)
  PROVE  /\ \E h : AddsUp(h, F)
         /\ \A h : AddsUp(h, F) => h[DOMAIN F] = SumOf(F)
<1>1. PICK g : Sums(g, F)
  BY SumsOn
<1>2. \A d \in SUBSET DOMAIN F : d # {} => First(d) \in d
  BY DEF First
<1>3. AddsUp(g, F)
  BY <1>1, <1>2 DEF Sums, AddsUp
<1>4. ASSUME NEW h, AddsUp(h, F) PROVE h[DOMAIN F] = SumOf(F)
  <2>1. Alike(h, g, DOMAIN F)
    <3> SUFFICES ASSUME NEW d \in SUBSET DOMAIN F, d # {} => h[d \ {First(d)}] = g[d \ {First(d)}]
                 PROVE  h[d] = g[d]
      BY DEF Alike
    <3>1. h[d] = IF d = {} THEN 0 ELSE F[First(d)] + h[d \ {First(d)}]
      BY <1>4 DEF AddsUp
    <3>2. g[d] = IF d = {} THEN 0 ELSE F[First(d)] + g[d \ {First(d)}]
      BY <1>3 DEF AddsUp
    <3> QED
      BY <3>1, <3>2
  <2>2. h[DOMAIN F] = g[DOMAIN F]
    BY <2>1, SameFold DEF Numbers
  <2> QED
    BY <1>1, <2>2, SumsAgree
<1> QED
  BY <1>3, <1>4

-----------------------------------------------------------------------------
(***************************************************************************)
(* int arithmetic: what AsInt leaves of a number.                          *)
(***************************************************************************)
LEMMA Divided ==
  ASSUME NEW n \in Int, NEW b \in Nat \ {0}
  PROVE  /\ n \div b \in Int /\ (n % b) \in 0..(b - 1)
         /\ n = b * (n \div b) + (n % b)
  BY SMT

LEMMA Remains ==
  ASSUME NEW n \in Int, NEW b \in Nat \ {0}, NEW q \in Int, NEW left \in 0..(b - 1), n = b * q + left
  PROVE  (n % b) = left
<1> DEFINE d == n \div b
           s == n % b
<1>1. d \in Int /\ s \in 0..(b - 1) /\ n = b * d + s
  BY Divided
<1> HIDE DEF d, s
<1>2. d - q \in Int /\ b * (d - q) = left - s
  BY <1>1
<1>3. ~(d - q >= 1)
  <2> SUFFICES ASSUME d - q >= 1 PROVE FALSE
    OBVIOUS
  <2>1. b * (d - q) >= b
    BY <1>2
  <2> QED
    BY <1>1, <1>2, <2>1
<1>4. ~(d - q <= -1)
  <2> SUFFICES ASSUME d - q <= -1 PROVE FALSE
    OBVIOUS
  <2>1. b * (d - q) <= -b
    BY <1>2
  <2> QED
    BY <1>1, <1>2, <2>1
<1>5. d = q
  BY <1>1, <1>3, <1>4
<1> QED
  BY <1>1, <1>5 DEF s

LEMMA IntMaxFacts == IntMax \in Nat /\ 2 * (IntMax + 1) \in Nat \ {0}
  BY ProgramsAssumption DEF Sql!SqlStatsAssumption

LEMMA AsIntFacts ==
  ASSUME NEW v \in Int
  PROVE  /\ Logs!AsInt(v) \in -IntMax - 1 .. IntMax
         /\ v \in -IntMax - 1 .. IntMax => Logs!AsInt(v) = v
         /\ \E q \in Int : v = Logs!AsInt(v) + 2 * (IntMax + 1) * q
<1> DEFINE m == 2 * (IntMax + 1)
           w == v + IntMax + 1
<1>1. m \in Nat \ {0} /\ m = 2 * IntMax + 2 /\ w \in Int /\ IntMax \in Nat
  BY IntMaxFacts
<1>2. Logs!AsInt(v) = (w % m) - IntMax - 1
  BY DEF Logs!AsInt
<1> HIDE DEF m
<1>3. w \div m \in Int /\ (w % m) \in 0..(m - 1) /\ w = m * (w \div m) + (w % m)
  BY <1>1, Divided
<1>4. Logs!AsInt(v) \in -IntMax - 1 .. IntMax
  BY <1>1, <1>2, <1>3
<1>5. ASSUME v \in -IntMax - 1 .. IntMax PROVE Logs!AsInt(v) = v
  <2>1. w \in 0..(m - 1) /\ w = m * 0 + w
    BY <1>1, <1>5
  <2>2. (w % m) = w
    BY <1>1, <2>1, Remains, 0 \in Int
  <2> QED
    BY <1>1, <1>2, <2>2
<1>6. v = Logs!AsInt(v) + m * (w \div m)
  <2> DEFINE p == m * (w \div m)
  <2>1. p \in Int /\ w = p + (w % m) /\ (w % m) \in Int
    BY <1>1, <1>3
  <2> HIDE DEF p
  <2>2. v = Logs!AsInt(v) + p
    BY <1>1, <1>2, <2>1
  <2> QED
    BY <2>2 DEF p
<1> QED
  BY <1>3, <1>4, <1>5, <1>6 DEF m

LEMMA AsIntAgain ==
  ASSUME NEW v \in Int, NEW q \in Int
  PROVE  Logs!AsInt(v + 2 * (IntMax + 1) * q) = Logs!AsInt(v)
<1> DEFINE m == 2 * (IntMax + 1)
           w == v + IntMax + 1
           k == w \div m
           left == w % m
<1>1. m \in Nat \ {0} /\ w \in Int /\ IntMax \in Nat
  BY IntMaxFacts
<1> HIDE DEF m
<1>2. k \in Int /\ left \in 0..(m - 1) /\ w = m * k + left
  BY <1>1, Divided
<1> HIDE DEF k, left
<1>3. w + m * q = m * (k + q) + left
  BY <1>1, <1>2
<1>4. w + m * q \in Int /\ k + q \in Int /\ m * q \in Int
  BY <1>1, <1>2
<1>5. ((w + m * q) % m) = left
  BY <1>1, <1>2, <1>3, <1>4, Remains
<1>6. (v + m * q) + IntMax + 1 = w + m * q
  BY <1>1, <1>4
<1>7. Logs!AsInt(v + m * q) = left - IntMax - 1 /\ Logs!AsInt(v) = left - IntMax - 1
  BY <1>5, <1>6 DEF Logs!AsInt, m, left
<1> QED
  BY <1>7 DEF m

LEMMA AsIntSum ==
  ASSUME NEW v \in Int, NEW w \in Int
  PROVE  Logs!AsInt(Logs!AsInt(v) + w) = Logs!AsInt(v + w)
<1> DEFINE m == 2 * (IntMax + 1)
           u == Logs!AsInt(v)
<1>1. PICK q \in Int : v = u + m * q
  BY AsIntFacts
<1>2. u \in Int /\ m \in Int /\ m * q \in Int
  BY AsIntFacts, IntMaxFacts
<1> HIDE DEF m, u
<1>3. v + w = (u + w) + m * q /\ u + w \in Int
  BY <1>1, <1>2
<1>4. Logs!AsInt((u + w) + m * q) = Logs!AsInt(u + w)
  BY <1>3, AsIntAgain DEF m
<1> QED
  BY <1>3, <1>4 DEF u

(* Sums of values of which one is the other in an int.                     *)
LEMMA SumAsInt ==
  ASSUME NEW F, Numbers(F), NEW G, Numbers(G), DOMAIN F \subseteq DOMAIN G,
         \A x \in DOMAIN G : Logs!AsInt(G[x]) = IF x \in DOMAIN F THEN F[x] ELSE 0
  PROVE  Logs!AsInt(SumOf(F)) = Logs!AsInt(SumOf(G))
<1>1. PICK g : Sums(g, F)
  BY SumsOn
<1>2. PICK h : Sums(h, G)
  BY SumsOn
<1> DEFINE K == DOMAIN G
           a == [d \in SUBSET K |-> Logs!AsInt(g[d \cap DOMAIN F])]
           b == [d \in SUBSET K |-> Logs!AsInt(h[d])]
<1>3. Alike(a, b, K)
  <2> SUFFICES ASSUME NEW d \in SUBSET K, d # {} => a[d \ {First(d)}] = b[d \ {First(d)}]
               PROVE  Logs!AsInt(g[d \cap DOMAIN F]) = Logs!AsInt(h[d])
    BY DEF Alike
  <2> DEFINE x == First(d)
             e == d \ {x}
             f == e \cap DOMAIN F
  <2>1. CASE d = {}
    <3>1. d \cap DOMAIN F = {}
      BY <2>1
    <3> QED
      BY <1>1, <1>2, <2>1, <3>1 DEF Sums
  <2>2. CASE d # {}
    <3>1. x \in d /\ e \in SUBSET K /\ x \in K
      BY <2>2 DEF First
    <3> HIDE DEF x
    <3>2. Logs!AsInt(g[f]) = Logs!AsInt(h[e])
      BY <2>2, <3>1 DEF x
    <3>3. /\ g[f] \in Int /\ h[e] \in Int /\ G[x] \in Int
      BY <1>1, <1>2, <3>1 DEF Sums, Numbers
    <3>4. h[d] = G[x] + h[e]
      BY <1>2, <3>1 DEF Sums
    <3>5. Logs!AsInt(h[d]) = Logs!AsInt(Logs!AsInt(G[x]) + Logs!AsInt(h[e]))
      <4>1. Logs!AsInt(G[x]) \in Int /\ Logs!AsInt(h[e]) \in Int
        BY <3>3, AsIntFacts
      <4>2. Logs!AsInt(Logs!AsInt(G[x]) + Logs!AsInt(h[e])) = Logs!AsInt(G[x] + Logs!AsInt(h[e]))
        BY <3>3, <4>1, AsIntSum
      <4>3. Logs!AsInt(Logs!AsInt(h[e]) + G[x]) = Logs!AsInt(h[e] + G[x])
        BY <3>3, AsIntSum
      <4>4. G[x] + Logs!AsInt(h[e]) = Logs!AsInt(h[e]) + G[x] /\ h[e] + G[x] = G[x] + h[e]
        BY <3>3, <4>1
      <4> QED
        BY <3>4, <4>2, <4>3, <4>4
    <3>6. CASE x \in DOMAIN F
      <4>1. d \cap DOMAIN F \in SUBSET DOMAIN F /\ x \in d \cap DOMAIN F /\ (d \cap DOMAIN F) \ {x} = f
        BY <3>1, <3>6
      <4>2. g[d \cap DOMAIN F] = F[x] + g[f] /\ F[x] = Logs!AsInt(G[x])
        BY <1>1, <3>1, <3>6, <4>1 DEF Sums
      <4>3. Logs!AsInt(F[x] + g[f]) = Logs!AsInt(F[x] + Logs!AsInt(g[f]))
        <5>1. F[x] \in Int /\ Logs!AsInt(g[f]) \in Int
          BY <3>3, <4>2, AsIntFacts
        <5>2. Logs!AsInt(Logs!AsInt(g[f]) + F[x]) = Logs!AsInt(g[f] + F[x])
          BY <3>3, <5>1, AsIntSum
        <5>3. F[x] + g[f] = g[f] + F[x] /\ Logs!AsInt(g[f]) + F[x] = F[x] + Logs!AsInt(g[f])
          BY <3>3, <5>1
        <5> QED
          BY <5>2, <5>3
      <4> QED
        BY <3>2, <3>5, <4>2, <4>3
    <3>7. CASE x \notin DOMAIN F
      <4>1. d \cap DOMAIN F = f /\ Logs!AsInt(G[x]) = 0
        BY <3>1, <3>7
      <4>2. 0 + Logs!AsInt(h[e]) = Logs!AsInt(h[e])
        BY <3>3, AsIntFacts
      <4>3. Logs!AsInt(Logs!AsInt(h[e])) = Logs!AsInt(h[e])
        BY <3>3, AsIntFacts
      <4> QED
        BY <3>2, <3>5, <4>1, <4>2, <4>3
    <3> QED
      BY <3>6, <3>7
  <2> QED
    BY <2>1, <2>2
<1>4. a[K] = b[K]
  <2> HIDE DEF a, b
  <2> QED
    BY <1>3, SameFold DEF Numbers
<1>5. K \cap DOMAIN F = DOMAIN F
  OBVIOUS
<1>6. SumOf(F) = g[DOMAIN F] /\ SumOf(G) = h[K]
  BY <1>1, <1>2, SumsAgree
<1> QED
  BY <1>4, <1>5, <1>6

-----------------------------------------------------------------------------
(***************************************************************************)
(* The tables of the log analyser (hash.c), by urls and by referers.       *)
(***************************************************************************)
Kinds == {"queries", "refs"}
Table(tables, kind) == IF kind = "queries" THEN tables.queries ELSE tables.refs
KeyOf(kind, ll) == IF kind = "queries" THEN ll.url ELSE ll.ref
PlusOf(kind, ll) == IF kind = "queries" THEN ll.size ELSE 1
Keys(kind) == {KeyOf(kind, ll) : ll \in Lines} \ {Dash}

(* A function of some of the keys to numbers.                              *)
IsTable(hash, K) ==
  /\ DOMAIN hash \subseteq K /\ hash = [k \in DOMAIN hash |-> hash[k]]
  /\ \A k \in DOMAIN hash : hash[k] \in Int

LEMMA LinesFacts ==
  /\ IsFiniteSet(Lines) /\ \A ll \in Lines : ll.size \in Nat
  /\ \A kind \in Kinds : IsFiniteSet(Keys(kind)) /\ \A ll \in Lines : PlusOf(kind, ll) \in Nat
<1>1. IsFiniteSet(Lines) /\ \A ll \in Lines : ll.size \in Nat
  <2>1. Logs!IsFiniteSet(Lines) /\ \A ll \in Lines : ll.size \in 0..IntMax
    BY ProgramsAssumption DEF Logs!LogDistributorAssumption
  <2> QED
    BY <2>1, LogsCardinality, IntMaxFacts
<1>2. ASSUME NEW kind \in Kinds
      PROVE  IsFiniteSet(Keys(kind)) /\ \A ll \in Lines : PlusOf(kind, ll) \in Nat
  <2> DEFINE f == [ll \in Lines |-> KeyOf(kind, ll)]
             K == {KeyOf(kind, ll) : ll \in Lines}
  <2>1. f \in Surjection(Lines, K)
    BY DEF Surjection
  <2>2. IsFiniteSet(K)
    BY <1>1, <2>1, FS_Surjection
  <2>3. IsFiniteSet(Keys(kind))
    BY <2>2, FS_Subset, Keys(kind) \subseteq K DEF Keys
  <2> QED
    BY <1>1, <2>3 DEF PlusOf
<1> QED
  BY <1>1, <1>2

LEMMA EmptyTable == ASSUME NEW K PROVE IsTable(<<>>, K) /\ DOMAIN <<>> = {}
<1>1. DOMAIN <<>> = {}
  OBVIOUS
<1>2. <<>> = [k \in {} |-> <<>>[k]]
  OBVIOUS
<1> QED
  BY <1>1, <1>2 DEF IsTable

LEMMA IncFacts ==
  ASSUME NEW K, NEW hash, IsTable(hash, K), NEW key \in K, key # Dash, NEW plus \in Nat
  PROVE  LET new == Logs!Inc(hash, key, plus)
         IN  /\ IsTable(new, K)
             /\ Logs!Lookup(hash, key) \in Int
             /\ plus = 0 => new = hash
             /\ plus # 0 => Logs!Lookup(new, key) = Logs!AsInt(Logs!Lookup(hash, key) + plus)
             /\ \A k : k # key => Logs!Lookup(new, k) = Logs!Lookup(hash, k)
<1> DEFINE new == Logs!Inc(hash, key, plus)
<1>1. Logs!Lookup(hash, key) \in Int
  BY DEF IsTable, Logs!Lookup
<1>2. CASE plus = 0
  <2>1. new = hash
    BY <1>2 DEF Logs!Inc
  <2> QED
    BY <1>1, <1>2, <2>1
<1>3. CASE plus # 0
  <2> DEFINE sum == Logs!AsInt(Logs!Lookup(hash, key) + plus)
             D == DOMAIN hash \cup {key}
  <2>1. new = [k \in D |-> IF k = key THEN sum ELSE hash[k]]
    <3>1. ~(plus <= 0)
      BY <1>3
    <3> QED
      BY <3>1 DEF Logs!Inc
  <2>2. sum \in Int
    BY <1>1, AsIntFacts, Logs!Lookup(hash, key) + plus \in Int
  <2> HIDE DEF sum, new
  <2>3. IsTable(new, K)
    BY <2>1, <2>2 DEF IsTable
  <2>4. Logs!Lookup(new, key) = sum
    BY <2>1 DEF Logs!Lookup
  <2>5. \A k : k # key => Logs!Lookup(new, k) = Logs!Lookup(hash, k)
    BY <2>1 DEF Logs!Lookup
  <2> QED
    BY <1>1, <1>3, <2>3, <2>4, <2>5 DEF sum, new
<1> QED
  BY <1>2, <1>3

(* merge() adds each value of the second table, in whichever order, that   *)
(* is positive.                                                            *)
Counts(new, k) == k \in DOMAIN new /\ new[k] > 0 /\ k # Dash

MergedWith(hash, new, d) ==
  [k \in DOMAIN hash \cup {k \in d : Counts(new, k)} |->
     IF k \in d /\ Counts(new, k) THEN Logs!AsInt(Logs!Lookup(hash, k) + new[k]) ELSE hash[k]]

LEMMA MergeIs ==
  ASSUME NEW K, IsFiniteSet(K), NEW hash, IsTable(hash, K), NEW new, IsTable(new, K)
  PROVE  Logs!Merge(hash, new) = MergedWith(hash, new, DOMAIN new)
<1> DEFINE D == DOMAIN new
           G == [d \in SUBSET D |-> MergedWith(hash, new, d)]
           Eq(h) == h = [d \in SUBSET D |-> IF d = {} THEN hash
                                            ELSE Logs!Inc(h[d \ {First(d)}], First(d), new[First(d)])]
<1>1. G[{}] = hash
  <2>1. MergedWith(hash, new, {}) = [k \in DOMAIN hash |-> hash[k]]
    BY DEF MergedWith
  <2> QED
    BY <2>1 DEF IsTable
<1>2. ASSUME NEW d \in SUBSET D, NEW x \in d
      PROVE  MergedWith(hash, new, d) = Logs!Inc(MergedWith(hash, new, d \ {x}), x, new[x])
  <2> DEFINE old == MergedWith(hash, new, d \ {x})
             E == DOMAIN hash \cup {k \in d \ {x} : Counts(new, k)}
  <2>1. old = [k \in E |-> IF k \in d \ {x} /\ Counts(new, k)
                           THEN Logs!AsInt(Logs!Lookup(hash, k) + new[k]) ELSE hash[k]]
    BY DEF MergedWith
  <2>2. x \in DOMAIN new /\ new[x] \in Int
    BY DEF IsTable
  <2>3. DOMAIN old = E
    BY <2>1
  <2>4. Logs!Lookup(old, x) = Logs!Lookup(hash, x)
    <3>1. x \in E <=> x \in DOMAIN hash
      OBVIOUS
    <3>2. x \in E => old[x] = hash[x]
      BY <2>1
    <3> HIDE DEF old, E
    <3> QED
      BY <2>3, <3>1, <3>2 DEF Logs!Lookup
  <2>5. CASE Counts(new, x)
    <3>1. ~(new[x] <= 0 \/ x = Dash)
      BY <2>2, <2>5 DEF Counts
    <3>2. Logs!Inc(old, x, new[x]) =
            [k \in DOMAIN old \cup {x} |->
               IF k = x THEN Logs!AsInt(Logs!Lookup(old, x) + new[x]) ELSE old[k]]
      BY <3>1, Zenon DEF Logs!Inc
    <3>3. E \cup {x} = DOMAIN hash \cup {k \in d : Counts(new, k)}
      BY <2>5
    <3>4. \A k \in E \cup {x} :
            (IF k = x THEN Logs!AsInt(Logs!Lookup(old, x) + new[x]) ELSE old[k])
            = IF k \in d /\ Counts(new, k) THEN Logs!AsInt(Logs!Lookup(hash, k) + new[k]) ELSE hash[k]
      <4> TAKE k \in E \cup {x}
      <4>1. CASE k = x
        BY <2>4, <2>5, <4>1
      <4>2. CASE k # x
        <5>1. k \in E /\ (k \in d \ {x} <=> k \in d)
          BY <4>2
        <5>2. old[k] = IF k \in d \ {x} /\ Counts(new, k)
                       THEN Logs!AsInt(Logs!Lookup(hash, k) + new[k]) ELSE hash[k]
          BY <2>1, <5>1
        <5> HIDE DEF old, E
        <5> QED
          BY <4>2, <5>1, <5>2
      <4> QED
        BY <4>1, <4>2
    <3> HIDE DEF old, E
    <3>5. Logs!Inc(old, x, new[x]) =
            [k \in E \cup {x} |->
               IF k = x THEN Logs!AsInt(Logs!Lookup(old, x) + new[x]) ELSE old[k]]
      BY <2>3, <3>2, Zenon
    <3>6. Logs!Inc(old, x, new[x]) =
            [k \in E \cup {x} |-> IF k \in d /\ Counts(new, k)
                                  THEN Logs!AsInt(Logs!Lookup(hash, k) + new[k]) ELSE hash[k]]
      BY <3>4, <3>5
    <3>7. MergedWith(hash, new, d) =
            [k \in E \cup {x} |-> IF k \in d /\ Counts(new, k)
                                  THEN Logs!AsInt(Logs!Lookup(hash, k) + new[k]) ELSE hash[k]]
      BY <3>3, Zenon DEF MergedWith
    <3> QED
      BY <3>6, <3>7, Zenon DEF old
  <2>6. CASE ~Counts(new, x)
    <3>1. new[x] <= 0 \/ x = Dash
      BY <2>2, <2>6 DEF Counts
    <3>2. Logs!Inc(old, x, new[x]) = old
      BY <3>1 DEF Logs!Inc
    <3>3. {k \in d \ {x} : Counts(new, k)} = {k \in d : Counts(new, k)}
      BY <2>6
    <3>4. \A k : (k \in d \ {x} /\ Counts(new, k)) <=> (k \in d /\ Counts(new, k))
      BY <2>6
    <3>5. old = MergedWith(hash, new, d)
      BY <3>3, <3>4 DEF MergedWith
    <3> QED
      BY <3>2, <3>5
  <2> QED
    BY <2>5, <2>6
<1>3. \A d \in SUBSET D : d # {} => First(d) \in d /\ d \ {First(d)} \in SUBSET D
  BY DEF First
<1>4. Eq(G)
  <2> SUFFICES ASSUME NEW d \in SUBSET D
               PROVE  G[d] = IF d = {} THEN hash ELSE Logs!Inc(G[d \ {First(d)}], First(d), new[First(d)])
    OBVIOUS
  <2>1. CASE d = {}
    BY <1>1, <2>1
  <2>2. CASE d # {}
    <3>1. First(d) \in d /\ d \ {First(d)} \in SUBSET D
      BY <1>3, <2>2
    <3>2. G[d \ {First(d)}] = MergedWith(hash, new, d \ {First(d)}) /\ G[d] = MergedWith(hash, new, d)
      BY <3>1
    <3>3. MergedWith(hash, new, d)
            = Logs!Inc(MergedWith(hash, new, d \ {First(d)}), First(d), new[First(d)])
      BY <1>2, <3>1
    <3> HIDE DEF G
    <3> QED
      BY <2>2, <3>2, <3>3
  <2> QED
    BY <2>1, <2>2
<1>5. Logs!Merge(hash, new) = (CHOOSE h : Eq(h))[D]
  BY DEF Logs!Merge, Logs!FoldSet, Logs!MapThenFoldSet, First
<1>6. PICK h : Eq(h) /\ Logs!Merge(hash, new) = h[D]
  BY <1>4, <1>5
<1>7. Alike(h, G, D)
  <2> SUFFICES ASSUME NEW d \in SUBSET D, d # {} => h[d \ {First(d)}] = G[d \ {First(d)}]
               PROVE  h[d] = G[d]
    BY DEF Alike
  <2>1. h[d] = IF d = {} THEN hash ELSE Logs!Inc(h[d \ {First(d)}], First(d), new[First(d)])
    BY <1>6
  <2>2. G[d] = IF d = {} THEN hash ELSE Logs!Inc(G[d \ {First(d)}], First(d), new[First(d)])
    BY <1>4
  <2> HIDE DEF G
  <2> QED
    BY <2>1, <2>2
<1>8. IsFiniteSet(D)
  BY FS_Subset DEF IsTable
<1>9. h[D] = G[D]
  <2> HIDE DEF G
  <2> QED
    BY <1>7, <1>8, SameFold
<1> QED
  BY <1>6, <1>9

LEMMA MergeFacts ==
  ASSUME NEW K, IsFiniteSet(K), Dash \notin K,
         NEW hash, IsTable(hash, K), NEW new, IsTable(new, K)
  PROVE  /\ IsTable(Logs!Merge(hash, new), K)
         /\ \A k \in K : Logs!Lookup(new, k) \in Nat =>
              \A s \in Int : Logs!Lookup(hash, k) = Logs!AsInt(s) =>
                Logs!Lookup(Logs!Merge(hash, new), k) = Logs!AsInt(s + Logs!Lookup(new, k))
<1> DEFINE D == DOMAIN hash \cup {k \in DOMAIN new : Counts(new, k)}
           all == Logs!Merge(hash, new)
<1>1. all = [k \in D |-> IF k \in DOMAIN new /\ Counts(new, k)
                         THEN Logs!AsInt(Logs!Lookup(hash, k) + new[k]) ELSE hash[k]]
  <2>1. all = MergedWith(hash, new, DOMAIN new)
    BY MergeIs
  <2> QED
    BY <2>1, Zenon DEF MergedWith
<1> HIDE DEF all
<1>2. IsTable(all, K)
  <2>1. DOMAIN all = D /\ D \subseteq K
    BY <1>1 DEF IsTable
  <2>2. ASSUME NEW k \in D PROVE all[k] \in Int
    <3>1. CASE k \in DOMAIN new /\ Counts(new, k)
      <4>1. Logs!Lookup(hash, k) \in Int /\ new[k] \in Int
        BY <3>1 DEF IsTable, Logs!Lookup
      <4>2. Logs!AsInt(Logs!Lookup(hash, k) + new[k]) \in Int
        BY <4>1, AsIntFacts, Logs!Lookup(hash, k) + new[k] \in Int
      <4> QED
        BY <1>1, <3>1, <4>2
    <3>2. CASE ~(k \in DOMAIN new /\ Counts(new, k))
      BY <1>1, <3>2 DEF IsTable
    <3> QED
      BY <3>1, <3>2
  <2> HIDE DEF D
  <2>3. all = [k \in DOMAIN all |-> all[k]]
    BY <1>1
  <2> QED
    BY <2>1, <2>2, <2>3 DEF IsTable
<1>3. ASSUME NEW k \in K, Logs!Lookup(new, k) \in Nat,
             NEW s \in Int, Logs!Lookup(hash, k) = Logs!AsInt(s)
      PROVE  Logs!Lookup(all, k) = Logs!AsInt(s + Logs!Lookup(new, k))
  <2> DEFINE v == Logs!Lookup(new, k)
  <2>1. CASE v # 0
    <3>1. k \in DOMAIN new /\ new[k] = v
      BY <2>1 DEF Logs!Lookup
    <3>2. Counts(new, k)
      BY <1>3, <2>1, <3>1 DEF Counts
    <3>3. Logs!Lookup(all, k) = Logs!AsInt(Logs!AsInt(s) + v)
      BY <1>1, <1>3, <3>1, <3>2 DEF Logs!Lookup
    <3> HIDE DEF v
    <3> QED
      BY <1>3, <3>3, AsIntSum, v \in Int DEF v
  <2>2. CASE v = 0
    <3>1. ~Counts(new, k)
      BY <2>2 DEF Counts, Logs!Lookup
    <3>2. Logs!Lookup(all, k) = Logs!Lookup(hash, k)
      BY <1>1, <3>1 DEF Logs!Lookup
    <3>3. s + v = s
      BY <2>2
    <3> QED
      BY <1>3, <3>2, <3>3
  <2> QED
    BY <2>1, <2>2
<1> QED
  BY <1>2, <1>3 DEF all

(* What the lines of a log say of a key.                                   *)
Gain(kind, k) ==
  [x \in Nat \X Lines |-> IF KeyOf(kind, x[2]) = k /\ k # Dash THEN x[1] + PlusOf(kind, x[2]) ELSE x[1]]
Amount(kind, k, lines) == Fold(Gain(kind, k), 0, lines)

LEMMA GainFolder == ASSUME NEW kind \in Kinds, NEW k PROVE Folder(Nat, Lines, 0, Gain(kind, k))
<1>1. \A x \in Nat \X Lines : x[1] \in Nat /\ PlusOf(kind, x[2]) \in Nat
  BY LinesFacts
<1> QED
  BY <1>1 DEF Folder, Gain

LEMMA AmountFacts ==
  ASSUME NEW kind \in Kinds, NEW k
  PROVE  /\ Amount(kind, k, <<>>) = 0
         /\ \A s \in Seq(Lines) : Amount(kind, k, s) \in Nat
         /\ \A s \in Seq(Lines), ll \in Lines :
              Amount(kind, k, Append(s, ll)) = IF KeyOf(kind, ll) = k /\ k # Dash
                                               THEN Amount(kind, k, s) + PlusOf(kind, ll)
                                               ELSE Amount(kind, k, s)
<1>1. Folder(Nat, Lines, 0, Gain(kind, k))
  BY GainFolder
<1>2. Amount(kind, k, <<>>) = 0
  BY <1>1, FoldEmpty DEF Amount
<1>3. ASSUME NEW s \in Seq(Lines), NEW ll \in Lines
      PROVE  /\ Amount(kind, k, s) \in Nat
             /\ Amount(kind, k, Append(s, ll)) = IF KeyOf(kind, ll) = k /\ k # Dash
                                                 THEN Amount(kind, k, s) + PlusOf(kind, ll)
                                                 ELSE Amount(kind, k, s)
  <2>1. /\ Amount(kind, k, s) \in Nat
        /\ Amount(kind, k, Append(s, ll)) = Gain(kind, k)[<<Amount(kind, k, s), ll>>]
    BY <1>1, FoldAppend DEF Amount
  <2>2. <<Amount(kind, k, s), ll>> \in Nat \X Lines
    BY <2>1
  <2> QED
    BY <2>1, <2>2 DEF Gain
<1>4. ASSUME NEW s \in Seq(Lines) PROVE Amount(kind, k, s) \in Nat
  <2>1. CASE Lines # {}
    BY <1>3, <2>1
  <2>2. CASE Lines = {}
    BY <1>2, <2>2, s = <<>>
  <2> QED
    BY <2>1, <2>2
<1> QED
  BY <1>2, <1>3, <1>4

LEMMA AmountOfDash ==
  ASSUME NEW kind \in Kinds, NEW s \in Seq(Lines)
  PROVE  Amount(kind, Dash, s) = 0
<1> DEFINE n == Len(s)
           op == Gain(kind, Dash)
<1>1. Folder(Nat, Lines, 0, op)
  BY GainFolder
<1>2. PICK f \in [0..n -> Nat] : Folds(f, op, 0, s)
  BY <1>1, FoldIs, Zenon
<1> DEFINE U == {k \in 0..n : f[k] = 0}
<1>3. n \in Nat /\ 0 \in U
  BY <1>2 DEF Folds
<1>4. ASSUME NEW k \in 1..n, k - 1 \in U PROVE k \in U
  <2>1. <<f[k - 1], s[k]>> \in Nat \X Lines /\ f[k - 1] = 0 /\ k \in 0..n
    BY <1>2, <1>3, <1>4
  <2>2. f[k] = op[<<f[k - 1], s[k]>>]
    BY <1>2 DEF Folds
  <2> QED
    BY <2>1, <2>2 DEF Gain
<1> HIDE DEF U
<1>5. 0..n \subseteq U
  BY <1>3, <1>4, UpTo
<1>6. f[n] = 0
  BY <1>3, <1>5 DEF U
<1> QED
  BY <1>2, <1>6 DEF Folds, Amount

LEMMA BytesIs ==
  ASSUME NEW w, NEW url, log[files[w]] \in Seq(Lines)
  PROVE  Logs!Bytes(w, url) = Amount("queries", url, log[files[w]])
<1> DEFINE s == log[files[w]]
           n == Len(s)
           D == SUBSET (1..n)
           op == Gain("queries", url)
           Eq(h) == h = [d \in D |-> IF d = {} THEN 0
                                     ELSE IF s[Max(d)].url = url /\ url # Dash
                                          THEN h[d \ {Max(d)}] + s[Max(d)].size
                                          ELSE h[d \ {Max(d)}]]
<1>1. n \in Nat /\ s \in Seq(Lines)
  OBVIOUS
<1>2. Folder(Nat, Lines, 0, op)
  BY GainFolder DEF Kinds
<1>3. ASSUME NEW x \in Nat, NEW ll \in Lines
      PROVE  op[<<x, ll>>] = IF ll.url = url /\ url # Dash THEN x + ll.size ELSE x
  <2>1. <<x, ll>> \in Nat \X Lines
    OBVIOUS
  <2> QED
    BY <2>1 DEF Gain, KeyOf, PlusOf
<1> HIDE DEF s, op
<1>4. PICK g \in [D -> Nat] : Iterates(g, n, 0, op, s)
  BY <1>1, <1>2, Iteration
<1>5. ASSUME NEW d \in D, d # {}
      PROVE  Max(d) \in 1..n /\ d \ {Max(d)} \in D /\ s[Max(d)] \in Lines
  BY <1>1, <1>5, MaxWithin
<1>6. Eq(g)
  <2> SUFFICES ASSUME NEW d \in D, d # {}
               PROVE  g[d] = IF s[Max(d)].url = url /\ url # Dash
                             THEN g[d \ {Max(d)}] + s[Max(d)].size ELSE g[d \ {Max(d)}]
    BY <1>4 DEF Iterates
  <2>1. g[d \ {Max(d)}] \in Nat /\ s[Max(d)] \in Lines
    BY <1>4, <1>5
  <2>2. g[d] = op[<<g[d \ {Max(d)}], s[Max(d)]>>]
    BY <1>4 DEF Iterates
  <2> QED
    BY <1>3, <2>1, <2>2
<1>7. Logs!Bytes(w, url) = (CHOOSE h : Eq(h))[1..n]
  BY <1>1, DOMAIN s = 1..n DEF Logs!Bytes, Logs!FoldLeft, Logs!MapThenFoldSet, Logs!Max, Max, s
<1>8. PICK h : Eq(h) /\ Logs!Bytes(w, url) = h[1..n]
  BY <1>6, <1>7
<1>9. h[{}] = 0
  BY <1>8
<1>10. ASSUME NEW d \in D, d # {}, h[d \ {Max(d)}] \in Nat
       PROVE  h[d] = op[<<h[d \ {Max(d)}], s[Max(d)]>>]
  <2>1. s[Max(d)] \in Lines
    BY <1>5, <1>10
  <2>2. h[d] = IF s[Max(d)].url = url /\ url # Dash
               THEN h[d \ {Max(d)}] + s[Max(d)].size ELSE h[d \ {Max(d)}]
    BY <1>8, <1>10
  <2>3. op[<<h[d \ {Max(d)}], s[Max(d)]>>] = IF s[Max(d)].url = url /\ url # Dash
               THEN h[d \ {Max(d)}] + s[Max(d)].size ELSE h[d \ {Max(d)}]
    BY <1>3, <1>10, <2>1
  <2> QED
    BY <2>2, <2>3
<1>11. Agrees(h, Nat, 0, op, s)
  BY <1>9, <1>10 DEF Agrees
<1>12. h[1..Len(s)] = Fold(op, 0, s)
  BY <1>1, <1>2, <1>11, FoldOf
<1> QED
  BY <1>8, <1>12 DEF Amount, op, s

LEMMA RefererCountIs ==
  ASSUME NEW w, NEW ref, ref # Dash, log[files[w]] \in Seq(Lines)
  PROVE  Logs!RefererCount(w, ref) = Amount("refs", ref, log[files[w]])
<1> DEFINE s == log[files[w]]
           n == Len(s)
           D == SUBSET (1..n)
           op == Gain("refs", ref)
           Eq(h) == h = [d \in D |-> IF d = {} THEN 0
                                     ELSE IF s[Max(d)].ref = ref
                                          THEN h[d \ {Max(d)}] + 1
                                          ELSE h[d \ {Max(d)}]]
<1>1. n \in Nat /\ s \in Seq(Lines)
  OBVIOUS
<1>2. Folder(Nat, Lines, 0, op)
  BY GainFolder DEF Kinds
<1>3. ASSUME NEW x \in Nat, NEW ll \in Lines
      PROVE  op[<<x, ll>>] = IF ll.ref = ref THEN x + 1 ELSE x
  <2>1. <<x, ll>> \in Nat \X Lines
    OBVIOUS
  <2> QED
    BY <2>1 DEF Gain, KeyOf, PlusOf
<1> HIDE DEF s, op
<1>4. PICK g \in [D -> Nat] : Iterates(g, n, 0, op, s)
  BY <1>1, <1>2, Iteration
<1>5. ASSUME NEW d \in D, d # {}
      PROVE  Max(d) \in 1..n /\ d \ {Max(d)} \in D /\ s[Max(d)] \in Lines
  BY <1>1, <1>5, MaxWithin
<1>6. Eq(g)
  <2> SUFFICES ASSUME NEW d \in D, d # {}
               PROVE  g[d] = IF s[Max(d)].ref = ref
                             THEN g[d \ {Max(d)}] + 1 ELSE g[d \ {Max(d)}]
    BY <1>4 DEF Iterates
  <2>1. g[d \ {Max(d)}] \in Nat /\ s[Max(d)] \in Lines
    BY <1>4, <1>5
  <2>2. g[d] = op[<<g[d \ {Max(d)}], s[Max(d)]>>]
    BY <1>4 DEF Iterates
  <2> QED
    BY <1>3, <2>1, <2>2
<1>7. Logs!RefererCount(w, ref) = (CHOOSE h : Eq(h))[1..n]
  BY <1>1, DOMAIN s = 1..n DEF Logs!RefererCount, Logs!FoldLeft, Logs!MapThenFoldSet, Logs!Max, Max, s
<1>8. PICK h : Eq(h) /\ Logs!RefererCount(w, ref) = h[1..n]
  BY <1>6, <1>7
<1>9. h[{}] = 0
  BY <1>8
<1>10. ASSUME NEW d \in D, d # {}, h[d \ {Max(d)}] \in Nat
       PROVE  h[d] = op[<<h[d \ {Max(d)}], s[Max(d)]>>]
  <2>1. s[Max(d)] \in Lines
    BY <1>5, <1>10
  <2>2. h[d] = IF s[Max(d)].ref = ref
               THEN h[d \ {Max(d)}] + 1 ELSE h[d \ {Max(d)}]
    BY <1>8, <1>10
  <2>3. op[<<h[d \ {Max(d)}], s[Max(d)]>>] = IF s[Max(d)].ref = ref
               THEN h[d \ {Max(d)}] + 1 ELSE h[d \ {Max(d)}]
    BY <1>3, <1>10, <2>1
  <2> QED
    BY <2>2, <2>3
<1>11. Agrees(h, Nat, 0, op, s)
  BY <1>9, <1>10 DEF Agrees
<1>12. h[1..Len(s)] = Fold(op, 0, s)
  BY <1>1, <1>2, <1>11, FoldOf
<1> QED
  BY <1>8, <1>12 DEF Amount, op, s

-----------------------------------------------------------------------------
(***************************************************************************)
(* What the analyser has read and merged, at each of its places.           *)
(***************************************************************************)
WorkerStates == {"none", "open", "read", "caches", "null", "nomem"}
Indices == 1..Len(files)

DataType ==
  /\ worker \in [Indices -> WorkerStates] /\ log \in [FileNames -> Seq(Lines)]
  /\ DOMAIN caches = Indices

(* Each log has one worker, whose tables are what it has read so far, as   *)
(* long as that is an int; who reads no log has empty ones.                *)
Apart == \A v, w \in Indices : files[v] = files[w] /\ files[v] \in FileNames => v = w

TableRight(tables, kind, w) ==
  /\ IsTable(Table(tables, kind), Keys(kind))
  /\ files[w] \in FileNames => \A k \in Keys(kind) :
       Amount(kind, k, log[files[w]]) <= IntMax =>
         Logs!Lookup(Table(tables, kind), k) = Amount(kind, k, log[files[w]])
  /\ files[w] \notin FileNames => DOMAIN Table(tables, kind) = {}

CachesRight == \A w \in Indices, kind \in Kinds : TableRight(caches[w], kind, w)

(* Nothing is read before the workers are created, one after the other.    *)
Early ==
  main \in {"count", "list"} =>
    /\ counter = 1 /\ \A f \in FileNames : log[f] = <<>>
    /\ \A w \in Indices : worker[w] = "none"
    /\ \A w \in Indices, kind \in Kinds : DOMAIN Table(caches[w], kind) = {}
    /\ main = "list" => \A w \in Indices : files[w] = "garbage"

Created == main = "create" => \A w \in Indices : w >= counter => worker[w] = "none"
Returned == main \in {"join", "done"} => \A w \in Indices : w < counter => worker[w] \in {"caches", "nomem"}

(* The totals are the sums over the tables merged so far.                  *)
Done == {w \in Indices : w < counter /\ worker[w] = "caches" /\ files[w] \in FileNames}
Amounts(kind, k) == [w \in Done |-> Amount(kind, k, log[files[w]])]

TotalsRight ==
  \A kind \in Kinds :
    /\ IsTable(Table(totals, kind), Keys(kind))
    /\ main \in {"count", "list", "create"} => DOMAIN Table(totals, kind) = {}
    /\ main \in {"join", "done"} => \A k \in Keys(kind) :
         (\A w \in Done : Amount(kind, k, log[files[w]]) <= IntMax) =>
           Logs!Lookup(Table(totals, kind), k) = Logs!AsInt(SumOf(Amounts(kind, k)))

Reported == main = "done" => counter > Len(files) /\ total = Logs!Sum(totals.queries)

LogsData ==
  /\ DataType /\ Apart /\ CachesRight /\ Early /\ Created /\ Returned /\ TotalsRight /\ Reported

LEMMA FileNamesFacts == "garbage" \notin FileNames /\ FileNames \cap Logs!Dots = {}
  BY ProgramsAssumption DEF Logs!LogDistributorAssumption

LEMMA DataInit == Logs!Init => LogsData
<1> SUFFICES ASSUME Logs!Init PROVE LogsData
  OBVIOUS
<1>1. /\ files = <<>> /\ worker = <<>> /\ caches = <<>> /\ log = [f \in FileNames |-> <<>>]
      /\ totals = [queries |-> <<>>, refs |-> <<>>] /\ main = "count" /\ counter = 1
  BY DEF Logs!Init
<1>2. Indices = {} /\ DOMAIN caches = {}
  BY <1>1 DEF Indices
<1>3. worker \in [Indices -> WorkerStates]
  BY <1>1, <1>2
<1>4. DataType
  BY <1>1, <1>2, <1>3 DEF DataType
<1>5. TotalsRight
  <2>1. \A kind \in Kinds : Table(totals, kind) = <<>>
    BY <1>1 DEF Table
  <2> QED
    BY <1>1, <2>1, EmptyTable DEF TotalsRight
<1> QED
  BY <1>1, <1>2, <1>4, <1>5
     DEF LogsData, Apart, CachesRight, Early, Created, Returned, Reported

(* Steps that leave the tables alone.                                      *)
LEMMA DataQuiet ==
  ASSUME LogsData, UNCHANGED <<files, log, worker, caches, totals, total, counter>>,
         main' \in {main, "exited", "undefined"}
  PROVE  LogsData'
<1> USE DEF LogsData
<1>1. Indices' = Indices /\ Done' = Done
  BY DEF Indices, Done
<1>2. DataType' /\ Apart'
  BY <1>1 DEF DataType, Apart
<1>3. CachesRight'
  BY <1>1 DEF CachesRight, TableRight
<1>4. Early' /\ Created' /\ Returned' /\ Reported'
  BY <1>1 DEF Early, Created, Returned, Reported
<1>5. \A kind, k : Amounts(kind, k)' = Amounts(kind, k)
  BY <1>1 DEF Amounts
<1>6. TotalsRight'
  BY <1>1, <1>5 DEF TotalsRight
<1> QED
  BY <1>2, <1>3, <1>4, <1>6

(* A worker goes on: none that has been joined does.                       *)
LEMMA NotJoined ==
  ASSUME LogsInv, LogsData, NEW w \in Indices, worker[w] \in {"open", "read"}, Logs!Running
  PROVE  /\ main \in {"create", "join"}
         /\ main = "create" => w < counter
         /\ main = "join" => ~(w < counter)
<1>1. main # "count" /\ main # "list"
  BY DEF LogsData, Early
<1>2. main \in {"create", "join"}
  BY <1>1 DEF Logs!Running
<1>3. counter \in Nat /\ w \in Nat
  BY DEF LogsInv, LogsType, Indices
<1> QED
  BY <1>2, <1>3 DEF LogsData, Created, Returned

LEMMA WorkerGoesOn ==
  ASSUME LogsInv, LogsData, NEW w \in Indices, worker[w] \in {"open", "read"}, Logs!Running,
         NEW res \in WorkerStates, worker' = [worker EXCEPT ![w] = res],
         UNCHANGED <<files, log, caches, totals, total, counter, main>>
  PROVE  LogsData'
<1> USE DEF LogsData
<1>1. /\ main \in {"create", "join"} /\ main' = main
      /\ main = "create" => w < counter
      /\ main = "join" => ~(w < counter)
  BY NotJoined
<1>2. Indices' = Indices /\ worker \in [Indices -> WorkerStates] /\ counter \in Nat /\ w \in Nat
  BY DEF Indices, DataType, LogsInv, LogsType
<1>3. worker' \in [Indices -> WorkerStates] /\ \A v \in Indices : v # w => worker'[v] = worker[v]
  BY <1>2
<1>4. DataType' /\ Apart'
  BY <1>2, <1>3 DEF DataType, Apart
<1>5. CachesRight'
  BY <1>2 DEF CachesRight, TableRight
<1>6. Created' /\ Returned'
  BY <1>1, <1>2, <1>3 DEF Created, Returned
<1>7. Early' /\ Reported'
  BY <1>1 DEF Early, Reported
<1>8. TotalsRight'
  <2>1. CASE main = "create"
    BY <1>1, <2>1 DEF TotalsRight
  <2>2. CASE main = "join"
    <3>1. Done' = Done
      BY <1>1, <1>2, <1>3, <2>2 DEF Done
    <3>2. \A kind, k : Amounts(kind, k)' = Amounts(kind, k)
      BY <3>1 DEF Amounts
    <3> QED
      BY <1>1, <2>2, <3>1, <3>2 DEF TotalsRight
  <2> QED
    BY <1>1, <2>1, <2>2
<1> QED
  BY <1>4, <1>5, <1>6, <1>7, <1>8

(* A line that is read goes into the tables of its worker and no others.   *)
LEMMA LineCounted ==
  ASSUME NEW kind \in Kinds, NEW hash, IsTable(hash, Keys(kind)), NEW s \in Seq(Lines), NEW ll \in Lines,
         \A k \in Keys(kind) : Amount(kind, k, s) <= IntMax => Logs!Lookup(hash, k) = Amount(kind, k, s)
  PROVE  LET new == Logs!Inc(hash, KeyOf(kind, ll), PlusOf(kind, ll))
         IN  /\ IsTable(new, Keys(kind))
             /\ \A k \in Keys(kind) : Amount(kind, k, Append(s, ll)) <= IntMax =>
                  Logs!Lookup(new, k) = Amount(kind, k, Append(s, ll))
<1> DEFINE key == KeyOf(kind, ll)
           plus == PlusOf(kind, ll)
           new == Logs!Inc(hash, key, plus)
<1>1. plus \in Nat /\ (key # Dash => key \in Keys(kind))
  BY LinesFacts DEF Keys
<1>2. \A k \in Keys(kind) : k # Dash
  BY DEF Keys
<1>3. CASE key = Dash
  <2>1. new = hash
    BY <1>3 DEF Logs!Inc
  <2>2. \A k \in Keys(kind) : Amount(kind, k, Append(s, ll)) = Amount(kind, k, s)
    BY <1>2, <1>3, AmountFacts
  <2> QED
    BY <2>1, <2>2
<1>4. CASE key # Dash
  <2>1. key \in Keys(kind)
    BY <1>1, <1>4
  <2> HIDE DEF key, plus
  <2>2. /\ IsTable(new, Keys(kind)) /\ Logs!Lookup(hash, key) \in Int
        /\ plus = 0 => new = hash
        /\ plus # 0 => Logs!Lookup(new, key) = Logs!AsInt(Logs!Lookup(hash, key) + plus)
        /\ \A k : k # key => Logs!Lookup(new, k) = Logs!Lookup(hash, k)
    BY <1>1, <1>4, <2>1, IncFacts
  <2> HIDE DEF new
  <2>3. ASSUME NEW k \in Keys(kind), Amount(kind, k, Append(s, ll)) <= IntMax
        PROVE  Logs!Lookup(new, k) = Amount(kind, k, Append(s, ll))
    <3>1. Amount(kind, k, s) \in Nat
      BY AmountFacts
    <3>2. CASE k # key
      <4>1. Amount(kind, k, Append(s, ll)) = Amount(kind, k, s)
        BY <3>2, AmountFacts DEF key
      <4> QED
        BY <2>2, <2>3, <3>2, <4>1
    <3>3. CASE k = key
      <4>1. Amount(kind, k, Append(s, ll)) = Amount(kind, k, s) + plus
        BY <1>4, <3>3, AmountFacts DEF key, plus
      <4>2. Amount(kind, k, s) <= IntMax /\ Amount(kind, k, s) + plus \in 0..IntMax
        BY <1>1, <2>3, <3>1, <4>1, IntMaxFacts
      <4>3. Logs!Lookup(hash, k) = Amount(kind, k, s)
        BY <4>2
      <4>4. CASE plus = 0
        BY <2>2, <3>1, <4>1, <4>3, <4>4
      <4>5. CASE plus # 0
        <5>1. Logs!AsInt(Amount(kind, k, s) + plus) = Amount(kind, k, s) + plus
          <6> DEFINE v == Amount(kind, k, s) + plus
          <6>1. v \in Int /\ v \in -IntMax - 1 .. IntMax
            BY <4>2, IntMaxFacts
          <6> HIDE DEF v
          <6>2. Logs!AsInt(v) = v
            BY <6>1, AsIntFacts
          <6> QED
            BY <6>2 DEF v
        <5> QED
          BY <2>2, <3>3, <4>1, <4>3, <4>5, <5>1
      <4> QED
        BY <4>4, <4>5
    <3> QED
      BY <3>2, <3>3
  <2> QED
    BY <2>2, <2>3 DEF new, key, plus
<1> QED
  BY <1>3, <1>4

LEMMA ReadLineKeeps ==
  ASSUME LogsInv, LogsData, NEW w \in Indices, Logs!ReadLine(w)
  PROVE  LogsData'
<1> USE DEF LogsData
<1>1. PICK ll \in Lines :
        /\ log' = [log EXCEPT ![files[w]] = Append(@, ll)]
        /\ caches' = [caches EXCEPT ![w] = [queries |-> Logs!Inc(@.queries, ll.url, ll.size),
                                            refs |-> Logs!Inc(@.refs, ll.ref, 1)]]
  BY DEF Logs!ReadLine
<1>2. /\ worker[w] = "read" /\ files[w] \in FileNames /\ Logs!Running
      /\ UNCHANGED <<files, worker, totals, total, main, counter>>
  BY DEF Logs!ReadLine
<1>3. /\ main \in {"create", "join"}
      /\ main = "join" => ~(w < counter)
  BY <1>2, NotJoined
<1>4. Indices' = Indices /\ log \in [FileNames -> Seq(Lines)] /\ DOMAIN caches = Indices
  BY <1>2 DEF Indices, DataType
<1>5. /\ log' \in [FileNames -> Seq(Lines)] /\ log'[files[w]] = Append(log[files[w]], ll)
      /\ \A f \in FileNames : f # files[w] => log'[f] = log[f]
  <2>1. log[files[w]] \in Seq(Lines) /\ Append(log[files[w]], ll) \in Seq(Lines)
    BY <1>2, <1>4
  <2> QED
    BY <1>1, <1>2, <1>4, <2>1
<1>6. /\ DOMAIN caches' = Indices
      /\ \A kind \in Kinds : Table(caches'[w], kind)
                               = Logs!Inc(Table(caches[w], kind), KeyOf(kind, ll), PlusOf(kind, ll))
      /\ \A v \in Indices : v # w => caches'[v] = caches[v]
  BY <1>1, <1>4 DEF Table, KeyOf, PlusOf, Kinds
<1>7. DataType' /\ Apart'
  BY <1>2, <1>4, <1>5, <1>6 DEF DataType, Apart
<1>8. ASSUME NEW v \in Indices, NEW kind \in Kinds PROVE TableRight(caches[v], kind, v)'
  <2>1. TableRight(caches[v], kind, v)
    BY DEF CachesRight
  <2>2. CASE v # w
    <3>1. files[v] \in FileNames => log'[files[v]] = log[files[v]]
      BY <1>2, <1>5, <2>2 DEF Apart
    <3>2. caches'[v] = caches[v] /\ files' = files
      BY <1>2, <1>6, <2>2
    <3> QED
      BY <2>1, <3>1, <3>2 DEF TableRight
  <2>3. CASE v = w
    <3> DEFINE s == log[files[w]]
               hash == Table(caches[w], kind)
               new == Logs!Inc(hash, KeyOf(kind, ll), PlusOf(kind, ll))
    <3>1. s \in Seq(Lines)
      BY <1>2, <1>4
    <3>2. /\ IsTable(hash, Keys(kind))
          /\ \A k \in Keys(kind) : Amount(kind, k, s) <= IntMax => Logs!Lookup(hash, k) = Amount(kind, k, s)
      BY <1>2, <2>1, <2>3 DEF TableRight
    <3> HIDE DEF s, hash
    <3>3. /\ IsTable(new, Keys(kind))
          /\ \A k \in Keys(kind) : Amount(kind, k, Append(s, ll)) <= IntMax =>
               Logs!Lookup(new, k) = Amount(kind, k, Append(s, ll))
      BY <3>1, <3>2, LineCounted
    <3>4. Table(caches'[w], kind) = new /\ log'[files[w]] = Append(s, ll) /\ files' = files
      BY <1>2, <1>5, <1>6 DEF s, hash
    <3> HIDE DEF new
    <3> QED
      BY <1>2, <2>3, <3>3, <3>4 DEF TableRight
  <2> QED
    BY <2>2, <2>3
<1>9. CachesRight'
  BY <1>4, <1>8 DEF CachesRight
<1>10. Created' /\ Returned' /\ Early' /\ Reported'
  BY <1>2, <1>3, <1>4 DEF Created, Returned, Early, Reported
<1>11. TotalsRight'
  <2>1. CASE main = "create"
    BY <1>2, <2>1 DEF TotalsRight
  <2>2. CASE main = "join"
    <3>1. Done' = Done /\ w \notin Done
      BY <1>2, <1>3, <1>4, <2>2 DEF Done
    <3>2. \A v \in Done : log'[files'[v]] = log[files[v]]
      BY <1>2, <1>5, <3>1 DEF Apart, Done
    <3>3. \A kind, k : Amounts(kind, k)' = Amounts(kind, k)
      BY <3>1, <3>2 DEF Amounts
    <3> QED
      BY <1>2, <2>2, <3>1, <3>2, <3>3 DEF TotalsRight
  <2> QED
    BY <1>3, <2>1, <2>2
<1> QED
  BY <1>7, <1>9, <1>10, <1>11

LEMMA CreateKeeps == ASSUME LogsInv, LogsData, Logs!CreateWorker PROVE LogsData'
<1> USE DEF LogsData
<1>1. /\ main = "create" /\ counter <= Len(files) /\ counter \in Nat \ {0} /\ Len(files) \in Nat
      /\ worker' = [worker EXCEPT ![counter] = "open"] /\ counter' = counter + 1
      /\ UNCHANGED <<files, log, caches, totals, total, main>>
  BY DEF Logs!CreateWorker, Logs!n, LogsInv, LogsType
<1>2. Indices' = Indices /\ counter \in Indices /\ Indices \subseteq Nat
  BY <1>1 DEF Indices
<1>3. /\ worker' \in [Indices -> WorkerStates]
      /\ \A w \in Indices : w # counter => worker'[w] = worker[w]
  BY <1>1, <1>2 DEF DataType, WorkerStates
<1>4. DataType' /\ Apart'
  BY <1>1, <1>2, <1>3 DEF DataType, Apart
<1>5. CachesRight'
  BY <1>1, <1>2 DEF CachesRight, TableRight
<1>6. Created'
  <2> SUFFICES ASSUME NEW w \in Indices, w >= counter + 1 PROVE worker'[w] = "none"
    BY <1>1, <1>2 DEF Created
  <2>1. w # counter /\ w >= counter
    BY <1>1, <1>2
  <2> QED
    BY <1>1, <1>3, <2>1 DEF Created
<1>7. Early' /\ Returned' /\ Reported'
  BY <1>1 DEF Early, Returned, Reported
<1>8. TotalsRight'
  BY <1>1 DEF TotalsRight
<1> QED
  BY <1>4, <1>5, <1>6, <1>7, <1>8

LEMMA AllCreatedKeeps == ASSUME LogsInv, LogsData, Logs!AllCreated PROVE LogsData'
<1> USE DEF LogsData
<1>1. /\ main = "create" /\ main' = "join" /\ counter' = 1
      /\ UNCHANGED <<files, log, worker, caches, totals, total>>
  BY DEF Logs!AllCreated
<1>2. Indices' = Indices /\ \A w \in Indices : ~(w < 1)
  BY <1>1 DEF Indices
<1>3. DataType' /\ Apart'
  BY <1>1, <1>2 DEF DataType, Apart
<1>4. CachesRight'
  BY <1>1, <1>2 DEF CachesRight, TableRight
<1>5. Created' /\ Early' /\ Returned' /\ Reported'
  BY <1>1, <1>2 DEF Created, Early, Returned, Reported
<1>6. TotalsRight'
  <2>1. Done' = {}
    BY <1>1, <1>2 DEF Done
  <2>2. \A kind, k : SumOf(Amounts(kind, k)') = 0
    <3> TAKE kind, k
    <3>1. DOMAIN Amounts(kind, k)' = {}
      BY <2>1 DEF Amounts
    <3> QED
      BY <3>1, SumEmpty
  <2>3. \A kind \in Kinds : \A k : Logs!Lookup(Table(totals, kind), k) = 0
    BY <1>1 DEF TotalsRight, Logs!Lookup
  <2>4. Logs!AsInt(0) = 0
    BY AsIntFacts, IntMaxFacts, 0 \in -IntMax - 1 .. IntMax
  <2> QED
    BY <1>1, <2>2, <2>3, <2>4 DEF TotalsRight
<1> QED
  BY <1>3, <1>4, <1>5, <1>6

LEMMA IndicesFinite ==
  ASSUME LogsInv
  PROVE  Len(files) \in Nat /\ IsFiniteSet(Indices) /\ \A S \in SUBSET Indices : IsFiniteSet(S)
<1>1. Len(files) \in Nat /\ 1 \in Int /\ Len(files) \in Int
  BY DEF LogsInv, LogsType
<1>2. IsFiniteSet(1..Len(files))
  BY <1>1, FS_Interval
<1> QED
  BY <1>1, <1>2, FS_Subset DEF Indices

LEMMA AmountsNumbers ==
  ASSUME LogsInv, DataType, NEW kind \in Kinds, NEW k
  PROVE  Numbers(Amounts(kind, k)) /\ DOMAIN Amounts(kind, k) = Done
<1>1. DOMAIN Amounts(kind, k) = Done /\ Done \subseteq Indices
  BY DEF Amounts, Done
<1>2. ASSUME NEW w \in Done PROVE Amounts(kind, k)[w] \in Int
  <2>1. log[files[w]] \in Seq(Lines)
    BY DEF Done, DataType
  <2>2. Amount(kind, k, log[files[w]]) \in Nat
    BY <2>1, AmountFacts
  <2> QED
    BY <2>2 DEF Amounts
<1>3. IsFiniteSet(Done)
  BY <1>1, IndicesFinite
<1> QED
  BY <1>1, <1>2, <1>3 DEF Numbers

LEMMA JoinKeeps == ASSUME LogsInv, LogsInv', LogsData, Logs!JoinWorker PROVE LogsData'
<1> USE DEF LogsData
<1> DEFINE c == counter
<1>1. /\ main = "join" /\ c <= Len(files) /\ c \in Nat \ {0} /\ Len(files) \in Nat
      /\ worker[c] \in {"caches", "nomem"} /\ counter' = c + 1
      /\ totals' = IF worker[c] = "caches" THEN Logs!MergeBoth(totals, caches[c]) ELSE totals
      /\ UNCHANGED <<files, log, worker, caches, total, main>>
  BY DEF Logs!JoinWorker, Logs!n, LogsInv, LogsType
<1> HIDE DEF c
<1>0. counter = c
  BY DEF c
<1>2. Indices' = Indices /\ c \in Indices /\ Indices \subseteq Nat
  BY <1>1 DEF Indices
<1>3. DataType' /\ Apart'
  BY <1>1, <1>2 DEF DataType, Apart
<1>4. CachesRight'
  BY <1>1, <1>2 DEF CachesRight, TableRight
<1>5. Created' /\ Early' /\ Reported'
  BY <1>1 DEF Created, Early, Reported
<1>6. \A w \in Indices : w < c + 1 <=> w < c \/ w = c
  BY <1>1, <1>2
<1>7. Returned'
  BY <1>1, <1>2, <1>6, <1>0 DEF Returned
<1>8. ASSUME NEW kind \in Kinds
      PROVE  /\ IsTable(Table(totals', kind), Keys(kind))
             /\ \A k \in Keys(kind) :
                  (\A w \in Done' : Amount(kind, k, log[files[w]]) <= IntMax) =>
                    Logs!Lookup(Table(totals', kind), k) = Logs!AsInt(SumOf(Amounts(kind, k)'))
  <2> DEFINE hash == Table(totals, kind)
             new == Table(caches[c], kind)
             K == Keys(kind)
  <2>1. IsTable(hash, K) /\ IsTable(new, K) /\ IsFiniteSet(K) /\ Dash \notin K
    BY <1>2, LinesFacts DEF TotalsRight, CachesRight, TableRight, Keys
  <2>2. Table(totals', kind) = IF worker[c] = "caches" THEN Logs!Merge(hash, new) ELSE hash
    BY <1>1 DEF Table, Logs!MergeBoth
  <2>3. ASSUME NEW k \in K, \A w \in Done : Amount(kind, k, log[files[w]]) <= IntMax
        PROVE  /\ SumOf(Amounts(kind, k)) \in Int
               /\ Logs!Lookup(hash, k) = Logs!AsInt(SumOf(Amounts(kind, k)))
    <3>1. SumOf(Amounts(kind, k)) \in Int
      BY AmountsNumbers, SumsOn, SumsAgree
    <3> QED
      BY <1>1, <2>3, <3>1 DEF TotalsRight
  <2>4. CASE worker[c] = "nomem"
    <3>1. Done' = Done
      BY <1>1, <1>2, <1>6, <1>0, <2>4 DEF Done
    <3>2. \A k : Amounts(kind, k)' = Amounts(kind, k)
      BY <1>1, <3>1 DEF Amounts
    <3>3. Table(totals', kind) = hash
      BY <2>2, <2>4
    <3> HIDE DEF hash, new
    <3> QED
      BY <2>1, <2>3, <3>1, <3>2, <3>3
  <2>5. CASE worker[c] = "caches" /\ files[c] \notin FileNames
    <3>1. Done' = Done
      BY <1>1, <1>2, <1>6, <1>0, <2>5 DEF Done
    <3>2. \A k : Amounts(kind, k)' = Amounts(kind, k)
      BY <1>1, <3>1 DEF Amounts
    <3>3. Table(totals', kind) = Logs!Merge(hash, new)
      BY <2>2, <2>5
    <3>4. DOMAIN new = {}
      BY <1>2, <2>5 DEF CachesRight, TableRight
    <3> HIDE DEF hash, new, K
    <3>5. \A k : Logs!Lookup(new, k) = 0
      BY <3>4 DEF Logs!Lookup
    <3>6. IsTable(Logs!Merge(hash, new), K)
      BY <2>1, MergeFacts
    <3>7. ASSUME NEW k \in K, \A w \in Done : Amount(kind, k, log[files[w]]) <= IntMax
          PROVE  Logs!Lookup(Logs!Merge(hash, new), k) = Logs!AsInt(SumOf(Amounts(kind, k)))
      <4> DEFINE s == SumOf(Amounts(kind, k))
      <4>1. s \in Int /\ Logs!Lookup(hash, k) = Logs!AsInt(s)
        BY <2>3, <3>7
      <4> HIDE DEF s
      <4>2. Logs!Lookup(new, k) \in Nat /\ Logs!Lookup(new, k) = 0
        BY <3>5
      <4>3. Logs!Lookup(Logs!Merge(hash, new), k) = Logs!AsInt(s + Logs!Lookup(new, k))
        BY <2>1, <3>7, <4>1, <4>2, MergeFacts
      <4>4. s + Logs!Lookup(new, k) = s
        BY <4>1, <4>2
      <4> QED
        BY <4>3, <4>4 DEF s
    <3> QED
      BY <3>1, <3>2, <3>3, <3>6, <3>7 DEF K
  <2>6. CASE worker[c] = "caches" /\ files[c] \in FileNames
    <3>1. Done' = Done \cup {c} /\ c \notin Done /\ Done \subseteq Indices
      <4>1. Done' = {w \in Indices : w < c + 1 /\ worker[w] = "caches" /\ files[w] \in FileNames}
        BY <1>1, <1>2 DEF Done
      <4>2. Done = {w \in Indices : w < c /\ worker[w] = "caches" /\ files[w] \in FileNames}
        BY <1>0 DEF Done
      <4>3. ~(c < c)
        BY <1>1
      <4>4. \A w \in Indices : w < c + 1 /\ worker[w] = "caches" /\ files[w] \in FileNames
                               <=> (w < c /\ worker[w] = "caches" /\ files[w] \in FileNames) \/ w = c
        BY <1>6, <2>6
      <4>5. \A w : w \in Done' <=> w \in Done \/ w = c
        BY <1>2, <4>1, <4>2, <4>4, Zenon
      <4> QED
        BY <4>2, <4>3, <4>5
    <3>2. Table(totals', kind) = Logs!Merge(hash, new)
      BY <2>2, <2>6
    <3>3. \A k \in K : Amount(kind, k, log[files[c]]) <= IntMax =>
                         Logs!Lookup(new, k) = Amount(kind, k, log[files[c]])
      BY <1>2, <2>6 DEF CachesRight, TableRight
    <3>4. \A k : Amount(kind, k, log[files[c]]) \in Nat
      BY <2>6, AmountFacts DEF DataType
    <3> HIDE DEF hash, new, K
    <3>5. IsTable(Logs!Merge(hash, new), K)
      BY <2>1, MergeFacts
    <3>6. ASSUME NEW k \in K, \A w \in Done' : Amount(kind, k, log[files[w]]) <= IntMax
          PROVE  Logs!Lookup(Logs!Merge(hash, new), k) = Logs!AsInt(SumOf(Amounts(kind, k)'))
      <4> DEFINE s == SumOf(Amounts(kind, k))
                 a == Amount(kind, k, log[files[c]])
                 F == [w \in Done' |-> Amount(kind, k, log[files[w]])]
                 G == [y \in DOMAIN F \ {c} |-> F[y]]
      <4>1. s \in Int /\ Logs!Lookup(hash, k) = Logs!AsInt(s)
        BY <2>3, <3>1, <3>6
      <4>2. a \in Nat /\ Logs!Lookup(new, k) = a
        BY <3>1, <3>3, <3>4, <3>6
      <4>3. Logs!Lookup(Logs!Merge(hash, new), k) = Logs!AsInt(s + a)
        <5> HIDE DEF s, a
        <5>1. Logs!Lookup(Logs!Merge(hash, new), k) = Logs!AsInt(s + Logs!Lookup(new, k))
          BY <2>1, <3>6, <4>1, <4>2, MergeFacts
        <5> QED
          BY <4>2, <5>1
      <4>4. Amounts(kind, k)' = F
        BY <1>1 DEF Amounts
      <4>5. Numbers(F)
        <5>1. IsFiniteSet(Done')
          BY <1>2, <3>1, IndicesFinite
        <5>2. \A w \in Done' : Amount(kind, k, log[files[w]]) \in Int
          <6> SUFFICES ASSUME NEW w \in Done' PROVE Amount(kind, k, log[files[w]]) \in Int
            OBVIOUS
          <6>1. log[files[w]] \in Seq(Lines)
            BY <2>6, <3>1 DEF Done, DataType
          <6>2. Amount(kind, k, log[files[w]]) \in Nat
            BY <6>1, AmountFacts
          <6> QED
            BY <6>2
        <5> QED
          BY <5>1, <5>2 DEF Numbers
      <4>6. c \in DOMAIN F /\ F[c] = a
        BY <3>1
      <4>7. G = Amounts(kind, k)
        <5>1. DOMAIN F \ {c} = Done
          BY <3>1
        <5>2. \A y \in Done : F[y] = Amount(kind, k, log[files[y]])
          BY <3>1
        <5> HIDE DEF F
        <5> QED
          BY <5>1, <5>2 DEF Amounts
      <4> HIDE DEF F
      <4>8. SumOf(F) = F[c] + SumOf(G)
        BY <4>5, <4>6, SumWithout
      <4> HIDE DEF G
      <4>9. SumOf(F) = s + a
        BY <4>1, <4>2, <4>6, <4>7, <4>8
      <4> QED
        BY <4>3, <4>4, <4>9
    <3> QED
      BY <3>2, <3>5, <3>6 DEF K
  <2> QED
    BY <1>1, <2>4, <2>5, <2>6
<1>9. TotalsRight'
  BY <1>1, <1>8 DEF TotalsRight
<1> QED
  BY <1>3, <1>4, <1>5, <1>7, <1>9

LEMMA ReportKeeps == ASSUME LogsInv, LogsData, Logs!Report PROVE LogsData'
<1> USE DEF LogsData
<1>1. /\ main = "join" /\ main' = "done" /\ counter > Len(files) /\ total' = Logs!Sum(totals.queries)
      /\ UNCHANGED <<files, log, worker, caches, totals, counter>>
  BY DEF Logs!Report, Logs!n
<1>2. Indices' = Indices /\ Done' = Done
  BY <1>1 DEF Indices, Done
<1>3. DataType' /\ Apart'
  BY <1>1, <1>2 DEF DataType, Apart
<1>4. CachesRight'
  BY <1>1, <1>2 DEF CachesRight, TableRight
<1>5. Early' /\ Created' /\ Returned' /\ Reported'
  BY <1>1, <1>2 DEF Early, Created, Returned, Reported
<1>6. \A kind, k : Amounts(kind, k)' = Amounts(kind, k)
  BY <1>1, <1>2 DEF Amounts
<1>7. TotalsRight'
  BY <1>1, <1>2, <1>6 DEF TotalsRight
<1> QED
  BY <1>3, <1>4, <1>5, <1>7

LEMMA CountKeeps ==
  ASSUME LogsInv, LogsData, NEW found \in Int, Logs!Count(found)
  PROVE  LogsData'
<1> USE DEF LogsData
<1>1. PICK m \in Nat : 1..m = 1..Logs!Workers(found)
  <2>1. Logs!Workers(found) \in Int
    BY ThreadsFacts DEF LogsInv, LogsType
  <2>2. CASE Logs!Workers(found) >= 0
    BY <2>1, <2>2
  <2>3. CASE ~(Logs!Workers(found) >= 0)
    <3>1. 1..0 = 1..Logs!Workers(found)
      BY <2>1, <2>3
    <3> QED
      BY <3>1
  <2> QED
    BY <2>2, <2>3
<1>2. /\ main = "count" /\ main' = "list"
      /\ files' = [k \in 1..m |-> "garbage"] /\ worker' = [k \in 1..m |-> "none"]
      /\ caches' = [k \in 1..m |-> totals]
      /\ UNCHANGED <<log, totals, total, counter>>
  BY <1>1 DEF Logs!Count
<1>3. Indices' = 1..m /\ \A w \in 1..m : files'[w] = "garbage" /\ files'[w] \notin FileNames
  <2>1. Len(files') = m
    BY <1>2
  <2> QED
    BY <1>2, <2>1, FileNamesFacts DEF Indices
<1>4. DataType' /\ Apart'
  BY <1>2, <1>3 DEF DataType, WorkerStates, Apart
<1>5. CachesRight'
  <2> SUFFICES ASSUME NEW w \in 1..m, NEW kind \in Kinds PROVE TableRight(caches[w], kind, w)'
    BY <1>3 DEF CachesRight
  <2>1. caches'[w] = totals
    BY <1>2
  <2>2. IsTable(Table(totals, kind), Keys(kind)) /\ DOMAIN Table(totals, kind) = {}
    BY <1>2 DEF TotalsRight
  <2> QED
    BY <1>3, <2>1, <2>2 DEF TableRight
<1>6. Early'
  <2>1. \A w \in 1..m, kind \in Kinds : DOMAIN Table(caches'[w], kind) = {}
    BY <1>2 DEF TotalsRight
  <2> QED
    BY <1>2, <1>3, <2>1 DEF Early
<1>7. Created' /\ Returned' /\ Reported'
  BY <1>2 DEF Created, Returned, Reported
<1>8. TotalsRight'
  BY <1>2 DEF TotalsRight
<1> QED
  BY <1>4, <1>5, <1>6, <1>7, <1>8

(* A name is listed once.                                                  *)
LEMMA ListedApart ==
  ASSUME NEW found \in SUBSET FileNames, NEW entries \in Logs!SetToSeqs(found \cup Logs!Dots),
         NEW v \in 1..Len(Logs!Listed(entries)), NEW w \in 1..Len(Logs!Listed(entries)),
         Logs!Listed(entries)[v] = Logs!Listed(entries)[w]
  PROVE  v = w
<1> DEFINE N == Cardinality(found \cup Logs!Dots)
           m == Len(Logs!Listed(entries))
<1>1. entries \in [1..N -> found \cup Logs!Dots] /\ \A j, k \in 1..N : j # k => entries[j] # entries[k]
  BY LogsCardinality DEF Logs!SetToSeqs
<1>2. N \in Nat
  <2>1. IsFiniteSet(found) /\ IsFiniteSet(Logs!Dots)
    <3>1. IsFiniteSet({}) /\ IsFiniteSet({} \cup {"."}) /\ IsFiniteSet(({} \cup {"."}) \cup {".."})
      BY FS_EmptySet, FS_AddElement
    <3>2. Logs!Dots = ({} \cup {"."}) \cup {".."}
      BY DEF Logs!Dots
    <3> QED
      BY <3>1, <3>2, FoundFinite
  <2> QED
    BY <2>1, FS_Union, FS_CardinalityType
<1> HIDE DEF N
<1>3. entries \in Seq(found \cup Logs!Dots) /\ Len(entries) = N
  BY <1>1, <1>2
<1>4. /\ m \in Nat /\ (m = 0 \/ m + 2 <= N)
      /\ \A k \in 1..m : Logs!Listed(entries)[k] = entries[k + 2]
  BY <1>2, <1>3 DEF Logs!Listed
<1> HIDE DEF m
<1>5. v \in 1..m /\ w \in 1..m
  BY DEF m
<1>6. v + 2 \in 1..N /\ w + 2 \in 1..N
  BY <1>2, <1>4, <1>5
<1>7. entries[v + 2] = entries[w + 2]
  BY <1>4, <1>5
<1> QED
  BY <1>1, <1>5, <1>6, <1>7

LEMMA ListKeeps == ASSUME LogsInv, LogsData, Logs!ListFiles PROVE LogsData'
<1> USE DEF LogsData
<1>1. PICK entries \in Logs!SetToSeqs(dir \cup Logs!Dots) :
        /\ files' = [k \in 1..Len(files) |->
                       IF k <= Len(Logs!Listed(entries)) THEN Logs!Listed(entries)[k] ELSE files[k]]
        /\ main' \in {"create", "undefined"}
  BY DEF Logs!ListFiles, Logs!n
<1>2. main = "list" /\ UNCHANGED <<log, worker, caches, totals, total, counter>>
  BY DEF Logs!ListFiles
<1>3. dir \in SUBSET FileNames
  BY DEF LogsInv, LogsType
<1>4. PICK m \in Nat : m = Len(Logs!Listed(entries))
  BY <1>1, <1>3, ListedFacts
<1>5. Len(files) \in Nat /\ Indices' = Indices /\ Indices = 1..Len(files)
  <2>1. Len(files) \in Nat
    BY DEF LogsInv, LogsType
  <2>2. Len(files') = Len(files)
    BY <1>1, <2>1
  <2> QED
    BY <2>1, <2>2 DEF Indices
<1>6. \A w \in Indices : files'[w] = IF w \in 1..m THEN Logs!Listed(entries)[w] ELSE "garbage"
  <2> SUFFICES ASSUME NEW w \in Indices
               PROVE  files'[w] = IF w \in 1..m THEN Logs!Listed(entries)[w] ELSE "garbage"
    OBVIOUS
  <2>1. files'[w] = IF w <= m THEN Logs!Listed(entries)[w] ELSE files[w]
    BY <1>1, <1>4, <1>5
  <2>2. files[w] = "garbage" /\ (w <= m <=> w \in 1..m)
    BY <1>2, <1>4, <1>5 DEF Early
  <2> QED
    BY <2>1, <2>2
<1>7. DataType'
  BY <1>2, <1>5 DEF DataType
<1>8. Apart'
  <2> SUFFICES ASSUME NEW v \in Indices, NEW w \in Indices, files'[v] = files'[w], files'[v] \in FileNames
               PROVE  v = w
    BY <1>5 DEF Apart
  <2>1. v \in 1..m /\ w \in 1..m
    BY <1>6, FileNamesFacts
  <2>2. Logs!Listed(entries)[v] = Logs!Listed(entries)[w]
    BY <1>6, <2>1
  <2> QED
    BY <1>1, <1>3, <1>4, <2>1, <2>2, ListedApart
<1>9. CachesRight'
  <2> SUFFICES ASSUME NEW w \in Indices, NEW kind \in Kinds PROVE TableRight(caches[w], kind, w)'
    BY <1>5 DEF CachesRight
  <2> DEFINE hash == Table(caches[w], kind)
  <2>1. IsTable(hash, Keys(kind)) /\ DOMAIN hash = {}
    BY <1>2 DEF CachesRight, TableRight, Early
  <2>2. \A k : Logs!Lookup(hash, k) = 0
    BY <2>1 DEF Logs!Lookup
  <2>3. \A f \in FileNames, k \in Keys(kind) : Amount(kind, k, log[f]) = 0
    BY <1>2, AmountFacts DEF Early
  <2>4. hash' = hash /\ log' = log
    BY <1>2
  <2> HIDE DEF hash
  <2> QED
    BY <2>1, <2>2, <2>3, <2>4 DEF TableRight, hash
<1>10. Early' /\ Created' /\ Returned' /\ Reported'
  BY <1>1, <1>2, <1>5 DEF Early, Created, Returned, Reported
<1>11. TotalsRight'
  BY <1>1, <1>2 DEF TotalsRight
<1> QED
  BY <1>7, <1>8, <1>9, <1>10, <1>11

LEMMA DataStep == ASSUME LogsInv, LogsInv', LogsData, [Logs!Next]_(Logs!vars) PROVE LogsData'
<1>1. CASE Logs!Rotate \/ Logs!Exit \/ Logs!JoinNull \/ UNCHANGED Logs!vars
  <2>1. UNCHANGED <<files, log, worker, caches, totals, total, counter>>
    BY <1>1 DEF Logs!Rotate, Logs!Exit, Logs!JoinNull, Logs!vars
  <2>2. main' \in {main, "exited", "undefined"}
    BY <1>1 DEF Logs!Rotate, Logs!Exit, Logs!JoinNull, Logs!vars
  <2> QED
    BY <2>1, <2>2, DataQuiet
<1>2. CASE Logs!Main
  <2>1. CASE Logs!JoinNull
    BY <1>1, <2>1
  <2>2. CASE Logs!CountFiles
    <3>1. Logs!Cardinality(dir) \in Int
      BY FoundFinite, LogsCardinality DEF LogsInv, LogsType
    <3> QED
      BY <2>2, <3>1, CountKeeps DEF Logs!CountFiles
  <2>3. CASE Logs!CannotCount
    BY <2>3, CountKeeps DEF Logs!CannotCount
  <2> QED
    BY <1>2, <2>1, <2>2, <2>3, ListKeeps, CreateKeeps, AllCreatedKeeps, JoinKeeps, ReportKeeps DEF Logs!Main
<1>3. ASSUME NEW w \in 1..Logs!n, Logs!Worker(w) PROVE LogsData'
  <2>1. w \in Indices
    BY DEF Logs!n, Indices
  <2>2. CASE Logs!OpenGarbage(w)
    <3>1. UNCHANGED <<files, log, worker, caches, totals, total, counter>> /\ main' = "undefined"
      BY <2>2 DEF Logs!OpenGarbage
    <3> QED
      BY <3>1, DataQuiet
  <2>3. CASE Logs!OpenLog(w) \/ Logs!CannotOpen(w) \/ Logs!Return(w)
    <3>1. /\ worker[w] \in {"open", "read"} /\ Logs!Running
          /\ UNCHANGED <<files, log, caches, totals, total, counter, main>>
      BY <2>3 DEF Logs!OpenLog, Logs!CannotOpen, Logs!Return
    <3>2. \E res \in WorkerStates : worker' = [worker EXCEPT ![w] = res]
      BY <2>3 DEF Logs!OpenLog, Logs!CannotOpen, Logs!Return, WorkerStates
    <3> QED
      BY <2>1, <3>1, <3>2, WorkerGoesOn
  <2> QED
    BY <1>3, <2>1, <2>2, <2>3, ReadLineKeeps DEF Logs!Worker
<1> QED
  BY <1>1, <1>2, <1>3 DEF Logs!Next

(* When the program is done every worker has been joined.                  *)
LEMMA AllDone == ASSUME LogsInv, LogsData, main = "done" PROVE Logs!Merged = Done
<1>1. counter > Len(files) /\ counter \in Nat /\ Len(files) \in Nat
  BY DEF LogsData, Reported, LogsInv, LogsType
<1>2. \A w \in 1..Len(files) : w < counter
  BY <1>1
<1> QED
  BY <1>2 DEF Logs!Merged, Logs!n, Done, Indices

LEMMA MergedLogs ==
  ASSUME LogsInv, LogsData, main = "done", NEW w \in Logs!Merged
  PROVE  /\ \A url : Logs!Bytes(w, url) = Amount("queries", url, log[files[w]])
         /\ \A ref : ref # Dash => Logs!RefererCount(w, ref) = Amount("refs", ref, log[files[w]])
         /\ \A kind \in Kinds : \A k : Amount(kind, k, log[files[w]]) \in Nat
<1>1. log[files[w]] \in Seq(Lines)
  BY DEF Logs!Merged, LogsData, DataType
<1> QED
  BY <1>1, BytesIs, RefererCountIs, AmountFacts

LEMMA BytesSum ==
  ASSUME LogsInv, LogsData, main = "done", NEW url
  PROVE  Logs!MapThenSumSet(LAMBDA w : Logs!Bytes(w, url), Logs!Merged) = SumOf(Amounts("queries", url))
<1> DEFINE S == Logs!Merged
           F == Amounts("queries", url)
           Eq(h) == h = [d \in SUBSET S |-> IF d = {} THEN 0
                                            ELSE Logs!Bytes(First(d), url) + h[d \ {First(d)}]]
<1>1. Numbers(F) /\ DOMAIN F = S /\ \A w \in S : F[w] = Logs!Bytes(w, url)
  BY AllDone, AmountsNumbers, MergedLogs DEF LogsData, Kinds, Amounts
<1>2. \A d \in SUBSET S : d # {} => First(d) \in S
  BY DEF First
<1> HIDE DEF F
<1>3. \A h : Eq(h) <=> AddsUp(h, F)
  BY <1>1, <1>2 DEF AddsUp
<1>4. Logs!MapThenSumSet(LAMBDA w : Logs!Bytes(w, url), Logs!Merged) = (CHOOSE h : Eq(h))[S]
  BY DEF Logs!MapThenSumSet, Logs!MapThenFoldSet, First
<1>5. PICK h : Eq(h) /\ Logs!MapThenSumSet(LAMBDA w : Logs!Bytes(w, url), Logs!Merged) = h[S]
  BY <1>1, <1>3, <1>4, AddedUp
<1> HIDE DEF Eq
<1>6. h[DOMAIN F] = SumOf(F)
  BY <1>1, <1>3, <1>5, AddedUp
<1> QED
  BY <1>1, <1>5, <1>6 DEF F

LEMMA RefererSum ==
  ASSUME LogsInv, LogsData, main = "done", NEW ref, ref # Dash
  PROVE  Logs!MapThenSumSet(LAMBDA w : Logs!RefererCount(w, ref), Logs!Merged) = SumOf(Amounts("refs", ref))
<1> DEFINE S == Logs!Merged
           F == Amounts("refs", ref)
           Eq(h) == h = [d \in SUBSET S |-> IF d = {} THEN 0
                                            ELSE Logs!RefererCount(First(d), ref) + h[d \ {First(d)}]]
<1>1. Numbers(F) /\ DOMAIN F = S /\ \A w \in S : F[w] = Logs!RefererCount(w, ref)
  BY AllDone, AmountsNumbers, MergedLogs DEF LogsData, Kinds, Amounts
<1>2. \A d \in SUBSET S : d # {} => First(d) \in S
  BY DEF First
<1> HIDE DEF F
<1>3. \A h : Eq(h) <=> AddsUp(h, F)
  BY <1>1, <1>2 DEF AddsUp
<1>4. Logs!MapThenSumSet(LAMBDA w : Logs!RefererCount(w, ref), Logs!Merged) = (CHOOSE h : Eq(h))[S]
  BY DEF Logs!MapThenSumSet, Logs!MapThenFoldSet, First
<1>5. PICK h : Eq(h) /\ Logs!MapThenSumSet(LAMBDA w : Logs!RefererCount(w, ref), Logs!Merged) = h[S]
  BY <1>1, <1>3, <1>4, AddedUp
<1> HIDE DEF Eq
<1>6. h[DOMAIN F] = SumOf(F)
  BY <1>1, <1>3, <1>5, AddedUp
<1> QED
  BY <1>1, <1>5, <1>6 DEF F

(* sum() over a table.                                                     *)
LEMMA TableSum ==
  ASSUME NEW hash, Numbers(hash)
  PROVE  Logs!Sum(hash) = Logs!AsInt(SumOf(hash))
<1> DEFINE S == DOMAIN hash
           Eq(h) == h = [d \in SUBSET S |-> IF d = {} THEN 0 ELSE hash[First(d)] + h[d \ {First(d)}]]
<1>1. \A h : Eq(h) <=> AddsUp(h, hash)
  BY DEF AddsUp
<1>2. Logs!SumFunction(hash) = (CHOOSE h : Eq(h))[S]
  BY DEF Logs!SumFunction, Logs!SumFunctionOnSet, Logs!FoldFunctionOnSet, Logs!MapThenFoldSet, First
<1>3. PICK h : Eq(h) /\ Logs!SumFunction(hash) = h[S]
  BY <1>1, <1>2, AddedUp
<1> HIDE DEF Eq
<1>4. h[DOMAIN hash] = SumOf(hash)
  BY <1>1, <1>3, AddedUp
<1> QED
  BY <1>3, <1>4 DEF Logs!Sum

(* The sum over the urls of what the logs say of each.                     *)
LEMMA UrlsSum ==
  ASSUME LogsInv, LogsData, main = "done"
  PROVE  LET Of(url) == Logs!MapThenSumSet(LAMBDA w : Logs!Bytes(w, url), Logs!Merged)
             G == [url \in Logs!Urls |-> SumOf(Amounts("queries", url))]
         IN  Numbers(G) /\ Logs!MapThenSumSet(Of, Logs!Urls) = SumOf(G)
<1> DEFINE Of(url) == Logs!MapThenSumSet(LAMBDA w : Logs!Bytes(w, url), Logs!Merged)
           S == Logs!Urls
           G == [url \in S |-> SumOf(Amounts("queries", url))]
           Eq(h) == h = [d \in SUBSET S |-> IF d = {} THEN 0 ELSE Of(First(d)) + h[d \ {First(d)}]]
<1>1. \A url : Of(url) = SumOf(Amounts("queries", url)) /\ SumOf(Amounts("queries", url)) \in Int
  <2> TAKE url
  <2>1. Numbers(Amounts("queries", url))
    BY AmountsNumbers DEF LogsData, Kinds
  <2>2. SumOf(Amounts("queries", url)) \in Int
    BY <2>1, SumsOn, SumsAgree
  <2> QED
    BY <2>2, BytesSum
<1>2. IsFiniteSet(S)
  <2> DEFINE f == [ll \in Lines |-> ll.url]
  <2>1. f \in Surjection(Lines, S)
    BY DEF Surjection, Logs!Urls
  <2> QED
    BY <2>1, LinesFacts, FS_Surjection
<1>3. Numbers(G) /\ DOMAIN G = S
  BY <1>1, <1>2 DEF Numbers
<1>4. Logs!MapThenSumSet(Of, Logs!Urls) = (CHOOSE h : Eq(h))[S]
  BY DEF Logs!MapThenSumSet, Logs!MapThenFoldSet, First
<1>5. \A u \in S : G[u] = Of(u)
  BY <1>1
<1>6. \A d \in SUBSET S : d # {} => First(d) \in S
  BY DEF First
<1> HIDE DEF Of, G
<1>7. \A h : Eq(h) <=> AddsUp(h, G)
  BY <1>3, <1>5, <1>6 DEF AddsUp
<1>8. PICK h : Eq(h) /\ Logs!MapThenSumSet(Of, Logs!Urls) = h[S]
  BY <1>3, <1>4, <1>7, AddedUp
<1> HIDE DEF Eq
<1>9. h[DOMAIN G] = SumOf(G)
  BY <1>3, <1>7, <1>8, AddedUp
<1> QED
  BY <1>3, <1>8, <1>9 DEF Of, G

LEMMA ZeroAsInt == Logs!AsInt(0) = 0
<1>1. 0 \in Int /\ 0 \in -IntMax - 1 .. IntMax
  BY IntMaxFacts
<1> QED
  BY <1>1, AsIntFacts

LEMMA ReportRight ==
  ASSUME LogsInv, LogsData, main = "done",
         \A w \in Logs!Merged, url \in Logs!Urls : Logs!Bytes(w, url) <= IntMax
  PROVE  LET Of(url) == Logs!MapThenSumSet(LAMBDA w : Logs!Bytes(w, url), Logs!Merged)
         IN  /\ \A url \in Logs!Urls : Logs!Lookup(totals.queries, url) = Logs!AsInt(Of(url))
             /\ total = Logs!AsInt(Logs!MapThenSumSet(Of, Logs!Urls))
<1> DEFINE hash == totals.queries
           G == [url \in Logs!Urls |-> SumOf(Amounts("queries", url))]
<1>1. hash = Table(totals, "queries") /\ "queries" \in Kinds
  BY DEF Table, Kinds
<1>2. /\ IsTable(hash, Keys("queries"))
      /\ \A k \in Keys("queries") :
           (\A w \in Done : Amount("queries", k, log[files[w]]) <= IntMax) =>
             Logs!Lookup(hash, k) = Logs!AsInt(SumOf(Amounts("queries", k)))
  BY <1>1 DEF LogsData, TotalsRight
<1>3. Keys("queries") = Logs!Urls \ {Dash}
  BY DEF Keys, KeyOf, Logs!Urls
<1> HIDE DEF hash
<1>4. ASSUME NEW url \in Logs!Urls
      PROVE  Logs!Lookup(hash, url) = Logs!AsInt(SumOf(Amounts("queries", url)))
  <2>1. CASE url # Dash
    <3>1. \A w \in Done : Amount("queries", url, log[files[w]]) <= IntMax
      BY AllDone, MergedLogs
    <3> QED
      BY <1>2, <1>3, <2>1, <3>1
  <2>2. CASE url = Dash
    <3> DEFINE F == Amounts("queries", url)
               Z == [x \in {} |-> 0]
    <3>1. Numbers(F) /\ DOMAIN F = Done
      BY <1>1, AmountsNumbers DEF LogsData
    <3>2. \A w \in Done : F[w] = 0
      <4> SUFFICES ASSUME NEW w \in Done PROVE F[w] = 0
        OBVIOUS
      <4>1. log[files[w]] \in Seq(Lines)
        BY DEF Done, LogsData, DataType
      <4>2. Amount("queries", Dash, log[files[w]]) = 0
        BY <1>1, <4>1, AmountOfDash
      <4> QED
        BY <2>2, <4>2 DEF Amounts
    <3>3. Numbers(Z) /\ SumOf(Z) = 0 /\ DOMAIN Z = {}
      BY FS_EmptySet, SumEmpty DEF Numbers
    <3> HIDE DEF F, Z
    <3>4. Logs!AsInt(SumOf(Z)) = Logs!AsInt(SumOf(F))
      BY <3>1, <3>2, <3>3, ZeroAsInt, SumAsInt
    <3>5. Logs!Lookup(hash, url) = 0
      BY <1>2, <1>3, <2>2 DEF IsTable, Logs!Lookup
    <3> QED
      BY <3>3, <3>4, <3>5, ZeroAsInt DEF F
  <2> QED
    BY <2>1, <2>2
<1>5. Numbers(hash)
  <2>1. IsFiniteSet(DOMAIN hash)
    BY <1>1, <1>2, LinesFacts, FS_Subset DEF IsTable
  <2> QED
    BY <1>2, <2>1 DEF IsTable, Numbers
<1>6. Numbers(G) /\ DOMAIN G = Logs!Urls
  BY UrlsSum
<1>7. DOMAIN hash \subseteq DOMAIN G
  BY <1>2, <1>3, <1>6 DEF IsTable
<1>8. \A x \in DOMAIN G : Logs!AsInt(G[x]) = IF x \in DOMAIN hash THEN hash[x] ELSE 0
  BY <1>4, <1>6 DEF Logs!Lookup
<1>9. total = Logs!Sum(hash)
  BY DEF LogsData, Reported, hash
<1>10. total = Logs!AsInt(SumOf(G))
  <2> HIDE DEF G
  <2> QED
    BY <1>5, <1>6, <1>7, <1>8, <1>9, SumAsInt, TableSum
<1> QED
  BY <1>4, <1>10, BytesSum, UrlsSum DEF hash

LEMMA ReferersRight ==
  ASSUME LogsInv, LogsData, main = "done",
         \A w \in Logs!Merged, ref \in Logs!Referers : Logs!RefererCount(w, ref) <= IntMax,
         NEW ref \in Logs!Referers
  PROVE  Logs!Lookup(totals.refs, ref)
           = Logs!AsInt(Logs!MapThenSumSet(LAMBDA w : Logs!RefererCount(w, ref), Logs!Merged))
<1>1. "refs" \in Kinds /\ totals.refs = Table(totals, "refs")
  BY DEF Table, Kinds
<1>2. ref \in Keys("refs") /\ ref # Dash
  BY DEF Keys, KeyOf, Logs!Referers
<1>3. \A w \in Done : Amount("refs", ref, log[files[w]]) <= IntMax
  BY <1>2, AllDone, MergedLogs
<1>4. Logs!Lookup(Table(totals, "refs"), ref) = Logs!AsInt(SumOf(Amounts("refs", ref)))
  BY <1>1, <1>2, <1>3 DEF LogsData, TotalsRight
<1> QED
  BY <1>1, <1>2, <1>4, RefererSum

LEMMA LogsInit == Logs!Init => LogsInv
  BY ProgramsAssumption
     DEF Logs!Init, LogsInv, LogsType, LogPlaces, UndefinedOnlyIf, Logs!UndefinedOnlyIf,
         Logs!LogDistributorAssumption

LEMMA LogsAlways == Logs!Spec => [](LogsInv /\ LogsData)
<1>1. Logs!Init => LogsInv /\ LogsData
  BY LogsInit, DataInit
<1>2. (LogsInv /\ LogsData) /\ [Logs!Next]_(Logs!vars) => (LogsInv /\ LogsData)'
  BY LogsStep, DataStep
<1> QED
  BY <1>1, <1>2, PTL DEF Logs!Spec

(* The bytes the analyser reports (hash.c, main()) are those of the logs   *)
(* it has read, for every url and in all, in the arithmetic of int.        *)
THEOREM BytesAreExact == Logs!Spec => []BytesExact
<1>1. LogsInv /\ LogsData => BytesExact
  BY ReportRight DEF BytesExact, Logs!BytesExact
<1> QED
  BY <1>1, LogsAlways, PTL

(* The analyser counts a referer once for each line it stands in.          *)
THEOREM ReferersAreExact == Logs!Spec => []ReferersExact
<1>1. LogsInv /\ LogsData => ReferersExact
  BY ReferersRight DEF ReferersExact, Logs!ReferersExact
<1> QED
  BY <1>1, LogsAlways, PTL
=============================================================================
