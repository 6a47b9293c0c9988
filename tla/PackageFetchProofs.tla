------------------------- MODULE PackageFetchProofs -------------------------
(***************************************************************************)
(* The mutex and the manifests of clib_package_new_from_slug, for any      *)
(* number of threads, retries and runs.                                    *)
(***************************************************************************)
EXTENDS PackageFetch, FiniteSetTheorems, TLAPS

Places == {"out", "lock", "read", "unlock", "share", "shareinit", "get", "connect", "parse",
           "saveopen", "savewrite", "next", "done"}
Manifests == Versions \cup {Absent, Torn}

TypeOK ==
  /\ locked \in BOOLEAN /\ inside \subseteq Threads /\ retried \in BOOLEAN
  /\ pc \in [Threads -> Places] /\ retries \in [Threads -> Int]
  /\ slug \in [Threads -> Versions] /\ json \in [Threads -> Manifests]
  /\ pkg \in [Threads -> Manifests] /\ log \in [Threads -> {"none", "cache", "fetch"}]
  /\ cache \in [Versions -> Manifests] /\ head_names \in {Absent, "1.0"}

-----------------------------------------------------------------------------
(* Who is between a lock and its unlock, told by place and attempts left:  *)
(* the label download is reached with the mutex by the first attempt only. *)
Attempts(t) ==
  /\ retries[t] <= Retries
  /\ pc[t] \in {"out", "lock", "read"} => retries[t] = Retries
  /\ pc[t] \in {"share", "shareinit", "get", "connect"} => retries[t] < Retries
Holder(t) ==
  t \in inside <=> pc[t] \in Critical \/ (pc[t] = "unlock" /\ retries[t] = Retries)

(* Before the first retry the threads that are inside have the mutex, and  *)
(* are one.                                                                *)
Excluded == ~retried => (inside # {} => locked) /\ \A s, t \in inside : s = t

(* What is cached for a version, what a thread has read and what it has    *)
(* built its package from: the manifest of that version, or the default    *)
(* branch's under the version that this gives itself.                      *)
CacheRight ==
  \A v \in Versions :
    cache[v] \in {Absent, Torn, v} \/ (cache[v] = Head /\ v = head_names)
Matches(t, m) ==
  m = slug[t] \/ (m = Head /\ slug[t] = head_names /\ log[t] = "cache")
JsonRight(t) ==
  /\ json[t] \notin {Absent, Torn} => Matches(t, json[t])
  /\ pc[t] = "parse" => json[t] # Absent
  /\ pc[t] \in {"saveopen", "savewrite"} => json[t] \notin {Absent, Torn}
  /\ pkg[t] # Absent => Matches(t, pkg[t]) /\ pc[t] = "done"
  /\ pc[t] = "out" => json[t] = Absent

Inv ==
  /\ TypeOK /\ Excluded /\ CacheRight
  /\ \A t \in Threads : Attempts(t) /\ Holder(t) /\ JsonRight(t)

LEMMA InitInv == Init => Inv
<1> SUFFICES ASSUME Init PROVE Inv
  OBVIOUS
<1>1. TypeOK
  <2>1. retries \in [Threads -> Int]
    BY FetchAssumption DEF Init
  <2>2. pc \in [Threads -> Places] /\ slug \in [Threads -> Versions]
    BY DEF Init, Places, Versions
  <2>3. json \in [Threads -> Manifests] /\ pkg \in [Threads -> Manifests] /\ cache \in [Versions -> Manifests]
    BY DEF Init, Manifests
  <2> QED
    BY <2>1, <2>2, <2>3 DEF Init, TypeOK
<1>2. Excluded /\ CacheRight
  BY DEF Init, Excluded, CacheRight
<1>3. ASSUME NEW t \in Threads PROVE Attempts(t) /\ Holder(t) /\ JsonRight(t)
  BY FetchAssumption DEF Init, Attempts, Holder, JsonRight, Critical, Absent
<1> QED
  BY <1>1, <1>2, <1>3 DEF Inv

LEMMA TypeStep == ASSUME Inv, [Next]_vars PROVE TypeOK'
<1> USE FetchAssumption DEF Inv, TypeOK, At, Lock, Unlock, mutex, disk, setting, locals, ghosts, Places, Manifests, Cached, Versions, Head, Absent, Torn
<1>1. ASSUME NEW t \in Threads, NEW v \in Versions, Call(t, v) PROVE TypeOK'
  BY <1>1 DEF Call
<1>2. ASSUME NEW t \in Threads, HasJson(t) PROVE TypeOK'
  BY <1>2 DEF HasJson
<1>3. ASSUME NEW t \in Threads, ReadJson(t) PROVE TypeOK'
  BY <1>3 DEF ReadJson
<1>4. ASSUME NEW t \in Threads, ReadNull(t) PROVE TypeOK'
  BY <1>4 DEF ReadNull
<1>5. ASSUME NEW t \in Threads, Download(t) PROVE TypeOK'
  <2>1. pc' \in [Threads -> Places]
    BY <1>5 DEF Download
  <2>2. retries' \in [Threads -> Int]
    BY <1>5 DEF Download
  <2>3. retried' \in BOOLEAN
    BY <1>5 DEF Download
  <2> QED
    BY <1>5, <2>1, <2>2, <2>3 DEF Download
<1>6. ASSUME NEW t \in Threads, LockShare(t) PROVE TypeOK'
  BY <1>6 DEF LockShare
<1>7. ASSUME NEW t \in Threads, InitShare(t) PROVE TypeOK'
  BY <1>7 DEF InitShare
<1>8. ASSUME NEW t \in Threads, CurlLock(t) PROVE TypeOK'
  BY <1>8 DEF CurlLock
<1>9. ASSUME NEW t \in Threads, GetFails(t) PROVE TypeOK'
  BY <1>9 DEF GetFails
<1>10. ASSUME NEW t \in Threads, GetOk(t) PROVE TypeOK'
  <2>1. pc' \in [Threads -> Places]
    BY <1>10 DEF GetOk
  <2>2. json' \in [Threads -> Manifests]
    BY <1>10 DEF GetOk
  <2> QED
    BY <1>10, <2>1, <2>2 DEF GetOk
<1>11. ASSUME NEW t \in Threads, ParseFails(t) PROVE TypeOK'
  BY <1>11 DEF ParseFails
<1>12. ASSUME NEW t \in Threads, Parse(t) PROVE TypeOK'
  BY <1>12 DEF Parse
<1>13. ASSUME NEW t \in Threads, SaveOpen(t) PROVE TypeOK'
  BY <1>13 DEF SaveOpen, Forced
<1>14. ASSUME NEW t \in Threads, SaveOpenFails(t) PROVE TypeOK'
  <2>1. pc' \in [Threads -> Places]
    BY <1>14 DEF SaveOpenFails, Forced, Return
  <2>2. pkg' \in [Threads -> Manifests] /\ json' \in [Threads -> Manifests]
    BY <1>14 DEF SaveOpenFails, Forced, Return
  <2>3. retries' \in [Threads -> Int]
    BY <1>14 DEF SaveOpenFails, Forced, Return
  <2> QED
    BY <1>14, <2>1, <2>2, <2>3 DEF SaveOpenFails, Forced, Return
<1>15. ASSUME NEW t \in Threads, SaveWrite(t) PROVE TypeOK'
  <2>1. pc' \in [Threads -> Places]
    BY <1>15 DEF SaveWrite, Forced, Return
  <2>2. pkg' \in [Threads -> Manifests] /\ json' \in [Threads -> Manifests]
    BY <1>15 DEF SaveWrite, Forced, Return
  <2>3. retries' \in [Threads -> Int]
    BY <1>15 DEF SaveWrite, Forced, Return
  <2>4. cache' \in [Versions -> Manifests]
    BY <1>15 DEF SaveWrite, Forced, Return
  <2> QED
    BY <1>15, <2>1, <2>2, <2>3, <2>4 DEF SaveWrite, Forced, Return
<1>16. ASSUME NEW t \in Threads, NextFile(t) PROVE TypeOK'
  BY <1>16 DEF NextFile
<1>17. ASSUME NEW t \in Threads, GiveUp(t) PROVE TypeOK'
  BY <1>17 DEF GiveUp
<1>18. ASSUME End PROVE TypeOK'
  <2>1. pc' \in [Threads -> Places] /\ retries' \in [Threads -> Int]
    BY <1>18 DEF End, Idle
  <2>2. json' \in [Threads -> Manifests] /\ pkg' \in [Threads -> Manifests]
    BY <1>18 DEF End, Idle
  <2> QED
    BY <1>18, <2>1, <2>2 DEF End, Idle
<1>19. ASSUME NEW v \in Versions, Expire(v) PROVE TypeOK'
  BY <1>19 DEF Expire
<1>20. ASSUME UNCHANGED vars PROVE TypeOK'
  BY <1>20 DEF vars
<1> HIDE DEF Inv, TypeOK, At, Lock, Unlock, mutex, disk, setting, locals, ghosts, Places, Manifests, Cached, Versions, Head, Absent, Torn
<1> QED
  BY <1>1, <1>2, <1>3, <1>4, <1>5, <1>6, <1>7, <1>8, <1>9, <1>10, <1>11, <1>12, <1>13, <1>14, <1>15, <1>16, <1>17, <1>18, <1>19, <1>20 DEF Next, Step

LEMMA AttemptsStep == ASSUME Inv, [Next]_vars, NEW q \in Threads PROVE Attempts(q)'
<1> USE FetchAssumption DEF Inv, TypeOK, At, Lock, Unlock, mutex, disk, setting, locals, ghosts, Attempts
<1>1. ASSUME NEW t \in Threads, NEW v \in Versions, Call(t, v) PROVE Attempts(q)'
  BY <1>1 DEF Call
<1>2. ASSUME NEW t \in Threads, HasJson(t) PROVE Attempts(q)'
  BY <1>2 DEF HasJson
<1>3. ASSUME NEW t \in Threads, ReadJson(t) PROVE Attempts(q)'
  BY <1>3 DEF ReadJson
<1>4. ASSUME NEW t \in Threads, ReadNull(t) PROVE Attempts(q)'
  BY <1>4 DEF ReadNull
<1>5. ASSUME NEW t \in Threads, Download(t) PROVE Attempts(q)'
  <2>1. CASE q = t
    BY <1>5, <2>1 DEF Download
  <2>2. CASE q # t
    BY <1>5, <2>2 DEF Download
  <2> QED
    BY <1>5, <2>1, <2>2 DEF Download
<1>6. ASSUME NEW t \in Threads, LockShare(t) PROVE Attempts(q)'
  BY <1>6 DEF LockShare
<1>7. ASSUME NEW t \in Threads, InitShare(t) PROVE Attempts(q)'
  BY <1>7 DEF InitShare
<1>8. ASSUME NEW t \in Threads, CurlLock(t) PROVE Attempts(q)'
  BY <1>8 DEF CurlLock
<1>9. ASSUME NEW t \in Threads, GetFails(t) PROVE Attempts(q)'
  BY <1>9 DEF GetFails
<1>10. ASSUME NEW t \in Threads, GetOk(t) PROVE Attempts(q)'
  BY <1>10 DEF GetOk
<1>11. ASSUME NEW t \in Threads, ParseFails(t) PROVE Attempts(q)'
  BY <1>11 DEF ParseFails
<1>12. ASSUME NEW t \in Threads, Parse(t) PROVE Attempts(q)'
  BY <1>12 DEF Parse
<1>13. ASSUME NEW t \in Threads, SaveOpen(t) PROVE Attempts(q)'
  BY <1>13 DEF SaveOpen, Forced
<1>14. ASSUME NEW t \in Threads, SaveOpenFails(t) PROVE Attempts(q)'
  BY <1>14 DEF SaveOpenFails, Forced, Return
<1>15. ASSUME NEW t \in Threads, SaveWrite(t) PROVE Attempts(q)'
  BY <1>15 DEF SaveWrite, Forced, Return
<1>16. ASSUME NEW t \in Threads, NextFile(t) PROVE Attempts(q)'
  BY <1>16 DEF NextFile
<1>17. ASSUME NEW t \in Threads, GiveUp(t) PROVE Attempts(q)'
  BY <1>17 DEF GiveUp
<1>18. ASSUME End PROVE Attempts(q)'
  BY <1>18 DEF End, Idle
<1>19. ASSUME NEW v \in Versions, Expire(v) PROVE Attempts(q)'
  BY <1>19 DEF Expire
<1>20. ASSUME UNCHANGED vars PROVE Attempts(q)'
  BY <1>20 DEF vars
<1> HIDE DEF Inv, TypeOK, At, Lock, Unlock, mutex, disk, setting, locals, ghosts, Attempts
<1> QED
  BY <1>1, <1>2, <1>3, <1>4, <1>5, <1>6, <1>7, <1>8, <1>9, <1>10, <1>11, <1>12, <1>13, <1>14, <1>15, <1>16, <1>17, <1>18, <1>19, <1>20 DEF Next, Step

LEMMA HolderStep == ASSUME Inv, [Next]_vars, NEW q \in Threads PROVE Holder(q)'
<1> USE FetchAssumption DEF Inv, TypeOK, At, Lock, Unlock, mutex, disk, setting, locals, ghosts, Attempts, Holder, Critical
<1>1. ASSUME NEW t \in Threads, NEW v \in Versions, Call(t, v) PROVE Holder(q)'
  BY <1>1 DEF Call
<1>2. ASSUME NEW t \in Threads, HasJson(t) PROVE Holder(q)'
  BY <1>2 DEF HasJson
<1>3. ASSUME NEW t \in Threads, ReadJson(t) PROVE Holder(q)'
  BY <1>3 DEF ReadJson
<1>4. ASSUME NEW t \in Threads, ReadNull(t) PROVE Holder(q)'
  BY <1>4 DEF ReadNull
<1>5. ASSUME NEW t \in Threads, Download(t) PROVE Holder(q)'
  <2>1. CASE q = t
    BY <1>5, <2>1 DEF Download
  <2>2. CASE q # t
    BY <1>5, <2>2 DEF Download
  <2> QED
    BY <1>5, <2>1, <2>2 DEF Download
<1>6. ASSUME NEW t \in Threads, LockShare(t) PROVE Holder(q)'
  BY <1>6 DEF LockShare
<1>7. ASSUME NEW t \in Threads, InitShare(t) PROVE Holder(q)'
  BY <1>7 DEF InitShare
<1>8. ASSUME NEW t \in Threads, CurlLock(t) PROVE Holder(q)'
  BY <1>8 DEF CurlLock
<1>9. ASSUME NEW t \in Threads, GetFails(t) PROVE Holder(q)'
  BY <1>9 DEF GetFails
<1>10. ASSUME NEW t \in Threads, GetOk(t) PROVE Holder(q)'
  BY <1>10 DEF GetOk
<1>11. ASSUME NEW t \in Threads, ParseFails(t) PROVE Holder(q)'
  BY <1>11 DEF ParseFails
<1>12. ASSUME NEW t \in Threads, Parse(t) PROVE Holder(q)'
  BY <1>12 DEF Parse
<1>13. ASSUME NEW t \in Threads, SaveOpen(t) PROVE Holder(q)'
  BY <1>13 DEF SaveOpen, Forced
<1>14. ASSUME NEW t \in Threads, SaveOpenFails(t) PROVE Holder(q)'
  BY <1>14 DEF SaveOpenFails, Forced, Return
<1>15. ASSUME NEW t \in Threads, SaveWrite(t) PROVE Holder(q)'
  BY <1>15 DEF SaveWrite, Forced, Return
<1>16. ASSUME NEW t \in Threads, NextFile(t) PROVE Holder(q)'
  BY <1>16 DEF NextFile
<1>17. ASSUME NEW t \in Threads, GiveUp(t) PROVE Holder(q)'
  BY <1>17 DEF GiveUp
<1>18. ASSUME End PROVE Holder(q)'
  BY <1>18 DEF End, Idle
<1>19. ASSUME NEW v \in Versions, Expire(v) PROVE Holder(q)'
  BY <1>19 DEF Expire
<1>20. ASSUME UNCHANGED vars PROVE Holder(q)'
  BY <1>20 DEF vars
<1> HIDE DEF Inv, TypeOK, At, Lock, Unlock, mutex, disk, setting, locals, ghosts, Attempts, Holder, Critical
<1> QED
  BY <1>1, <1>2, <1>3, <1>4, <1>5, <1>6, <1>7, <1>8, <1>9, <1>10, <1>11, <1>12, <1>13, <1>14, <1>15, <1>16, <1>17, <1>18, <1>19, <1>20 DEF Next, Step

LEMMA ExcludedStep == ASSUME Inv, [Next]_vars PROVE Excluded'
<1> USE FetchAssumption DEF Inv, TypeOK, At, Lock, Unlock, mutex, disk, setting, locals, ghosts, Attempts, Holder, Critical, Excluded
<1>1. ASSUME NEW t \in Threads, NEW v \in Versions, Call(t, v) PROVE Excluded'
  BY <1>1 DEF Call
<1>2. ASSUME NEW t \in Threads, HasJson(t) PROVE Excluded'
  BY <1>2 DEF HasJson
<1>3. ASSUME NEW t \in Threads, ReadJson(t) PROVE Excluded'
  BY <1>3 DEF ReadJson
<1>4. ASSUME NEW t \in Threads, ReadNull(t) PROVE Excluded'
  BY <1>4 DEF ReadNull
<1>5. ASSUME NEW t \in Threads, Download(t) PROVE Excluded'
  BY <1>5 DEF Download
<1>6. ASSUME NEW t \in Threads, LockShare(t) PROVE Excluded'
  BY <1>6 DEF LockShare
<1>7. ASSUME NEW t \in Threads, InitShare(t) PROVE Excluded'
  BY <1>7 DEF InitShare
<1>8. ASSUME NEW t \in Threads, CurlLock(t) PROVE Excluded'
  BY <1>8 DEF CurlLock
<1>9. ASSUME NEW t \in Threads, GetFails(t) PROVE Excluded'
  BY <1>9 DEF GetFails
<1>10. ASSUME NEW t \in Threads, GetOk(t) PROVE Excluded'
  BY <1>10 DEF GetOk
<1>11. ASSUME NEW t \in Threads, ParseFails(t) PROVE Excluded'
  BY <1>11 DEF ParseFails
<1>12. ASSUME NEW t \in Threads, Parse(t) PROVE Excluded'
  BY <1>12 DEF Parse
<1>13. ASSUME NEW t \in Threads, SaveOpen(t) PROVE Excluded'
  BY <1>13 DEF SaveOpen, Forced
<1>14. ASSUME NEW t \in Threads, SaveOpenFails(t) PROVE Excluded'
  BY <1>14 DEF SaveOpenFails, Forced, Return
<1>15. ASSUME NEW t \in Threads, SaveWrite(t) PROVE Excluded'
  BY <1>15 DEF SaveWrite, Forced, Return
<1>16. ASSUME NEW t \in Threads, NextFile(t) PROVE Excluded'
  BY <1>16 DEF NextFile
<1>17. ASSUME NEW t \in Threads, GiveUp(t) PROVE Excluded'
  BY <1>17 DEF GiveUp
<1>18. ASSUME End PROVE Excluded'
  BY <1>18 DEF End, Idle
<1>19. ASSUME NEW v \in Versions, Expire(v) PROVE Excluded'
  BY <1>19 DEF Expire
<1>20. ASSUME UNCHANGED vars PROVE Excluded'
  BY <1>20 DEF vars
<1> HIDE DEF Inv, TypeOK, At, Lock, Unlock, mutex, disk, setting, locals, ghosts, Attempts, Holder, Critical, Excluded
<1> QED
  BY <1>1, <1>2, <1>3, <1>4, <1>5, <1>6, <1>7, <1>8, <1>9, <1>10, <1>11, <1>12, <1>13, <1>14, <1>15, <1>16, <1>17, <1>18, <1>19, <1>20 DEF Next, Step

LEMMA CacheStep == ASSUME Inv, [Next]_vars PROVE CacheRight'
<1> USE FetchAssumption DEF Inv, TypeOK, At, Lock, Unlock, mutex, disk, setting, locals, ghosts, CacheRight, JsonRight, Matches, Cached, Versions, Manifests, Head, Absent, Torn
<1>1. ASSUME NEW t \in Threads, NEW v \in Versions, Call(t, v) PROVE CacheRight'
  BY <1>1 DEF Call
<1>2. ASSUME NEW t \in Threads, HasJson(t) PROVE CacheRight'
  BY <1>2 DEF HasJson
<1>3. ASSUME NEW t \in Threads, ReadJson(t) PROVE CacheRight'
  BY <1>3 DEF ReadJson
<1>4. ASSUME NEW t \in Threads, ReadNull(t) PROVE CacheRight'
  BY <1>4 DEF ReadNull
<1>5. ASSUME NEW t \in Threads, Download(t) PROVE CacheRight'
  BY <1>5 DEF Download
<1>6. ASSUME NEW t \in Threads, LockShare(t) PROVE CacheRight'
  BY <1>6 DEF LockShare
<1>7. ASSUME NEW t \in Threads, InitShare(t) PROVE CacheRight'
  BY <1>7 DEF InitShare
<1>8. ASSUME NEW t \in Threads, CurlLock(t) PROVE CacheRight'
  BY <1>8 DEF CurlLock
<1>9. ASSUME NEW t \in Threads, GetFails(t) PROVE CacheRight'
  BY <1>9 DEF GetFails
<1>10. ASSUME NEW t \in Threads, GetOk(t) PROVE CacheRight'
  BY <1>10 DEF GetOk
<1>11. ASSUME NEW t \in Threads, ParseFails(t) PROVE CacheRight'
  BY <1>11 DEF ParseFails
<1>12. ASSUME NEW t \in Threads, Parse(t) PROVE CacheRight'
  BY <1>12 DEF Parse
<1>13. ASSUME NEW t \in Threads, SaveOpen(t) PROVE CacheRight'
  BY <1>13 DEF SaveOpen, Forced
<1>14. ASSUME NEW t \in Threads, SaveOpenFails(t) PROVE CacheRight'
  BY <1>14 DEF SaveOpenFails, Forced, Return
<1>15. ASSUME NEW t \in Threads, SaveWrite(t) PROVE CacheRight'
  BY <1>15 DEF SaveWrite, Forced, Return
<1>16. ASSUME NEW t \in Threads, NextFile(t) PROVE CacheRight'
  BY <1>16 DEF NextFile
<1>17. ASSUME NEW t \in Threads, GiveUp(t) PROVE CacheRight'
  BY <1>17 DEF GiveUp
<1>18. ASSUME End PROVE CacheRight'
  BY <1>18 DEF End, Idle
<1>19. ASSUME NEW v \in Versions, Expire(v) PROVE CacheRight'
  BY <1>19 DEF Expire
<1>20. ASSUME UNCHANGED vars PROVE CacheRight'
  BY <1>20 DEF vars
<1> HIDE DEF Inv, TypeOK, At, Lock, Unlock, mutex, disk, setting, locals, ghosts, CacheRight, JsonRight, Matches, Cached, Versions, Manifests, Head, Absent, Torn
<1> QED
  BY <1>1, <1>2, <1>3, <1>4, <1>5, <1>6, <1>7, <1>8, <1>9, <1>10, <1>11, <1>12, <1>13, <1>14, <1>15, <1>16, <1>17, <1>18, <1>19, <1>20 DEF Next, Step

LEMMA JsonStep == ASSUME Inv, [Next]_vars, NEW q \in Threads PROVE JsonRight(q)'
<1> USE FetchAssumption DEF Inv, TypeOK, At, Lock, Unlock, mutex, disk, setting, locals, ghosts, CacheRight, JsonRight, Matches, Cached, Versions, Manifests, Head, Absent, Torn
<1>1. ASSUME NEW t \in Threads, NEW v \in Versions, Call(t, v) PROVE JsonRight(q)'
  BY <1>1 DEF Call
<1>2. ASSUME NEW t \in Threads, HasJson(t) PROVE JsonRight(q)'
  BY <1>2 DEF HasJson
<1>3. ASSUME NEW t \in Threads, ReadJson(t) PROVE JsonRight(q)'
  BY <1>3 DEF ReadJson
<1>4. ASSUME NEW t \in Threads, ReadNull(t) PROVE JsonRight(q)'
  BY <1>4 DEF ReadNull
<1>5. ASSUME NEW t \in Threads, Download(t) PROVE JsonRight(q)'
  BY <1>5 DEF Download
<1>6. ASSUME NEW t \in Threads, LockShare(t) PROVE JsonRight(q)'
  BY <1>6 DEF LockShare
<1>7. ASSUME NEW t \in Threads, InitShare(t) PROVE JsonRight(q)'
  BY <1>7 DEF InitShare
<1>8. ASSUME NEW t \in Threads, CurlLock(t) PROVE JsonRight(q)'
  BY <1>8 DEF CurlLock
<1>9. ASSUME NEW t \in Threads, GetFails(t) PROVE JsonRight(q)'
  BY <1>9 DEF GetFails
<1>10. ASSUME NEW t \in Threads, GetOk(t) PROVE JsonRight(q)'
  BY <1>10 DEF GetOk
<1>11. ASSUME NEW t \in Threads, ParseFails(t) PROVE JsonRight(q)'
  BY <1>11 DEF ParseFails
<1>12. ASSUME NEW t \in Threads, Parse(t) PROVE JsonRight(q)'
  BY <1>12 DEF Parse
<1>13. ASSUME NEW t \in Threads, SaveOpen(t) PROVE JsonRight(q)'
  BY <1>13 DEF SaveOpen, Forced
<1>14. ASSUME NEW t \in Threads, SaveOpenFails(t) PROVE JsonRight(q)'
  BY <1>14 DEF SaveOpenFails, Forced, Return
<1>15. ASSUME NEW t \in Threads, SaveWrite(t) PROVE JsonRight(q)'
  BY <1>15 DEF SaveWrite, Forced, Return
<1>16. ASSUME NEW t \in Threads, NextFile(t) PROVE JsonRight(q)'
  BY <1>16 DEF NextFile
<1>17. ASSUME NEW t \in Threads, GiveUp(t) PROVE JsonRight(q)'
  BY <1>17 DEF GiveUp
<1>18. ASSUME End PROVE JsonRight(q)'
  BY <1>18 DEF End, Idle
<1>19. ASSUME NEW v \in Versions, Expire(v) PROVE JsonRight(q)'
  BY <1>19 DEF Expire
<1>20. ASSUME UNCHANGED vars PROVE JsonRight(q)'
  BY <1>20 DEF vars
<1> HIDE DEF Inv, TypeOK, At, Lock, Unlock, mutex, disk, setting, locals, ghosts, CacheRight, JsonRight, Matches, Cached, Versions, Manifests, Head, Absent, Torn
<1> QED
  BY <1>1, <1>2, <1>3, <1>4, <1>5, <1>6, <1>7, <1>8, <1>9, <1>10, <1>11, <1>12, <1>13, <1>14, <1>15, <1>16, <1>17, <1>18, <1>19, <1>20 DEF Next, Step

LEMMA Invariance == Spec => []Inv
<1>1. Inv /\ [Next]_vars => Inv'
  BY TypeStep, AttemptsStep, HolderStep, ExcludedStep, CacheStep, JsonStep DEF Inv
<1> QED
  BY InitInv, <1>1, PTL DEF Spec

(* lock.mutex keeps the threads of clib_package_new_from_slug apart until  *)
(* a request is repeated.                                                  *)
THEOREM AloneAtFirst == Spec => []AloneUnlessRetried
<1>1. ASSUME Inv PROVE AloneUnlessRetried
  <2>1. inside = {t \in Threads : pc[t] \in Critical \/ (pc[t] = "unlock" /\ retries[t] = Retries)}
    BY <1>1 DEF Inv, TypeOK, Holder
  <2>2. ASSUME ~retried PROVE Cardinality(inside) <= 1
    <3>1. CASE inside = {}
      BY <3>1, FS_EmptySet
    <3>2. CASE inside # {}
      <4>1. PICK t : inside = {t}
        BY <1>1, <2>2, <3>2 DEF Inv, Excluded
      <4> QED
        BY <4>1, FS_Singleton
    <3> QED
      BY <3>1, <3>2
  <2> QED
    BY <2>1, <2>2 DEF AloneUnlessRetried
<1> QED
  BY Invariance, <1>1, PTL

(* A package is built from the manifest of the slug's version, or from the *)
(* default branch's as clib_cache_save_json files it.                      *)
THEOREM ManifestsMatch == Spec => []ManifestOfSlug
<1>1. Inv => ManifestOfSlug
  BY DEF Inv, JsonRight, Matches, ManifestOfSlug
<1> QED
  BY Invariance, <1>1, PTL
=============================================================================
