-------------------------- MODULE EpollServerProofs --------------------------
(***************************************************************************)
(* Safety of the epoll server, for any number of clients and descriptors   *)
(* and any limit of events.                                                *)
(***************************************************************************)
EXTENDS EpollServer, FiniteSetTheorems, SequenceTheorems, TLAPS

(* A connection is in one place: accepted ones have one descriptor, the    *)
(* others are in the backlog once.                                         *)
OnePlace ==
  /\ \A fd \in Used : where[conn[fd]] = "accepted"
  /\ \A f, g \in Used : conn[f] = conn[g] => f = g
  /\ \A i \in 1..Len(backlog) : where[backlog[i]] = "queued"
  /\ \A i, j \in 1..Len(backlog) : backlog[i] = backlog[j] => i = j

(* Connections accepted since the last epoll_wait.                         *)
Fresh == {fd \in Used : \A e \in Connections : e.fd # fd}

(* A round: epoll_wait reported at most one connection, the one the round  *)
(* before accepted; this round accepts at most one, which epoll is about   *)
(* to report.                                                              *)
Rounds ==
  /\ \A d, e \in Connections : d = e
  /\ \A f, g \in Fresh : f = g
  /\ ListenEvent \in batch => Fresh = {}
  /\ Fresh \subseteq edge
  /\ edge \subseteq Used

(* What a request that arrived before its connection was accepted makes    *)
(* certain.                                                                *)
PromptIsReadable ==
  \A e \in Connections : conn[e.fd] \in prompt => e.readable

(* CountMatches and NoStaleEvent are kept because a connection is in one   *)
(* place; FewConnections because of the rounds.                            *)
Inv ==
  /\ TypeOK
  /\ CountMatches
  /\ NoStaleEvent
  /\ OnePlace
  /\ Rounds
  /\ PromptIsReadable
  /\ PromptClientsAnswered

(* What the definitions of Inv say of the state, for the steps below.      *)
LEMMA InitInv == Init => Inv
<1> SUFFICES ASSUME Init PROVE Inv
  OBVIOUS
<1>1. Used = {} /\ Connections = {} /\ Len(backlog) = 0
  BY DEF Init, Used, Connections
<1>2. Cardinality({}) = 0 /\ Cardinality(Fds) \in Nat
  BY FS_EmptySet, FS_CardinalityType, FdAssumption
<1>3. TypeOK
  <2>1. events_count \in 1..(MaxEvents - 1) /\ leaked \in 0..Cardinality(Fds)
    BY <1>2, EventsAssumption DEF Init
  <2>2. backlog \in Seq(Clients)
    BY EmptySeq DEF Init
  <2>3. answer \in [client : Clients \cup {NoClient}, prompt : BOOLEAN, file : Clients \cup {NoClient}]
    BY DEF Init, NoAnswer
  <2> QED
    BY <1>1, <2>1, <2>2, <2>3 DEF Init, TypeOK
<1>4. CountMatches
  BY <1>1, <1>2 DEF Init, CountMatches
<1>5. NoStaleEvent /\ OnePlace /\ Rounds /\ PromptIsReadable
  BY <1>1 DEF Init, NoStaleEvent, OnePlace, Rounds, Fresh, PromptIsReadable
<1>6. PromptClientsAnswered
  BY DEF Init, NoAnswer, PromptClientsAnswered
<1> QED
  BY <1>3, <1>4, <1>5, <1>6 DEF Inv

(* How many connections and descriptors there are.                         *)
LEMMA Counting ==
  ASSUME TypeOK, CountMatches
  PROVE  /\ IsFiniteSet(Used) /\ Used \subseteq Fds
         /\ Cardinality(Used) \in Nat /\ Cardinality(Fds) \in Nat
         /\ Cardinality(Used) <= Cardinality(Fds)
         /\ \A fd \in Used : Cardinality(Used \ {fd}) = Cardinality(Used) - 1
         /\ \A fd \in Fds \ Used : Cardinality(Used \cup {fd}) = Cardinality(Used) + 1
<1>1. Used \subseteq Fds /\ IsFiniteSet(Used)
  BY FS_Subset, FdAssumption DEF Used
<1> QED
  BY <1>1, FS_Subset, FS_CardinalityType, FS_RemoveElement, FS_AddElement, FdAssumption

(* Joining the backlog, and leaving it at the front.                       *)
LEMMA Joining ==
  ASSUME NEW s \in Seq(Clients), NEW c \in Clients
  PROVE  /\ Append(s, c) \in Seq(Clients)
         /\ Len(Append(s, c)) = Len(s) + 1 /\ Len(s) \in Nat
         /\ \A i \in 1..Len(s) : Append(s, c)[i] = s[i]
         /\ Append(s, c)[Len(s) + 1] = c
  BY AppendProperties, LenProperties

LEMMA Leaving ==
  ASSUME NEW s \in Seq(Clients), s # <<>>
  PROVE  /\ Tail(s) \in Seq(Clients)
         /\ Len(Tail(s)) = Len(s) - 1 /\ Len(s) \in Nat \ {0}
         /\ \A i \in 1..(Len(s) - 1) : Tail(s)[i] = s[i + 1]
         /\ Head(s) = s[1] /\ Head(s) \in Clients
  BY HeadTailProperties, LenProperties, EmptySeq
-----------------------------------------------------------------------------
(* A client connects.                                                      *)
LEMMA ConnectInv ==
  ASSUME Inv, NEW c \in Clients, Connect(c)
  PROVE  Inv'
<1>1. /\ UNCHANGED <<Used, Connections, Fresh>>
      /\ UNCHANGED <<serverVars, conn, registered, edge, sent, prompt, hungup>>
      /\ answer' = NoAnswer
  BY DEF Connect, Used, Connections, Fresh, serverVars
<1>2. /\ backlog' = Append(backlog, c) /\ backlog \in Seq(Clients)
      /\ where' = [where EXCEPT ![c] = "queued"] /\ where[c] = "away"
      /\ where \in [Clients -> {"away", "queued", "accepted"}]
  BY DEF Connect, Inv, TypeOK
<1>3. TypeOK'
  <2>1. backlog' \in Seq(Clients)
    BY <1>2, Joining
  <2>2. where' \in [Clients -> {"away", "queued", "accepted"}]
    BY <1>2
  <2>3. listen_edge' \in BOOLEAN /\ NoAnswer \in
          [client : Clients \cup {NoClient}, prompt : BOOLEAN, file : Clients \cup {NoClient}]
    BY DEF Connect, NoAnswer
  <2> QED
    BY <1>1, <2>1, <2>2, <2>3 DEF Inv, TypeOK, serverVars
<1>4. CountMatches' /\ NoStaleEvent' /\ Rounds' /\ PromptIsReadable'
  BY <1>1 DEF Inv, CountMatches, NoStaleEvent, Rounds, PromptIsReadable, serverVars
<1>5. OnePlace'
  <2>1. \A fd \in Used : conn[fd] # c /\ where'[conn[fd]] = where[conn[fd]]
    BY <1>2 DEF Inv, OnePlace, TypeOK, Used
  <2>2. \A i \in 1..Len(backlog) : /\ backlog[i] \in Clients /\ backlog[i] # c
                                   /\ where'[backlog[i]] = where[backlog[i]]
    BY <1>2, ElementOfSeq DEF Inv, OnePlace
  <2>3. where'[c] = "queued"
    BY <1>2
  <2>4. /\ Len(backlog') = Len(backlog) + 1 /\ Len(backlog) \in Nat
        /\ \A i \in 1..Len(backlog) : backlog'[i] = backlog[i]
        /\ backlog'[Len(backlog) + 1] = c
    BY <1>2, Joining
  <2>5. \A i \in 1..Len(backlog') : i \in 1..Len(backlog) \/ i = Len(backlog) + 1
    BY <2>4
  <2> QED
    BY <1>1, <2>1, <2>2, <2>3, <2>4, <2>5 DEF Inv, OnePlace
<1>6. PromptClientsAnswered'
  BY <1>1 DEF PromptClientsAnswered, NoAnswer
<1> QED
  BY <1>3, <1>4, <1>5, <1>6 DEF Inv

(* A client sends its request or hangs up.                                 *)
LEMMA ClientInv ==
  ASSUME Inv, NEW c \in Clients, Send(c) \/ HangUp(c)
  PROVE  Inv'
<1>1. /\ UNCHANGED <<Used, Connections, Fresh>>
      /\ UNCHANGED <<serverVars, conn, registered, listen_edge, backlog, where>>
      /\ answer' = NoAnswer
  BY DEF Send, HangUp, Used, Connections, Fresh, serverVars
<1>2. /\ edge' = edge \cup FdOf(c) /\ FdOf(c) \subseteq Used /\ FdOf(c) \subseteq Fds
      /\ sent' \subseteq Clients /\ prompt' \subseteq sent' /\ hungup' \subseteq Clients
  BY ClientAssumption DEF Send, HangUp, FdOf, Used, Inv, TypeOK
<1>3. TypeOK'
  <2>1. NoAnswer \in
          [client : Clients \cup {NoClient}, prompt : BOOLEAN, file : Clients \cup {NoClient}]
    BY DEF NoAnswer
  <2> QED
    BY <1>1, <1>2, <2>1 DEF Inv, TypeOK, serverVars
<1>4. CountMatches' /\ NoStaleEvent' /\ OnePlace' /\ Rounds'
  BY <1>1, <1>2 DEF Inv, CountMatches, NoStaleEvent, OnePlace, Rounds, serverVars
<1>5. PromptIsReadable'
  <2>1. \A e \in Connections : e.fd \in Used
    BY DEF Inv, NoStaleEvent, CountMatches
  <2>2. \A e \in Connections : conn[e.fd] \in prompt' => conn[e.fd] \in prompt
    BY <2>1 DEF Inv, OnePlace, Send, HangUp
  <2> QED
    BY <1>1, <2>2 DEF Inv, PromptIsReadable
<1>6. PromptClientsAnswered'
  BY <1>1 DEF PromptClientsAnswered, NoAnswer
<1> QED
  BY <1>3, <1>4, <1>5, <1>6 DEF Inv
-----------------------------------------------------------------------------
(* epoll_wait reports what this round accepted.                            *)
LEMMA WaitInv ==
  ASSUME Inv, EpollWait
  PROVE  Inv'
<1>1. /\ batch = {} /\ edge' = {} /\ answer' = NoAnswer
      /\ UNCHANGED <<events_count, buffer, leaked, conn, registered, backlog, clientVars, Used>>
  BY DEF EpollWait, Used
<1>2. Fresh = Used /\ Used = edge
  BY <1>1 DEF Fresh, Connections, Inv, Rounds
<1>3. \A fd \in Used : /\ Event(fd) # ListenEvent
                       /\ Event(fd).fd = fd /\ Event(fd).conn = conn[fd]
                       /\ Event(fd).readable = (conn[fd] \in sent \cup hungup)
                       /\ fd \in Fds /\ conn[fd] \in Clients
  <2> TAKE fd \in Used
  <2>1. fd \in Fds /\ conn[fd] \in Clients
    BY DEF Used, Inv, TypeOK
  <2>2. Event(fd).fd = fd /\ ListenEvent.fd = "listenfd"
    BY DEF Event, ListenEvent
  <2>3. Event(fd) # ListenEvent
    BY <2>1, <2>2, FdAssumption
  <2> QED
    BY <2>1, <2>3 DEF Event
<1>4. Connections' = {Event(fd) : fd \in Used}
  BY <1>2, <1>3 DEF EpollWait, Connections
<1>5. Fresh' = {}
  BY <1>1, <1>3, <1>4 DEF Fresh
<1>6. TypeOK'
  <2>1. NoAnswer \in
          [client : Clients \cup {NoClient}, prompt : BOOLEAN, file : Clients \cup {NoClient}]
    BY DEF NoAnswer
  <2>2. \A fd \in Used :
          Event(fd) = [fd |-> Event(fd).fd, conn |-> Event(fd).conn, readable |-> Event(fd).readable]
    BY DEF Event
  <2>3. \A e \in Connections' :
          /\ e.fd \in Fds /\ e.conn \in Clients /\ e.readable \in BOOLEAN
          /\ e = [fd |-> e.fd, conn |-> e.conn, readable |-> e.readable]
    <3> SUFFICES ASSUME NEW fd \in Used
                 PROVE  /\ Event(fd).fd \in Fds /\ Event(fd).conn \in Clients
                        /\ Event(fd).readable \in BOOLEAN
      BY <1>4, <2>2
    <3>1. (conn[fd] \in sent \cup hungup) \in BOOLEAN
      OBVIOUS
    <3> QED
      BY <1>3, <3>1
  <2>4. listen_edge' = FALSE
    BY DEF EpollWait
  <2> QED
    BY <1>1, <2>1, <2>3, <2>4 DEF Inv, TypeOK, clientVars
<1>7. CountMatches' /\ OnePlace'
  BY <1>1 DEF Inv, CountMatches, OnePlace, clientVars
<1>8. NoStaleEvent'
  BY <1>1, <1>3, <1>4 DEF Inv, NoStaleEvent, CountMatches
<1>9. Rounds'
  BY <1>1, <1>2, <1>4, <1>5 DEF Inv, Rounds
<1>10. PromptIsReadable'
  <2>1. prompt' = prompt /\ conn' = conn /\ prompt \subseteq sent
    BY <1>1 DEF clientVars, Inv, TypeOK
  <2>2. \A fd \in Used : conn[fd] \in prompt => Event(fd).readable
    BY <2>1 DEF Event
  <2> SUFFICES ASSUME NEW fd \in Used, conn[Event(fd).fd] \in prompt
               PROVE  Event(fd).readable
    BY <1>4, <2>1 DEF PromptIsReadable
  <2> QED
    BY <1>3, <2>2
<1>11. PromptClientsAnswered'
  BY <1>1 DEF PromptClientsAnswered, NoAnswer
<1> QED
  BY <1>6, <1>7, <1>8, <1>9, <1>10, <1>11 DEF Inv
-----------------------------------------------------------------------------
(* The event of listenfd is gone from the round; connections are as they   *)
(* were.                                                                   *)
LEMMA ListenHandled ==
  ASSUME Inv, batch' = batch \ {ListenEvent}
  PROVE  Connections' = Connections /\ ListenEvent \notin batch'
  BY DEF Connections

(* accept fails: nothing but the event is lost.                            *)
LEMMA AcceptFailsInv ==
  ASSUME Inv, AcceptFails
  PROVE  Inv'
<1>1. /\ Connections' = Connections /\ ListenEvent \notin batch' /\ answer' = AcceptError
      /\ UNCHANGED <<events_count, buffer, leaked, kernelVars, clientVars>>
  BY ListenHandled DEF AcceptFails
<1>2. UNCHANGED <<Used, Fresh>>
  BY <1>1 DEF Used, Fresh, kernelVars
<1>3. TypeOK'
  BY <1>1 DEF Inv, TypeOK, NoAnswer, AcceptError, kernelVars, clientVars
<1>4. CountMatches' /\ NoStaleEvent' /\ OnePlace' /\ Rounds' /\ PromptIsReadable'
  BY <1>1, <1>2
  DEF Inv, CountMatches, NoStaleEvent, OnePlace, Rounds, PromptIsReadable, kernelVars, clientVars
<1>5. PromptClientsAnswered'
  BY <1>1 DEF PromptClientsAnswered, NoAnswer, AcceptError
<1> QED
  BY <1>3, <1>4, <1>5 DEF Inv

(* What accepting tells of the client and of the connections that remain   *)
(* in the backlog.                                                         *)
LEMMA AcceptingFacts ==
  ASSUME Inv, NEW c \in Clients, Accepting(c)
  PROVE  /\ where[c] = "queued" /\ \A fd \in Used : conn[fd] # c
         /\ backlog' \in Seq(Clients)
         /\ \A i \in 1..Len(backlog') : /\ backlog'[i] \in Clients /\ backlog'[i] # c
                                        /\ where[backlog'[i]] = "queued"
         /\ \A i, j \in 1..Len(backlog') : backlog'[i] = backlog'[j] => i = j
         /\ Connections' = Connections /\ ListenEvent \notin batch' /\ Fresh = {}
<1>1. backlog \in Seq(Clients) /\ backlog # <<>> /\ backlog' = Tail(backlog) /\ c = Head(backlog)
  BY DEF Accepting, Inv, TypeOK
<1>2. /\ backlog' \in Seq(Clients)
      /\ Len(backlog') = Len(backlog) - 1 /\ Len(backlog) \in Nat \ {0}
      /\ \A i \in 1..(Len(backlog) - 1) : backlog'[i] = backlog[i + 1]
      /\ c = backlog[1]
  BY <1>1, Leaving
<1>3. \A i \in 1..Len(backlog') : /\ backlog'[i] = backlog[i + 1] /\ i + 1 # 1
                                  /\ i + 1 \in 1..Len(backlog)
                                  /\ backlog'[i] \in Clients
  BY <1>1, <1>2, ElementOfSeq
<1>4. 1 \in 1..Len(backlog)
  BY <1>2
<1>5. where[c] = "queued" /\ \A fd \in Used : conn[fd] # c
  BY <1>2, <1>4 DEF Inv, OnePlace
<1>6. \A i \in 1..Len(backlog') : backlog'[i] # c /\ where[backlog'[i]] = "queued"
  BY <1>2, <1>3, <1>4 DEF Inv, OnePlace
<1>7. \A i, j \in 1..Len(backlog') : backlog'[i] = backlog'[j] => i = j
  <2> TAKE i, j \in 1..Len(backlog')
  <2>1. i \in Int /\ j \in Int
    OBVIOUS
  <2>2. backlog[i + 1] = backlog[j + 1] => i + 1 = j + 1
    BY <1>3 DEF Inv, OnePlace
  <2> QED
    BY <1>3, <2>1, <2>2
<1>8. Connections' = Connections /\ ListenEvent \notin batch' /\ Fresh = {}
  BY ListenHandled DEF Accepting, Inv, Rounds
<1> QED
  BY <1>2, <1>3, <1>5, <1>6, <1>7, <1>8

LEMMA RefuseInv ==
  ASSUME Inv, NEW c \in Clients, Refuse(c)
  PROVE  Inv'
<1>1. /\ where[c] = "queued" /\ \A fd \in Used : conn[fd] # c
      /\ backlog' \in Seq(Clients)
      /\ \A i \in 1..Len(backlog') : /\ backlog'[i] \in Clients /\ backlog'[i] # c
                                     /\ where[backlog'[i]] = "queued"
      /\ \A i, j \in 1..Len(backlog') : backlog'[i] = backlog'[j] => i = j
      /\ Connections' = Connections /\ ListenEvent \notin batch' /\ Fresh = {}
  BY AcceptingFacts DEF Refuse
<1>2. /\ UNCHANGED <<events_count, buffer, leaked, conn, registered, edge, listen_edge>>
      /\ answer' = NoAnswer /\ where' = [where EXCEPT ![c] = "away"]
      /\ sent' = sent \ {c} /\ prompt' = prompt \ {c} /\ hungup' = hungup \ {c}
  BY DEF Refuse, Leaves
<1>3. UNCHANGED <<Used, Fresh>>
  BY <1>1, <1>2 DEF Used, Fresh
<1>4. TypeOK'
  <2>1. NoAnswer \in
          [client : Clients \cup {NoClient}, prompt : BOOLEAN, file : Clients \cup {NoClient}]
    BY DEF NoAnswer
  <2> QED
    BY <1>1, <1>2, <2>1 DEF Inv, TypeOK
<1>5. CountMatches' /\ NoStaleEvent' /\ Rounds'
  BY <1>1, <1>2, <1>3 DEF Inv, CountMatches, NoStaleEvent, Rounds
<1>6. OnePlace'
  <2>1. \A d \in Clients : d # c => where'[d] = where[d]
    BY <1>2 DEF Inv, TypeOK
  <2>2. \A fd \in Used : conn[fd] \in Clients /\ conn[fd] # c
    BY <1>1 DEF Inv, TypeOK, Used
  <2> QED
    BY <1>1, <1>2, <1>3, <2>1, <2>2 DEF Inv, OnePlace
<1>7. PromptIsReadable'
  BY <1>1, <1>2 DEF Inv, PromptIsReadable
<1>8. PromptClientsAnswered'
  BY <1>2 DEF PromptClientsAnswered, NoAnswer
<1> QED
  BY <1>4, <1>5, <1>6, <1>7, <1>8 DEF Inv

LEMMA AcceptInv ==
  ASSUME Inv, NEW c \in Clients, NEW fd \in Fds, Accept(c, fd)
  PROVE  Inv'
<1>1. /\ where[c] = "queued" /\ \A g \in Used : conn[g] # c
      /\ backlog' \in Seq(Clients)
      /\ \A i \in 1..Len(backlog') : /\ backlog'[i] \in Clients /\ backlog'[i] # c
                                     /\ where[backlog'[i]] = "queued"
      /\ \A i, j \in 1..Len(backlog') : backlog'[i] = backlog'[j] => i = j
      /\ Connections' = Connections /\ ListenEvent \notin batch' /\ Fresh = {}
  BY AcceptingFacts DEF Accept
<1>2. /\ UNCHANGED <<buffer, leaked, listen_edge, sent, prompt, hungup>>
      /\ answer' = NoAnswer /\ where' = [where EXCEPT ![c] = "accepted"]
      /\ conn' = [conn EXCEPT ![fd] = c] /\ conn[fd] = NoClient /\ c # NoClient
      /\ registered' = registered \cup {fd} /\ edge' = edge \cup {fd}
      /\ events_count # MaxEvents - 1 /\ events_count' = events_count + 1
  BY ClientAssumption DEF Accept
<1>3. /\ fd \notin Used /\ Used' = Used \cup {fd} /\ conn'[fd] = c
      /\ \A g \in Used : conn'[g] = conn[g] /\ conn[g] \in Clients
      /\ conn' \in [Fds -> Clients \cup {NoClient}]
  BY <1>2 DEF Used, Inv, TypeOK
<1>4. \A e \in Connections : e.fd \in Used /\ e.fd # fd /\ conn'[e.fd] = conn[e.fd]
  BY <1>3 DEF Inv, NoStaleEvent, CountMatches
<1>5. Fresh' = {fd}
  BY <1>1, <1>3, <1>4 DEF Fresh
<1>6. TypeOK'
  <2>1. NoAnswer \in
          [client : Clients \cup {NoClient}, prompt : BOOLEAN, file : Clients \cup {NoClient}]
    BY DEF NoAnswer
  <2>2. events_count' \in 1..(MaxEvents - 1)
    BY <1>2, EventsAssumption DEF Inv, TypeOK
  <2>3. where' \in [Clients -> {"away", "queued", "accepted"}]
    BY <1>2 DEF Inv, TypeOK
  <2> QED
    BY <1>1, <1>2, <1>3, <2>1, <2>2, <2>3 DEF Inv, TypeOK
<1>7. CountMatches'
  <2>1. Cardinality(Used') = Cardinality(Used) + 1
    BY <1>3, Counting DEF Inv
  <2>2. registered' = Used' /\ registered = Used
    BY <1>2, <1>3 DEF Inv, CountMatches
  <2>3. Cardinality(Used) \in Nat /\ events_count = 1 + Cardinality(Used)
    BY Counting DEF Inv, CountMatches
  <2>4. events_count' = 1 + Cardinality(Used')
    BY <1>2, <2>1, <2>3
  <2> QED
    BY <2>2, <2>4 DEF CountMatches
<1>8. NoStaleEvent'
  BY <1>1, <1>2, <1>4 DEF Inv, NoStaleEvent
<1>9. OnePlace'
  <2>1. where'[c] = "accepted" /\ \A d \in Clients : d # c => where'[d] = where[d]
    BY <1>2 DEF Inv, TypeOK
  <2> QED
    BY <1>1, <1>3, <2>1 DEF Inv, OnePlace
<1>10. Rounds'
  BY <1>1, <1>2, <1>3, <1>5 DEF Inv, Rounds
<1>11. PromptIsReadable'
  BY <1>1, <1>2, <1>4 DEF Inv, PromptIsReadable
<1>12. PromptClientsAnswered'
  BY <1>2 DEF PromptClientsAnswered, NoAnswer
<1> QED
  BY <1>6, <1>7, <1>8, <1>9, <1>10, <1>11, <1>12 DEF Inv
-----------------------------------------------------------------------------
(* A connection is answered and closed.                                    *)
LEMMA HandleInv ==
  ASSUME Inv, NEW e \in batch, Handle(e)
  PROVE  Inv'
<1> DEFINE fd == e.fd
           c == conn[fd]
<1>1. /\ e \in Connections /\ fd \in Used /\ fd \in Fds /\ c \in Clients
      /\ \A g \in Used : g # fd => conn[g] # c
  BY DEF Handle, Connections, Inv, NoStaleEvent, CountMatches, OnePlace, TypeOK, Used
<1>2. /\ batch' = batch \ {e} /\ registered' = registered \ {fd} /\ edge' = edge \ {fd}
      /\ conn' = [conn EXCEPT ![fd] = NoClient]
      /\ where' = [where EXCEPT ![c] = "away"]
      /\ sent' = sent \ {c} /\ prompt' = prompt \ {c} /\ hungup' = hungup \ {c}
      /\ events_count' = events_count - 1
      /\ UNCHANGED <<listen_edge, backlog>>
  BY DEF Handle, Leaves
<1>0. PICK b \in AfterRead(e) : \E f \in Files(b) :
        /\ buffer' = b
        /\ answer' = [client |-> c, file |-> f, prompt |-> c \in prompt \ hungup]
        /\ leaked' \in Leak(f)
  BY DEF Handle
<1>3. PICK f \in Files(b) :
        /\ buffer' = b
        /\ answer' = [client |-> c, file |-> f, prompt |-> c \in prompt \ hungup]
        /\ leaked' \in Leak(f)
  BY <1>0
<1>4. b \in Clients \cup {NoClient} /\ f \in {b, NoClient}
  BY <1>1, <1>3 DEF AfterRead, Files, Inv, TypeOK
<1>5. /\ Used' = Used \ {fd} /\ Connections' = Connections \ {e}
      /\ \A g \in Used' : conn'[g] = conn[g] /\ conn[g] # c /\ conn[g] \in Clients
      /\ conn' \in [Fds -> Clients \cup {NoClient}]
  BY <1>1, <1>2 DEF Used, Connections, Inv, TypeOK
<1>6. Connections' = {}
  BY <1>1, <1>5 DEF Inv, Rounds
<1>7. Fresh' \subseteq Fresh
  <2>1. \A d \in Connections : d = e
    BY <1>1 DEF Inv, Rounds
  <2> QED
    BY <1>5, <2>1 DEF Fresh
<1>8. /\ Cardinality(Used') = Cardinality(Used) - 1 /\ Cardinality(Used) \in Nat
      /\ Cardinality(Fds) \in Nat /\ IsFiniteSet(Used) /\ Cardinality(Used') \in Nat
  <2>1. IsFiniteSet(Used')
    BY <1>5, Counting, FS_Subset DEF Inv
  <2> HIDE DEF fd
  <2> QED
    BY <1>1, <1>5, <2>1, Counting, FS_CardinalityType DEF Inv
<1>9. TypeOK'
  <2>1. leaked' \in 0..Cardinality(Fds)
    <3>1. f # NoClient => FreeFds > 0
      BY <1>3 DEF Files
    <3>2. leaked \in 0..Cardinality(Fds)
      BY DEF Inv, TypeOK
    <3> QED
      BY <1>3, <1>8, <3>1, <3>2 DEF FreeFds, Leak
  <2>2. events_count' \in 1..(MaxEvents - 1)
    BY <1>2, <1>8, EventsAssumption DEF Inv, TypeOK, CountMatches
  <2>3. answer' \in
          [client : Clients \cup {NoClient}, prompt : BOOLEAN, file : Clients \cup {NoClient}]
    BY <1>1, <1>3, <1>4
  <2>4. where' \in [Clients -> {"away", "queued", "accepted"}]
    BY <1>2 DEF Inv, TypeOK
  <2> QED
    BY <1>2, <1>3, <1>4, <1>5, <1>6, <2>1, <2>2, <2>3, <2>4 DEF Inv, TypeOK
<1>10. CountMatches'
  BY <1>2, <1>5, <1>8 DEF Inv, CountMatches
<1>11. NoStaleEvent' /\ PromptIsReadable'
  BY <1>6 DEF NoStaleEvent, PromptIsReadable
<1>12. OnePlace'
  <2>1. \A d \in Clients : d # c => where'[d] = where[d]
    BY <1>2 DEF Inv, TypeOK
  <2>2. \A i \in 1..Len(backlog) : backlog[i] \in Clients /\ backlog[i] # c
    <3>1. where[c] = "accepted"
      BY <1>1 DEF Inv, OnePlace
    <3> QED
      BY <3>1, ElementOfSeq DEF Inv, OnePlace, TypeOK
  <2> QED
    BY <1>2, <1>5, <2>1, <2>2 DEF Inv, OnePlace
<1>13. Rounds'
  <2>1. ListenEvent \in batch' => ListenEvent \in batch
    BY <1>2
  <2>2. fd \notin Fresh /\ fd \notin Fresh'
    BY <1>1, <1>5 DEF Fresh
  <2> QED
    BY <1>2, <1>5, <1>6, <1>7, <2>1, <2>2 DEF Inv, Rounds
<1>14. PromptClientsAnswered'
  <2> SUFFICES ASSUME c \in prompt \ hungup PROVE f \in {c, NoClient}
    BY <1>3 DEF PromptClientsAnswered
  <2>1. e.readable /\ c \in sent
    BY <1>1 DEF Inv, PromptIsReadable, TypeOK
  <2>2. b = c
    BY <2>1, <1>3 DEF AfterRead
  <2> QED
    BY <1>4, <2>2
<1> QED
  BY <1>9, <1>10, <1>11, <1>12, <1>13, <1>14 DEF Inv
-----------------------------------------------------------------------------
(* The invariant holds for ever.                                           *)
THEOREM Invariance == Spec => []Inv
<1>1. Inv /\ [Next]_vars => Inv'
  <2> SUFFICES ASSUME Inv, [Next]_vars PROVE Inv'
    OBVIOUS
  <2>1. CASE UNCHANGED vars
    <3>1. UNCHANGED <<Used, Connections, Fresh>>
      BY <2>1 DEF vars, serverVars, kernelVars, Used, Connections, Fresh
    <3> QED
      BY <2>1, <3>1 DEF vars, serverVars, kernelVars, clientVars, Inv, TypeOK, CountMatches,
                        NoStaleEvent, OnePlace, Rounds, PromptIsReadable, PromptClientsAnswered
  <2>2. CASE Next
    BY <2>2, ConnectInv, ClientInv, WaitInv, AcceptFailsInv, RefuseInv, AcceptInv, HandleInv
    DEF Next, Serve, Connecting
  <2> QED
    BY <2>1, <2>2
<1> QED
  BY <1>1, InitInv, PTL DEF Spec

(* What main() counts is what epoll watches and what is open.              *)
THEOREM Counted == Spec => []CountMatches
<1>1. Inv => CountMatches
  BY DEF Inv
<1> QED
  BY <1>1, Invariance, PTL

(* No event is handled on a connection it was not reported for.            *)
THEOREM EventsAreFresh == Spec => []NoStaleEvent
<1>1. Inv => NoStaleEvent
  BY DEF Inv
<1> QED
  BY <1>1, Invariance, PTL

(* Whoever has sent its request before its turn gets its own file.         *)
THEOREM PromptClientsServed == Spec => []PromptClientsAnswered
<1>1. Inv => PromptClientsAnswered
  BY DEF Inv
<1> QED
  BY <1>1, Invariance, PTL

(* The server never has more than two connections: the one the round was   *)
(* for and the one the round accepts.                                      *)
THEOREM NeverMany == Spec => []FewConnections
<1>1. Inv => FewConnections
  <2> SUFFICES ASSUME Inv PROVE FewConnections
    OBVIOUS
  <2> DEFINE Old == Used \ Fresh
  <2>1. \A f, g \in Fresh : f = g
    BY DEF Inv, Rounds
  <2>2. \A f, g \in Old : f = g
    BY DEF Inv, Rounds, Fresh
  <2>3. Used = Fresh \cup Old
    BY DEF Fresh
  <2> HIDE DEF Old
  <2>4. \E x, y : Used \subseteq {x, y}
    BY <2>1, <2>2, <2>3
  <2>5. PICK x, y : Used \subseteq {x, y}
    BY <2>4
  <2>6. /\ IsFiniteSet({x}) /\ Cardinality({x}) = 1
        /\ IsFiniteSet({x} \cup {y}) /\ Cardinality({x} \cup {y}) \in {1, 2}
    <3>1. IsFiniteSet({x}) /\ Cardinality({x}) = 1
      BY FS_Singleton
    <3>2. /\ IsFiniteSet({x} \cup {y})
          /\ Cardinality({x} \cup {y}) = IF y \in {x} THEN Cardinality({x}) ELSE Cardinality({x}) + 1
      BY <3>1, FS_AddElement
    <3> QED
      BY <3>1, <3>2
  <2>7. Cardinality(Used) <= Cardinality({x} \cup {y})
    <3>1. Used \subseteq {x} \cup {y}
      BY <2>5
    <3> QED
      BY <2>6, <3>1, FS_Subset
  <2> QED
    BY <2>6, <2>7, Counting DEF Inv, FewConnections
<1> QED
  BY <1>1, Invariance, PTL
=============================================================================
