----------------------------- MODULE EpollServer -----------------------------
(***************************************************************************)
(* The file server of HW12: one thread, one loop around epoll_wait         *)
(* (main.c), one static buffer that every request is read into, and the    *)
(* answer of async.c.  The sockets, the backlog and the edge-triggered     *)
(* readiness of epoll are the kernel's; clients connect, send and hang up  *)
(* at any moment.                                                          *)
(*                                                                         *)
(* A request is known by the client that sent it.  It arrives at once and  *)
(* fits the buffer.                                                        *)
(***************************************************************************)
EXTENDS Integers, Sequences, FiniteSets

CONSTANTS
  Clients,    (* clients; one connects again when its connection is over   *)
  Fds,        (* descriptors the process has left for connections and files *)
  NoClient,
  MaxEvents   (* MAX_EPOLL_EVENTS                                          *)

ASSUME ClientAssumption == NoClient \notin Clients /\ IsFiniteSet(Clients)
ASSUME FdAssumption == IsFiniteSet(Fds) /\ "listenfd" \notin Fds
ASSUME EventsAssumption == MaxEvents \in Nat /\ MaxEvents > 1

VARIABLES
  (* main(): the events of this round still to be handled, the number of   *)
  (* events it believes registered, the request in the static buffer, and  *)
  (* the number of files opened and never closed                           *)
  batch, events_count, buffer, leaked,
  (* kernel: whose connection each descriptor is; descriptors registered   *)
  (* with epoll; those with news since the last epoll_wait; the same for   *)
  (* the listening socket; connections not accepted                        *)
  conn, registered, edge, listen_edge, backlog,
  (* clients: where the connection of each is; which have sent their       *)
  (* request, had done so when their connection was accepted, have hung up *)
  where, sent, prompt, hungup,
  (* history: the answer the server has given in the last step, or that    *)
  (* accept has failed                                                     *)
  answer

serverVars == <<batch, events_count, buffer, leaked>>
kernelVars == <<conn, registered, edge, listen_edge, backlog>>
clientVars == <<where, sent, prompt, hungup>>
vars == <<serverVars, kernelVars, clientVars, answer>>

NoAnswer == [client |-> NoClient, prompt |-> FALSE, file |-> NoClient]
AcceptError == [NoAnswer EXCEPT !.prompt = TRUE]

Init ==
  /\ batch = {} /\ events_count = 1 /\ buffer = NoClient /\ leaked = 0
  /\ conn = [fd \in Fds |-> NoClient] /\ registered = {} /\ edge = {}
  /\ listen_edge = FALSE /\ backlog = <<>>
  /\ where = [c \in Clients |-> "away"]
  /\ sent = {} /\ prompt = {} /\ hungup = {}
  /\ answer = NoAnswer

Used == {fd \in Fds : conn[fd] # NoClient}
FreeFds == Cardinality(Fds) - Cardinality(Used) - leaked

(* The connection of c is over.                                            *)
Leaves(c) ==
  /\ where' = [where EXCEPT ![c] = "away"]
  /\ sent' = sent \ {c} /\ prompt' = prompt \ {c} /\ hungup' = hungup \ {c}

(* The descriptor of a client whose connection was accepted.               *)
FdOf(c) == {fd \in Fds : conn[fd] = c}

-----------------------------------------------------------------------------
(* Clients.                                                                *)
Connect(c) ==
  /\ where[c] = "away"
  /\ where' = [where EXCEPT ![c] = "queued"]
  /\ backlog' = Append(backlog, c)
  /\ listen_edge' = TRUE
  /\ answer' = NoAnswer
  /\ UNCHANGED <<serverVars, conn, registered, edge, sent, prompt, hungup>>

Send(c) ==
  /\ where[c] \in {"queued", "accepted"} /\ c \notin sent \cup hungup
  /\ sent' = sent \cup {c}
  /\ prompt' = IF where[c] = "queued" THEN prompt \cup {c} ELSE prompt
  /\ edge' = edge \cup FdOf(c)
  /\ answer' = NoAnswer
  /\ UNCHANGED <<serverVars, conn, registered, listen_edge, backlog, where, hungup>>

HangUp(c) ==
  /\ where[c] \in {"queued", "accepted"} /\ c \notin hungup
  /\ hungup' = hungup \cup {c}
  /\ edge' = edge \cup FdOf(c)
  /\ answer' = NoAnswer
  /\ UNCHANGED <<serverVars, conn, registered, listen_edge, backlog, where, sent, prompt>>

-----------------------------------------------------------------------------
(* epoll_wait: everything with news is reported, with the state it is in   *)
(* now; a socket nothing was sent on can always be written to.  (The       *)
(* client in an event is history: the kernel reports the descriptor.)      *)
Event(fd) ==
  [fd |-> fd, conn |-> conn[fd], readable |-> conn[fd] \in sent \cup hungup]

ListenEvent == [fd |-> "listenfd"]

(* events[0] is never looked at.                                           *)
EpollWait_SkipsFirst ==
  /\ batch = {}
  /\ edge # {} \/ listen_edge
  /\ LET all == {Event(fd) : fd \in edge} \cup (IF listen_edge THEN {ListenEvent} ELSE {})
     IN  \E first \in all : batch' = all \ {first}
  /\ edge' = {}
  /\ listen_edge' = FALSE
  /\ answer' = NoAnswer
  /\ UNCHANGED <<events_count, buffer, leaked, conn, registered, backlog, clientVars>>

EpollWait ==
  /\ batch = {}
  /\ edge # {} \/ listen_edge
  /\ batch' = {Event(fd) : fd \in edge} \cup (IF listen_edge THEN {ListenEvent} ELSE {})
  /\ edge' = {}
  /\ listen_edge' = FALSE
  /\ answer' = NoAnswer
  /\ UNCHANGED <<events_count, buffer, leaked, conn, registered, backlog, clientVars>>

-----------------------------------------------------------------------------
(* An event of listenfd: one accept, however many connections wait.        *)
Accepting(c) ==
  /\ ListenEvent \in batch
  /\ batch' = batch \ {ListenEvent}
  /\ FreeFds > 0 /\ backlog # <<>>
  /\ c = Head(backlog)
  /\ backlog' = Tail(backlog)

(* accept fails: no descriptor is left for the process or for the system,  *)
(* or no memory. The connection stays where it is. (An error that takes    *)
(* the connection away has the effect of Refuse.)                          *)
AcceptFails ==
  /\ ListenEvent \in batch
  /\ batch' = batch \ {ListenEvent}
  /\ answer' = AcceptError
  /\ UNCHANGED <<events_count, buffer, leaked, kernelVars, clientVars>>

(* A socket that can be written to is reported as soon as it is added.     *)
Accept_InOnly(c, fd) ==
  /\ Accepting(c)
  /\ events_count # MaxEvents - 1
  /\ conn[fd] = NoClient
  /\ conn' = [conn EXCEPT ![fd] = c]
  /\ registered' = registered \cup {fd}
  /\ edge' = IF c \in sent \cup hungup THEN edge \cup {fd} ELSE edge
  /\ events_count' = events_count + 1
  /\ where' = [where EXCEPT ![c] = "accepted"]
  /\ answer' = NoAnswer
  /\ UNCHANGED <<buffer, leaked, listen_edge, sent, prompt, hungup>>

Accept(c, fd) ==
  /\ Accepting(c)
  /\ events_count # MaxEvents - 1
  /\ conn[fd] = NoClient
  /\ conn' = [conn EXCEPT ![fd] = c]
  /\ registered' = registered \cup {fd}
  /\ edge' = edge \cup {fd}
  /\ events_count' = events_count + 1
  /\ where' = [where EXCEPT ![c] = "accepted"]
  /\ answer' = NoAnswer
  /\ UNCHANGED <<buffer, leaked, listen_edge, sent, prompt, hungup>>

(* The limit of events is reached, fcntl fails or epoll_ctl fails: the new *)
(* connection is closed.                                                   *)
Refuse_Counts(c) ==
  /\ Accepting(c)
  /\ Leaves(c)
  /\ events_count' = events_count + 1
  /\ answer' = NoAnswer
  /\ UNCHANGED <<buffer, leaked, conn, registered, edge, listen_edge>>

(* Making room for the new connection by closing another one.              *)
Refuse_MakesRoom(c) ==
  /\ Accepting(c)
  /\ \E fd \in registered :
       /\ conn' = [conn EXCEPT ![fd] = c]
       /\ edge' = edge \cup {fd}
       /\ where' = [where EXCEPT ![c] = "accepted", ![conn[fd]] = "away"]
  /\ answer' = NoAnswer
  /\ UNCHANGED <<events_count, buffer, leaked, registered, listen_edge, sent, prompt, hungup>>

Refuse(c) ==
  /\ Accepting(c)
  /\ Leaves(c)
  /\ answer' = NoAnswer
  /\ UNCHANGED <<events_count, buffer, leaked, conn, registered, edge, listen_edge>>

-----------------------------------------------------------------------------
(* do_read: what the buffer may hold after an event e.  recv finds the     *)
(* request, the end of the stream, or an error that leaves the buffer.     *)
AfterRead(e) ==
  IF ~e.readable THEN {buffer}
  ELSE (IF conn[e.fd] \in sent THEN {conn[e.fd]} ELSE {NoClient})
       \cup (IF conn[e.fd] \in hungup THEN {buffer} ELSE {})

(* set_file and send_file, answering the request b: an error if there is   *)
(* none, else an error or, with a descriptor left, the file.  The FILE is  *)
(* closed only if sending it fails half-way.                               *)
Files(b) == {NoClient} \cup (IF FreeFds > 0 THEN {b} ELSE {})

Leak(f) == IF f = NoClient THEN {leaked} ELSE {leaked, leaked + 1}

(* An event of a connection: read, answer, and the connection is over.     *)
(* epoll_ctl(EPOLL_CTL_DEL) succeeds for a descriptor that is registered.  *)
(* The answer is given before the request is read.                         *)
Handle_AnswersFirst(e) ==
  /\ e \in batch \ {ListenEvent}
  /\ batch' = batch \ {e}
  /\ buffer' \in AfterRead(e)
  /\ \E f \in Files(buffer) :
       /\ answer' = [client |-> conn[e.fd], file |-> f,
                     prompt |-> conn[e.fd] \in prompt \ hungup]
       /\ leaked' \in Leak(f)
  /\ registered' = registered \ {e.fd}
  /\ edge' = edge \ {e.fd}
  /\ conn' = [conn EXCEPT ![e.fd] = NoClient]
  /\ Leaves(conn[e.fd])
  /\ events_count' = events_count - 1
  /\ UNCHANGED <<listen_edge, backlog>>

Handle(e) ==
  /\ e \in batch \ {ListenEvent}
  /\ batch' = batch \ {e}
  /\ \E b \in AfterRead(e) :
       /\ buffer' = b
       /\ \E f \in Files(b) :
            /\ answer' = [client |-> conn[e.fd], file |-> f,
                          prompt |-> conn[e.fd] \in prompt \ hungup]
            /\ leaked' \in Leak(f)
  /\ registered' = registered \ {e.fd}
  /\ edge' = edge \ {e.fd}
  /\ conn' = [conn EXCEPT ![e.fd] = NoClient]
  /\ Leaves(conn[e.fd])
  /\ events_count' = events_count - 1
  /\ UNCHANGED <<listen_edge, backlog>>

-----------------------------------------------------------------------------
Serve ==
  \/ EpollWait
  \/ AcceptFails
  \/ \E c \in Clients : Refuse(c) \/ \E fd \in Fds : Accept(c, fd)
  \/ \E e \in batch : Handle(e)

Connecting == \E c \in Clients : Connect(c)
Next == Serve \/ Connecting \/ \E c \in Clients : Send(c) \/ HangUp(c)

Spec == Init /\ [][Next]_vars

(* The loop of main() never waits but in epoll_wait.                       *)
FairSpec == Spec /\ WF_vars(Serve)

-----------------------------------------------------------------------------
Connections == batch \ {ListenEvent}

(* Type invariant: what main() and the kernel keep.                        *)
TypeOK ==
  /\ \A e \in Connections : /\ e.fd \in Fds /\ e.conn \in Clients /\ e.readable \in BOOLEAN
                            /\ e = [fd |-> e.fd, conn |-> e.conn, readable |-> e.readable]
  /\ events_count \in 1..(MaxEvents - 1)
  /\ buffer \in Clients \cup {NoClient}
  /\ leaked \in 0..Cardinality(Fds)
  /\ conn \in [Fds -> Clients \cup {NoClient}]
  /\ registered \subseteq Fds
  /\ edge \subseteq Fds
  /\ listen_edge \in BOOLEAN
  /\ backlog \in Seq(Clients)
  /\ where \in [Clients -> {"away", "queued", "accepted"}]
  /\ sent \subseteq Clients /\ prompt \subseteq sent /\ hungup \subseteq Clients
  /\ answer \in [client : Clients \cup {NoClient}, prompt : BOOLEAN,
                 file : Clients \cup {NoClient}]

(* What main() counts is what epoll watches, and what it watches is what   *)
(* is open: no path of the loop leaks a connection or counts one twice.    *)
CountMatches ==
  /\ registered = Used
  /\ events_count = 1 + Cardinality(registered)

(* Handling the events of a round one by one closes and opens descriptors; *)
(* an event still to be handled is nevertheless for the connection that    *)
(* its descriptor had when epoll_wait reported it.                         *)
NoStaleEvent ==
  \A e \in Connections : e.fd \in registered /\ e.conn = conn[e.fd]

(* A client whose request had arrived when its connection was accepted is  *)
(* not answered with the file somebody else asked for.                     *)
PromptClientsAnswered ==
  answer.prompt => answer.file \in {answer.client, NoClient}

(* The same of every client: the answer is the file of its own request.    *)
(* HW12/main.c:170 says that set_file finds the file by the request, but   *)
(* a new connection can be written to before its request has arrived.      *)
AnswersOwnRequest ==
  answer.file \in {answer.client, NoClient}

(* Every accepted connection is answered and closed, also when its client  *)
(* never sends anything.                                                   *)
EveryoneDismissed ==
  \A c \in Clients : where[c] = "accepted" ~> where[c] = "away"

(* Although a round accepts at most one connection, each edge of listenfd  *)
(* brings the oldest waiting one its turn, unless accept fails.            *)
EdgeServesOldest ==
  \A c \in Clients :
    listen_edge /\ backlog # <<>> /\ Head(backlog) = c
      ~> where[c] # "queued" \/ answer = AcceptError

(* A connection is over one round after the round that accepted it: there  *)
(* are never more than two, and the limit of MAX_EPOLL_EVENTS is never     *)
(* what refuses one.                                                       *)
FewConnections == Cardinality(Used) <= 2
=============================================================================
