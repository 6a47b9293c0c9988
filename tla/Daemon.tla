------------------------------- MODULE Daemon -------------------------------
(***************************************************************************)
(* The file-size daemon (src/HW8): any number of processes are started,    *)
(* one at a time serves; a client that connects is told the size of the    *)
(* file. One action is one system call, or the end of a log_message, of a  *)
(* process, a signal delivered to it, or a step of its surroundings.       *)
(*                                                                         *)
(* The program is compiled with -std=c11, which gives signal() its System  *)
(* V meaning: a handler is forgotten as it is called, and accept and read  *)
(* are not restarted after it.                                             *)
(***************************************************************************)
EXTENDS Integers, Sequences, FiniteSets

CONSTANTS
  Procs,        \* bound: processes ever started
  MaxAnswers,   \* bound: conversations of one process
  Sizes,        \* bound: the sizes of the file
  NoProc

ASSUME DaemonAssumption == NoProc \notin Procs /\ MaxAnswers \in Nat /\ Sizes \subseteq Nat

Missing == -1   \* what update_size stores for a file it cannot stat

VARIABLES
  at,           \* where each process is
  byInit,       \* processes whose parent is process 1 as they start
  handled,      \* the signals signal_handler is installed for
  holder,       \* who holds the lock on /tmp/otus.lock
  pid,          \* what /tmp/otus.lock says
  size,         \* the file's size, or Missing
  file_size,    \* file_size of each process
  waiting,      \* the sizes the file had since the client waiting for accept connected
  served,       \* and since the one being served did; {}: accept has failed
  answered,     \* conversations completed
  running,      \* calls of signal_handler that have not returned, by their signals
  buffered,     \* of which interrupted log_messages a record is still in stdio's buffer
  written       \* records a process appended to the log since its "terminate" record

handlerVars == <<running, buffered, written>>
vars == <<at, byInit, handled, holder, pid, size, file_size, waiting, served, answered, handlerVars>>

Terminated(p) == written[p] >= 0
Logging == {"log ip", "log query"}          \* inside log_message
Serving == {"accept", "stat", "read", "send", "interrupted"} \cup Logging

(* What the process is executing: main(), or the last handler called.      *)
Top(p) == IF running[p] = <<>> THEN "main" ELSE running[p][Len(running[p])]
Main(p, place) == at[p] = place /\ running[p] = <<>>

(* Records in stdio's buffers, which exit() writes to the log.             *)
Flushed(p) ==
  (IF "main" \in buffered[p] THEN 1 ELSE 0) + (IF "HUP" \in buffered[p] THEN 1 ELSE 0)

Init ==
  /\ at = [p \in Procs |-> "none"] /\ byInit = {} /\ handled = [p \in Procs |-> {}]
  /\ holder = NoProc /\ pid = NoProc
  /\ size = Missing /\ file_size = [p \in Procs |-> 0]
  /\ waiting = [p \in Procs |-> {}] /\ served = [p \in Procs |-> {}]
  /\ answered = [p \in Procs |-> 0] /\ running = [p \in Procs |-> <<>>]
  /\ buffered = [p \in Procs |-> {}] /\ written = [p \in Procs |-> -1]

Go(p, place) == at' = [at EXCEPT ![p] = place]

(* exit(), a signal's default action or SIGPIPE: the lock goes with the    *)
(* process.                                                                *)
End(p) == Go(p, "ended") /\ holder' = IF holder = p THEN NoProc ELSE holder

EndWithin(p) ==
  /\ End(p) /\ running' = [running EXCEPT ![p] = <<>>] /\ buffered' = [buffered EXCEPT ![p] = {}]

(* A process is started by a shell or by process 1; the second kind        *)
(* returns from daemonize at once, without a lock and without handlers.    *)
(* The other forks, and its child goes on without the descriptors that     *)
(* the closing loop found open.                                            *)
Start(p, init) ==
  /\ at[p] = "none"
  /\ byInit' = IF init THEN byInit \cup {p} ELSE byInit
  /\ Go(p, IF init THEN "socket" ELSE "lock")
  /\ UNCHANGED <<handled, holder, pid, size, file_size, waiting, served, answered, handlerVars>>

SetLock_ThenCloseAll(p) ==
  /\ Main(p, "lock") /\ holder = NoProc /\ Go(p, "truncate")
  /\ UNCHANGED <<holder, byInit, handled, pid, size, file_size, waiting, served, answered, handlerVars>>

(* set_lock: open without O_TRUNC, then F_SETLK, which does not wait.      *)
SetLock(p) ==
  /\ Main(p, "lock")
  /\ IF holder = NoProc THEN holder' = p /\ Go(p, "truncate") ELSE End(p)
  /\ UNCHANGED <<byInit, handled, pid, size, file_size, waiting, served, answered, handlerVars>>

Truncate(p) ==
  /\ Main(p, "truncate") /\ pid' = NoProc /\ Go(p, "write pid")
  /\ UNCHANGED <<byInit, handled, holder, size, file_size, waiting, served, answered, handlerVars>>

WritePid(p) ==
  /\ Main(p, "write pid") /\ pid' = p /\ Go(p, "signals")
  /\ UNCHANGED <<byInit, handled, holder, size, file_size, waiting, served, answered, handlerVars>>

(* signal() for SIGHUP, then for SIGTERM.                                  *)
Handle(p) ==
  /\ \/ Main(p, "signals") /\ Go(p, "signal TERM") /\ handled' = [handled EXCEPT ![p] = @ \cup {"HUP"}]
     \/ Main(p, "signal TERM") /\ Go(p, "socket") /\ handled' = [handled EXCEPT ![p] = @ \cup {"TERM"}]
  /\ UNCHANGED <<byInit, holder, pid, size, file_size, waiting, served, answered, handlerVars>>

(* set_socket: SO_REUSEPORT lets several processes bind the port.          *)
SetSocket(p) ==
  /\ Main(p, "socket") /\ Go(p, "accept")
  /\ UNCHANGED <<byInit, handled, holder, pid, size, file_size, waiting, served, answered, handlerVars>>

(* Any call of set-up may fail and ends the process.                       *)
Fails(p) ==
  /\ at[p] \in {"lock", "truncate", "write pid", "socket"} /\ running[p] = <<>>
  /\ End(p)
  /\ UNCHANGED <<byInit, handled, pid, size, file_size, waiting, served, answered, handlerVars>>

-----------------------------------------------------------------------------
(* The loop of main().                                                     *)
Accept(p) ==
  /\ Main(p, "accept") /\ waiting[p] # {} /\ answered[p] < MaxAnswers
  /\ served' = [served EXCEPT ![p] = waiting[p]] /\ waiting' = [waiting EXCEPT ![p] = {}]
  /\ Go(p, "log ip")
  /\ UNCHANGED <<byInit, handled, holder, pid, size, file_size, answered, handlerVars>>

(* The end of a log_message: fclose appends the record to the file.        *)
Wrote(p, who, n) ==
  /\ written' = [written EXCEPT ![p] = IF @ < 0 THEN @ ELSE @ + n]
  /\ buffered' = [buffered EXCEPT ![p] = @ \ {who}]

LogIp(p) ==
  /\ Main(p, "log ip") /\ Wrote(p, "main", 1) /\ Go(p, "stat")
  /\ UNCHANGED <<byInit, handled, holder, pid, size, file_size, waiting, served, answered, running>>

UpdateSize_Once(p) ==
  /\ Main(p, "stat")
  /\ file_size' = [file_size EXCEPT ![p] = IF @ > 0 THEN @ ELSE size]
  /\ IF served[p] = {} THEN End(p) ELSE Go(p, "read") /\ UNCHANGED holder
  /\ UNCHANGED <<byInit, handled, pid, size, waiting, served, answered, handlerVars>>

(* update_size, and dialog(-1), which is where accept's error is noticed.  *)
UpdateSize(p) ==
  /\ Main(p, "stat")
  /\ file_size' = [file_size EXCEPT ![p] = size]
  /\ IF served[p] = {} THEN End(p) ELSE Go(p, "read") /\ UNCHANGED holder
  /\ UNCHANGED <<byInit, handled, pid, size, waiting, served, answered, handlerVars>>

(* read waits for the client's query for as long as the client likes. An   *)
(* error ends the process.                                                 *)
Read(p) ==
  /\ Main(p, "read")
  /\ \/ Go(p, "log query") /\ UNCHANGED holder
     \/ End(p)
  /\ UNCHANGED <<byInit, handled, pid, size, file_size, waiting, served, answered, handlerVars>>

(* Two records: the query, and the answer before it is sent.               *)
LogQuery(p) ==
  /\ Main(p, "log query") /\ Wrote(p, "main", 2) /\ Go(p, "send")
  /\ UNCHANGED <<byInit, handled, holder, pid, size, file_size, waiting, served, answered, running>>

(* A client that has gone makes send raise SIGPIPE, which nothing handles. *)
Send(p) ==
  /\ Main(p, "send")
  /\ \/ /\ Go(p, "accept") /\ answered' = [answered EXCEPT ![p] = @ + 1]
        /\ served' = [served EXCEPT ![p] = {}] /\ UNCHANGED holder
     \/ End(p) /\ UNCHANGED <<answered, served>>
  /\ UNCHANGED <<byInit, handled, pid, size, file_size, waiting, handlerVars>>

-----------------------------------------------------------------------------
Blocked(p) == running[p] = <<>> /\ ((at[p] = "accept" /\ waiting[p] = {}) \/ at[p] = "read")
Alive(p) == at[p] \notin {"none", "ended", "hung"}

(* A signal without a handler kills, a process that hangs too.             *)
Kill(p, signal) ==
  /\ at[p] \notin {"none", "ended"} /\ signal \notin handled[p] /\ EndWithin(p)
  /\ UNCHANGED <<byInit, handled, pid, size, file_size, waiting, served, answered, written>>

(* Inside log_message: of main(), or of a handler.                         *)
InLog(p) ==
  \/ Top(p) = "main" /\ at[p] \in Logging
  \/ Top(p) = "HUP"
  \/ Top(p) = "TERM" /\ ~Terminated(p)

(* signal_handler is called, once for each of its signals, wherever the    *)
(* process is and in the other's call too: no signal is blocked meanwhile. *)
(* A log_message it interrupts may have its record in stdio's buffer; an   *)
(* accept or a read it interrupts will have failed.                        *)
Signal(p, signal) ==
  /\ Alive(p) /\ signal \in handled[p]
  /\ handled' = [handled EXCEPT ![p] = @ \ {signal}]
  /\ running' = [running EXCEPT ![p] = Append(@, signal)]
  /\ \/ UNCHANGED buffered
     \/ InLog(p) /\ buffered' = [buffered EXCEPT ![p] = @ \cup {Top(p)}]
  /\ IF Blocked(p) THEN Go(p, "interrupted") ELSE UNCHANGED at
  /\ UNCHANGED <<byInit, holder, pid, size, file_size, waiting, served, answered, written>>

(* main() after such a call: an accept's error is noticed by dialog only,  *)
(* a read's at once.                                                       *)
Interrupted(p) ==
  /\ Main(p, "interrupted")
  /\ IF served[p] = {} THEN Go(p, "log ip") /\ UNCHANGED holder ELSE End(p)
  /\ UNCHANGED <<byInit, handled, pid, size, file_size, waiting, served, answered, handlerVars>>

(* The handler of SIGHUP has logged it and returns.                        *)
Hangup(p) ==
  /\ Alive(p) /\ Top(p) = "HUP" /\ Wrote(p, "HUP", 1)
  /\ running' = [running EXCEPT ![p] = SubSeq(@, 1, Len(@) - 1)]
  /\ UNCHANGED <<at, byInit, handled, holder, pid, size, file_size, waiting, served, answered>>

(* The handler of SIGTERM has logged it.                                   *)
Terminate_Returns(p) ==
  /\ Alive(p) /\ Top(p) = "TERM" /\ ~Terminated(p)
  /\ written' = [written EXCEPT ![p] = 0]
  /\ buffered' = [buffered EXCEPT ![p] = @ \ {"TERM"}]
  /\ running' = [running EXCEPT ![p] = SubSeq(@, 1, Len(@) - 1)]
  /\ UNCHANGED <<at, byInit, handled, holder, pid, size, file_size, waiting, served, answered>>

Terminate(p) ==
  /\ Alive(p) /\ Top(p) = "TERM" /\ ~Terminated(p)
  /\ written' = [written EXCEPT ![p] = 0]
  /\ buffered' = [buffered EXCEPT ![p] = @ \ {"TERM"}]
  /\ UNCHANGED <<at, byInit, handled, holder, pid, size, file_size, waiting, served, answered, running>>

(* Its exit() flushes what interrupted calls of log_message have in their  *)
(* buffers: those records come after the "terminate" record.               *)
Exit(p) ==
  /\ Alive(p) /\ Top(p) = "TERM" /\ Terminated(p) /\ EndWithin(p)
  /\ written' = [written EXCEPT ![p] = @ + Flushed(p)]
  /\ UNCHANGED <<byInit, handled, pid, size, file_size, waiting, served, answered>>

(* The log cannot be opened or written: exit(), with the same effect. The  *)
(* order in which it flushes a "terminate" record and others is open.      *)
LogFails(p) ==
  /\ Alive(p) /\ InLog(p) /\ Top(p) \notin buffered[p] /\ EndWithin(p)
  /\ \E n \in 0..Flushed(p) :
       written' = [written EXCEPT ![p] = IF Terminated(p) THEN @ + Flushed(p)
                                         ELSE IF "TERM" \in buffered[p] THEN n ELSE @]
  /\ UNCHANGED <<byInit, handled, pid, size, file_size, waiting, served, answered>>

(* log_message is not reentrant: when the handler has interrupted another  *)
(* call of it, localtime's lock may be held, and the process hangs. It     *)
(* hears no signal any more, but one without a handler.                    *)
Hang(p) ==
  /\ Alive(p) /\ InLog(p) /\ running[p] # <<>>
  /\ at[p] \in Logging \/ (Len(running[p]) > 1 /\ ~Terminated(p))
  /\ Go(p, "hung")
  /\ UNCHANGED <<byInit, handled, holder, pid, size, file_size, waiting, served, answered, handlerVars>>

Deaf(p, signal) ==
  /\ at[p] = "hung" /\ signal \in handled[p]
  /\ handled' = [handled EXCEPT ![p] = @ \ {signal}]
  /\ UNCHANGED <<at, byInit, holder, pid, size, file_size, waiting, served, answered, handlerVars>>

-----------------------------------------------------------------------------
(* A client connects; somebody writes, truncates or removes the file.      *)
Connect(p) ==
  /\ at[p] \in Serving /\ waiting[p] = {}
  /\ waiting' = [waiting EXCEPT ![p] = {size}]
  /\ UNCHANGED <<at, byInit, handled, holder, pid, size, file_size, served, answered, handlerVars>>

Change(s) ==
  /\ s # size /\ size' = s
  /\ LET seen(f) == [p \in Procs |-> IF f[p] = {} THEN {} ELSE f[p] \cup {s}]
     IN waiting' = seen(waiting) /\ served' = seen(served)
  /\ UNCHANGED <<at, byInit, handled, holder, pid, file_size, answered, handlerVars>>

Next ==
  \/ \E p \in Procs :
       \/ \E init \in BOOLEAN : Start(p, init)
       \/ SetLock(p) \/ Truncate(p) \/ WritePid(p) \/ Handle(p) \/ SetSocket(p) \/ Fails(p)
       \/ Accept(p) \/ LogIp(p) \/ UpdateSize(p) \/ Read(p) \/ LogQuery(p) \/ Send(p)
       \/ \E signal \in {"HUP", "TERM"} : Kill(p, signal) \/ Signal(p, signal) \/ Deaf(p, signal)
       \/ Interrupted(p) \/ Hangup(p) \/ Terminate(p) \/ Exit(p) \/ LogFails(p) \/ Hang(p)
       \/ Connect(p)
  \/ \E s \in Sizes \cup {Missing} : Change(s)

Spec == Init /\ [][Next]_vars

-----------------------------------------------------------------------------
(* Of the processes that were not started by process 1, at most one is     *)
(* past set_lock, whatever became of the others, and the lock file names   *)
(* it from then on: the port itself excludes nobody.                       *)
OneServes ==
  \A p \in Procs \ byInit : at[p] \in Serving \cup {"hung", "socket"} =>
    /\ holder = p /\ pid = p
    /\ \A q \in Procs \ byInit : at[q] \in Serving \cup {"hung", "socket"} => q = p

(* The size a client is told is one the file had after the client had      *)
(* connected, however long it waited for accept.                           *)
AnswersCurrent ==
  \A p \in Procs : at[p] \in {"log query", "send"} => file_size[p] \in served[p]

(* After its "terminate" record a process never goes on with what it was   *)
(* doing, and its log gets no more than what signals had interrupted: the  *)
(* record of main() and, if a SIGHUP came too, the record of that.         *)
TerminateEndsLog ==
  \A p \in Procs : Terminated(p) =>
    /\ written[p] <= IF "HUP" \in handled[p] THEN 1 ELSE 2
    /\ at[p] = "ended" \/ \E k \in 1..Len(running[p]) : running[p][k] = "TERM"
=============================================================================
