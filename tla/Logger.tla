------------------------------- MODULE Logger -------------------------------
(***************************************************************************)
(* The logging library of HW7 (logger.c) and the program that uses it      *)
(* (main.c): threads that append records to one file, each record by       *)
(* several calls of fprintf.  stdio makes one fprintf atomic, keeps what   *)
(* it prints in a buffer and writes that out when it likes.                *)
(*                                                                         *)
(* append_log locks a copy of the handler's mutex: the mutexes are state   *)
(* here, so that what the copy is worth can be seen.                       *)
(***************************************************************************)
EXTENDS Integers, Sequences, SequencesExt

CONSTANTS
  Threads,    (* the threads main() starts                                 *)
  Records,    (* records each of them logs                                 *)
  Frames      (* calls of fprintf that print a stack trace                 *)

RecordAssumption == Records \in Nat /\ Frames \in Nat

VARIABLES
  log_file,   (* the parts that have reached the file: [thread, part]      *)
  unwritten,  (* those in the buffer of stdio                              *)
  lost,       (* history: a write of the buffer has failed                 *)
  log_mutex,  (* logger->log_mutex: "free" or "held"                       *)
  mutex,      (* mutex[t]: append_log's local copy of it                   *)
  pc,         (* where thread t is: "out" of append_log, "lock", "write",  *)
              (* "failed", which is before exit(), or "ended"              *)
  calls,      (* calls[t]: the levels of t's records so far                *)
  part,       (* part[t]: parts printed of the record t is writing         *)
  main        (* main(): "init", "run", "closed", or the process "exited"  *)

written == <<log_file, unwritten, lost>>
vars == <<written, log_mutex, mutex, pc, calls, part, main>>

(* What append_log prints of a record: the line up to the message, the     *)
(* trace of an error, the end of the line.                                 *)
Parts(level) ==
  <<"head">> \o [i \in 1..(IF level = "ERROR" THEN Frames ELSE 0) |-> "frame"] \o <<"newline">>

Init ==
  /\ log_file = <<>> /\ unwritten = <<>> /\ lost = FALSE
  /\ log_mutex = "free"
  /\ mutex = [t \in Threads |-> "free"]
  /\ pc = [t \in Threads |-> "out"]
  /\ calls = [t \in Threads |-> <<>>]
  /\ part = [t \in Threads |-> 0]
  /\ main = "init"

-----------------------------------------------------------------------------
(* stdio: the buffer is written out; or the write fails after a part of    *)
(* it, and the rest is dropped.                                            *)
Flushed(printed) ==
  /\ log_file' = log_file \o printed
  /\ unwritten' = <<>>
  /\ UNCHANGED lost

FlushFails(printed) ==
  /\ \E k \in 0..Len(printed) : log_file' = log_file \o SubSeq(printed, 1, k)
  /\ unwritten' = <<>>
  /\ lost' = TRUE

(* main(): init_logger, which exits when it fails, and the threads.        *)
InitLogger ==
  /\ main = "init"
  /\ main' \in {"run", "exited"}
  /\ UNCHANGED <<written, log_mutex, mutex, pc, calls, part>>

(* pthread_join of every thread, then close_logger, which exits when the   *)
(* file cannot be closed, or the copy of the mutex not be destroyed.       *)
CloseLogger ==
  /\ main = "run"
  /\ \A t \in Threads : pc[t] = "ended"
  /\ \/ Flushed(unwritten) /\ main' \in {"closed", "exited"}
     \/ FlushFails(unwritten) /\ main' = "exited"
  /\ UNCHANGED <<log_mutex, mutex, pc, calls, part>>

-----------------------------------------------------------------------------
(* job(): the next record, of either level; the mutex is copied.           *)
Begin(t) ==
  /\ main = "run" /\ pc[t] = "out" /\ Len(calls[t]) < Records
  /\ \E level \in {"INFO", "ERROR"} : calls' = [calls EXCEPT ![t] = Append(@, level)]
  /\ mutex' = [mutex EXCEPT ![t] = log_mutex]
  /\ pc' = [pc EXCEPT ![t] = "lock"]
  /\ part' = [part EXCEPT ![t] = 0]
  /\ UNCHANGED <<written, log_mutex, main>>

End(t) ==
  /\ main = "run" /\ pc[t] = "out" /\ Len(calls[t]) = Records
  /\ pc' = [pc EXCEPT ![t] = "ended"]
  /\ UNCHANGED <<written, log_mutex, mutex, calls, part, main>>

(* Locking the handler's mutex in place, but unlocking the copy still.     *)
Lock_InPlace(t) ==
  /\ main = "run" /\ pc[t] = "lock" /\ log_mutex = "free"
  /\ log_mutex' = "held"
  /\ mutex' = [mutex EXCEPT ![t] = "held"]
  /\ pc' = [pc EXCEPT ![t] = "write"]
  /\ UNCHANGED <<written, calls, part, main>>

Lock(t) ==
  /\ main = "run" /\ pc[t] = "lock" /\ mutex[t] = "free"
  /\ mutex' = [mutex EXCEPT ![t] = "held"]
  /\ pc' = [pc EXCEPT ![t] = "write"]
  /\ UNCHANGED <<written, log_mutex, calls, part, main>>

Level(t) == Last(calls[t])

(* One fprintf, which writes the buffer out or does not.                   *)
Printed(t) == Append(unwritten, [thread |-> t, part |-> Parts(Level(t))[part[t] + 1]])

Write(t) ==
  /\ main = "run" /\ pc[t] = "write" /\ part[t] < Len(Parts(Level(t)))
  /\ part' = [part EXCEPT ![t] = @ + 1]
  /\ \/ unwritten' = Printed(t) /\ UNCHANGED <<log_file, lost>>
     \/ Flushed(Printed(t))
  /\ UNCHANGED <<log_mutex, mutex, pc, calls, main>>

WriteFails(t) ==
  /\ main = "run" /\ pc[t] = "write" /\ part[t] < Len(Parts(Level(t)))
  /\ FlushFails(Printed(t))
  /\ pc' = [pc EXCEPT ![t] = "failed"]
  /\ UNCHANGED <<log_mutex, mutex, calls, part, main>>

(* Memory for the trace or the date is not there, or a mutex fails.        *)
Fail(t) ==
  /\ main = "run" /\ pc[t] \in {"lock", "write"}
  /\ pc' = [pc EXCEPT ![t] = "failed"]
  /\ UNCHANGED <<written, log_mutex, mutex, calls, part, main>>

(* _exit(), which leaves stdio's buffer unwritten.                         *)
Exit_AtOnce(t) ==
  /\ main = "run" /\ pc[t] = "failed"
  /\ main' = "exited"
  /\ UNCHANGED <<written, log_mutex, mutex, pc, calls, part>>

(* exit() writes out what is in the buffer and ends every thread where it  *)
(* is.  The others were not stopped since the failure.                     *)
Exit(t) ==
  /\ main = "run" /\ pc[t] = "failed"
  /\ Flushed(unwritten) \/ FlushFails(unwritten)
  /\ main' = "exited"
  /\ UNCHANGED <<log_mutex, mutex, pc, calls, part>>

Unlock(t) ==
  /\ main = "run" /\ pc[t] = "write" /\ part[t] = Len(Parts(Level(t)))
  /\ mutex' = [mutex EXCEPT ![t] = "free"]
  /\ pc' = [pc EXCEPT ![t] = "out"]
  /\ UNCHANGED <<written, log_mutex, calls, part, main>>

Step(t) == Begin(t) \/ End(t) \/ Lock(t) \/ Write(t) \/ Unlock(t) \/ Exit(t)

Next == InitLogger \/ CloseLogger \/ \E t \in Threads : Step(t) \/ WriteFails(t) \/ Fail(t)

Spec == Init /\ [][Next]_vars

(* Threads that can run do.                                                *)
FairSpec ==
  /\ Spec
  /\ WF_vars(InitLogger) /\ WF_vars(CloseLogger)
  /\ \A t \in Threads : WF_vars(Step(t))

-----------------------------------------------------------------------------
(* The parts in a file that are of thread t.                               *)
WrittenBy(t, file) ==
  FoldLeft(LAMBDA parts, p : IF p.thread = t THEN Append(parts, p.part) ELSE parts, <<>>, file)

(* What thread t has printed, cut where it is in its last record.          *)
Asked(t) ==
  IF calls[t] = <<>> THEN <<>>
  ELSE FlattenSeq([i \in 1..(Len(calls[t]) - 1) |-> Parts(calls[t][i])])
       \o SubSeq(Parts(Level(t)), 1, part[t])

(* When main() has closed the file, every record of every thread is in it, *)
(* whole and in the order of its thread, although nothing keeps the        *)
(* threads apart and any write of the buffer, by any of them, may have     *)
(* failed before: no failure goes unseen.  And when the process exits for  *)
(* another reason than such a failure, all that was printed until then is  *)
(* there, that of the threads stopped in the middle of a record as well.   *)
NothingLost ==
  /\ main = "closed" =>
       \A t \in Threads :
         /\ Len(calls[t]) = Records
         /\ WrittenBy(t, log_file) = FlattenSeq([i \in 1..Records |-> Parts(calls[t][i])])
  /\ main = "exited" /\ ~lost =>
       \A t \in Threads : WrittenBy(t, log_file) = Asked(t)

(* HW7/logger.c:75 gives the format of a record: date, level, thread, line *)
(* number, message and, of an error, the trace.  Whoever reads the file    *)
(* finds it so if the parts of a record are together: from a head to its   *)
(* newline everything is of one thread.                                    *)
RecordsWhole ==
  ~lost => \A i \in 1..(Len(log_file) - 1) :
    log_file[i].part # "newline" => log_file[i + 1].thread = log_file[i].thread

(* Nobody waits for a mutex for ever: the program ends.                    *)
ProgramEnds == <>(main \in {"closed", "exited"})
=============================================================================
