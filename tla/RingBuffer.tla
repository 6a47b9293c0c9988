----------------------------- MODULE RingBuffer -----------------------------
(***************************************************************************)
(* The data path of the ring_buffer character device, HW14/charmod.c:      *)
(* rb_read, rb_write, rb_ioctl and the sysfs attribute buffer_size, run by *)
(* any number of threads.  One action per step of a handler that another   *)
(* thread, a signal or a bad user page can separate from the next one: the *)
(* bytes of a read or write are moved one by one under rb->lock.           *)
(*                                                                         *)
(* Loading, unloading and opening the device are in CharDevice.tla; here   *)
(* the device is loaded and every thread holds its file or its sysfs       *)
(* directory.                                                              *)
(***************************************************************************)
EXTENDS Integers, Sequences

CONSTANTS
  Threads,      (* threads that may be inside the driver                   *)
  NoThread,     (* value of lock when nobody holds it                      *)
  Byte,         (* the values a byte takes                                 *)
  Unset,        (* content of a slot no write has stored to                *)
  DefaultSize,  (* DEFAULT_SIZE                                            *)
  MaxSize,      (* largest size kzalloc grants                             *)
  MaxCount      (* largest count a caller passes to read or write          *)

ASSUME ThreadAssumption == NoThread \notin Threads
ASSUME ByteAssumption == Unset \notin Byte
ASSUME SizeAssumption ==
  /\ MaxSize \in Nat
  /\ DefaultSize \in 1..MaxSize
  /\ MaxCount \in Nat

VARIABLES
  (* struct ring_buffer *)
  buffer, size, head, tail, count, lock,
  (* the threads: the call each is in ("none" outside the driver), whether *)
  (* it waits for rb->lock or runs, its argument, the bytes its copy loop  *)
  (* has moved and what its last call returned                             *)
  op, pc, arg, moved, ret,
  (* rb_read's to_read, of the thread that holds the lock                  *)
  to_read,
  (* history: the bytes in the buffer when the lock was taken              *)
  before

rbVars == <<buffer, size, head, tail, count>>
vars == <<buffer, size, head, tail, count, lock,
          op, pc, arg, moved, ret, to_read, before>>

EFAULT      == -14
EINVAL      == -22
ENOMEM      == -12
ERESTARTSYS == -512
StoreOK     == 1

Smaller(m, n) == IF m <= n THEN m ELSE n

(* Advancing an index: (k + 1) % rb->size.  (Each definition named X_...   *)
(* is a way to get X wrong; the specification uses none of them.)          *)
Step(k) == (k + 1) % size

(* The bytes the indices delimit, oldest first.                            *)
Contents == [i \in 1..count |-> buffer[(tail + i - 1) % size]]

(* The state init_rb leaves.                                               *)
Init ==
  /\ buffer = [k \in 0..(DefaultSize - 1) |-> Unset]
  /\ size = DefaultSize
  /\ head = 0
  /\ tail = 0
  /\ count = 0
  /\ lock = NoThread
  /\ op = [t \in Threads |-> "none"]
  /\ pc = [t \in Threads |-> "out"]
  /\ arg = [t \in Threads |-> 0]
  /\ moved = [t \in Threads |-> <<>>]
  /\ ret = [t \in Threads |-> 0]
  /\ to_read = 0
  /\ before = <<>>

-----------------------------------------------------------------------------
(* Thread t enters handler o, which first waits for rb->lock.              *)
Enter(t, o, a) ==
  /\ pc[t] = "out"
  /\ op' = [op EXCEPT ![t] = o]
  /\ pc' = [pc EXCEPT ![t] = "wait"]
  /\ arg' = [arg EXCEPT ![t] = a]
  /\ moved' = [moved EXCEPT ![t] = <<>>]
  /\ ret' = [ret EXCEPT ![t] = 0]
  /\ UNCHANGED <<rbVars, lock, to_read, before>>

CallRead(t) == \E n \in 0..MaxCount : Enter(t, "read", n)
CallWrite(t) == \E n \in 0..MaxCount : Enter(t, "write", n)
CallWipe(t) == Enter(t, "wipe", 0)
CallStore(t) == \E n \in 1..MaxSize : Enter(t, "store", n)

(* A handler that returns r to thread t.                                   *)
Leave(t, r) ==
  /\ op' = [op EXCEPT ![t] = "none"]
  /\ pc' = [pc EXCEPT ![t] = "out"]
  /\ arg' = [arg EXCEPT ![t] = 0]
  /\ ret' = [ret EXCEPT ![t] = r]

(* A wrong ioctl command, a text that is no number or the number 0: the    *)
(* handler returns before it touches the lock.                             *)
CallRejected(t) ==
  /\ pc[t] = "out"
  /\ Leave(t, EINVAL)
  /\ moved' = [moved EXCEPT ![t] = <<>>]
  /\ UNCHANGED <<rbVars, lock, to_read, before>>

(* buffer_size_show reads rb->size without the lock.                       *)
CallShow(t) ==
  /\ pc[t] = "out"
  /\ Leave(t, size)
  /\ moved' = [moved EXCEPT ![t] = <<>>]
  /\ UNCHANGED <<rbVars, lock, to_read, before>>

(* mutex_lock_interruptible succeeds; rb_read then fixes to_read.          *)
Acquire(t) ==
  /\ pc[t] = "wait"
  /\ lock = NoThread
  /\ lock' = t
  /\ pc' = [pc EXCEPT ![t] = "run"]
  /\ to_read' = IF op[t] = "read" THEN Smaller(arg[t], count) ELSE 0
  /\ before' = Contents
  /\ UNCHANGED <<rbVars, op, arg, moved, ret>>

(* A signal reaches a thread asleep on a lock another thread holds.        *)
Interrupt(t) ==
  /\ pc[t] = "wait"
  /\ lock # NoThread
  /\ Leave(t, ERESTARTSYS)
  /\ UNCHANGED <<rbVars, lock, moved, to_read, before>>

(* The thread that runs handler o under the lock, and how it gives the     *)
(* lock back and returns.                                                  *)
Running(t, o) == pc[t] = "run" /\ op[t] = o

UnlockAndLeave(t, r) ==
  /\ lock' = NoThread
  /\ to_read' = 0
  /\ before' = <<>>
  /\ Leave(t, r)

-----------------------------------------------------------------------------
(* rb_read: one byte leaves at the tail.                                   *)
ReadByte(t) ==
  /\ Running(t, "read")
  /\ Len(moved[t]) < to_read
  /\ moved' = [moved EXCEPT ![t] = Append(@, buffer[tail])]
  /\ tail' = Step(tail)
  /\ count' = count - 1
  /\ UNCHANGED <<buffer, size, head, lock, op, pc, arg, ret, to_read, before>>

(* copy_to_user fails: the bytes moved so far are gone from the buffer.    *)
ReadFault(t) ==
  /\ Running(t, "read")
  /\ Len(moved[t]) < to_read
  /\ UnlockAndLeave(t, EFAULT)
  /\ UNCHANGED <<rbVars, moved>>

ReadReturn_Count(t) ==
  /\ Running(t, "read")
  /\ Len(moved[t]) >= to_read
  /\ UnlockAndLeave(t, arg[t])
  /\ UNCHANGED <<rbVars, moved>>

ReadReturn(t) ==
  /\ Running(t, "read")
  /\ Len(moved[t]) >= to_read
  /\ UnlockAndLeave(t, to_read)
  /\ UNCHANGED <<rbVars, moved>>

(* A byte was stored: the buffer holds one more or, when it is full, gives *)
(* up the oldest one.                                                      *)
Admit ==
  IF count < size
    THEN count' = count + 1 /\ tail' = tail
    ELSE count' = count /\ tail' = Step(tail)

(* rb_write: one byte, whatever the caller's memory holds by now, enters   *)
(* at the head.                                                            *)
WriteByte(t) ==
  /\ Running(t, "write")
  /\ Len(moved[t]) < arg[t]
  /\ \E b \in Byte :
       /\ buffer' = [buffer EXCEPT ![head] = b]
       /\ moved' = [moved EXCEPT ![t] = Append(@, b)]
  /\ head' = Step(head)
  /\ Admit
  /\ UNCHANGED <<size, lock, op, pc, arg, ret, to_read, before>>

WriteFault_StaysLocked(t) ==
  /\ Running(t, "write")
  /\ Len(moved[t]) < arg[t]
  /\ Leave(t, EFAULT)
  /\ UNCHANGED <<rbVars, lock, moved, to_read, before>>

WriteFault(t) ==
  /\ Running(t, "write")
  /\ Len(moved[t]) < arg[t]
  /\ UnlockAndLeave(t, EFAULT)
  /\ UNCHANGED <<rbVars, moved>>

WriteReturn(t) ==
  /\ Running(t, "write")
  /\ Len(moved[t]) >= arg[t]
  /\ UnlockAndLeave(t, arg[t])
  /\ UNCHANGED <<rbVars, moved>>

(* rb_ioctl(IOCTL_WIPE_RB): the bytes stay in memory, the indices forget   *)
(* them.                                                                   *)
Wipe_KeepsTail(t) ==
  /\ Running(t, "wipe")
  /\ head' = 0
  /\ count' = 0
  /\ UnlockAndLeave(t, 0)
  /\ UNCHANGED <<buffer, size, tail, moved>>

Wipe(t) ==
  /\ Running(t, "wipe")
  /\ head' = 0
  /\ tail' = 0
  /\ count' = 0
  /\ UnlockAndLeave(t, 0)
  /\ UNCHANGED <<buffer, size, moved>>

(* buffer_size_store: a zeroed buffer replaces the old one.                *)
Store(t) ==
  /\ Running(t, "store")
  /\ buffer' = [k \in 0..(arg[t] - 1) |-> Unset]
  /\ size' = arg[t]
  /\ head' = 0
  /\ tail' = 0
  /\ count' = 0
  /\ UnlockAndLeave(t, StoreOK)
  /\ UNCHANGED moved

StoreNoMemory(t) ==
  /\ Running(t, "store")
  /\ UnlockAndLeave(t, ENOMEM)
  /\ UNCHANGED <<rbVars, moved>>

-----------------------------------------------------------------------------
(* Steps of a thread inside the driver; entering it is the caller's choice.*)
Work(t) ==
  \/ ReadByte(t) \/ ReadFault(t) \/ ReadReturn(t)
  \/ WriteByte(t) \/ WriteFault(t) \/ WriteReturn(t)
  \/ Wipe(t) \/ Store(t) \/ StoreNoMemory(t)

Next ==
  \E t \in Threads :
    \/ CallRead(t) \/ CallWrite(t) \/ CallWipe(t) \/ CallStore(t)
    \/ CallRejected(t) \/ CallShow(t)
    \/ Acquire(t) \/ Interrupt(t)
    \/ Work(t)

Spec == Init /\ [][Next]_vars

(* The scheduler runs a thread that can run, and a mutex of the kernel is  *)
(* handed to a thread that keeps waiting for it.                           *)
Fairness == \A t \in Threads : WF_vars(Work(t)) /\ SF_vars(Acquire(t))

FairSpec == Spec /\ Fairness

-----------------------------------------------------------------------------
(* What the callers see of the device: while a handler holds the lock,     *)
(* nothing of its call has happened.                                       *)
AbsQueue == IF lock = NoThread THEN Contents ELSE before
AbsMoved == [t \in Threads |-> IF pc[t] = "out" THEN moved[t] ELSE <<>>]

Queue == INSTANCE OverwriteQueue WITH
  queue <- AbsQueue, cap <- size, moved <- AbsMoved

-----------------------------------------------------------------------------
(* Type invariant: the state rb_* handlers can see.                        *)
TypeOK ==
  /\ size \in 1..MaxSize
  /\ buffer \in [0..(size - 1) -> Byte \cup {Unset}]
  /\ head \in 0..(size - 1)
  /\ tail \in 0..(size - 1)
  /\ count \in 0..size
  /\ lock \in Threads \cup {NoThread}
  /\ op \in [Threads -> {"none", "read", "write", "wipe", "store"}]
  /\ pc \in [Threads -> {"out", "wait", "run"}]
  /\ arg \in [Threads -> Nat]
  /\ moved \in [Threads -> Seq(Byte)]
  /\ ret \in [Threads -> Int]
  /\ to_read \in Nat
  /\ before \in Seq(Byte)

(* rb_write places a byte at head and rb_read takes one at tail, each with *)
(* its own arithmetic; they agree with count whatever mixture of writes    *)
(* that overwrite, faults in mid-loop, wipes and changes of size ran.      *)
IndicesAgree == head = (tail + count) % size

(* Only the holder of rb->lock is between a handler's lock and unlock, on  *)
(* every path, the early returns on a fault included.                      *)
LockProtects ==
  \A t \in Threads : pc[t] = "run" <=> lock = t

(* A read loses and invents nothing: what it has delivered so far and what *)
(* is left in the buffer are the bytes it found, in order, although writes *)
(* and changes of size were called meanwhile.                              *)
ReadSplitsContents ==
  \A t \in Threads :
    Running(t, "read") =>
      /\ before = moved[t] \o Contents
      /\ to_read = Smaller(arg[t], Len(before))

(* A write in progress has appended the bytes it copied and dropped only   *)
(* the oldest ones, and only those that did not fit.                       *)
WriteKeepsNewest ==
  \A t \in Threads :
    Running(t, "write") => Contents = Queue!LastN(before \o moved[t], size)

(* The device is an overwrite queue whose calls are atomic                 *)
(* (OverwriteQueue.tla): a call that holds the lock has not happened yet.  *)
AtomicCalls == Queue!Spec

(* Every call returns: no path leaves rb->lock held, and no caller waits   *)
(* for ever.                                                               *)
CallsReturn == \A t \in Threads : pc[t] # "out" ~> pc[t] = "out"
=============================================================================
