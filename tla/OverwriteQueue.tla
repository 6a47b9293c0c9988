--------------------------- MODULE OverwriteQueue ---------------------------
(***************************************************************************)
(* What the ring_buffer character device (HW14/charmod.c) promises to its  *)
(* callers: a queue of at most cap bytes in which every system call takes  *)
(* effect in one step, when it returns.                                    *)
(*   - a read removes and delivers the oldest bytes, as many as asked for  *)
(*     and available;                                                      *)
(*   - a write appends its bytes and the oldest ones make room for them;   *)
(*   - the wipe ioctl and a change of the size empty the queue;            *)
(*   - a call that fails with -EFAULT took effect for the bytes that were  *)
(*     copied before the fault, every other failing call had no effect.    *)
(* RingBuffer.tla is shown to implement this specification.                *)
(***************************************************************************)
EXTENDS Integers, Sequences

CONSTANTS
  Threads,      (* threads that may be inside the driver                   *)
  Byte,         (* the values a byte takes                                 *)
  DefaultSize,  (* size of the queue after chardev_init                    *)
  MaxSize,      (* largest size the allocator grants                       *)
  MaxCount      (* largest count a caller passes to read or write          *)

VARIABLES
  queue,        (* bytes written and not yet read, oldest first            *)
  cap,          (* how many of them the device keeps                       *)
  op,           (* op[t]: the call thread t is in, "none" outside the driver *)
  arg,          (* arg[t]: count of the read or write, size of the store   *)
  moved,        (* moved[t]: bytes copied by t's last finished call        *)
  ret           (* ret[t]: what t's last finished call returned            *)

vars == <<queue, cap, op, arg, moved, ret>>

EFAULT      == -14
EINVAL      == -22
ENOMEM      == -12
ERESTARTSYS == -512

(* A sysfs store returns the length of its text; only its sign matters.    *)
StoreOK == 1

Smaller(m, n) == IF m <= n THEN m ELSE n

(* s without its first k elements, and the last k elements of s (all of s  *)
(* when it has fewer).                                                     *)
Drop(s, k) == [i \in 1..(Len(s) - k) |-> s[i + k]]
LastN(s, k) == Drop(s, Len(s) - Smaller(k, Len(s)))

Take(s, k) == [i \in 1..k |-> s[i]]

Init ==
  /\ queue = <<>>
  /\ cap = DefaultSize
  /\ op = [t \in Threads |-> "none"]
  /\ arg = [t \in Threads |-> 0]
  /\ moved = [t \in Threads |-> <<>>]
  /\ ret = [t \in Threads |-> 0]

(* Thread t enters the driver with call o and argument a.                  *)
Call(t, o, a) ==
  /\ op[t] = "none"
  /\ op' = [op EXCEPT ![t] = o]
  /\ arg' = [arg EXCEPT ![t] = a]
  /\ moved' = [moved EXCEPT ![t] = <<>>]
  /\ ret' = [ret EXCEPT ![t] = 0]
  /\ UNCHANGED <<queue, cap>>

(* The call of t returns r having copied the bytes m.                      *)
Return(t, r, m) ==
  /\ op' = [op EXCEPT ![t] = "none"]
  /\ arg' = [arg EXCEPT ![t] = 0]
  /\ moved' = [moved EXCEPT ![t] = m]
  /\ ret' = [ret EXCEPT ![t] = r]

Read(t) ==
  /\ op[t] = "read"
  /\ LET k == Smaller(arg[t], Len(queue)) IN
     /\ queue' = Drop(queue, k)
     /\ Return(t, k, Take(queue, k))
  /\ UNCHANGED cap

ReadFault(t) ==
  /\ op[t] = "read"
  /\ \E k \in 0..(Smaller(arg[t], Len(queue)) - 1) :
       /\ queue' = Drop(queue, k)
       /\ Return(t, EFAULT, Take(queue, k))
  /\ UNCHANGED cap

Write(t) ==
  /\ op[t] = "write"
  /\ \E s \in [1..arg[t] -> Byte] :
       /\ queue' = LastN(queue \o s, cap)
       /\ Return(t, arg[t], s)
  /\ UNCHANGED cap

WriteFault(t) ==
  /\ op[t] = "write"
  /\ \E k \in 0..(arg[t] - 1) :
       \E s \in [1..k -> Byte] :
         /\ queue' = LastN(queue \o s, cap)
         /\ Return(t, EFAULT, s)
  /\ UNCHANGED cap

Wipe(t) ==
  /\ op[t] = "wipe"
  /\ queue' = <<>>
  /\ Return(t, 0, <<>>)
  /\ UNCHANGED cap

Resize(t) ==
  /\ op[t] = "store"
  /\ queue' = <<>>
  /\ cap' = arg[t]
  /\ Return(t, StoreOK, <<>>)

ResizeNoMemory(t) ==
  /\ op[t] = "store"
  /\ Return(t, ENOMEM, <<>>)
  /\ UNCHANGED <<queue, cap>>

(* A signal ends a call that still waits for its turn.                     *)
Interrupted(t) ==
  /\ op[t] # "none"
  /\ Return(t, ERESTARTSYS, <<>>)
  /\ UNCHANGED <<queue, cap>>

(* Calls that finish at once: a bad ioctl command or size, and the size    *)
(* attribute read back.                                                    *)
Reject(t) ==
  /\ op[t] = "none"
  /\ Return(t, EINVAL, <<>>)
  /\ UNCHANGED <<queue, cap>>

Show(t) ==
  /\ op[t] = "none"
  /\ Return(t, cap, <<>>)
  /\ UNCHANGED <<queue, cap>>

Next ==
  \E t \in Threads :
    \/ \E a \in 0..MaxCount : Call(t, "read", a) \/ Call(t, "write", a)
    \/ Call(t, "wipe", 0)
    \/ \E a \in 1..MaxSize : Call(t, "store", a)
    \/ Read(t) \/ ReadFault(t) \/ Write(t) \/ WriteFault(t) \/ Wipe(t)
    \/ Resize(t) \/ ResizeNoMemory(t)
    \/ Interrupted(t) \/ Reject(t) \/ Show(t)

Spec == Init /\ [][Next]_vars
=============================================================================
