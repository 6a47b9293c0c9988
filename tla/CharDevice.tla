----------------------------- MODULE CharDevice -----------------------------
(***************************************************************************)
(* The life of the ring_buffer character device, HW14/charmod.c: loading   *)
(* it (chardev_init, every step of which can fail), opening, sharing and   *)
(* closing its file, calls through the file and through sysfs, unloading   *)
(* it (chardev_exit).  What the calls do to the bytes is RingBuffer.tla;   *)
(* here a call matters only for the memory it needs.                       *)
(***************************************************************************)
EXTENDS Integers, FiniteSets

CONSTANTS
  Procs,      (* processes that use the device                             *)
  Files,      (* open file descriptions                                    *)
  Buffers,    (* allocations of rb->buffer                                 *)
  NoBuffer,
  MaxUnloads  (* bound: the module is unloaded at most this often          *)

ASSUME BufferAssumption == NoBuffer \notin Buffers
ASSUME UnloadAssumption == MaxUnloads \in Nat

VARIABLES
  (* the last step of chardev_init or chardev_exit, "idle" when the module *)
  (* is not in the kernel; what this load has registered; what a load that *)
  (* is over has registered and never taken back                           *)
  stage, registered, left,
  (* the static rb, rb->buffer, and the buffers allocated and not freed    *)
  rb, buffer, heap,
  (* device_mutex; the processes that share each open file; files that     *)
  (* were opened during a load that failed                                 *)
  device_mutex, holders, orphans,
  (* the calls in progress, through a file and through buffer_size         *)
  inside, in_attr,
  (* whether the kernel faulted; how often the module was unloaded         *)
  oops, unloads

loadVars == <<stage, registered, left>>
rbVars == <<rb, buffer, heap>>
fileVars == <<device_mutex, holders, orphans>>
callVars == <<inside, in_attr>>
vars == <<loadVars, rbVars, fileVars, callVars, oops, unloads>>

Init ==
  /\ stage = "idle" /\ registered = {} /\ left = {}
  /\ rb = "null" /\ buffer = NoBuffer /\ heap = {}
  /\ device_mutex = FALSE /\ holders = [f \in Files |-> {}] /\ orphans = {}
  /\ inside = {} /\ in_attr = {}
  /\ oops = FALSE /\ unloads = 0

OpenFiles == {f \in Files : holders[f] # {}}

-----------------------------------------------------------------------------
(* chardev_init.  The module's image is new: its statics are as compiled.  *)
AllocRegion ==
  /\ stage = "idle"
  /\ stage' = "region"
  /\ registered' = {"region"}
  /\ rb' = "null"
  /\ device_mutex' = FALSE
  /\ UNCHANGED <<left, buffer, heap, holders, orphans, callVars, oops, unloads>>

(* One more registration.                                                  *)
Register(from, r) ==
  /\ stage = from
  /\ stage' = r
  /\ registered' = registered \cup {r}
  /\ UNCHANGED <<left, rbVars, fileVars, callVars, oops, unloads>>

CdevAdd == Register("region", "cdev")

(* class_create refuses a second class of the same name.                   *)
ClassCreate == "class" \notin left /\ Register("cdev", "class")

DeviceCreate == Register("class", "device")

(* A registration fails: those before it are undone and the module's image *)
(* goes.  Files opened meanwhile are left to operations that no longer     *)
(* exist.                                                                  *)
Rollback_RegionStays(from, undone) ==
  /\ stage = from
  /\ stage' = "idle"
  /\ registered' = registered \ (undone \ {"region"})
  /\ orphans' = orphans \cup OpenFiles
  /\ UNCHANGED <<left, rbVars, device_mutex, holders, callVars, oops, unloads>>

Rollback(from, undone) ==
  /\ stage = from
  /\ stage' = "idle"
  /\ registered' = registered \ undone
  /\ orphans' = orphans \cup OpenFiles
  /\ UNCHANGED <<left, rbVars, device_mutex, holders, callVars, oops, unloads>>

RegisterFails ==
  \/ Rollback("region", {"region"})
  \/ Rollback("cdev", {"cdev", "region"})
  \/ Rollback("class", {"class", "cdev", "region"})

(* init_rb: rb is visible to the handlers before it is filled in.          *)
RbAlloc ==
  /\ stage = "device"
  /\ stage' = "rb"
  /\ rb' = "raw"
  /\ UNCHANGED <<registered, left, buffer, heap, fileVars, callVars, oops, unloads>>

(* The result of the first kmalloc is used without a look at it.           *)
RbAllocFails ==
  /\ stage = "device"
  /\ oops' = TRUE
  /\ UNCHANGED <<loadVars, rbVars, fileVars, callVars, unloads>>

BufferAlloc ==
  /\ stage = "rb"
  /\ stage' = "buffer"
  /\ \E b \in Buffers \ heap : buffer' = b /\ heap' = heap \cup {b}
  /\ UNCHANGED <<registered, left, rb, fileVars, callVars, oops, unloads>>

(* chardev_init returns -ENOMEM and the module's image goes, but nothing   *)
(* that was registered is taken back.                                      *)
BufferAllocFails_ClassDestroyed ==
  /\ stage = "rb"
  /\ stage' = "idle"
  /\ left' = registered \ {"class"}
  /\ registered' = {}
  /\ rb' = "freed"
  /\ orphans' = orphans \cup OpenFiles
  /\ UNCHANGED <<buffer, heap, device_mutex, holders, callVars, oops, unloads>>

BufferAllocFails ==
  /\ stage = "rb"
  /\ stage' = "idle"
  /\ left' = registered
  /\ registered' = {}
  /\ rb' = "freed"
  /\ orphans' = orphans \cup OpenFiles
  /\ UNCHANGED <<buffer, heap, device_mutex, holders, callVars, oops, unloads>>

MutexInit ==
  /\ stage = "buffer"
  /\ stage' = "ready"
  /\ rb' = "ready"
  /\ UNCHANGED <<registered, left, buffer, heap, fileVars, callVars, oops, unloads>>

(* The attribute buffer_size may be missing: that is only logged.          *)
CreateFile ==
  /\ stage = "ready"
  /\ stage' = "loaded"
  /\ registered' \in {registered, registered \cup {"attr"}}
  /\ UNCHANGED <<left, rbVars, fileVars, callVars, oops, unloads>>

-----------------------------------------------------------------------------
(* chardev_exit.  The file operations name their owner, so the kernel does *)
(* not call it while a file is open, nor opens one from its start on.      *)
ExitBegin_NoOwner ==
  /\ stage = "loaded"
  /\ unloads < MaxUnloads
  /\ stage' = "going"
  /\ UNCHANGED <<registered, left, rbVars, fileVars, callVars, oops, unloads>>

ExitBegin ==
  /\ stage = "loaded"
  /\ OpenFiles \subseteq orphans
  /\ unloads < MaxUnloads
  /\ stage' = "going"
  /\ UNCHANGED <<registered, left, rbVars, fileVars, callVars, oops, unloads>>

(* device_destroy waits for the calls of the attribute that are running.   *)
DeviceDestroy ==
  /\ stage = "going"
  /\ in_attr = {}
  /\ stage' = "destroyed"
  /\ registered' = registered \ {"device", "attr"}
  /\ UNCHANGED <<left, rbVars, fileVars, callVars, oops, unloads>>

(* The rest of chardev_exit: cleanup_rb frees rb and not rb->buffer.       *)
Unregister ==
  /\ stage = "destroyed"
  /\ stage' = "idle"
  /\ registered' = registered \ {"class", "cdev", "region"}
  /\ rb' = "freed"
  /\ buffer' = NoBuffer
  /\ unloads' = unloads + 1
  /\ UNCHANGED <<left, heap, fileVars, callVars, oops>>

-----------------------------------------------------------------------------
(* rb_open, reachable from the moment cdev_add is done. When the trylock   *)
(* fails the call returns -EBUSY and nothing changes.                      *)
RbOpen(p, f) ==
  /\ "cdev" \in registered
  /\ stage \notin {"going", "destroyed"}
  /\ holders[f] = {}
  /\ ~device_mutex
  /\ device_mutex' = TRUE
  /\ holders' = [holders EXCEPT ![f] = {p}]
  /\ UNCHANGED <<loadVars, rbVars, orphans, callVars, oops, unloads>>

(* A process shares its file: fork, or a descriptor passed on.             *)
Share(p, q, f) ==
  /\ p \in holders[f]
  /\ holders' = [holders EXCEPT ![f] = @ \cup {q}]
  /\ UNCHANGED <<loadVars, rbVars, device_mutex, orphans, callVars, oops, unloads>>

(* close: rb_release runs when the last process lets go of the file.       *)
RbRelease_EveryClose(p, f) ==
  /\ p \in holders[f] /\ f \notin orphans /\ p \notin inside
  /\ holders' = [holders EXCEPT ![f] = @ \ {p}]
  /\ device_mutex' = FALSE
  /\ UNCHANGED <<loadVars, rbVars, orphans, callVars, oops, unloads>>

RbRelease(p, f) ==
  /\ p \in holders[f] /\ f \notin orphans /\ p \notin inside
  /\ holders' = [holders EXCEPT ![f] = @ \ {p}]
  /\ device_mutex' = (holders[f] # {p})
  /\ UNCHANGED <<loadVars, rbVars, orphans, callVars, oops, unloads>>

(* A read, write or ioctl uses rb as soon as it starts.                    *)
CallBegin(p, f) ==
  /\ p \in holders[f] /\ f \notin orphans /\ p \notin inside
  /\ rb = "ready"
  /\ inside' = inside \cup {p}
  /\ UNCHANGED <<loadVars, rbVars, fileVars, in_attr, oops, unloads>>

(* rb is NULL or freed, or not filled in, when anything can happen: a call *)
(* that has luck does nothing, the others fault.                           *)
CallFaults(p, f) ==
  /\ p \in holders[f] /\ f \notin orphans
  /\ rb # "ready"
  /\ oops' = TRUE
  /\ UNCHANGED <<loadVars, rbVars, fileVars, callVars, unloads>>

CallEnd(p) ==
  /\ p \in inside
  /\ inside' = inside \ {p}
  /\ oops' = (rb # "ready")
  /\ UNCHANGED <<loadVars, rbVars, fileVars, in_attr, unloads>>

(* Operations whose code is gone: of an orphaned file, its release         *)
(* included, and of a device that was never taken back.                    *)
GoneFaults ==
  /\ OpenFiles \cap orphans # {} \/ left # {}
  /\ oops' = TRUE
  /\ UNCHANGED <<loadVars, rbVars, fileVars, callVars, unloads>>

-----------------------------------------------------------------------------
(* buffer_size_show and buffer_size_store: no file has to be open.         *)
AttrBegin(p) ==
  /\ "attr" \in registered
  /\ p \notin in_attr
  /\ in_attr' = in_attr \cup {p}
  /\ UNCHANGED <<loadVars, rbVars, fileVars, inside, oops, unloads>>

AttrStore_KeepsOld(p) ==
  /\ p \in in_attr
  /\ rb = "ready"
  /\ in_attr' = in_attr \ {p}
  /\ \E b \in Buffers \ heap : buffer' = b /\ heap' = heap \cup {b}
  /\ UNCHANGED <<loadVars, rb, fileVars, inside, oops, unloads>>

AttrStore(p) ==
  /\ p \in in_attr
  /\ rb = "ready"
  /\ in_attr' = in_attr \ {p}
  /\ \E b \in Buffers \ heap : buffer' = b /\ heap' = (heap \ {buffer}) \cup {b}
  /\ UNCHANGED <<loadVars, rb, fileVars, inside, oops, unloads>>

(* A show, and a store that is refused, interrupted or out of memory.      *)
AttrEnd(p) ==
  /\ p \in in_attr
  /\ in_attr' = in_attr \ {p}
  /\ oops' = (rb # "ready")
  /\ UNCHANGED <<loadVars, rbVars, fileVars, inside, unloads>>

-----------------------------------------------------------------------------
LoadStep ==
  \/ AllocRegion \/ CdevAdd \/ ClassCreate \/ DeviceCreate \/ RegisterFails
  \/ RbAlloc \/ RbAllocFails \/ BufferAlloc \/ BufferAllocFails
  \/ MutexInit \/ CreateFile

ExitStep == ExitBegin \/ DeviceDestroy \/ Unregister

FileStep ==
  \/ \E p \in Procs, f \in Files :
       RbOpen(p, f) \/ RbRelease(p, f) \/ CallBegin(p, f) \/ CallFaults(p, f)
  \/ \E p, q \in Procs, f \in Files : Share(p, q, f)
  \/ \E p \in Procs : CallEnd(p)
  \/ GoneFaults

AttrStep == \E p \in Procs : AttrBegin(p) \/ AttrStore(p) \/ AttrEnd(p)

(* A fault of the kernel is the end.                                       *)
Next == ~oops /\ (LoadStep \/ ExitStep \/ FileStep \/ AttrStep)

Spec == Init /\ [][Next]_vars

-----------------------------------------------------------------------------
(* Type invariant: what chardev_init, the handlers and chardev_exit see; a *)
(* ready rb has a buffer.                                                  *)
TypeOK ==
  /\ stage \in {"idle", "region", "cdev", "class", "device", "rb", "buffer",
                "ready", "loaded", "going", "destroyed"}
  /\ registered \subseteq {"region", "cdev", "class", "device", "attr"}
  /\ left \subseteq {"region", "cdev", "class", "device"}
  /\ rb \in {"null", "raw", "ready", "freed"}
  /\ buffer \in Buffers \cup {NoBuffer}
  /\ rb = "ready" => buffer # NoBuffer
  /\ heap \subseteq Buffers
  /\ device_mutex \in BOOLEAN
  /\ holders \in [Files -> SUBSET Procs]
  /\ orphans \subseteq Files
  /\ inside \subseteq Procs
  /\ in_attr \subseteq Procs
  /\ oops \in BOOLEAN
  /\ unloads \in 0..MaxUnloads

(* The device is open once: however its file is shared and in whatever     *)
(* order the sharers close it, device_mutex is held exactly as long as     *)
(* somebody has the file, and nobody opens a second one.                   *)
SingleOpen ==
  LET live == OpenFiles \ orphans IN
  /\ \A f, g \in live : f = g
  /\ stage # "idle" => (device_mutex <=> live # {})

(* Once chardev_init has made rb ready, no call runs on memory that is not *)
(* there, neither during the load nor while the module is being unloaded:  *)
(* the kernel faults only in a load that is not finished or because of one *)
(* that failed.                                                            *)
Loading == {"cdev", "class", "device", "rb", "buffer"}
FaultsOnlyWhileLoading ==
  [][oops' => stage \in Loading \/ left # {} \/ orphans # {}]_vars

(* When the module's image goes, because a step of chardev_init failed or  *)
(* at the end of chardev_exit, the kernel has registered again what it had *)
(* before the image came.  There is one exception: the load that finds no  *)
(* memory for rb->buffer goes with everything still registered, never with *)
(* a part of it.                                                           *)
Everything == {"region", "cdev", "class", "device"}
InKernel == registered \cup left
RolledBack ==
  [][stage' = "idle" =>
       \/ InKernel' = left
       \/ stage = "rb" /\ left = {} /\ InKernel' = Everything]_vars

(* After such a load the device cannot be had again: every later load      *)
(* meets the class the failed one left and gives up before init_rb, and    *)
(* no later load or unload takes it away.                                  *)
NeverBackAfterGivingUp == left # {} => rb # "ready" /\ Everything \subseteq InKernel

(* Every unloading leaks the buffer of its load and nothing else does: a   *)
(* change of size frees the buffer it replaces, whichever it is.           *)
OneLeakPerUnload ==
  /\ buffer # NoBuffer => buffer \in heap
  /\ Cardinality(heap) = unloads + (IF buffer = NoBuffer THEN 0 ELSE 1)
=============================================================================
