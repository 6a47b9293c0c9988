-------------------------- MODULE CharDeviceProofs --------------------------
(***************************************************************************)
(* Safety of the life cycle of the ring_buffer device, for any number of   *)
(* processes, files, buffers and unloads.                                  *)
(***************************************************************************)
EXTENDS CharDevice, FiniteSetTheorems, TLAPS

(* Which stages of chardev_init and chardev_exit go with which state: when *)
(* rb is usable, when the attribute exists, when a file may be open.       *)
StagesAgree ==
  /\ rb = "ready" <=> stage \in {"ready", "loaded", "going", "destroyed"}
  /\ "attr" \in registered => stage \in {"loaded", "going"}
  /\ in_attr # {} => stage \in {"loaded", "going"}
  /\ "cdev" \in registered => stage \notin {"idle", "region"}
  /\ stage = "region" => registered = {"region"}
  /\ stage = "cdev" => registered = {"region", "cdev"}
  /\ stage = "class" => registered = {"region", "cdev", "class"}
  /\ stage \in {"device", "rb", "buffer", "ready"} =>
       registered = {"region", "cdev", "class", "device"}
  /\ stage = "destroyed" => registered = {"region", "cdev", "class"}
  /\ stage \in {"loaded", "going"} => "cdev" \in registered /\ {"region", "class"} \subseteq registered
  /\ stage \in {"idle", "region", "going", "destroyed"} => OpenFiles \subseteq orphans
  /\ stage = "buffer" => buffer # NoBuffer
  /\ orphans \subseteq OpenFiles
  /\ stage \in {"going", "destroyed"} => unloads < MaxUnloads

(* Outside the kernel the module has nothing of its own registered; what a *)
(* load left behind is everything, and no later load gets past the class.  *)
Gone ==
  /\ stage = "idle" => registered = {}
  /\ left \in {{}, Everything}
  /\ left # {} => stage \in {"idle", "region", "cdev"}

(* A call through a file has its memory, and its caller keeps the file.    *)
CallsHaveRb ==
  \A p \in inside : rb = "ready" /\ \E f \in OpenFiles \ orphans : p \in holders[f]

(* The properties need the last two: that no call runs when the module     *)
(* goes follows from the stage it is in.                                   *)
Inv == TypeOK /\ SingleOpen /\ Gone /\ StagesAgree /\ CallsHaveRb

LEMMA InitInv == Init => Inv
<1> SUFFICES ASSUME Init PROVE Inv
  OBVIOUS
<1>1. OpenFiles = {}
  BY DEF Init, OpenFiles
<1>2. TypeOK
  <2>1. holders \in [Files -> SUBSET Procs] /\ unloads \in 0..MaxUnloads
    BY UnloadAssumption DEF Init
  <2> QED
    BY <2>1 DEF Init, TypeOK
<1> QED
  BY <1>1, <1>2 DEF Init, Inv, SingleOpen, Gone, Everything, StagesAgree, CallsHaveRb

(* Steps of chardev_init keep the invariant.                               *)
LEMMA LoadInv ==
  ASSUME Inv, LoadStep
  PROVE  Inv'
<1> USE DEF Inv, TypeOK, SingleOpen, Gone, Everything, StagesAgree, CallsHaveRb, OpenFiles,
            loadVars, rbVars, fileVars, callVars
<1>1. CASE AllocRegion
  <2>1. TypeOK'
    BY <1>1 DEF AllocRegion
  <2>2. SingleOpen'
    BY <1>1 DEF AllocRegion
  <2>3. Gone'
    BY <1>1 DEF AllocRegion
  <2>4. StagesAgree'
    BY <1>1 DEF AllocRegion
  <2>5. CallsHaveRb'
    BY <1>1 DEF AllocRegion
  <2> QED
    BY <2>1, <2>2, <2>3, <2>4, <2>5
<1>2. CASE CdevAdd
  BY <1>2 DEF CdevAdd, Register
<1>3. CASE ClassCreate
  BY <1>3 DEF ClassCreate, Register
<1>4. CASE DeviceCreate
  BY <1>4 DEF DeviceCreate, Register
<1>5. CASE RegisterFails
  BY <1>5 DEF RegisterFails, Rollback
<1>6. CASE RbAlloc
  BY <1>6 DEF RbAlloc
<1>11. CASE RbAllocFails
  BY <1>11 DEF RbAllocFails
<1>7. CASE BufferAlloc
  BY <1>7, BufferAssumption DEF BufferAlloc
<1>8. CASE BufferAllocFails
  BY <1>8 DEF BufferAllocFails
<1>9. CASE MutexInit
  BY <1>9 DEF MutexInit
<1>10. CASE CreateFile
  <2>1. TypeOK'
    BY <1>10 DEF CreateFile
  <2>2. SingleOpen'
    BY <1>10 DEF CreateFile
  <2>3. Gone'
    BY <1>10 DEF CreateFile
  <2>4. StagesAgree'
    BY <1>10 DEF CreateFile
  <2>5. CallsHaveRb'
    BY <1>10 DEF CreateFile
  <2> QED
    BY <2>1, <2>2, <2>3, <2>4, <2>5
<1> QED
  BY <1>1, <1>2, <1>3, <1>4, <1>5, <1>6, <1>7, <1>8, <1>9, <1>10, <1>11 DEF LoadStep

(* Steps of chardev_exit keep the invariant.                               *)
LEMMA ExitInv ==
  ASSUME Inv, ExitStep
  PROVE  Inv'
<1> USE DEF Inv, TypeOK, SingleOpen, Gone, Everything, StagesAgree, CallsHaveRb, OpenFiles,
            loadVars, rbVars, fileVars, callVars
<1>1. CASE ExitBegin
  BY <1>1 DEF ExitBegin
<1>2. CASE DeviceDestroy
  BY <1>2 DEF DeviceDestroy
<1>3. CASE Unregister
  <2>1. TypeOK'
    BY <1>3, UnloadAssumption DEF Unregister
  <2>2. SingleOpen'
    BY <1>3, UnloadAssumption DEF Unregister
  <2>3. Gone'
    BY <1>3, UnloadAssumption DEF Unregister
  <2>4. StagesAgree'
    BY <1>3, UnloadAssumption DEF Unregister
  <2>5. CallsHaveRb'
    BY <1>3, UnloadAssumption DEF Unregister
  <2> QED
    BY <2>1, <2>2, <2>3, <2>4, <2>5
<1> QED
  BY <1>1, <1>2, <1>3 DEF ExitStep

(* Opening, sharing, using and closing files keeps the invariant.          *)
LEMMA FileInv ==
  ASSUME Inv, FileStep
  PROVE  Inv'
<1> USE DEF Inv, TypeOK, SingleOpen, Gone, Everything, StagesAgree, CallsHaveRb, OpenFiles,
            loadVars, rbVars, fileVars, callVars
<1>1. ASSUME NEW p \in Procs, NEW f \in Files, RbOpen(p, f)
      PROVE  Inv'
  <2>1. TypeOK'
    BY <1>1 DEF RbOpen
  <2>2. SingleOpen'
    <3>1. OpenFiles' = OpenFiles \cup {f} /\ UNCHANGED <<stage, orphans>> /\ device_mutex'
      BY <1>1 DEF RbOpen
    <3>2. stage # "idle" /\ OpenFiles \ orphans = {} /\ f \notin orphans
      BY <1>1 DEF RbOpen
    <3> HIDE DEF OpenFiles
    <3> QED
      BY <3>1, <3>2
  <2>3. Gone'
    BY <1>1 DEF RbOpen
  <2>4. StagesAgree'
    BY <1>1 DEF RbOpen
  <2>5. CallsHaveRb'
    BY <1>1 DEF RbOpen
  <2> QED
    BY <2>1, <2>2, <2>3, <2>4, <2>5
<1>2. ASSUME NEW p \in Procs, NEW f \in Files, RbRelease(p, f)
      PROVE  Inv'
  <2>1. TypeOK'
    BY <1>2 DEF RbRelease
  <2>2. SingleOpen'
    <3>1. /\ OpenFiles' = IF holders[f] = {p} THEN OpenFiles \ {f} ELSE OpenFiles
          /\ UNCHANGED <<stage, orphans>> /\ device_mutex' = (holders[f] # {p})
      BY <1>2 DEF RbRelease
    <3>2. f \in OpenFiles \ orphans
      BY <1>2 DEF RbRelease
    <3> HIDE DEF OpenFiles
    <3> QED
      BY <3>1, <3>2
  <2>3. Gone'
    BY <1>2 DEF RbRelease
  <2>4. StagesAgree'
    BY <1>2 DEF RbRelease
  <2>5. CallsHaveRb'
    BY <1>2 DEF RbRelease
  <2> QED
    BY <2>1, <2>2, <2>3, <2>4, <2>5
<1>3. ASSUME NEW p \in Procs, NEW f \in Files, CallBegin(p, f)
      PROVE  Inv'
  BY <1>3 DEF CallBegin
<1>4. ASSUME NEW p \in Procs, NEW f \in Files, CallFaults(p, f)
      PROVE  Inv'
  BY <1>4 DEF CallFaults
<1>5. ASSUME NEW p \in Procs, NEW q \in Procs, NEW f \in Files, Share(p, q, f)
      PROVE  Inv'
  BY <1>5 DEF Share
<1>6. ASSUME NEW p \in Procs, CallEnd(p)
      PROVE  Inv'
  BY <1>6 DEF CallEnd
<1>7. CASE GoneFaults
  BY <1>7 DEF GoneFaults
<1> QED
  BY <1>1, <1>2, <1>3, <1>4, <1>5, <1>6, <1>7 DEF FileStep

(* Calls of the attribute keep the invariant.                              *)
LEMMA AttrInv ==
  ASSUME Inv, AttrStep
  PROVE  Inv'
<1> USE DEF Inv, TypeOK, SingleOpen, Gone, Everything, StagesAgree, CallsHaveRb, OpenFiles,
            loadVars, rbVars, fileVars, callVars
<1>1. ASSUME NEW p \in Procs, AttrBegin(p)
      PROVE  Inv'
  BY <1>1 DEF AttrBegin
<1>2. ASSUME NEW p \in Procs, AttrStore(p)
      PROVE  Inv'
  BY <1>2, BufferAssumption DEF AttrStore
<1>3. ASSUME NEW p \in Procs, AttrEnd(p)
      PROVE  Inv'
  BY <1>3 DEF AttrEnd
<1> QED
  BY <1>1, <1>2, <1>3 DEF AttrStep

(* The invariant holds for ever.                                           *)
THEOREM Invariance == Spec => []Inv
<1>1. Init => Inv
  BY InitInv
<1>2. Inv /\ [Next]_vars => Inv'
  <2> SUFFICES ASSUME Inv, [Next]_vars PROVE Inv'
    OBVIOUS
  <2>1. CASE UNCHANGED vars
    BY <2>1 DEF vars, loadVars, rbVars, fileVars, callVars, Inv, TypeOK, SingleOpen,
                Gone, Everything, StagesAgree, CallsHaveRb, OpenFiles
  <2>2. CASE Next
    BY <2>2, LoadInv, ExitInv, FileInv, AttrInv DEF Next
  <2> QED
    BY <2>1, <2>2
<1> QED
  BY <1>1, <1>2, PTL DEF Spec

(* The device is open at most once, and device_mutex says so.              *)
THEOREM OpenedOnce == Spec => []SingleOpen
<1>1. Inv => SingleOpen
  BY DEF Inv
<1> QED
  BY <1>1, Invariance, PTL

(* Every way out of the kernel, but for the one from init_rb, takes back   *)
(* what was registered on the way in.                                      *)
THEOREM Unregistered == Spec => RolledBack
<1> DEFINE TakenBack ==
      stage' = "idle" => \/ InKernel' = left
                         \/ stage = "rb" /\ left = {} /\ InKernel' = Everything
<1>1. ASSUME Inv, Inv', Next PROVE TakenBack
  <2> SUFFICES ASSUME stage' = "idle" PROVE TakenBack
    OBVIOUS
  <2>1. registered' = {} /\ InKernel' = left'
    BY <1>1 DEF Inv, Gone, InKernel
  <2>2. CASE BufferAllocFails
    BY <1>1, <2>1, <2>2 DEF BufferAllocFails, Inv, Gone, StagesAgree, Everything
  <2>3. CASE ~BufferAllocFails
    <3>1. left' = left
      BY <1>1, <2>3
      DEF Next, LoadStep, ExitStep, FileStep, AttrStep, AllocRegion, CdevAdd, Register,
          ClassCreate, DeviceCreate, RegisterFails, Rollback, RbAlloc, RbAllocFails,
          BufferAlloc, MutexInit, CreateFile, ExitBegin, DeviceDestroy, Unregister, RbOpen,
          Share, RbRelease, CallBegin, CallFaults, CallEnd, GoneFaults, AttrBegin, AttrStore,
          AttrEnd, loadVars
    <3> QED
      BY <2>1, <3>1
  <2> QED
    BY <2>2, <2>3
<1>2. ASSUME Inv, Inv', [Next]_vars PROVE [TakenBack]_vars
  BY <1>1, <1>2
<1> QED
  BY <1>2, Invariance, PTL DEF Spec, RolledBack

(* A load that failed in init_rb is the last one to get that far.          *)
THEOREM GivenUpForGood == Spec => []NeverBackAfterGivingUp
<1>1. Inv => NeverBackAfterGivingUp
  BY DEF Inv, StagesAgree, Gone, Everything, InKernel, NeverBackAfterGivingUp
<1> QED
  BY <1>1, Invariance, PTL

(* No call faults between the end of chardev_init and the end of           *)
(* chardev_exit, unless an earlier load has failed.                        *)
THEOREM LoadedIsSafe == Spec => FaultsOnlyWhileLoading
<1> DEFINE Safe == oops' => stage \in Loading \/ left # {} \/ orphans # {}
<1>1. ASSUME Inv, Next PROVE Safe
  <2> SUFFICES ASSUME oops' PROVE stage \in Loading \/ left # {} \/ orphans # {}
    OBVIOUS
  <2>1. ~oops
    BY <1>1 DEF Next
  <2>2. CASE LoadStep
    BY <1>1, <2>1, <2>2
    DEF LoadStep, AllocRegion, CdevAdd, Register, ClassCreate, DeviceCreate, RegisterFails,
        Rollback, RbAlloc, RbAllocFails, BufferAlloc, BufferAllocFails, MutexInit, CreateFile,
        Loading
  <2>3. CASE ExitStep
    BY <2>1, <2>3 DEF ExitStep, ExitBegin, DeviceDestroy, Unregister
  <2>4. CASE FileStep
    <3>1. ASSUME NEW p \in Procs, NEW f \in Files, CallFaults(p, f)
          PROVE  stage \in Loading
      <4>1. f \in OpenFiles \ orphans /\ rb # "ready"
        BY <3>1 DEF CallFaults, OpenFiles
      <4> QED
        BY <1>1, <4>1 DEF Inv, TypeOK, StagesAgree, Loading
    <3>2. ASSUME NEW p \in Procs, CallEnd(p) PROVE FALSE
      BY <1>1, <3>2 DEF CallEnd, Inv, CallsHaveRb
    <3> QED
      BY <1>1, <2>1, <2>4, <3>1, <3>2
      DEF FileStep, RbOpen, RbRelease, CallBegin, Share, GoneFaults
  <2>5. CASE AttrStep
    BY <1>1, <2>1, <2>5 DEF AttrStep, AttrBegin, AttrStore, AttrEnd, Inv, StagesAgree
  <2> QED
    BY <1>1, <2>2, <2>3, <2>4, <2>5 DEF Next
<1>2. Inv /\ [Next]_vars => [Safe]_vars
  BY <1>1
<1> QED
  BY <1>2, Invariance, PTL DEF Spec, FaultsOnlyWhileLoading
-----------------------------------------------------------------------------
(* Counting buffers needs to know in which stages there is one.            *)
HeapInv ==
  /\ IsFiniteSet(heap)
  /\ unloads \in Nat
  /\ buffer = NoBuffer <=> stage \in {"idle", "region", "cdev", "class", "device", "rb"}
  /\ OneLeakPerUnload

(* Counting the steps of the heap: a buffer is allocated, or replaced.     *)
LEMMA HeapGrows ==
  ASSUME IsFiniteSet(heap), NEW b, b \notin heap
  PROVE  /\ IsFiniteSet(heap \cup {b})
         /\ Cardinality(heap \cup {b}) = Cardinality(heap) + 1
         /\ Cardinality(heap) \in Nat
  BY FS_AddElement, FS_CardinalityType

LEMMA HeapSwaps ==
  ASSUME IsFiniteSet(heap), NEW b, b \notin heap, buffer \in heap
  PROVE  /\ IsFiniteSet((heap \ {buffer}) \cup {b})
         /\ Cardinality((heap \ {buffer}) \cup {b}) = Cardinality(heap)
<1>1. /\ IsFiniteSet(heap \ {buffer}) /\ Cardinality(heap \ {buffer}) = Cardinality(heap) - 1
      /\ Cardinality(heap) \in Nat
  BY FS_RemoveElement, FS_CardinalityType
<1>2. /\ IsFiniteSet((heap \ {buffer}) \cup {b})
      /\ Cardinality((heap \ {buffer}) \cup {b}) = Cardinality(heap \ {buffer}) + 1
  BY <1>1, FS_AddElement
<1> QED
  BY <1>1, <1>2

(* A step that leaves heap, buffer and unloads alone keeps HeapInv if it   *)
(* does not pass the allocation of the buffer.                             *)
LEMMA HeapInvUnchanged ==
  ASSUME HeapInv, UNCHANGED <<heap, buffer, unloads>>,
         stage \in {"idle", "region", "cdev", "class", "device", "rb"} <=>
           stage' \in {"idle", "region", "cdev", "class", "device", "rb"}
  PROVE  HeapInv'
  BY DEF HeapInv, OneLeakPerUnload

LEMMA HeapStep ==
  ASSUME Inv, HeapInv, [Next]_vars
  PROVE  HeapInv'
<1> USE DEF loadVars, rbVars, fileVars, callVars
<1>1. CASE UNCHANGED vars
  BY <1>1, HeapInvUnchanged DEF vars
<1>2. CASE BufferAlloc
  <2>1. PICK b \in Buffers \ heap : buffer' = b /\ heap' = heap \cup {b}
    BY <1>2 DEF BufferAlloc
  <2>2. buffer = NoBuffer /\ stage' = "buffer" /\ unloads' = unloads /\ buffer' # NoBuffer
    BY <1>2, <2>1, BufferAssumption DEF BufferAlloc, HeapInv
  <2> QED
    BY <2>1, <2>2, HeapGrows DEF HeapInv, OneLeakPerUnload
<1>3. ASSUME NEW p \in Procs, AttrStore(p)
      PROVE  HeapInv'
  <2>1. PICK b \in Buffers \ heap : buffer' = b /\ heap' = (heap \ {buffer}) \cup {b}
    BY <1>3 DEF AttrStore
  <2>2. /\ buffer # NoBuffer /\ buffer \in heap /\ buffer' # NoBuffer
        /\ stage' = stage /\ unloads' = unloads
    BY <1>3, <2>1, BufferAssumption
    DEF AttrStore, Inv, StagesAgree, HeapInv, OneLeakPerUnload
  <2>3. IsFiniteSet(heap') /\ Cardinality(heap') = Cardinality(heap)
    BY <2>1, <2>2, HeapSwaps DEF HeapInv
  <2> QED
    BY <2>1, <2>2, <2>3 DEF HeapInv, OneLeakPerUnload
<1>4. CASE Unregister
  <2>1. /\ buffer # NoBuffer /\ buffer' = NoBuffer /\ stage' = "idle"
        /\ heap' = heap /\ unloads' = unloads + 1
    BY <1>4 DEF Unregister, HeapInv
  <2> QED
    BY <2>1 DEF HeapInv, OneLeakPerUnload
<1>5. CASE AllocRegion \/ CdevAdd \/ ClassCreate \/ DeviceCreate \/ RegisterFails
           \/ RbAlloc \/ RbAllocFails \/ BufferAllocFails \/ MutexInit \/ CreateFile
  <2>1. UNCHANGED <<heap, unloads>>
    BY <1>5 DEF AllocRegion, CdevAdd, Register, ClassCreate, DeviceCreate, RegisterFails,
                Rollback, RbAlloc, RbAllocFails, BufferAllocFails, MutexInit, CreateFile
  <2>2. UNCHANGED buffer
    BY <1>5 DEF AllocRegion, CdevAdd, Register, ClassCreate, DeviceCreate, RegisterFails,
                Rollback, RbAlloc, RbAllocFails, BufferAllocFails, MutexInit, CreateFile
  <2>3. stage \in {"idle", "region", "cdev", "class", "device", "rb"} <=>
           stage' \in {"idle", "region", "cdev", "class", "device", "rb"}
    BY <1>5 DEF AllocRegion, CdevAdd, Register, ClassCreate, DeviceCreate, RegisterFails,
                Rollback, RbAlloc, RbAllocFails, BufferAllocFails, MutexInit, CreateFile
  <2> QED
    BY <2>1, <2>2, <2>3, HeapInvUnchanged
<1>6. CASE ExitBegin \/ DeviceDestroy
  BY <1>6, HeapInvUnchanged DEF ExitBegin, DeviceDestroy
<1>7. CASE FileStep
  BY <1>7, HeapInvUnchanged
  DEF FileStep, RbOpen, RbRelease, CallBegin, CallFaults, CallEnd, Share, GoneFaults
<1>8. ASSUME NEW p \in Procs, AttrBegin(p) \/ AttrEnd(p)
      PROVE  HeapInv'
  BY <1>8, HeapInvUnchanged DEF AttrBegin, AttrEnd
<1> QED
  BY <1>1, <1>2, <1>3, <1>4, <1>5, <1>6, <1>7, <1>8 DEF Next, LoadStep, ExitStep, AttrStep

(* However often the module is loaded, unloaded and given a new size, each *)
(* unloading leaks one buffer and nothing is lost or freed twice besides.  *)
THEOREM LeaksCounted == Spec => []OneLeakPerUnload
<1>1. Init => HeapInv
  BY FS_EmptySet DEF Init, HeapInv, OneLeakPerUnload
<1>2. Inv /\ HeapInv /\ [Next]_vars => HeapInv'
  BY HeapStep
<1>3. HeapInv => OneLeakPerUnload
  BY DEF HeapInv
<1> QED
  BY <1>1, <1>2, <1>3, Invariance, PTL DEF Spec
=============================================================================
