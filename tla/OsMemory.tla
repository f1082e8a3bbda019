------------------------------- MODULE OsMemory --------------------------------
(*****************************************************************************)
(* Reservations of virtual memory and the shared and transfer memory mapped  *)
(* to them (os_Memory.cpp).  Addresses and sizes count pages of 0x1000       *)
(* bytes.  The threads search with curaddr as a hint and without the mutex,  *)
(* which is commented out; a step is a call of the kernel with what follows  *)
(* it.  FreeVirtualMemory does nothing.                                      *)
(*****************************************************************************)
EXTENDS Naturals, Sequences

CONSTANTS
  Threads, Objects,
  AddressSpace,  \* global_AddressSpace: a record of start and end
  Regions,       \* the first three of global_Regions
  Used,          \* the pages that something else is mapped to
  MaxSize        \* bound: the largest memory that is mapped

ASSUME SpaceAssumption == AddressSpace.start \in Nat \ {0} /\ AddressSpace.end \in Nat
ASSUME RegionsAssumption ==
  \A i \in DOMAIN Regions : /\ Regions[i].start \in Nat /\ Regions[i].end \in Nat
                            /\ Regions[i].start < Regions[i].end
ASSUME SizeAssumption == MaxSize \in Nat \ {0}
ASSUME ObjectsAssumption == {"free", "other", "none"} \cap Objects = {}

VARIABLES
  curaddr,       \* the hint
  kern,          \* external: who is mapped to each page
  obj,           \* the objects: address (0 if not mapped), size, handle
  th,            \* the threads: where each is in Map, and for which object
  addr           \* addr of ReserveVirtualMemory, for each thread

vars == <<curaddr, kern, obj, th, addr>>

Pages == AddressSpace.start..(AddressSpace.end - 1)
In(a, r) == a >= r.start /\ a < r.end

Free == "free"
Other == "other"
NoObject == "none"
Idle == [pc |-> "idle", o |-> NoObject]

Init ==
  /\ curaddr = 0
  /\ kern = [p \in Pages |-> IF p \in Used THEN Other ELSE Free]
  /\ obj \in [Objects -> {[address |-> 0, size |-> n, handle |-> TRUE] : n \in 1..MaxSize}]
  /\ th = [t \in Threads |-> Idle] /\ addr = [t \in Threads |-> 0]

(* An object is used by one thread at a time. *)
Unused(o) == \A t \in Threads : th[t].o # o

-------------------------------------------------------------------------------
(* Faulty variant: what is mapped is mapped again. *)
Map_Again(t, o) ==
  /\ th[t] = Idle /\ Unused(o) /\ obj[o].handle
  /\ th' = [th EXCEPT ![t] = [pc |-> "search", o |-> o]]
  /\ addr' = [addr EXCEPT ![t] = curaddr]
  /\ UNCHANGED <<curaddr, kern, obj>>

(* Map of shared or transfer memory, until the search has read the hint. *)
Map(t, o) ==
  /\ th[t] = Idle /\ Unused(o) /\ obj[o].handle /\ obj[o].address = 0
  /\ th' = [th EXCEPT ![t] = [pc |-> "search", o |-> o]]
  /\ addr' = [addr EXCEPT ![t] = curaddr]
  /\ UNCHANGED <<curaddr, kern, obj>>

(* External, QueryMemory: the pages around a that are mapped to the same. *)
IsBlock(a, first, last) ==
  /\ first <= a /\ a <= last /\ \A p \in first..last : kern[p] = kern[a]
  /\ first - 1 \in Pages => kern[first - 1] # kern[a]
  /\ last + 1 \in Pages => kern[last + 1] # kern[a]

(* The range starts or ends in region i. *)
Meets(a, n, i) == In(a, Regions[i]) \/ In(a + n - 1, Regions[i])
FirstMet(a, n, i) == Meets(a, n, i) /\ \A j \in 1..(i - 1) : ~Meets(a, n, j)

(* Faulty variant: the search goes on at the start of the region. *)
Past_Start(i) == Regions[i].start

Past(i) == Regions[i].end

(* The address that is asked for: the next page, or the start of the address *)
(* space.                                                                    *)
Queried(t) == IF In(addr[t] + 1, AddressSpace) THEN addr[t] + 1 ELSE AddressSpace.start

(* One round of ReserveVirtualMemory: go on behind a block that is not free  *)
(* or not large enough, and behind a region.  The size is compared with the  *)
(* whole block.                                                              *)
Query(t) ==
  LET n == obj[th[t].o].size
      a == Queried(t)
      Go(next) == addr' = [addr EXCEPT ![t] = next] /\ UNCHANGED <<curaddr, th>>
  IN  /\ th[t].pc = "search"
      /\ \E first, last \in Pages :
           LET fits == kern[a] = Free /\ n <= last - first + 1
           IN  /\ IsBlock(a, first, last)
               /\ \/ ~fits /\ Go(last + 1)
                  \/ fits /\ \E i \in DOMAIN Regions : FirstMet(a, n, i) /\ Go(Past(i))
                  \/ /\ fits /\ \A i \in DOMAIN Regions : ~Meets(a, n, i)
                     /\ curaddr' = a + n /\ addr' = [addr EXCEPT ![t] = a]
                     /\ th' = [th EXCEPT ![t].pc = "map"]
      /\ UNCHANGED <<kern, obj>>

(* QueryMemory fails: the hint moves all the same, and Map returns. *)
QueryFails(t) ==
  /\ th[t].pc = "search"
  /\ curaddr' = Queried(t) + obj[th[t].o].size
  /\ th' = [th EXCEPT ![t] = Idle] /\ addr' = [addr EXCEPT ![t] = 0]
  /\ UNCHANGED <<kern, obj>>

(* MapSharedMemory or MapTransferMemory, which the kernel refuses unless the *)
(* whole range is free, and the end of Map.                                  *)
MapMemory(t) ==
  LET o == th[t].o
      range == addr[t]..(addr[t] + obj[o].size - 1)
  IN  /\ th[t].pc = "map"
      /\ IF range \subseteq {p \in Pages : kern[p] = Free}
         THEN /\ kern' = [p \in Pages |-> IF p \in range THEN o ELSE kern[p]]
              /\ obj' = [obj EXCEPT ![o].address = addr[t]]
         ELSE UNCHANGED <<kern, obj>>
      /\ th' = [th EXCEPT ![t] = Idle] /\ addr' = [addr EXCEPT ![t] = 0]
      /\ UNCHANGED curaddr

(* ReserveVirtualMemoryMap moves the same hint: it ends behind a range of    *)
(* the stack region, which is the last, with room enough, or where           *)
(* QueryMemory fails.                                                        *)
ReserveVirtualMemoryMap(t) ==
  /\ th[t] = Idle
  /\ \E a \in Pages, n \in 1..MaxSize : In(a, Regions[Len(Regions)]) /\ curaddr' = a + n
  /\ UNCHANGED <<kern, obj, th, addr>>

(* The kernel undoes what it did for the object at this address. *)
Unmapped(o) ==
  [p \in Pages |-> IF kern[p] = o /\ p \in obj[o].address..(obj[o].address + obj[o].size - 1)
                   THEN Free ELSE kern[p]]

(* Unmap; the kernel refuses for an object that is not mapped. *)
Unmap(o) ==
  /\ Unused(o) /\ obj[o].address # 0
  /\ kern' = Unmapped(o)
  /\ obj' = [obj EXCEPT ![o].address = 0]
  /\ UNCHANGED <<curaddr, th, addr>>

(* The destructor, and a new object in its place. *)
Destroy(o) ==
  /\ Unused(o) /\ obj[o].handle
  /\ kern' = IF obj[o].address # 0 THEN Unmapped(o) ELSE kern
  /\ obj' = [obj EXCEPT ![o] = [address |-> 0, size |-> @.size, handle |-> FALSE]]
  /\ UNCHANGED <<curaddr, th, addr>>

Create(o) ==
  /\ ~obj[o].handle
  /\ obj' = [obj EXCEPT ![o].handle = TRUE]
  /\ UNCHANGED <<curaddr, kern, th, addr>>

-------------------------------------------------------------------------------
Next ==
  \/ \E t \in Threads : \/ \E o \in Objects : Map(t, o)
                        \/ Query(t) \/ QueryFails(t) \/ MapMemory(t)
                        \/ ReserveVirtualMemoryMap(t)
  \/ \E o \in Objects : Unmap(o) \/ Destroy(o) \/ Create(o)

(* A thread that searches keeps running: the loop waits for nobody. *)
Spec == Init /\ [][Next]_vars /\ \A t \in Threads : WF_vars(Query(t))

-------------------------------------------------------------------------------
(* What is mapped for an object is exactly the range that the object knows   *)
(* of and will unmap, though two threads may be given the same range: no     *)
(* range is mapped for two objects, and none is left behind.                 *)
MappingIsKnown ==
  \A o \in Objects :
    {p \in Pages : kern[p] = o} =
      IF obj[o].address = 0 THEN {} ELSE obj[o].address..(obj[o].address + obj[o].size - 1)

(* Room for one page more than any search asks for, in no region. *)
Room(s) ==
  \A p \in s..(s + MaxSize) : kern[p] = Free /\ \A i \in DOMAIN Regions : ~In(p, Regions[i])

(* A search ends if one place stays free in which the range would fit with a *)
(* page to spare, wherever the hint is, whatever the other threads map and   *)
(* unmap around it, and though the search skips the first page of what it    *)
(* jumps to.                                                                 *)
SearchEnds ==
  \A t \in Threads : \A s \in AddressSpace.start..(AddressSpace.end - MaxSize - 1) :
    <>[]Room(s) => []<>(th[t].pc # "search")
===============================================================================
