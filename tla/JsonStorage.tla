---------------------------- MODULE JsonStorage ----------------------------
(***************************************************************************)
(* How rapidjson/document.h keeps values: a value is a cell that holds a   *)
(* scalar or points to a block of cells, its elements or the names and     *)
(* values of its members; it is moved with its pointer, and copied with    *)
(* all it points to.  With an allocator that needs Free (kNeedFree,        *)
(* CrtAllocator) a destructor frees the block, with the pool it does       *)
(* nothing.  Strings are constant strings, and a block that grows moves,   *)
(* as it may with either allocator.                                        *)
(***************************************************************************)
EXTENDS Integers, Sequences, SequencesExt

NoBlock == 0
Cell(type, data) == [type |-> type, data |-> data, size |-> 0, capacity |-> 0, at |-> NoBlock]
Containers == {"Array", "Object"}
kDefaultCapacity == 16
Width(d) == IF d.type = "Object" THEN 2 ELSE 1

(* The heap is the blocks there have been; a store is a heap with the values
   that are in no block, the temporary of Swap behind them. *)
Malloc(heap, n) ==
  IF n = 0 THEN [heap |-> heap, at |-> NoBlock]
  ELSE [heap |-> Append(heap, [freed |-> FALSE, cells |-> [i \in 1..n |-> Cell("Garbage", 0)]]),
        at |-> Len(heap) + 1]
Free(heap, at) == IF at = NoBlock THEN heap ELSE [heap EXCEPT ![at].freed = TRUE]
CellsFrom(cells, first, last) == [i \in 1..(last + 1 - first) |-> cells[first + i - 1]]
Held(heap, d) ==
  IF d.type \notin Containers \/ d.at = NoBlock THEN <<>>
  ELSE CellsFrom(heap[d.at].cells, 1, Width(d) * d.size)

(* A pointer to a value: <<index>> or <<block, cell>>. *)
Load(store, p) == IF Len(p) = 1 THEN store.values[p[1]] ELSE store.heap[p[1]].cells[p[2]]
Put(store, p, d) ==
  IF Len(p) = 1 THEN [store EXCEPT !.values[p[1]] = d]
  ELSE [store EXCEPT !.heap[p[1]].cells[p[2]] = d]

RECURSIVE Freed(_, _)
Freed(heap, d) ==
  IF d.type \notin Containers THEN heap ELSE Free(FoldLeft(Freed, heap, Held(heap, d)), d.at)
Destroyed(store, cells) ==
  IF store.needFree THEN [store EXCEPT !.heap = FoldLeft(Freed, store.heap, cells)] ELSE store

(* RawAssign, operator= and Swap move. *)
RawAssign_Kept(store, this, rhs) == Put(store, this, Load(store, rhs))
RawAssign(store, this, rhs) ==
  LET d == Load(store, rhs) IN Put(Put(store, this, d), rhs, [d EXCEPT !.type = "Null"])
Assign(store, this, rhs) == RawAssign(Destroyed(store, <<Load(store, this)>>), this, rhs)
Temporary(store) == <<Len(store.values)>>
Swap(store, this, other) ==
  LET temp == Temporary(store)
  IN RawAssign(RawAssign(RawAssign(store, temp, this), this, other), other, temp)

(* The copy constructor and CopyFrom. *)
RECURSIVE Copied(_, _)
Filled(copied, at, i) == [copied.heap EXCEPT ![at].cells[i] = copied.data]
CopiedInto(made, d, cells) ==
  [heap |-> FoldLeft(LAMBDA heap, i : Filled(Copied(heap, cells[i]), made.at, i), made.heap,
                     [i \in DOMAIN cells |-> i]),
   data |-> [d EXCEPT !.capacity = d.size, !.at = made.at]]
Copied(heap, d) ==
  IF d.type \notin Containers THEN [heap |-> heap, data |-> d]
  ELSE CopiedInto(Malloc(heap, Width(d) * d.size), d, Held(heap, d))
PutCopy(store, this, copied) == Put([store EXCEPT !.heap = copied.heap], this, copied.data)
CopyFrom(store, this, rhs) ==
  LET d == Load(store, rhs)
      destroyed == Destroyed(store, <<Load(store, this)>>)
  IN PutCopy(destroyed, this, Copied(destroyed.heap, d))

(* Reserve and MemberReserve: Realloc, with what was in the block. *)
Moved(store, this, made, d, newCapacity) ==
  LET old == IF d.at = NoBlock THEN <<>> ELSE store.heap[d.at].cells
      new == [i \in 1..(Width(d) * newCapacity) |->
                IF i \in DOMAIN old THEN old[i] ELSE made.heap[made.at].cells[i]]
      heap == IF store.needFree THEN Free(made.heap, d.at) ELSE made.heap
  IN Put([store EXCEPT !.heap = [heap EXCEPT ![made.at].cells = new]], this,
         [d EXCEPT !.capacity = newCapacity, !.at = made.at])
Reserve(store, this, newCapacity) ==
  LET d == Load(store, this)
  IN IF newCapacity > d.capacity
     THEN Moved(store, this, Malloc(store.heap, Width(d) * newCapacity), d, newCapacity)
     ELSE store
Roomy(store, this) ==
  LET d == Load(store, this)
      more == IF d.capacity = 0 THEN kDefaultCapacity ELSE d.capacity + ((d.capacity + 1) \div 2)
  IN IF d.size >= d.capacity THEN Reserve(store, this, more) ELSE store

(* PushBack and AddMember take their value, which must not be in the block
   that grows. *)
Resized(store, this, size) == Put(store, this, [Load(store, this) EXCEPT !.size = size])
PutBack(store, this, value) ==
  LET d == Load(store, this)
  IN RawAssign(Resized(store, this, d.size + 1), <<d.at, d.size + 1>>, value)
PushBack(store, this, value) == PutBack(Roomy(store, this), this, value)
PutMember(store, this, name, value) ==
  LET d == Load(store, this)
  IN RawAssign(Put(Resized(store, this, d.size + 1), <<d.at, 2 * d.size + 1>>, name),
               <<d.at, 2 * d.size + 2>>, value)
AddMember(store, this, name, value) == PutMember(Roomy(store, this), this, name, value)

(* Clear and RemoveAllMembers, PopBack, and Erase of one element or member by
   memmove. *)
Clear(store, this) ==
  Resized(Destroyed(store, Held(store.heap, Load(store, this))), this, 0)
PopBack(store, this) ==
  LET d == Load(store, this)
  IN Destroyed(Resized(store, this, d.size - 1), <<store.heap[d.at].cells[d.size]>>)
Erase(store, this, i) ==
  LET d == Load(store, this)
      w == Width(d)
      cells == store.heap[d.at].cells
      destroyed == Destroyed(store, CellsFrom(cells, w * (i - 1) + 1, w * i))
      moved == [c \in DOMAIN cells |-> IF c \in (w * (i - 1) + 1)..(w * (d.size - 1))
                                       THEN cells[c + w] ELSE cells[c]]
  IN Resized([destroyed EXCEPT !.heap[d.at].cells = moved], this, d.size - 1)
=============================================================================
