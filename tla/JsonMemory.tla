----------------------------- MODULE JsonMemory -----------------------------
(***************************************************************************)
(* rapidjson/allocators.h, internal/stack.h and stringbuffer.h: a pool     *)
(* that hands out blocks of chunks and never takes one back, the stack     *)
(* that readers, documents and buffers grow in it, and the buffer that     *)
(* ends its text with a NUL when it is asked for it.  A pointer is a chunk *)
(* and an offset in it.  That the system has no memory left is not         *)
(* modelled: the stack does not look at what Realloc answers then.         *)
(***************************************************************************)
EXTENDS Integers, Sequences, SequencesExt

Align(n) == 8 * ((n + 7) \div 8)
ChunkHeader == 24
NoBlock == <<>>
Garbage == -1

(* A pool's chunks, the one that serves first.  The user's buffer, if there is
   one, is the last. *)
Chunk(id, capacity) ==
  [id |-> id, capacity |-> capacity, size |-> 0, bytes |-> [i \in 0..(capacity - 1) |-> Garbage]]
NewPool(chunkCapacity) ==
  [chunks |-> <<>>, chunkCapacity |-> chunkCapacity, made |-> 0, user |-> FALSE]
PoolIn(bufferSize, chunkCapacity) ==
  [NewPool(chunkCapacity) EXCEPT !.chunks = <<Chunk(0, bufferSize - ChunkHeader)>>, !.user = TRUE]
ClearPool(pool) ==
  [pool EXCEPT !.chunks = IF pool.user THEN <<[Last(pool.chunks) EXCEPT !.size = 0]>> ELSE <<>>]
PoolCapacity(pool) == FoldLeft(LAMBDA n, c : n + c.capacity, 0, pool.chunks)
PoolSize(pool) == FoldLeft(LAMBDA n, c : n + c.size, 0, pool.chunks)

AddChunk(pool, capacity) ==
  [pool EXCEPT !.made = pool.made + 1, !.chunks = <<Chunk(pool.made + 1, capacity)>> \o pool.chunks]
HasRoom(pool, n) == pool.chunks # <<>> /\ pool.chunks[1].size + n <= pool.chunks[1].capacity
Served(pool, block) == [pool |-> pool, block |-> block]
Malloc(pool, size) ==
  LET n == Align(size)
      ready == IF HasRoom(pool, n) THEN pool
               ELSE AddChunk(pool, IF pool.chunkCapacity > n THEN pool.chunkCapacity ELSE n)
      head == ready.chunks[1]
  IN IF size = 0 THEN Served(pool, NoBlock)
     ELSE Served([ready EXCEPT !.chunks[1].size = head.size + n], <<head.id, head.size>>)

(* What is at a block; what does not fit is not there. *)
ChunkAt(pool, block) == CHOOSE c \in DOMAIN pool.chunks : pool.chunks[c].id = block[1]
Load(pool, block, n) ==
  LET bytes == pool.chunks[ChunkAt(pool, block)].bytes
  IN [i \in 1..n |-> IF block[2] + i - 1 \in DOMAIN bytes THEN bytes[block[2] + i - 1] ELSE Garbage]
Store(pool, block, at, bytes) ==
  LET c == ChunkAt(pool, block)
      first == block[2] + at
      old == pool.chunks[c].bytes
  IN [pool EXCEPT !.chunks[c].bytes =
        [i \in DOMAIN old |-> IF i - first + 1 \in DOMAIN bytes THEN bytes[i - first + 1] ELSE old[i]]]

(* Realloc: the last block served grows where it is if its chunk has room; any
   other is copied. *)
IsLastServed(pool, block, n) == block = <<pool.chunks[1].id, pool.chunks[1].size - n>>
CopiedTo(new, pool, block, n) ==
  Served(Store(new.pool, new.block, 0, Load(pool, block, n)), new.block)
Grows_AnyBlock(pool, block, original, n) ==
  IF HasRoom(pool, n - original)
  THEN Served([pool EXCEPT !.chunks[1].size = pool.chunks[1].size + n - original], block)
  ELSE CopiedTo(Malloc(pool, n), pool, block, original)
Grows(pool, block, original, n) ==
  IF IsLastServed(pool, block, original) /\ HasRoom(pool, n - original)
  THEN Served([pool EXCEPT !.chunks[1].size = pool.chunks[1].size + n - original], block)
  ELSE CopiedTo(Malloc(pool, n), pool, block, original)
Realloc(pool, block, originalSize, newSize) ==
  CASE block = NoBlock -> Malloc(pool, newSize)
    [] block # NoBlock /\ newSize = 0 -> Served(pool, NoBlock)
    [] block # NoBlock /\ newSize # 0 /\ Align(originalSize) >= Align(newSize) -> Served(pool, block)
    [] OTHER -> Grows(pool, block, Align(originalSize), Align(newSize))

-----------------------------------------------------------------------------
(* A stack: where it is, how much is on it and how much it has room for. *)
NewStack(stackCapacity) ==
  [block |-> NoBlock, top |-> 0, end |-> 0, initialCapacity |-> stackCapacity]
With(pool, stack) == [pool |-> pool, stack |-> stack]
MovedTo(served, stack, newCapacity) ==
  With(served.pool, [stack EXCEPT !.block = served.block, !.end = newCapacity])
Resize(pool, stack, newCapacity) ==
  MovedTo(Realloc(pool, stack.block, stack.end, newCapacity), stack, newCapacity)
NewCapacity(stack) ==
  IF stack.block = NoBlock THEN stack.initialCapacity ELSE stack.end + ((stack.end + 1) \div 2)
Expand(pool, stack, count) ==
  Resize(pool, stack, IF NewCapacity(stack) < stack.top + count THEN stack.top + count
                      ELSE NewCapacity(stack))
Reserve(pool, stack, count) ==
  IF stack.top + count > stack.end THEN Expand(pool, stack, count) ELSE With(pool, stack)
PushUnsafe(reserved, top, bytes) ==
  With(Store(reserved.pool, reserved.stack.block, top, bytes),
       [reserved.stack EXCEPT !.top = top + Len(bytes)])
Push(pool, stack, bytes) == PushUnsafe(Reserve(pool, stack, Len(bytes)), stack.top, bytes)
Pop(stack, count) == [stack EXCEPT !.top = stack.top - count]
ClearStack(stack) == [stack EXCEPT !.top = 0]
ShrinkToFit(pool, stack) ==
  IF stack.top = 0 THEN With(pool, [stack EXCEPT !.block = NoBlock, !.end = 0])
  ELSE Resize(pool, stack, stack.top)

(* StringBuffer: the terminator is pushed and popped again. *)
Unterminated(made) == With(made.pool, Pop(made.stack, 1))
GetString(pool, stack) == Unterminated(Push(pool, stack, <<0>>))
Shrunk(made) == ShrinkToFit(made.pool, made.stack)
ShrinkBuffer(pool, stack) == Unterminated(Shrunk(Push(pool, stack, <<0>>)))
=============================================================================
