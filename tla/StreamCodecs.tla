---------------------------- MODULE StreamCodecs ----------------------------
(***************************************************************************)
(* The streams and the memory of the JSON library against what they stand  *)
(* for: the part of Codecs that is about buffers.                          *)
(***************************************************************************)
EXTENDS EncodingCodecs, JsonStreams
M == INSTANCE JsonMemory

(* Files around the sizes of the buffers, with and without lines. *)
BufferSizes == {4, 5, 6}
Files == {[i \in 1..n |-> 64 + i] : n \in 0..13}
           \cup {[i \in 1..n |-> IF i % k = 0 THEN LineFeed ELSE 65] : n \in 1..7, k \in 1..3}
FileInputs == [file : Files, bufferSize : BufferSizes]

(* A stream after n bytes were taken from it. *)
Taken(n, Next(_), s) == FoldLeft(LAMBDA stream, i : Next(stream), s, [i \in 1..n |-> i])

(* Whatever its size, a buffer does not show: a file is read byte by byte to
   its end, where there are NULs, with its positions.  Four bytes can be looked
   at if the buffer has them and one more, or has the end behind them; and it
   always has if it is larger than four bytes, at the start of the file. *)
FilesAreRead ==
  codec = "file" =>
    \A n \in 0..(Len(input.file) + 2) :
      LET s == Taken(n, ReadFile, OpenFile(input.file, input.bufferSize))
          i == Taken(n, TakeIStream, NewIStream(input.file))
          at == MostOf(n, Len(input.file))
          next4 == SubSeq(input.file, at + 1, MostOf(at + 4, Len(input.file)))
          taken == [k \in 1..n |-> ByteAt(input.file, k)]
          cursor == FoldLeft(Counted, NewCursor, taken)
          lines == {k \in 1..n : taken[k] = LineFeed}
      IN /\ PeekFile(s) = ByteAt(input.file, n + 1) /\ TellFile(s) = at
         /\ PeekIStream(i) = ByteAt(input.file, n + 1) /\ i.count = at
         /\ Peek4File(s) \in {<<>>, next4}
         /\ n = 0 /\ Len(next4) = 4 /\ input.bufferSize > 4 => Peek4File(s) = next4
         /\ Peek4IStream(i).bytes = (IF Len(next4) = 4 THEN next4 ELSE <<>>)
         /\ Peek4IStream(i).stream = i
         /\ cursor.line = 1 + Cardinality(lines)
         /\ cursor.col = Cardinality({k \in 1..n : \A l \in lines : l < k})

(* What is put arrives in its order, none of it before the buffer is full or
   flushed. *)
Puts == {<<"put", 65>>, <<"put", 66>>, <<"flush">>} \cup {<<"n", c, n>> : c \in {67}, n \in {0, 1, 3, 4, 7}}
MaxPuts == 4
WriteInputs == [bufferSize : {1, 3, 4}, puts : SeqOf(Puts, MaxPuts)]
PutInto(s, put) ==
  CASE put[1] = "put" -> PutByteTo(s, put[2])
    [] put[1] = "n" -> PutN(s, put[2], put[3])
    [] OTHER -> Flush(s)
PutBytes(put) ==
  CASE put[1] = "put" -> <<put[2]>> [] put[1] = "n" -> [i \in 1..put[3] |-> put[2]] [] OTHER -> <<>>
FilesAreWritten ==
  codec = "written" =>
    LET s == FoldLeft(PutInto, NewFile(input.bufferSize), input.puts)
        sent == FlattenSeq([i \in DOMAIN input.puts |-> PutBytes(input.puts[i])])
    IN /\ s.written \o s.buffer = sent /\ Len(s.buffer) <= input.bufferSize
       /\ <<"flush">> \notin Range(input.puts) => Len(s.written) % input.bufferSize = 0
       /\ Flush(s).written = sent

StreamsCarryTexts == FilesAreRead /\ FilesAreWritten

-----------------------------------------------------------------------------
(* Two stacks in one pool, the second of them a buffer's, and what is done to
   them.  A pop takes half of what there is. *)
Uses == {<<"push", 1, 1>>, <<"push", 1, 9>>, <<"push", 2, 5>>, <<"pop", 1>>, <<"shrink", 1>>,
         <<"string", 2>>, <<"fit", 2>>, <<"clear", 2>>, <<"swap">>}
MaxUses == 4
MemoryInputs ==
  [pool : {M!NewPool(16), M!PoolIn(40, 16)}, stackCapacity : {0, 8}, uses : SeqOf(Uses, MaxUses)]

Pushed(step, n) == [i \in 1..n |-> 10 * step + i]
WithStack(world, s, made) == [world EXCEPT !.pool = made.pool, !.stacks[s] = made.stack]
UseStack(world, use) ==
  LET stack == world.stacks[use[2]]
  IN CASE use[1] = "push" -> WithStack(world, use[2], M!Push(world.pool, stack, Pushed(world.step, use[3])))
       [] use[1] = "pop" -> [world EXCEPT !.stacks[use[2]] = M!Pop(stack, stack.top - (stack.top \div 2))]
       [] use[1] = "clear" -> [world EXCEPT !.stacks[use[2]] = M!ClearStack(stack)]
       [] use[1] = "shrink" -> WithStack(world, use[2], M!ShrinkToFit(world.pool, stack))
       [] use[1] = "string" -> WithStack(world, use[2], M!GetString(world.pool, stack))
       [] OTHER -> WithStack(world, use[2], M!ShrinkBuffer(world.pool, stack))
HeldAfter(held, step, use) ==
  CASE use[1] = "push" -> [held EXCEPT ![use[2]] = held[use[2]] \o Pushed(step, use[3])]
    [] use[1] = "pop" -> [held EXCEPT ![use[2]] = SubSeq(held[use[2]], 1, Len(held[use[2]]) \div 2)]
    [] use[1] = "clear" -> [held EXCEPT ![use[2]] = <<>>]
    [] OTHER -> held
Lived(x) ==
  FoldLeft(LAMBDA world, use :
             IF use = <<"swap">>
             THEN [world EXCEPT !.step = world.step + 1, !.stacks = Reverse(world.stacks),
                                !.held = Reverse(world.held)]
             ELSE [UseStack(world, use) EXCEPT !.step = world.step + 1,
                                          !.held = HeldAfter(world.held, world.step, use)],
           [pool |-> x.pool, step |-> 1, held |-> << <<>>, <<>> >>,
            stacks |-> <<M!NewStack(x.stackCapacity), M!NewStack(x.stackCapacity)>>],
           x.uses)

(* Each stack holds what was pushed on it and not popped, wherever the other
   one grows; its room is in the part of a chunk that has been served; and a
   cleared pool is as large as the user's buffer.  The text of a buffer that has
   just been asked for it ends with a NUL. *)
StackIsKept(pool, stack, held) ==
  IF stack.block = M!NoBlock THEN held = <<>> /\ stack.end = 0
  ELSE /\ M!Load(pool, stack.block, stack.top) = held
       /\ stack.top <= stack.end
       /\ stack.block[2] + stack.end <= pool.chunks[M!ChunkAt(pool, stack.block)].size
PoolIsKept(pool, first) ==
  /\ M!PoolSize(pool) <= M!PoolCapacity(pool)
  /\ M!PoolSize(M!ClearPool(pool)) = 0
  /\ M!PoolCapacity(M!ClearPool(pool)) = M!PoolCapacity(first)
WorldIsKept(world, x) ==
  /\ \A s \in 1..2 : StackIsKept(world.pool, world.stacks[s], world.held[s])
  /\ PoolIsKept(world.pool, x.pool)
  /\ x.uses # <<>> /\ Last(x.uses) = <<"string", 2>> =>
       Last(M!Load(world.pool, world.stacks[2].block, world.stacks[2].top + 1)) = NUL
MemoryIsKept == codec = "memory" => WorldIsKept(Lived(input), input)
=============================================================================
