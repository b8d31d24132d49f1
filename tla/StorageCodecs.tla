--------------------------- MODULE StorageCodecs ---------------------------
(***************************************************************************)
(* Values in memory against what they are: the part of Codecs that is      *)
(* about moving, copying and changing values.                              *)
(***************************************************************************)
EXTENDS StreamCodecs
V == INSTANCE JsonStorage

(* [10, [20]], {"a": 30} and 40, as a parser leaves them. *)
Scalar(n) == V!Cell("Number", n)
Holding(type, size, at) ==
  [V!Cell(type, 0) EXCEPT !.size = size, !.capacity = size, !.at = at]
Stored(needFree) ==
  [needFree |-> needFree,
   heap |-> <<[freed |-> FALSE, cells |-> <<Scalar(10), Holding("Array", 1, 2)>>],
              [freed |-> FALSE, cells |-> <<Scalar(20)>>],
              [freed |-> FALSE, cells |-> <<V!Cell("String", 97), Scalar(30)>>]>>,
   values |-> <<Holding("Array", 2, 1), Holding("Object", 1, 3), Scalar(40), V!Cell("Null", 0)>>]

(* What a value is, wherever it is kept. *)
Tree(type, data, items) == [type |-> type, data |-> data, items |-> items]
NullTree == Tree("Null", 0, <<>>)
RECURSIVE TreeOf(_, _)
TreeOf(heap, d) ==
  CASE d.type = "Null" -> NullTree
    [] d.type \in V!Containers ->
         Tree(d.type, 0, FoldLeft(LAMBDA items, cell : Append(items, TreeOf(heap, cell)), <<>>,
                                  V!Held(heap, d)))
    [] OTHER -> Tree(d.type, d.data, <<>>)
TreesIn(store) == [v \in 1..3 |-> TreeOf(store.heap, store.values[v])]

(* Places: one of the three values, or what it has at an index. *)
PlaceIn(trees, p) ==
  /\ Len(p) = 2 => p[2] \in DOMAIN trees[p[1]].items
  /\ Len(p) = 2 => (trees[p[1]].type = "Object" => p[2] % 2 = 0)
TreeAt(trees, p) == IF Len(p) = 1 THEN trees[p[1]] ELSE trees[p[1]].items[p[2]]
Planted(trees, p, tree) ==
  IF Len(p) = 1 THEN [trees EXCEPT ![p[1]] = tree] ELSE [trees EXCEPT ![p[1]].items[p[2]] = tree]
CellOf(store, p) == IF Len(p) = 1 THEN p ELSE <<store.values[p[1]].at, p[2]>>

Moves(ops, places) == {x \in [op : ops, to : places, from : places] : x.to # x.from}
EditsOf(ops, places) == [op : ops, to : places, from : {<<>>}]
StorageInputs ==
  LET edits == EditsOf({"clear", "pop", "erase"}, {<<1>>, <<2>>, <<1, 2>>})
      moves == Moves({"move", "copy", "swap", "push", "add"}, {<<1>>, <<2>>, <<3>>, <<1, 2>>, <<2, 2>>})
      some == Moves({"move", "copy", "push"}, {<<1>>, <<2>>, <<1, 2>>}) \cup edits
  IN [needFree : BOOLEAN, steps : SeqOf(moves \cup edits, 2) \cup [1..3 -> some]]

(* What the library asks of the caller: the right types, no element to remove
   from nothing, and no value swapped with, or put into, one it is a part of
   or has as a part.  Where values are freed, none may be assigned a part of
   itself either: operator= destroys what it is about to read. *)
MayStep(trees, needFree, x) ==
  /\ PlaceIn(trees, x.to)
  /\ x.from # <<>> => PlaceIn(trees, x.from)
  /\ CASE x.op \in {"push", "pop"} -> TreeAt(trees, x.to).type = "Array"
       [] x.op = "add" -> TreeAt(trees, x.to).type = "Object"
       [] x.op \in {"clear", "erase"} -> TreeAt(trees, x.to).type \in V!Containers
       [] OTHER -> TRUE
  /\ x.op \in {"pop", "erase"} => TreeAt(trees, x.to).items # <<>>
  /\ x.op \in {"swap", "push", "add"} => x.to[1] # x.from[1]
  /\ x.op \in {"move", "copy"} /\ needFree => x.to[1] # x.from[1]

(* A step on the store. *)
OnStore(store, x, to, from) ==
  CASE x.op = "move" -> V!Assign(store, to, from)
    [] x.op = "copy" -> V!CopyFrom(store, to, from)
    [] x.op = "swap" -> V!Swap(store, to, from)
    [] x.op = "push" -> V!PushBack(store, to, from)
    [] x.op = "add" -> V!AddMember(store, to, V!Cell("String", 98), from)
    [] x.op = "clear" -> V!Clear(store, to)
    [] x.op = "pop" -> V!PopBack(store, to)
    [] OTHER -> V!Erase(store, to, 1)

(* The same step on trees: what is taken leaves null, and what is put into a
   place that was taken with it is gone. *)
Remade(old, x, tree) ==
  CASE x.op = "push" -> [old EXCEPT !.items = Append(old.items, tree)]
    [] x.op = "add" -> [old EXCEPT !.items = old.items \o <<Tree("String", 98, <<>>), tree>>]
    [] x.op = "clear" -> [old EXCEPT !.items = <<>>]
    [] x.op = "pop" -> [old EXCEPT !.items = Front(old.items)]
    [] x.op = "erase" -> [old EXCEPT !.items = From(old.items, IF old.type = "Object" THEN 3 ELSE 2)]
    [] OTHER -> tree
PutTree(left, x, tree) ==
  IF PlaceIn(left, x.to) THEN Planted(left, x.to, Remade(TreeAt(left, x.to), x, tree)) ELSE left
OnTrees(trees, x) ==
  CASE x.from = <<>> -> PutTree(trees, x, NullTree)
    [] x.op = "copy" -> PutTree(trees, x, TreeAt(trees, x.from))
    [] x.op = "swap" -> Planted(Planted(trees, x.to, TreeAt(trees, x.from)), x.from, TreeAt(trees, x.to))
    [] OTHER -> PutTree(Planted(trees, x.from, NullTree), x, TreeAt(trees, x.from))

StepOf(world, x) ==
  IF ~MayStep(world.trees, world.store.needFree, x) THEN world
  ELSE [store |-> OnStore(world.store, x, CellOf(world.store, x.to), CellOf(world.store, x.from)),
        trees |-> OnTrees(world.trees, x)]
StoredAfter(x) ==
  LET store == Stored(x.needFree)
  IN FoldLeft(StepOf, [store |-> store, trees |-> TreesIn(store)], x.steps)

(* The blocks a value owns, one after the other. *)
RECURSIVE Owned(_, _)
Owned(heap, d) ==
  IF d.type \notin V!Containers \/ d.at = V!NoBlock THEN <<>>
  ELSE LET cells == V!Held(heap, d)
       IN <<d.at>> \o FlattenSeq([i \in DOMAIN cells |-> Owned(heap, cells[i])])
OwnedBy(store) == FlattenSeq([v \in 1..3 |-> Owned(store.heap, store.values[v])])

(* After any moves, copies and edits the values are what they should be, no two
   of them share a block, none has one that was freed, and an allocator that
   needs Free has been given back all the others. *)
OneOwnerEach(store, owned) ==
  /\ IsInjective(owned)
  /\ \A b \in Range(owned) : ~store.heap[b].freed
  /\ store.needFree => \A b \in DOMAIN store.heap : store.heap[b].freed \/ b \in Range(owned)
WorldIsStored(world) ==
  /\ TreesIn(world.store) = world.trees
  /\ OneOwnerEach(world.store, OwnedBy(world.store))
ValuesAreStored == codec = "storage" => WorldIsStored(StoredAfter(input))
=============================================================================
