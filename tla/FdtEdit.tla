------------------------------ MODULE FdtEdit ------------------------------
(***************************************************************************)
(* The life of a flattened device tree: written in order (fdt_sw.c),       *)
(* finished, moved to a larger buffer and edited (fdt_rw.c, fdt_wip.c).    *)
(* The blocks lie in the order header, reservations, structure, strings;   *)
(* while the tree is written the strings are at the end of the buffer.     *)
(***************************************************************************)
EXTENDS Fdt

CONSTANTS
  TagSize,      \* FDT_TAGSIZE: characters of a tag, a length, an offset
  HeaderSize,   \* sizeof(struct fdt_header)
  RsvMapOffset, \* where fdt_create puts the reserve map: behind the header, aligned to
  RsvSize,      \* sizeof(struct fdt_reserve_entry)
  Buffers,      \* bound: sizes of buffers
  Characters,   \* of names and values, and what ends a string
  Names,        \* names of nodes, without the root's
  Props,        \* names of properties
  Values,       \* what is written to them
  Sizes         \* sizes of reserved regions

ASSUME FdtEditAssumption ==
  /\ TagSize \in Nat \ {0} /\ RsvSize \in Nat \ {0}
  /\ HeaderSize \in Nat /\ RsvMapOffset \in Nat /\ HeaderSize <= RsvMapOffset
  /\ Buffers \subseteq Nat /\ \A n \in Buffers : n >= HeaderSize
  /\ Sizes \subseteq Nat \ {0}
  /\ NUL \in Characters /\ Names \cup Props \cup Values \subseteq Seq(Characters)

VARIABLES
  fdt,    \* magic, offset of the reserve map and the map, structure block and its size in
          \* the header, strings, totalsize
  ret,    \* what the last call returned
  call    \* what it was asked for, in terms of FdtDoc: for the properties only

vars == <<fdt, ret, call>>

Cells == [tag : {"NOP", "END_NODE", "END"}]
           \cup [tag : {"BEGIN_NODE"}, name : Names \cup {<<>>}]
           \cup [tag : {"PROP"}, nameoff : Int, val : Seq(Characters)]

Align(n) == ((n + TagSize - 1) \div TagSize) * TagSize
CellSize(c) ==
  CASE c.tag = "BEGIN_NODE" -> TagSize + Align(Len(c.name) + 1)
    [] c.tag = "PROP"       -> 3 * TagSize + Align(Len(c.val))
    [] OTHER                -> TagSize
SizeOf(cells) ==
  LET upto[k \in 0..Len(cells)] == IF k = 0 THEN 0 ELSE upto[k - 1] + CellSize(cells[k])
  IN upto[Len(cells)]

OffDtStruct(f) == f.mapAt + RsvSize * Len(f.rsv)
DataSize(f) == OffDtStruct(f) + f.structSize + Len(f.strings)

\* fdt_create
Init ==
  /\ \E n \in Buffers :
       fdt = [magic |-> "sw", mapAt |-> RsvMapOffset, rsv |-> <<>>, struct |-> <<>>,
              structSize |-> 0, strings |-> <<>>, size |-> n]
  /\ ret = 0
  /\ call = [op |-> "none"]

Returns(f, r) == fdt' = f /\ ret' = r

\* The structure block with other cells, delta characters larger.
Restructured(f, cells, delta) == [f EXCEPT !.struct = cells, !.structSize = @ + delta]

-----------------------------------------------------------------------------
(* Writing in order.                                                        *)

Writing == fdt.magic = "sw"
Open == Cardinality({k \in DOMAIN fdt.struct : fdt.struct[k].tag = "BEGIN_NODE"})
          - Cardinality({k \in DOMAIN fdt.struct : fdt.struct[k].tag = "END_NODE"})
MapFinished == fdt.rsv # <<>> /\ Last(fdt.rsv) = 0

\* Is there room between the structure block and the strings?  The comparison is one of
\* unsigned numbers: a negative space counts as a huge one.
CanGrab(f, n) ==
  LET spaceleft == f.size - OffDtStruct(f) - Len(f.strings)
  IN spaceleft < 0 \/ f.structSize + n <= spaceleft

\* fdt_add_reservemap_entry; with size 0 it is fdt_finish_reservemap.
AddReservemapEntry(size) ==
  /\ Writing /\ ~MapFinished
  /\ IF fdt.structSize # 0 THEN Returns(fdt, BADSTATE)
     ELSE IF OffDtStruct(fdt) + RsvSize > fdt.size THEN Returns(fdt, NOSPACE)
     ELSE Returns([fdt EXCEPT !.rsv = Append(@, size)], 0)

Grab(cell) ==
  IF CanGrab(fdt, CellSize(cell))
  THEN Returns(Restructured(fdt, Append(fdt.struct, cell), CellSize(cell)), 0)
  ELSE Returns(fdt, NOSPACE)

BeginANode(name) ==
  /\ Writing /\ MapFinished
  /\ IF fdt.struct = <<>> THEN name = <<>> ELSE name # <<>> /\ Open > 0
  /\ Grab(BeginNode(name))

EndNode ==
  /\ Writing /\ Open > 0
  /\ Grab(Only("END_NODE"))

\* The table grows downwards: names are known by their distance from its end.  Where a
\* name would begin in front of the buffer, its unsigned place passes for a high one.
FindAddStringSw(f, s) ==
  LET p == FindString(f.strings, s)
      offset == -Len(f.strings) - Len(s) - 1
      struct_top == OffDtStruct(f) + f.structSize
  IN CASE p >= 0 -> [at |-> p - Len(f.strings), f |-> f]
       [] p < 0 /\ f.size + offset \in 0..struct_top - 1 -> [at |-> 0, f |-> f]
       [] OTHER -> [at |-> offset, f |-> [f EXCEPT !.strings = Append(s, NUL) \o @]]

\* Strings that begin in front of the buffer were written over the header.
Overruns(f) == Len(f.strings) > f.size

\* Properties are written before the subnodes of their node.  With the header lost the
\* call goes on with what the name says of sizes and offsets, and no other call will
\* know the blob.
Property(name, val) ==
  /\ Writing /\ fdt.struct # <<>> /\ Last(fdt.struct).tag \in {"BEGIN_NODE", "PROP"}
  /\ LET found == FindAddStringSw(fdt, name)
         cell == Prop(found.at, val)
     IN IF Overruns(found.f)
        THEN \E r \in {0, NOSPACE} : Returns([found.f EXCEPT !.magic = "lost"], r)
        ELSE IF found.at = 0 \/ ~CanGrab(found.f, CellSize(cell))
        THEN Returns(found.f, NOSPACE)
        ELSE Returns(Restructured(found.f, Append(fdt.struct, cell), CellSize(cell)), 0)

\* Mutant: the offsets of the names are not corrected.
FinishUncorrected ==
  /\ Writing /\ Open = 0 /\ fdt.struct # <<>>
  /\ IF ~CanGrab(fdt, TagSize) THEN Returns(fdt, NOSPACE)
     ELSE Returns([fdt EXCEPT !.magic = "fdt",
                              !.struct = Append(fdt.struct, Only("END")),
                              !.structSize = @ + TagSize,
                              !.size = DataSize(fdt) + TagSize], 0)

\* The cells with the names counted from the start of n characters, not from the end.
FromStart(cells, n) ==
  [k \in DOMAIN cells |-> IF cells[k].tag = "PROP" THEN [cells[k] EXCEPT !.nameoff = @ + n]
                          ELSE cells[k]]

\* The strings are moved up to the structure block.
Finish ==
  /\ Writing /\ Open = 0 /\ fdt.struct # <<>>
  /\ IF ~CanGrab(fdt, TagSize) THEN Returns(fdt, NOSPACE)
     ELSE Returns([fdt EXCEPT !.magic = "fdt",
                              !.struct = Append(FromStart(fdt.struct, Len(fdt.strings)),
                                                Only("END")),
                              !.structSize = @ + TagSize,
                              !.size = DataSize(fdt) + TagSize], 0)

\* The checks of the header refuse editing what is not finished, and the other way.  (With a
\* structure and no strings yet an editing call would pass them, as the nop calls, which
\* check no header, always do: callers edit only what is finished.)
WrongState ==
  IF Writing
  THEN \/ fdt.struct = <<>> /\ Returns(fdt, BADSTATE)
       \/ fdt.struct # <<>> /\ fdt.strings # <<>> /\ Returns(fdt, BADLAYOUT)
  ELSE Returns(fdt, BADMAGIC)

-----------------------------------------------------------------------------
(* Editing: a splice of the structure block moves what is behind it.        *)

Finished == fdt.magic = "fdt"
Offsets == 0..Len(fdt.struct) - 1

Room(f, delta) == DataSize(f) + delta <= f.size

Splice(f, cells, delta, r) ==
  IF Room(f, delta) THEN Returns(Restructured(f, cells, delta), r) ELSE Returns(f, NOSPACE)

\* Mutant: the string's terminator is not reserved.
FindAddStringShort(f, s) ==
  LET p == FindString(f.strings, s)
  IN CASE p >= 0 -> [at |-> p, f |-> f]
       [] p < 0 /\ ~Room(f, Len(s)) -> [at |-> NOSPACE, f |-> f]
       [] OTHER -> [at |-> Len(f.strings), f |-> [f EXCEPT !.strings = @ \o Append(s, NUL)]]

FindAddString(f, s) ==
  LET p == FindString(f.strings, s)
  IN CASE p >= 0 -> [at |-> p, f |-> f]
       [] p < 0 /\ ~Room(f, Len(s) + 1) -> [at |-> NOSPACE, f |-> f]
       [] OTHER -> [at |-> Len(f.strings), f |-> [f EXCEPT !.strings = @ \o Append(s, NUL)]]

\* A new property comes first; its name stays in the table if there is no room for it.
AddProperty(node, name, val) ==
  LET added == FindAddString(fdt, name)
      cell == Prop(added.at, val)
  IN CASE ~IsNode(fdt, node) -> Returns(fdt, BADOFFSET)
       [] IsNode(fdt, node) /\ added.at < 0 -> Returns(fdt, added.at)
       [] OTHER -> Splice(added.f, InsertAt(fdt.struct, node + 2, cell), CellSize(cell), 0)

Resized(at, val) ==
  Splice(fdt, [fdt.struct EXCEPT ![at + 1].val = val],
         Align(Len(val)) - Align(Len(fdt.struct[at + 1].val)), 0)

\* fdt_setprop, with fdt_setprop_placeholder
SetProp(node, name, val) ==
  /\ Finished
  /\ LET at == fdt_get_property(fdt, node, name)
     IN CASE at >= 0       -> Resized(at, val)
          [] at = NOTFOUND -> AddProperty(node, name, val)
          [] OTHER         -> Returns(fdt, at)

AppendProp(node, name, val) ==
  /\ Finished
  /\ LET at == fdt_get_property(fdt, node, name)
     IN IF at >= 0 THEN Resized(at, fdt.struct[at + 1].val \o val)
        ELSE AddProperty(node, name, val)

DelProp(node, name) ==
  /\ Finished
  /\ LET at == fdt_get_property(fdt, node, name)
     IN IF at < 0 THEN Returns(fdt, at)
        ELSE Splice(fdt, RemoveAt(fdt.struct, at + 1), -CellSize(fdt.struct[at + 1]), 0)

SetPropInplace(node, name, val) ==
  /\ Finished
  /\ LET at == fdt_get_property(fdt, node, name)
     IN CASE at < 0 -> Returns(fdt, at)
          [] at >= 0 /\ Len(fdt.struct[at + 1].val) # Len(val) -> Returns(fdt, NOSPACE)
          [] OTHER -> Returns([fdt EXCEPT !.struct[at + 1].val = val], 0)

\* Mutant: the new node goes right behind the parent's tag, before its properties.
AddSubnodeFirst(parent, name) ==
  /\ Finished
  /\ LET there == fdt_subnode_offset(fdt, parent, name)
         offset == parent + 1
         cells == <<BeginNode(name), Only("END_NODE")>>
     IN CASE there >= 0       -> Returns(fdt, EXISTS)
          [] there = NOTFOUND -> Splice(fdt, SubSeq(fdt.struct, 1, offset) \o cells
                                          \o SubSeq(fdt.struct, offset + 1, Len(fdt.struct)),
                                        SizeOf(cells), offset)
          [] OTHER            -> Returns(fdt, there)

AddSubnode(parent, name) ==
  /\ Finished
  /\ LET there == fdt_subnode_offset(fdt, parent, name)
         offset == Min({k \in parent + 1..Len(fdt.struct) :
                          fdt_next_tag(fdt, k) \notin {"PROP", "NOP"}})
         cells == <<BeginNode(name), Only("END_NODE")>>
     IN CASE there >= 0       -> Returns(fdt, EXISTS)
          [] there = NOTFOUND -> Splice(fdt, SubSeq(fdt.struct, 1, offset) \o cells
                                          \o SubSeq(fdt.struct, offset + 1, Len(fdt.struct)),
                                        CellSize(BeginNode(name)) + TagSize, offset)
          [] OTHER            -> Returns(fdt, there)

DelNode(node) ==
  /\ Finished
  /\ LET end == NodeEndOffset(fdt, node)
     IN IF end < 0 THEN Returns(fdt, end)
        ELSE Splice(fdt, SubSeq(fdt.struct, 1, node) \o SubSeq(fdt.struct, end + 1, Len(fdt.struct)),
                    -SizeOf(SubSeq(fdt.struct, node + 1, end)), 0)

\* Mutant: the length of the name is counted without its terminator.
SetNameBare(node, name) ==
  /\ Finished
  /\ IF ~IsNode(fdt, node) THEN Returns(fdt, BADOFFSET)
     ELSE Splice(fdt, [fdt.struct EXCEPT ![node + 1].name = name],
                 Align(Len(name)) - Align(Len(fdt_get_name(fdt, node)) + 1), 0)

SetName(node, name) ==
  /\ Finished
  /\ IF ~IsNode(fdt, node) THEN Returns(fdt, BADOFFSET)
     ELSE Splice(fdt, [fdt.struct EXCEPT ![node + 1].name = name],
                 Align(Len(name) + 1) - Align(Len(fdt_get_name(fdt, node)) + 1), 0)

\* As many NOPs as the cells from..to - 1 have tags.
Nopped(from, to) ==
  LET n == SizeOf(SubSeq(fdt.struct, from + 1, to)) \div TagSize
  IN [fdt EXCEPT !.struct = SubSeq(@, 1, from) \o [k \in 1..n |-> Only("NOP")]
                              \o SubSeq(@, to + 1, Len(@))]

NopProperty(node, name) ==
  /\ Finished
  /\ LET at == fdt_get_property(fdt, node, name)
     IN IF at < 0 THEN Returns(fdt, at) ELSE Returns(Nopped(at, at + 1), 0)

NopNode(node) ==
  /\ Finished
  /\ LET end == NodeEndOffset(fdt, node)
     IN IF end < 0 THEN Returns(fdt, end) ELSE Returns(Nopped(node, end), 0)

-----------------------------------------------------------------------------
(* The blob as a whole.                                                     *)

NumMemRsv == FirstOf({k \in DOMAIN fdt.rsv : fdt.rsv[k] = 0}, Len(fdt.rsv) + 1) - 1

AddMemRsv(size) ==
  /\ Finished
  /\ IF Room(fdt, RsvSize)
     THEN Returns([fdt EXCEPT !.rsv = InsertAt(@, NumMemRsv + 1, size)], 0)
     ELSE Returns(fdt, NOSPACE)

DelMemRsv(n) ==
  /\ Finished
  /\ IF n >= NumMemRsv THEN Returns(fdt, NOTFOUND)
     ELSE Returns([fdt EXCEPT !.rsv = RemoveAt(@, n + 1)], 0)

\* The blocks are in order: the tree only moves to the larger buffer as it is.
OpenInto(n) ==
  /\ Finished
  /\ IF fdt.size > n THEN Returns(fdt, NOSPACE)
     ELSE Returns([fdt EXCEPT !.size = n], 0)

\* The reserve map moves up to the header, without the alignment of fdt_create.
Pack ==
  /\ Finished
  /\ LET packed == [fdt EXCEPT !.mapAt = HeaderSize, !.rsv = SubSeq(@, 1, NumMemRsv + 1)]
     IN Returns([packed EXCEPT !.size = DataSize(packed)], 0)

\* The names are added again to an empty table, in the order of the properties; if
\* there is no room for one the new blob is of no use.
RemoveUnusedStrings ==
  /\ Finished
  /\ LET Add(new, k) ==
           LET found == FindAddString(new, StringAt(fdt, fdt.struct[k].nameoff))
           IN IF new.size = 0 \/ fdt.struct[k].tag # "PROP" THEN new
              ELSE IF found.at < 0 THEN [new EXCEPT !.size = 0]
              ELSE [found.f EXCEPT !.struct[k].nameoff = found.at]
         upto[k \in 0..Len(fdt.struct)] ==
           IF k = 0 THEN [fdt EXCEPT !.strings = <<>>] ELSE Add(upto[k - 1], k)
         new == upto[Len(fdt.struct)]
     IN IF new.size = 0 THEN Returns(fdt, NOSPACE) ELSE Returns(new, 0)

-----------------------------------------------------------------------------
(* Calls.                                                                   *)

Asks(op, i, name, val) == call' = [op |-> op, i |-> i, name |-> name, val |-> val]
Nothing == call' = [op |-> "none"]

\* The number of a node in the order of the text.
Index(node) == Cardinality({k \in 0..node : IsNode(fdt, k)})

Write ==
  \/ \E size \in Sizes : AddReservemapEntry(size) /\ Asks("reserve", size, <<>>, <<>>)
  \/ AddReservemapEntry(0) /\ Nothing
  \/ \E name \in Names \cup {<<>>} : BeginANode(name) /\ Asks("begin", Open, name, <<>>)
  \/ EndNode /\ Nothing
  \/ \E name \in Props, val \in Values : Property(name, val) /\ Asks("write", 0, name, val)
  \/ Finish /\ Nothing

EditProps ==
  \E node \in Offsets, name \in Props :
    \/ (DelProp(node, name) \/ NopProperty(node, name)) /\ Asks("drop", Index(node), name, <<>>)
    \/ \E val \in Values :
         \/ SetProp(node, name, val) /\ Asks("set", Index(node), name, val)
         \/ AppendProp(node, name, val) /\ Asks("extend", Index(node), name, val)
         \/ SetPropInplace(node, name, val) /\ Asks("replace", Index(node), name, val)

EditNodes ==
  \E node \in Offsets :
    \/ (DelNode(node) \/ NopNode(node)) /\ Asks("delete", Index(node), <<>>, <<>>)
    \/ \E name \in Names :
         \/ AddSubnode(node, name) /\ Asks("add", Index(node), name, <<>>)
         \/ SetName(node, name) /\ Asks("rename", Index(node), name, <<>>)

EditBlob ==
  \/ \E size \in Sizes : AddMemRsv(size) /\ Asks("reserve", size, <<>>, <<>>)
  \/ \E n \in 0..2 : DelMemRsv(n) /\ Asks("release", n + 1, <<>>, <<>>)
  \/ (Pack \/ \E n \in Buffers : OpenInto(n)) /\ Nothing
  \/ RemoveUnusedStrings /\ Asks("collect", 0, <<>>, <<>>)

Next == Write \/ (WrongState /\ Nothing) \/ EditProps \/ EditNodes \/ EditBlob

Spec == Init /\ [][Next]_vars

-----------------------------------------------------------------------------
(* The tree a blob stands for.                                              *)

NodeOffsets == {k \in 0..Len(fdt.struct) - 1 : IsNode(fdt, k)}
Count(tag, to) == Cardinality({k \in 0..to - 1 : fdt_next_tag(fdt, k) = tag})

\* A node's properties are the PROPs right behind its tag, NOPs apart.
PropsOf(node) ==
  LET stop == Min({k \in node + 1..Len(fdt.struct) : fdt_next_tag(fdt, k) \notin {"PROP", "NOP"}})
      cells == SelectSeq(SubSeq(fdt.struct, node + 2, stop), LAMBDA c : c.tag = "PROP")
  IN [i \in DOMAIN cells |-> [name |-> StringAt(fdt, cells[i].nameoff), val |-> cells[i].val]]

DepthOf(node) == Count("BEGIN_NODE", node) - Count("END_NODE", node)

Doc ==
  LET nodes == SetToSortSeq(NodeOffsets, <)
  IN [i \in DOMAIN nodes |-> [depth |-> DepthOf(nodes[i]), name |-> fdt_get_name(fdt, nodes[i]),
                              props |-> PropsOf(nodes[i])]]

D == INSTANCE FdtDoc WITH doc <- Doc, reserved <- SubSeq(fdt.rsv, 1, NumMemRsv), err <- ret

-----------------------------------------------------------------------------
(* Properties.                                                              *)

\* Types of the blob and of what calls return; the name of every property is in the
\* table, whichever end of it the offsets count from (fdt_sw.c:230-245).
TypeOK ==
  /\ fdt \in [magic : {"sw", "fdt", "lost"}, mapAt : {HeaderSize, RsvMapOffset},
             rsv : Seq(Sizes \cup {0}), struct : Seq(Cells), structSize : Nat, strings : Seq(Characters), size : Nat]
  /\ fdt.magic # "lost" => \A k \in DOMAIN fdt.struct : fdt.struct[k].tag = "PROP" =>
       fdt.struct[k].nameoff \in IF Writing THEN -Len(fdt.strings)..-1
                                ELSE 0..Len(fdt.strings) - 1
  /\ ret \in Int

\* From the first entry of the reserve map on the blocks fit into the buffer whatever is
\* added, removed and moved: a splice looks at the end of the strings, the writer at the
\* gap before them (fdt_rw.c:56-69, fdt_sw.c:27-40, :167-170).  With names shorter than the
\* header, that is (ShortNames): a longer one may get past the unsigned test for room.
Fits == fdt.rsv # <<>> => DataSize(fdt) <= fdt.size

\* No name of a property is as long as what fdt_create leaves in front of the reserve map.
ShortNames == \A s \in Props : Len(s) < RsvMapOffset

\* size_dt_struct, kept up by differences, is the size of the cells; no padding is
\* forgotten and none counted twice (fdt_rw.c:84-97, fdt_sw.c:43).
HeaderTrue == fdt.magic # "lost" => fdt.structSize = SizeOf(fdt.struct)

\* A call that succeeds does to the tree what was asked for, at the node that was named,
\* and nothing else; one that fails leaves it as it was, also where the string was
\* already added (fdt_rw.c:183-192).  Finishing, NOPs, packing, moving and collecting
\* strings keep every name and value.  Collecting, which "should not happen" to run out of space
\* (libfdt.h:1872), fails only on trees in which one name is the end of another.
DocSpec == D!Spec

\* What the reading functions say of a finished tree, each by a walk of its own, is one
\* tree: depth, parent, children, properties, phandles, the lists of strings in values
\* and, where no sibling answers to the same name, the way to a node and back by its
\* path; an offset where no node starts is an error (fdt_ro.c:160-527).  For the last one
\* fdt_get_path does not get that far: it reads in front of its buffer (:385).
ChildrenOf(k) ==
  LET from[c \in -20..Len(fdt.struct)] ==
        IF c < 0 THEN <<>> ELSE <<c>> \o from[fdt_next_subnode(fdt, c)]
  IN from[fdt_first_subnode(fdt, k)]
ListOf(k) ==
  LET from[p \in -20..Len(fdt.struct)] ==
        IF p < 0 THEN <<>>
        ELSE <<[name |-> StringAt(fdt, fdt.struct[p + 1].nameoff), val |-> fdt.struct[p + 1].val]>>
               \o from[fdt_next_property_offset(fdt, p)]
  IN from[fdt_first_property_offset(fdt, k)]
ParentOf(k) ==
  Max({NOTFOUND} \cup {j \in NodeOffsets : j < k /\ DepthOf(j) = DepthOf(k) - 1})
Ambiguous(k) ==
  \E j \in NodeOffsets \ {k} : ParentOf(j) = ParentOf(k) /\ NodenameEq(fdt, j, fdt_get_name(fdt, k))
Ancestors(k) == {j \in NodeOffsets : j <= k /\ NodeEndOffset(fdt, j) > k}
Value(props, name) ==
  IF D!Place(props, name) = 0 THEN <<>> ELSE props[D!Place(props, name)].val
PhandleOf(props) ==
  CASE Len(Value(props, PHANDLE)) = 1 -> Value(props, PHANDLE)[1]
    [] Len(Value(props, PHANDLE)) # 1 /\ Len(Value(props, LINUX_PHANDLE)) = 1
         -> Value(props, LINUX_PHANDLE)[1]
    [] OTHER -> NUL

ReadersAgree ==
  Finished /\ IsNode(fdt, 0) =>
    /\ \A k \in Offsets \ NodeOffsets :
         /\ fdt_node_depth(fdt, k) < 0 /\ fdt_parent_offset(fdt, k) < 0
         /\ fdt_get_path(fdt, k, 20).err = IF k = Len(fdt.struct) - 1 THEN OUTSIDE ELSE BADOFFSET
         /\ \A name \in Props : ~HasProp(fdt, k, name)
    /\ \A k \in NodeOffsets : LET n == Doc[Index(k)] IN
         /\ fdt_node_depth(fdt, k) = n.depth
         /\ fdt_parent_offset(fdt, k) = ParentOf(k)
         /\ ChildrenOf(k) = SetToSortSeq({j \in NodeOffsets : ParentOf(j) = k}, <)
         /\ ListOf(k) = n.props
         /\ \A name \in Props :
              /\ HasProp(fdt, k, name) <=> D!Place(n.props, name) # 0
              /\ HasProp(fdt, k, name) =>
                   LET val == Value(n.props, name)
                       first == fdt_node_offset_by_prop_value(fdt, -1, name, val)
                   IN /\ fdt_getprop(fdt, k, name) = val
                      /\ first \in 0..k /\ Value(Doc[Index(first)].props, name) = val
         /\ LET path == fdt_get_path(fdt, k, 20).path
            IN /\ fdt_get_path(fdt, k, Len(path) + 1).path = path
               /\ (fdt_get_name(fdt, 0) = <<>> /\ \A j \in Ancestors(k) : ~Ambiguous(j))
                    => fdt_path_offset(fdt, path) = k
         /\ fdt_get_phandle(fdt, k) = PhandleOf(n.props)
         /\ PhandleOf(n.props) # NUL =>
              LET first == fdt_node_offset_by_phandle(fdt, PhandleOf(n.props))
              IN first \in 0..k /\ PhandleOf(Doc[Index(first)].props) = PhandleOf(n.props)
         /\ \A p \in Range(n.props) :
              LET count == fdt_stringlist_count(p.val)
                     Get(j) == fdt_stringlist_get(p.val, j)
                 IN IF count < 0 THEN Last(p.val) # NUL
                    ELSE /\ FlattenSeq([j \in 1..count |-> Append(Get(j - 1).s, NUL)]) = p.val
                         /\ Get(count).err = NOTFOUND
                         /\ \A j \in 0..count - 1 :
                              LET hit == fdt_stringlist_search(p.val, Get(j).s)
                              IN hit \in 0..j /\ Get(hit).s = Get(j).s
                                 /\ fdt_stringlist_contains(p.val, Get(j).s, NUL)

View == fdt
=============================================================================
