-------------------------------- MODULE Fdt --------------------------------
(***************************************************************************)
(* A flattened device tree and the functions that read it (fdt.c,          *)
(* fdt_ro.c).  The structure block is a sequence of cells, one per tag     *)
(* with what belongs to it; an offset is the number of cells before, an    *)
(* error is negative.  Names and values are sequences of characters; the   *)
(* header's version and last_comp_version are those of this library.       *)
(***************************************************************************)
EXTENDS Integers, Sequences, FiniteSets, SequencesExt, FiniteSetsExt

NOTFOUND == -1
EXISTS == -2
NOSPACE == -3
BADOFFSET == -4
BADPATH == -5
BADPHANDLE == -6
BADSTATE == -7
TRUNCATED == -8
BADMAGIC == -9
BADSTRUCTURE == -11
BADLAYOUT == -12
BADVALUE == -15
OUTSIDE == -16   \* no error code: the function has left its buffer

NUL == ""        \* the character that ends a string

\* Cells of the structure block.
BeginNode(name) == [tag |-> "BEGIN_NODE", name |-> name]
Prop(nameoff, val) == [tag |-> "PROP", nameoff |-> nameoff, val |-> val]
Only(tag) == [tag |-> tag]

\* The first number of S, or otherwise.
FirstOf(S, otherwise) == IF S = {} THEN otherwise ELSE Min(S)

-----------------------------------------------------------------------------
(* Tags and nodes (fdt.c).                                                  *)

fdt_next_tag(fdt, offset) ==
  IF offset \in 0..Len(fdt.struct) - 1 THEN fdt.struct[offset + 1].tag ELSE "TRUNCATED"

IsNode(fdt, offset) == fdt_next_tag(fdt, offset) = "BEGIN_NODE"
IsProp(fdt, offset) == fdt_next_tag(fdt, offset) = "PROP"

\* With a depth: the next node and its depth, or, once depth gets negative, the
\* offset behind the END_NODE that made it so.
fdt_next_node(fdt, offset, depth) ==
  LET from == IF offset < 0 THEN 0 ELSE offset + 1
      tag(k) == fdt_next_tag(fdt, k)
      left(k) == depth - Cardinality({j \in from..k - 1 : tag(j) = "END_NODE"})
      stop == Min({k \in from..Len(fdt.struct) :
                     \/ tag(k) \in {"BEGIN_NODE", "END", "TRUNCATED"}
                     \/ tag(k) = "END_NODE" /\ left(k) <= 0})
  IN IF offset >= 0 /\ ~IsNode(fdt, offset) THEN [at |-> BADOFFSET, depth |-> depth]
     ELSE CASE tag(stop) = "BEGIN_NODE" -> [at |-> stop, depth |-> left(stop) + 1]
            [] tag(stop) = "END_NODE"   -> [at |-> stop + 1, depth |-> left(stop) - 1]
            [] tag(stop) = "END"        -> [at |-> NOTFOUND, depth |-> left(stop)]
            [] tag(stop) = "TRUNCATED"  -> [at |-> TRUNCATED, depth |-> left(stop)]

\* What a loop over fdt_next_node visits from a place on, while it may Go on; the
\* last element is the place where it stops.
Walk(fdt, start, Go(_)) ==
  LET place[n \in 0..Len(fdt.struct) + 2] ==
        IF n = 0 THEN start
        ELSE LET p == place[n - 1] IN IF Go(p) THEN fdt_next_node(fdt, p.at, p.depth) ELSE p
      end == Min({n \in 0..Len(fdt.struct) + 2 : ~Go(place[n])})
  IN [n \in 1..end + 1 |-> place[n - 1]]

Root == [at |-> 0, depth |-> 0]
Inside(p) == p.at >= 0 /\ p.depth >= 0

fdt_first_subnode(fdt, offset) ==
  LET p == fdt_next_node(fdt, offset, 0)
  IN IF p.at < 0 \/ p.depth # 1 THEN NOTFOUND ELSE p.at

fdt_next_subnode(fdt, offset) ==
  LET p == Last(Walk(fdt, fdt_next_node(fdt, offset, 1), LAMBDA q : q.at >= 0 /\ q.depth > 1))
  IN IF p.at < 0 \/ p.depth < 1 THEN NOTFOUND ELSE p.at

\* The end of a node: behind its END_NODE.
NodeEndOffset(fdt, offset) ==
  Last(Walk(fdt, [at |-> offset, depth |-> 0], Inside)).at

-----------------------------------------------------------------------------
(* Strings.                                                                 *)

\* Where a string is in a table, also as the end of a longer one; -1 if nowhere.
FindString(tab, s) ==
  FirstOf({p \in 0..Len(tab) - Len(s) - 1 : SubSeq(tab, p + 1, p + Len(s) + 1) = Append(s, NUL)}, -1)

\* While the blob is written names are counted from the end of the table.
StringAt(fdt, stroffset) ==
  LET from == (IF stroffset < 0 THEN Len(fdt.strings) ELSE 0) + stroffset + 1
      nul == FirstOf({k \in from..Len(fdt.strings) : fdt.strings[k] = NUL}, Len(fdt.strings) + 1)
  IN SubSeq(fdt.strings, from, nul - 1)

\* A node answers to its name, and without the unit address, too.
NodenameEq(fdt, offset, name) ==
  LET own == fdt.struct[offset + 1].name
  IN \/ own = name
     \/ /\ Len(own) > Len(name) /\ SubSeq(own, 1, Len(name)) = name
        /\ own[Len(name) + 1] = "@" /\ ~Contains(name, "@")

-----------------------------------------------------------------------------
(* Nodes by name and path (fdt_ro.c).                                       *)

fdt_get_name(fdt, offset) == fdt.struct[offset + 1].name

fdt_subnode_offset(fdt, parent, name) ==
  LET way == Walk(fdt, [at |-> parent, depth |-> 0], Inside)
      hits == {i \in 1..Len(way) - 1 : way[i].depth = 1 /\ NodenameEq(fdt, way[i].at, name)}
  IN IF hits # {} THEN way[Min(hits)].at
     ELSE IF Last(way).depth < 0 THEN NOTFOUND ELSE Last(way).at

\* From a node down a path; a component ends at a separator, a colon ends the path.
Down(fdt, node, path) ==
  LET Sep(p) == FirstOf({k \in p..Len(path) : path[k] \in {"/", ":"}}, Len(path) + 1)
      Name(p) == FirstOf({k \in p..Len(path) : path[k] # "/"}, Len(path) + 1)
      from[p \in 1..Len(path) + 1, offset \in -20..Len(fdt.struct)] ==
        LET b == Name(p) e == Sep(b)
        IN IF offset < 0 \/ b > Len(path) THEN offset
           ELSE IF path[b] = ":" THEN offset
           ELSE from[e, fdt_subnode_offset(fdt, offset, SubSeq(path, b, e - 1))]
  IN from[1, node]

-----------------------------------------------------------------------------
(* Properties.                                                              *)

\* Mutant: a NOP ends the properties.
PropFromNext(fdt, offset, wanted) ==
  LET k == Min({j \in offset..Len(fdt.struct) : IsProp(fdt, j) => j \in wanted})
  IN CASE fdt_next_tag(fdt, k) = "PROP"      -> k
       [] fdt_next_tag(fdt, k) = "END"       -> BADSTRUCTURE
       [] fdt_next_tag(fdt, k) = "TRUNCATED" -> TRUNCATED
       [] OTHER                              -> NOTFOUND

\* _nextprop, again and again until a property is wanted.
PropFrom(fdt, offset, wanted) ==
  LET k == Min({j \in offset..Len(fdt.struct) :
                  fdt_next_tag(fdt, j) # "NOP" /\ (IsProp(fdt, j) => j \in wanted)})
  IN CASE fdt_next_tag(fdt, k) = "PROP"      -> k
       [] fdt_next_tag(fdt, k) = "END"       -> BADSTRUCTURE
       [] fdt_next_tag(fdt, k) = "TRUNCATED" -> TRUNCATED
       [] OTHER                              -> NOTFOUND

Properties(fdt) == {k \in 0..Len(fdt.struct) - 1 : IsProp(fdt, k)}

fdt_first_property_offset(fdt, node) ==
  IF IsNode(fdt, node) THEN PropFrom(fdt, node + 1, Properties(fdt)) ELSE BADOFFSET

fdt_next_property_offset(fdt, offset) ==
  IF IsProp(fdt, offset) THEN PropFrom(fdt, offset + 1, Properties(fdt)) ELSE BADOFFSET

\* The offset of a property, or an error.
fdt_get_property(fdt, node, name) ==
  IF IsNode(fdt, node)
  THEN PropFrom(fdt, node + 1,
                {k \in Properties(fdt) : StringAt(fdt, fdt.struct[k + 1].nameoff) = name})
  ELSE BADOFFSET

HasProp(fdt, node, name) == fdt_get_property(fdt, node, name) >= 0
fdt_getprop(fdt, node, name) == fdt.struct[fdt_get_property(fdt, node, name) + 1].val

PHANDLE == <<"phandle">>
LINUX_PHANDLE == <<"linux,", "phandle">>
ALIASES == <<"/", "aliases">>

\* A phandle is one character here; NUL is none.
fdt_get_phandle(fdt, node) ==
  LET Is(name) == HasProp(fdt, node, name) /\ Len(fdt_getprop(fdt, node, name)) = 1
  IN IF Is(PHANDLE) THEN fdt_getprop(fdt, node, PHANDLE)[1]
     ELSE IF Is(LINUX_PHANDLE) THEN fdt_getprop(fdt, node, LINUX_PHANDLE)[1] ELSE NUL

\* A path that does not start at the root starts with an alias for one that does; the
\* empty path is taken for an alias, too.
fdt_path_offset(fdt, path) ==
  IF path # <<>> /\ path[1] = "/" THEN Down(fdt, 0, path)
  ELSE LET sep == FirstOf({k \in 1..Len(path) : path[k] \in {"/", ":"}}, Len(path) + 1)
           alias == SubSeq(path, 1, sep - 1)
           aliases == Down(fdt, 0, ALIASES)
       IN IF aliases < 0 \/ ~HasProp(fdt, aliases, alias) THEN BADPATH
          ELSE Down(fdt, Down(fdt, 0, Front(fdt_getprop(fdt, aliases, alias))),
                    SubSeq(path, sep, Len(path)))

-----------------------------------------------------------------------------
(* Where a node is.                                                         *)

UpTo(node, p) == p.at >= 0 /\ p.at <= node

\* The verdict on a walk that did not come by the node.
Missed(p) ==
  CASE p.at = NOTFOUND \/ p.at >= 0 -> BADOFFSET
    [] p.at = BADOFFSET             -> BADSTRUCTURE
    [] OTHER                        -> p.at

\* The walk from the root to a node, and whether it gets there.
WalkTo(fdt, node) == Walk(fdt, Root, LAMBDA p : UpTo(node, p))
Arrives(way, node) == Len(way) > 1 /\ way[Len(way) - 1].at = node

\* The names on the path, each with a slash behind; as much of it as fits, without the
\* last slash unless it is the root's.  Behind the root's END_NODE the depth is -1: the
\* loop that takes names off looks for a slash in front of buf.
fdt_get_path(fdt, node, buflen) ==
  LET way == WalkTo(fdt, node)
      Visit(names, p) ==
        LET kept == SubSeq(names, 1, Min({Len(names), p.depth}))
            more == Append(kept, Append(fdt_get_name(fdt, p.at), "/"))
        IN IF Len(kept) >= p.depth /\ Len(FlattenSeq(more)) <= buflen THEN more ELSE kept
      names == FoldLeft(Visit, <<>>, Front(way))
      text == FlattenSeq(names)
  IN IF buflen < 2 THEN [err |-> NOSPACE]
     ELSE IF \E p \in Range(Front(way)) : p.depth < 0 THEN [err |-> OUTSIDE]
     ELSE IF \E p \in Range(Front(way)) : ~IsNode(fdt, p.at) THEN [err |-> BADOFFSET]
     ELSE IF ~Arrives(way, node) THEN [err |-> Missed(Last(way))]
     ELSE IF Len(names) < way[Len(way) - 1].depth + 1 THEN [err |-> NOSPACE]
     ELSE [err |-> 0, path |-> IF Len(text) > 1 THEN Front(text) ELSE text]

fdt_supernode_atdepth_offset(fdt, node, depth) ==
  LET way == WalkTo(fdt, node)
      at == {i \in 1..Len(way) - 1 : way[i].depth = depth}
  IN IF depth < 0 THEN NOTFOUND
     ELSE IF ~Arrives(way, node) THEN Missed(Last(way))
     ELSE IF depth > way[Len(way) - 1].depth THEN NOTFOUND
     ELSE way[Max(at)].at

fdt_node_depth(fdt, node) ==
  LET way == WalkTo(fdt, node)
  IN IF Arrives(way, node) THEN way[Len(way) - 1].depth ELSE Missed(Last(way))

fdt_parent_offset(fdt, node) ==
  LET depth == fdt_node_depth(fdt, node)
  IN IF depth < 0 THEN depth ELSE fdt_supernode_atdepth_offset(fdt, node, depth - 1)

-----------------------------------------------------------------------------
(* Nodes by what they contain: the first one behind a node that passes.     *)

FirstBehind(fdt, node, Passes(_)) ==
  IF node >= 0 /\ ~IsNode(fdt, node) THEN BADOFFSET
  ELSE FirstOf({k \in (IF node < 0 THEN 0 ELSE node + 1)..Len(fdt.struct) - 1 :
                  IsNode(fdt, k) /\ Passes(k)}, NOTFOUND)

fdt_node_offset_by_prop_value(fdt, node, name, val) ==
  FirstBehind(fdt, node, LAMBDA k : HasProp(fdt, k, name) /\ fdt_getprop(fdt, k, name) = val)

fdt_node_offset_by_phandle(fdt, phandle) ==
  IF phandle \in {NUL, "-1"} THEN BADPHANDLE
  ELSE FirstBehind(fdt, -1, LAMBDA k : fdt_get_phandle(fdt, k) = phandle)

-----------------------------------------------------------------------------
(* Lists of strings in a value.                                             *)

Ends(val) == {k \in DOMAIN val : val[k] = NUL}
Terminated(val) == val = <<>> \/ Last(val) = NUL

\* String i, counted from 1, of those that end within the value.
Item(val, i) ==
  LET ends == SetToSortSeq(Ends(val), <)
  IN SubSeq(val, (IF i = 1 THEN 0 ELSE ends[i - 1]) + 1, ends[i] - 1)
Items(val) == 1..Cardinality(Ends(val))

fdt_stringlist_count(val) == IF Terminated(val) THEN Cardinality(Ends(val)) ELSE BADVALUE

fdt_stringlist_search(val, s) ==
  LET hits == {i \in Items(val) : Item(val, i) = s}
  IN IF hits # {} THEN Min(hits) - 1
     ELSE IF Terminated(val) THEN NOTFOUND ELSE BADVALUE

\* The i-th string, counted from 0, as a record so that it can be an error.
fdt_stringlist_get(val, i) ==
  IF i + 1 \in Items(val) THEN [err |-> 0, s |-> Item(val, i + 1)]
  ELSE [err |-> IF Terminated(val) THEN NOTFOUND ELSE BADVALUE]

\* What is behind the last NUL, with the character behind the value, counts as a string.
fdt_stringlist_contains(val, s, behind) ==
  \/ \E i \in Items(val) : Item(val, i) = s
  \/ behind = NUL /\ SubSeq(val, Max({0} \cup Ends(val)) + 1, Len(val)) = s
=============================================================================
