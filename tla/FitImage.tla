------------------------------ MODULE FitImage ------------------------------
(***************************************************************************)
(* A FIT: a device tree that describes images, which lie behind it, and    *)
(* what sb_loader reads from it (LoadFitImage).  A number is one character *)
(* of a value.                                                             *)
(***************************************************************************)
EXTENDS Fdt

NoEntry == -1     \* an image without the property

-----------------------------------------------------------------------------
(* How a FIT is laid out, from what it describes:                           *)
(* images   the nodes of /images: name, load, offset, size, entry           *)
(* configs  the nodes of /configurations: name and its three lists of names *)
(* default  the name of one of them                                         *)

Key(s) == <<s>>
Keys == << "default", "firmware", "fdt", "loadables", "load", "data-offset", "data-size", "entry" >>
KeyTable == FlattenSeq([i \in DOMAIN Keys |-> <<Keys[i], NUL>>])
Is(key, val) == Prop(FindString(KeyTable, Key(key)), val)

Node(name, cells) == <<BeginNode(name)>> \o cells \o <<Only("END_NODE")>>
List(names) == FlattenSeq([i \in DOMAIN names |-> Append(names[i], NUL)])

ImageNode(im) ==
  Node(im.name, <<Is("load", <<im.load>>), Is("data-offset", <<im.offset>>),
                  Is("data-size", <<im.size>>)>>
                \o IF im.entry = NoEntry THEN <<>> ELSE <<Is("entry", <<im.entry>>)>>)
ConfigNode(c) ==
  Node(c.name, [i \in 1..Len(c.lists) |-> Is(c.lists[i].type, List(c.lists[i].names))])

Tree(f) ==
  [strings |-> KeyTable,
   struct |->
     Node(<<>>,
          Node(<<"images">>, FlattenSeq([i \in DOMAIN f.images |-> ImageNode(f.images[i])]))
          \o Node(<<"configurations">>,
                  <<Is("default", Append(f.default, NUL))>>
                  \o FlattenSeq([i \in DOMAIN f.configs |-> ConfigNode(f.configs[i])])))
     \o <<Only("END")>>]

-----------------------------------------------------------------------------
(* Reading it.                                                              *)

ImagesNode(tree) == fdt_path_offset(tree, <<"/", "images">>)
Configurations(tree) == fdt_path_offset(tree, <<"/", "configurations">>)

\* Mutant: the first configuration is taken for the default one.
FirstConfig(tree, configurations) == fdt_first_subnode(tree, configurations)

\* The loop over the configurations; 0 if none has the default's name.
DefaultConfig(tree, configurations) ==
  LET default == Front(fdt_getprop(tree, configurations, Key("default")))
      from[k \in -20..Len(tree.struct)] ==
        IF k < 0 THEN 0 ELSE IF fdt_get_name(tree, k) = default THEN k
        ELSE from[fdt_next_subnode(tree, k)]
  IN from[fdt_first_subnode(tree, configurations)]

\* The node of the index-th image a list of a configuration names.  The name "behind"
\* the last one is empty, and no node has that name.
NamedNode(tree, image_node, config_node, type, index) ==
  LET names == fdt_getprop(tree, config_node, Key(type))
      count == Cardinality(Ends(names))
      name == IF index = count THEN <<>> ELSE Item(names, index + 1)
  IN IF ~HasProp(tree, config_node, Key(type)) \/ index > count THEN -1
     ELSE fdt_subnode_offset(tree, image_node, name)

\* From the offsets of /images and /configurations.
FitGetImageNodeOffset(tree, image_node, configurations, type, index) ==
  LET config_node == DefaultConfig(tree, configurations)
  IN CASE configurations < 0                     -> configurations
       [] configurations >= 0 /\ config_node = 0 -> 0
       [] OTHER -> NamedNode(tree, image_node, config_node, type, index)

FitGetIntProp(tree, node, prop) == fdt_getprop(tree, node, Key(prop))[1]

\* What LoadFitImage asks about an image: its node, and the numbers it has.
ImageInfo(tree, node) ==
  LET numbers == {p \in {"load", "data-offset", "data-size", "entry"} : HasProp(tree, node, Key(p))}
  IN [node |-> node, num |-> [p \in numbers |-> FitGetIntProp(tree, node, p)]]
=============================================================================
