------------------------------- MODULE FdtDoc -------------------------------
(***************************************************************************)
(* What a device tree is to those who write and edit it: its nodes in the  *)
(* order of the text, each with its depth, its name and its properties.    *)
(* No tags, offsets, string table, padding or space: a call either does    *)
(* what it says, and nothing else, or fails and changes nothing.           *)
(***************************************************************************)
EXTENDS Integers, Sequences, SequencesExt, FiniteSetsExt

VARIABLES
  doc,        \* the nodes
  reserved,   \* the sizes of the reserved regions of memory
  call,       \* what was asked for: op, the i-th node or region, name, val
  err         \* the answer: 0, a place, or an error

docVars == <<doc, reserved, call, err>>

\* A node and all below it: i..LastBelow(i).
LastBelow(i) ==
  Max({j \in i..Len(doc) : \A k \in i + 1..j : doc[k].depth > doc[i].depth})

\* The place of a property in a list; 0 if it is not there.
Place(props, name) == SelectInSeq(props, LAMBDA p : p.name = name)

Init == doc = <<>> /\ reserved = <<>> /\ err = 0

\* A name in use is the end of another one.
NamesOverlap ==
  LET used == {p.name : p \in UNION {Range(n.props) : n \in Range(doc)}}
  IN \E s, t \in used : IsStrictSuffix(s, t)

\* Collecting the strings takes more room than they had only if names shared some.
Fail ==
  /\ err' < 0 /\ UNCHANGED <<doc, reserved>>
  /\ call'.op = "collect" => NamesOverlap

\* Writing in order.
Begin(name, depth) ==
  doc' = Append(doc, [depth |-> depth, name |-> name, props |-> <<>>])
Write(name, val) ==
  doc' = [doc EXCEPT ![Len(doc)].props = Append(@, [name |-> name, val |-> val])]

\* Editing.
Put(i, name, Val(_)) ==
  LET k == Place(doc[i].props, name)
  IN doc' = [doc EXCEPT ![i].props = IF k = 0 THEN <<[name |-> name, val |-> Val(<<>>)]>> \o @
                                     ELSE [@ EXCEPT ![k].val = Val(@)]]
Set(i, name, val) == Put(i, name, LAMBDA old : val)
Extend(i, name, val) == Put(i, name, LAMBDA old : old \o val)
Replace(i, name, val) ==
  /\ \E p \in Range(doc[i].props) : p.name = name /\ Len(p.val) = Len(val)
  /\ Set(i, name, val)
Drop(i, name) ==
  LET k == Place(doc[i].props, name)
  IN k # 0 /\ doc' = [doc EXCEPT ![i].props = RemoveAt(@, k)]
Add(i, name) ==
  doc' = InsertAt(doc, i + 1, [depth |-> doc[i].depth + 1, name |-> name, props |-> <<>>])
Delete(i) == doc' = SubSeq(doc, 1, i - 1) \o SubSeq(doc, LastBelow(i) + 1, Len(doc))
Rename(i, name) == doc' = [doc EXCEPT ![i].name = name]

Succeed(c) ==
  \/ /\ \/ c.op = "begin"   /\ Begin(c.name, c.i)
        \/ c.op = "write"   /\ Write(c.name, c.val)
        \/ c.op = "set"     /\ Set(c.i, c.name, c.val)
        \/ c.op = "extend"  /\ Extend(c.i, c.name, c.val)
        \/ c.op = "replace" /\ Replace(c.i, c.name, c.val)
        \/ c.op = "drop"    /\ Drop(c.i, c.name)
        \/ c.op = "add"     /\ Add(c.i, c.name)
        \/ c.op = "rename"  /\ Rename(c.i, c.name)
        \/ c.op = "delete"  /\ Delete(c.i)
     /\ UNCHANGED reserved
  \/ /\ \/ c.op = "reserve" /\ reserved' = Append(reserved, c.i)
        \/ c.op = "release" /\ c.i \in DOMAIN reserved /\ reserved' = RemoveAt(reserved, c.i)
     /\ UNCHANGED doc
  \/ c.op \in {"none", "collect"} /\ UNCHANGED <<doc, reserved>>

Next == Fail \/ (err' >= 0 /\ Succeed(call'))

Spec == Init /\ [][Next]_docVars
=============================================================================
