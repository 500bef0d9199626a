------------------------------- MODULE MCFdt -------------------------------
(* Constants for TLC: a tag is two characters; one name of a node is the    *)
(* other with a unit address, one name of a property is the end of the      *)
(* other, values are characters and ends of strings, and the buffer holds   *)
(* three nodes, or two with a property, or one with both.                   *)
EXTENDS FdtEdit
CharactersSmall == {NUL, "a", "@", "v"} \cup Range(PHANDLE) \cup Range(LINUX_PHANDLE)
NamesSmall == {<<"a">>, <<"a", "@">>}
PropsSmall == {PHANDLE, LINUX_PHANDLE}
ValuesSmall == {<<>>, <<"v">>, <<NUL>>}
=============================================================================
