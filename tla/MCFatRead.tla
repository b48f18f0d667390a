----------------------------- MODULE MCFatRead -----------------------------
(***************************************************************************)
(* Names of two characters, extensions of one.  Before the file ab.b the   *)
(* directory has a deleted entry and a part of a long name that look like  *)
(* it; the file a has neither a full name nor an extension.                *)
(***************************************************************************)
EXTENDS FatRead

MCEntry(base, ext, attributes) == [name |-> base, ext |-> ext, attributes |-> attributes]
MCRoot == <<MCEntry(<<Deleted, "b">>, <<"b">>, 0), MCEntry(<<"a", "b">>, <<"b">>, 15),
            MCEntry(<<"a", Space>>, <<Space>>, 0), MCEntry(<<"a", "b">>, <<"b">>, 0),
            MCEntry(<<Empty, "b">>, <<"b">>, 0)>>
MCRoots == {MCRoot}

\* Every path of up to five characters.
MCPath == UNION {[1 .. n -> {"a", "b", Dot, Slash, Space}] : n \in 0 .. 5}
=============================================================================
