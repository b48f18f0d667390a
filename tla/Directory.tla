----------------------------- MODULE Directory -----------------------------
(***************************************************************************)
(* Finding a file by its path: split_path() and search_file() of file.c    *)
(* (the boot loader has the same two functions).  A path and the fields of *)
(* a directory entry are sequences of characters; a name field is          *)
(* NAME_LENGTH long and padded with spaces, an extension EXT_LENGTH.       *)
(***************************************************************************)
EXTENDS Integers, SequencesExt, FiniteSetsExt

CONSTANTS
  NAME_LENGTH, EXT_LENGTH,   \* 8 and 3
  NULL                       \* no entry

ASSUME DirectoryAssumption == NAME_LENGTH \in Nat \ {0} /\ EXT_LENGTH \in Nat \ {0} /\ NULL \notin Nat

Dot == "."
Slash == "/"
Space == " "
Deleted == "deleted"    \* first character of the name of a deleted entry
Empty == "empty"        \* and of one that was never used
LONG_NAME == 15         \* attributes of a part of a long file name

\* The fields of an entry: of their length, and without the signs a path is
\* made of (an extension may hold a dot).
FieldsOK(entry) ==
  /\ entry.name \in Seq(STRING) /\ Len(entry.name) = NAME_LENGTH
  /\ entry.ext \in Seq(STRING) /\ Len(entry.ext) = EXT_LENGTH
  /\ {Dot, Slash} \cap Range(entry.name) = {} /\ Slash \notin Range(entry.ext)

Pad(field, n) == [k \in 1 .. n |-> IF k <= Len(field) THEN field[k] ELSE Space]

\* How many characters the loop for a field of n characters takes from s.
Taken(s, n, stops) ==
  Min({n} \cup {k - 1 : k \in {k \in DOMAIN s : s[k] \in stops}} \cup {Len(s)})

Refused == [ok |-> FALSE]
Accepted(base, ext) ==
  IF Slash \in Range(base) \cup Range(ext) THEN Refused
  ELSE [ok |-> TRUE, name |-> Pad(base, NAME_LENGTH), ext |-> Pad(ext, EXT_LENGTH)]

\* Slip: what is left of the path behind the extension is ignored.
split_path_lenient(path) ==
  LET n == Taken(path, NAME_LENGTH, {Dot})
      rest == SubSeq(path, n + 2, Len(path))
  IN  Accepted(SubSeq(path, 1, n), SubSeq(rest, 1, Taken(rest, EXT_LENGTH, {})))

\* The name ends at a dot or at its length, the extension behind the dot at its
\* length; a path with anything left, or a slash on the way, is refused.
split_path(path) ==
  LET n == Taken(path, NAME_LENGTH, {Dot})
      dotted == n < Len(path) /\ path[n + 1] = Dot
      rest == SubSeq(path, IF dotted THEN n + 2 ELSE n + 1, Len(path))
      e == IF dotted THEN Taken(rest, EXT_LENGTH, {}) ELSE 0
  IN  IF e < Len(rest) THEN Refused
      ELSE Accepted(SubSeq(path, 1, n), SubSeq(rest, 1, e))

InUse(entry) ==
  entry.name[1] \notin {Empty, Deleted} /\ entry.attributes # LONG_NAME

\* search_file() in the directory root: the first entry in use with this name
\* and extension.
search_file(root, path) ==
  LET split == split_path(path)
      found == {i \in DOMAIN root : InUse(root[i]) /\ split.ok
                  /\ root[i].name = split.name /\ root[i].ext = split.ext}
  IN  IF found = {} THEN NULL ELSE Min(found)

(***************************************************************************)
(* The reference: how a file is called.                                    *)
(***************************************************************************)
Trim(field) == SubSeq(field, 1, Max({0} \cup {k \in DOMAIN field : field[k] # Space}))

\* All spellings of an entry: the trailing spaces of both fields may be written
\* or not, and the dot may be left out before an empty extension.
Fillings(field) == {SubSeq(field, 1, k) : k \in Len(Trim(field)) .. Len(field)}
Dotted(base, ext) == base \o <<Dot>> \o ext
Spellings(entry) ==
  {Dotted(base, ext) : base \in Fillings(entry.name), ext \in Fillings(entry.ext)}
    \cup IF Trim(entry.ext) = <<>> THEN Fillings(entry.name) ELSE {}

\* The entry that a path should find.
Called(root, path) ==
  LET called == {i \in DOMAIN root : InUse(root[i]) /\ path \in Spellings(root[i])}
  IN  IF called = {} THEN NULL ELSE Min(called)
=============================================================================
