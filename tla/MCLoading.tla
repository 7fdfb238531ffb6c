----------------------------- MODULE MCLoading -----------------------------
(***************************************************************************)
(* Loading on small instances: a base file and an overlay, named in layers *)
(* or found on a search path, with option lists that are right and wrong.  *)
(***************************************************************************)
EXTENDS Loading, TLC

CONSTANTS base, overlay, rules, garbled, refused

MCContents == [Files -> 0 .. MaxChanges + 1]
MCValid == {c \in MCContents : \A f \in Files : c[f] # refused}
MCGarbled == {garbled}

Searching(files) == [search |-> files, file |-> Nil, fails |-> FALSE]
Naming(f) == [search |-> <<>>, file |-> f, fails |-> FALSE]
Failing == [search |-> <<base>>, file |-> Nil, fails |-> TRUE]

Layered ==
  <<WithValidator(rules), WithConfigFile(base), WithOptionalConfigFile(overlay)>>
BothRequired == <<WithConfigFile(base), WithConfigFile(overlay)>>
AllOptional ==
  <<WithAllowMissingFile(TRUE), WithOptionalConfigFile(base),
    WithOptionalConfigFile(overlay)>>
Discovering == <<WithViperSetup(Searching(<<overlay>>))>>
Mistakes ==
  {Nil, WithConfigFile(""), WithOptionalConfigFile(""), WithValidator(Nil),
   WithDebounce(-1), WithEventBuffer(0), WithLogger(Nil),
   WithDecodeOption(<<rules, Nil>>), WithViperSetup(Nil)}

MCGiven ==
  {Layered, BothRequired, AllOptional, Discovering,
   Discovering \o <<WithAllowMissingFile(TRUE), WithDebounce(0)>>,
   <<WithViperSetup(Naming(base)), WithLogger(rules), WithEventBuffer(1)>>,
   <<WithViperSetup(Searching(<<overlay>>)), WithViperSetup(Failing)>>}
    \cup {<<WithViperSetup(Searching(<<base>>)), m>> : m \in Mistakes}

OnlyOptional == {AllOptional}

MCAdopted == {Nil, [search |-> <<base>>, file |-> Nil]}
Fresh == {FreshViper}

Symmetry == Permutations(Callers)
=============================================================================
