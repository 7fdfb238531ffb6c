------------------------------ MODULE MCWatch ------------------------------
(***************************************************************************)
(* Watch on small instances: a base file, alone or with an overlay.  One   *)
(* version may be refused by the validator, and one may not parse.         *)
(***************************************************************************)
EXTENDS Watch, TLC

CONSTANTS base, overlay, rules, refused, garbled

OneFile == {base}
TwoFiles == {base, overlay}
MCDirOf == [f \in Files |-> "etc"]
MCContents == [Files -> 0 .. MaxChanges + 1]
MCValid == {c \in MCContents : \A f \in Files : c[f] # refused}
MCGarbled == {garbled}
Fresh == {FreshViper}

BaseRequired == {<<WithConfigFile(base), WithDebounce(0)>>}
BothRequired ==
  {<<WithConfigFile(base), WithConfigFile(overlay), WithValidator(rules)>>}
OverlayOptional == {<<WithConfigFile(base), WithOptionalConfigFile(overlay)>>}
BaseOptional ==
  {<<WithOptionalConfigFile(base), WithAllowMissingFile(TRUE), WithDebounce(0)>>}
=============================================================================
