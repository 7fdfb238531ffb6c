------------------------------ MODULE Options ------------------------------
(***************************************************************************)
(* The options of a Config (options.go).  An option names the field it     *)
(* sets, says whether its value is added to that field or replaces it, and *)
(* whether the check it makes when it is applied accepts the value.        *)
(***************************************************************************)
EXTENDS Integers, Sequences

CONSTANTS
  Nil,                \* a nil option, function or logger
  DefaultDebounce,    \* the delay when WithDebounce is not given
  DefaultEventBuffer  \* the queue size when WithEventBuffer is not given

DefaultOptions ==
  [configFiles |-> <<>>, allowMissingFile |-> FALSE, validator |-> Nil,
   debounce |-> DefaultDebounce, eventBuffer |-> DefaultEventBuffer,
   logger |-> Nil, decodeOptions |-> <<>>, viperSetup |-> <<>>]

Sets(name, value, legal) ==
  [field |-> name, value |-> value, legal |-> legal, adds |-> FALSE]

Adds(name, values, legal) ==
  [field |-> name, value |-> values, legal |-> legal, adds |-> TRUE]

\* Mutant: the last file named is the only one.
WithConfigFileReplacing(path) ==
  Sets("configFiles", <<[path |-> path, optional |-> FALSE]>>, path # "")

WithConfigFile(path) ==
  Adds("configFiles", <<[path |-> path, optional |-> FALSE]>>, path # "")

WithOptionalConfigFile(path) ==
  Adds("configFiles", <<[path |-> path, optional |-> TRUE]>>, path # "")

WithAllowMissingFile(allow) == Sets("allowMissingFile", allow, TRUE)

WithValidator(validator) == Sets("validator", validator, validator # Nil)

WithDebounce(d) == Sets("debounce", d, d >= 0)

\* Mutant: a queue that holds nothing is accepted.
WithEventBufferUnchecked(size) == Sets("eventBuffer", size, size >= 0)

WithEventBuffer(size) == Sets("eventBuffer", size, size >= 1)

WithLogger(logger) == Sets("logger", logger, logger # Nil)

WithDecodeOption(opts) ==
  Adds("decodeOptions", opts, \A i \in DOMAIN opts : opts[i] # Nil)

WithViperSetup(fn) == Adds("viperSetup", <<fn>>, fn # Nil)

(* What the functions above return, for these paths and setup functions.   *)
IsOption(option, paths, setups) ==
  \/ option = Nil
  \/ /\ option.field = "configFiles"
     /\ \E f \in paths \cup {""} :
          option \in {WithConfigFile(f), WithOptionalConfigFile(f)}
  \/ option \in {WithAllowMissingFile(allow) : allow \in BOOLEAN}
  \/ option.field = "validator" /\ option = WithValidator(option.value)
  \/ /\ option.field \in {"debounce", "eventBuffer"}
     /\ option.value \in Int
     /\ option \in {WithDebounce(option.value), WithEventBuffer(option.value)}
  \/ option.field = "logger" /\ option = WithLogger(option.value)
  \/ option.field = "decodeOptions" /\ option = WithDecodeOption(option.value)
  \/ /\ option.field = "viperSetup"
     /\ option.value[1] = Nil \/ option.value[1] \in setups
     /\ option = WithViperSetup(option.value[1])

Mistaken(option) == option = Nil \/ ~option.legal

(* What an option makes of the options applied before it.                  *)
Applied(opts, option) ==
  [opts EXCEPT ![option.field] =
     IF option.adds THEN @ \o option.value ELSE option.value]
=============================================================================
