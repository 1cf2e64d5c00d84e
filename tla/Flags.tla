------------------------------- MODULE Flags --------------------------------
(***************************************************************************)
(* What the settings of a process are, app/flags/parse_flags.go: every     *)
(* field with a flag tag takes the environment's value, else the one of    *)
(* its tag, when it is declared to the flag package, and the command line  *)
(* replaces that.  A text is what it is in a TLA+ string; those that name  *)
(* a number or a truth value are listed here.  The flag package is         *)
(* external.                                                               *)
(***************************************************************************)
EXTENDS Naturals, Sequences, SequencesExt

None == "none"                  \* a field without a default tag
NotFound == "not_found_flag"    \* the text that stands for its key's

Numeral == [t \in {"0", "1", "7"} |-> IF t = "0" THEN 0 ELSE IF t = "1" THEN 1 ELSE 7]

(* strconv.ParseBool, which the command line goes through. *)
TrueTexts  == {"true", "1"}
FalseTexts == {"false", "0"}

Kinds == {"string", "int", "bool"}

(* A field's text becomes its value: what is no number becomes 0 without   *)
(* an error, and only "true" is true.                                      *)
Initial(kind, text) ==
  <<kind, IF kind = "int" THEN IF text \in DOMAIN Numeral THEN Numeral[text] ELSE 0
          ELSE IF kind = "bool" THEN text = "true" ELSE text>>

(* Slip: the tag's default is looked at first. *)
DefaultTextTagFirst(field, env) ==
  IF field.default # None THEN field.default
  ELSE IF field.key \in DOMAIN env THEN env[field.key] ELSE NotFound

DefaultText(field, env) ==
  IF field.key \in DOMAIN env THEN env[field.key]
  ELSE IF field.default # None THEN field.default ELSE NotFound

(* flag.StringVar and its sisters panic on a key they already have, and    *)
(* the code on a field of another kind, and on a struct that is given      *)
(* itself and not by a pointer.  Such a struct stands among the fields as  *)
(* one of a kind that Kinds does not have; a nil one has none.             *)
Declare(acc, field, env) ==
  IF acc.out # "ok" THEN acc
  ELSE IF field.key \in DOMAIN acc.value \/ field.kind \notin Kinds THEN [acc EXCEPT !.out = "panic"]
  ELSE [acc EXCEPT !.value = [k \in DOMAIN @ \cup {field.key} |->
          IF k = field.key THEN Initial(field.kind, DefaultText(field, env)) ELSE @[k]]]

(* The command line: what cannot be parsed ends the process. *)
Parses(kind, text) ==
  /\ kind = "int" => text \in DOMAIN Numeral
  /\ kind = "bool" => text \in TrueTexts \cup FalseTexts

FromCommandLine(kind, text) == IF kind = "bool" THEN <<kind, text \in TrueTexts>> ELSE Initial(kind, text)

Assign(acc, arg) ==
  IF acc.out # "ok" THEN acc
  ELSE IF arg.key \notin DOMAIN acc.value \/ ~Parses(acc.value[arg.key][1], arg.text)
  THEN [acc EXCEPT !.out = "exit"]
  ELSE [acc EXCEPT !.value[arg.key] = FromCommandLine(@[1], arg.text)]

(* ParseWithStructPointers for the fields of its structs, in order, when   *)
(* the flag package already has the values declared: what it has after     *)
(* each field, and then what flag.Parse has after each argument.           *)
Declaring(declared, fields, env) ==
  LET after[n \in 0..Len(fields)] ==
        IF n = 0 THEN [out |-> "ok", value |-> declared] ELSE Declare(after[n - 1], fields[n], env)
  IN after

Assigning(acc, args) ==
  LET after[n \in 0..Len(args)] == IF n = 0 THEN acc ELSE Assign(after[n - 1], args[n])
  IN after

Parse(declared, fields, env, args) ==
  Assigning(Declaring(declared, fields, env)[Len(fields)], args)[Len(args)]

-----------------------------------------------------------------------------
(* The reference definition, from the comment of ParseWithStructPointers:  *)
(* a parameter that is not given at start-up is looked up in the           *)
(* environment; the tag's default comes last.  The last of several         *)
(* occurrences on the command line counts.                                 *)
Given(key, args) == {i \in DOMAIN args : args[i].key = key}

Setting(field, env, args) ==
  LET given == Given(field.key, args)
      last  == CHOOSE i \in given : \A j \in given : j <= i
  IN IF given # {} THEN FromCommandLine(field.kind, args[last].text)
     ELSE Initial(field.kind, IF field.key \in DOMAIN env THEN env[field.key]
                              ELSE IF field.default = None THEN NotFound ELSE field.default)
=============================================================================
