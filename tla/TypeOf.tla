------------------------------- MODULE TypeOf -------------------------------
(***************************************************************************)
(* The type tag a Reference caches when it is created, and the string its  *)
(* `typeof` accessor answers with, src/src/reference_handle.cc.            *)
(*                                                                         *)
(* A value is one of a few kinds of V8 value; each V8 type predicate is    *)
(* the set of kinds it holds for. InferTypeOf tries the predicates in the  *)
(* code's order and takes the first that holds, Object when none does.     *)
(***************************************************************************)
EXTENDS SequencesExt

(* Kinds of V8 value. *)
Kinds == {"null", "undefined", "smi", "double", "string", "boolean",
          "function", "class", "callableProxy", "object", "array",
          "numberObject", "symbol", "bigint"}

(* Value::IsNull, IsUndefined, IsNumber, IsString, IsBoolean, IsFunction. *)
IsNull      == {"null"}
IsUndefined == {"undefined"}
IsNumber    == {"smi", "double"}
IsString    == {"string"}
IsBoolean   == {"boolean"}
IsFunction  == {"function", "class", "callableProxy"}

(* Mutant: functions are not told apart from other objects. *)
InferTypeOfNoFunction(v) ==
  LET checks == << <<IsNull, "Null">>, <<IsUndefined, "Undefined">>,
                   <<IsNumber, "Number">>, <<IsString, "String">>,
                   <<IsBoolean, "Boolean">> >>
      n == SelectInSeq(checks, LAMBDA c : v \in c[1])
  IN IF n = 0 THEN "Object" ELSE checks[n][2]

(* The enumerators of ReferenceData::TypeOf. *)
Tags == {"Null", "Undefined", "Number", "String", "Boolean", "Object", "Function"}

(* InferTypeOf: the if / else-if chain over the predicates, else Object. *)
InferTypeOf(v) ==
  LET checks == << <<IsNull, "Null">>, <<IsUndefined, "Undefined">>,
                   <<IsNumber, "Number">>, <<IsString, "String">>,
                   <<IsBoolean, "Boolean">>, <<IsFunction, "Function">> >>
      n == SelectInSeq(checks, LAMBDA c : v \in c[1])
  IN IF n = 0 THEN "Object" ELSE checks[n][2]

(* ReferenceHandle::TypeOfGetter, after CheckDisposed: the switch on the  *)
(* cached tag.                                                              *)
TypeOfGetter(tag) ==
  [Null |-> "null", Undefined |-> "undefined", Number |-> "number",
   String |-> "string", Boolean |-> "boolean", Object |-> "object",
   Function |-> "function"][tag]

-----------------------------------------------------------------------------
(* Reference definition: the ECMAScript `typeof` operator (its table over  *)
(* the language types, "function" for callable objects), except that a     *)
(* Reference to null reports "null" (spec 3: the tag set has Null).        *)
ESType == [null |-> "Null", undefined |-> "Undefined", smi |-> "Number",
           double |-> "Number", string |-> "String", boolean |-> "Boolean",
           symbol |-> "Symbol", bigint |-> "BigInt", function |-> "Object",
           class |-> "Object", callableProxy |-> "Object", object |-> "Object",
           array |-> "Object", numberObject |-> "Object"]
Callable == {"function", "class", "callableProxy"}

ESTypeof(v) ==
  IF v \in Callable THEN "function"
  ELSE [Undefined |-> "undefined", Null |-> "object", Boolean |-> "boolean",
        Number |-> "number", String |-> "string", Symbol |-> "symbol",
        BigInt |-> "bigint", Object |-> "object"][ESType[v]]

ReferenceTypeof(v) == IF v = "null" THEN "null" ELSE ESTypeof(v)

(* The kinds whose typeof falls in the spec's tag set (spec 3). *)
SpecKinds == {v \in Kinds : ESType[v] \notin {"Symbol", "BigInt"}}

=============================================================================
