----------------------------- MODULE FileTypes ------------------------------
(***************************************************************************)
(* The file types of a session, as pure operators on a library             *)
(*   order      fileTypeVector: the types that can be chosen, in order     *)
(*   types      fileTypeHash: type or package -> [package, params,         *)
(*              choosers]                                                  *)
(*   loaded     the types whose HRC file has been read                     *)
(*   compiled   those of them whose conditional scheme was switched on     *)
(*              when it was read                                           *)
(* A parameter is [value, user, text]: its default, the user's value and   *)
(* its description.  A chooser is [kind, prior, words], words being what   *)
(* its regular expression finds.                                           *)
(***************************************************************************)
EXTENDS Integers, Sequences, SequencesExt, FiniteSetsExt, Functions

CONSTANTS
  NoText,      \* a null string
  NoType,      \* a null FileType*
  Broken,      \* words of a regular expression that does not compile
  Needs,       \* type -> the types that are loaded with it
  CondIf       \* type -> the parameter its scheme depends on, or NoText

EmptyLibrary == [order |-> <<>>, types |-> <<>>, loaded |-> {}, compiled |-> {}]

(* unordered_map: the value of a key, the others as they are.              *)
Put(f, key, value) == [k \in DOMAIN f \cup {key} |-> IF k = key THEN value ELSE f[k]]

(* getFileType: a type or package by name.                                 *)
Has(lib, t) == t \in DOMAIN lib.types

-----------------------------------------------------------------------------
(* Parameters of a type. *)

ParamsOf(lib, t) == lib.types[t].params

GetParamValue(lib, t, p) ==
  IF ~Has(lib, t) \/ p \notin DOMAIN ParamsOf(lib, t) THEN NoText
  ELSE IF ParamsOf(lib, t)[p].user # NoText THEN ParamsOf(lib, t)[p].user
  ELSE ParamsOf(lib, t)[p].value

GetParamDefaultValue(lib, t, p) ==
  IF p \in DOMAIN ParamsOf(lib, t) THEN ParamsOf(lib, t)[p].value ELSE NoText

GetParamUserValue(lib, t, p) ==
  IF p \in DOMAIN ParamsOf(lib, t) THEN ParamsOf(lib, t)[p].user ELSE NoText

GetParamDescription(lib, t, p) ==
  IF Has(lib, t) /\ p \in DOMAIN ParamsOf(lib, t) THEN ParamsOf(lib, t)[p].text ELSE NoText

(* try_emplace: a parameter that is there stays as it is.                  *)
AddParam(params, p, v) ==
  IF p \in DOMAIN params THEN params
  ELSE Put(params, p, [value |-> v, user |-> NoText, text |-> NoText])

SetText(params, p, text) ==
  IF text = "" THEN params ELSE [params EXCEPT ![p].text = text]

WithParams(lib, t, params) == [lib EXCEPT !.types[t].params = params]

SetParamValue(lib, t, p, v) == [lib EXCEPT !.types[t].params[p].user = v]

-----------------------------------------------------------------------------
(* Prototypes. *)

(* addPrototypeDetectParam: a file name weighs 2, a first line 1, unless   *)
(* the element says otherwise.                                             *)
Prior(c) == IF c.weight >= 0 THEN c.weight ELSE IF c.kind = "filename" THEN 2 ELSE 1

DetectParam(choosers, c) ==
  IF c.kind = "param" \/ c.words \in {{}, Broken} THEN choosers
  ELSE Append(choosers, [kind |-> c.kind, prior |-> Prior(c), words |-> c.words])

(* addPrototypeParameters: a parameter needs a name and a value.           *)
PrototypeParam(params, c) ==
  IF c.kind # "param" \/ "" \in {c.name, c.value} THEN params
  ELSE SetText(AddParam(params, c.name, c.value), c.name, c.text)

(* parsePrototypeBlock: a package has neither.                             *)
PrototypeBlock(e) ==
  LET items == IF e.package THEN <<>> ELSE e.items
  IN  [package |-> e.package,
       params |-> FoldLeft(PrototypeParam, <<>>, items),
       choosers |-> FoldLeft(DetectParam, <<>>, items)]

UnloadFileType(lib, t) ==
  [lib EXCEPT !.order = SelectSeq(@, LAMBDA u : u # t),
              !.types = Restrict(@, DOMAIN @ \ {t})]

(* addPrototype: a duplicate takes the place of the first in the table and *)
(* the last place in the list.                                             *)
AddPrototype(lib, e) ==
  LET left == UnloadFileType(lib, e.name)
  IN  IF e.name = "" THEN lib
      ELSE [left EXCEPT !.types = Put(@, e.name, PrototypeBlock(e)),
                        !.order = IF e.package THEN @ ELSE Append(@, e.name)]

LoadHrc(lib, elements) == FoldLeft(AddPrototype, lib, elements)

(* updatePrototypeParams: a parameter that is there gets a new default.    *)
UpdateParam(params, c) ==
  IF c.kind # "param" \/ c.name = "" THEN params
  ELSE LET known == AddParam(params, c.name, c.value)
       IN  SetText([known EXCEPT ![c.name].value = c.value], c.name, c.text)

(* updatePrototype: the first chooser of an element replaces those there   *)
(* were.                                                                   *)
UpdatePrototype(lib, e) ==
  LET detects == \E i \in DOMAIN e.items : e.items[i].kind # "param"
      Updated(type) ==
        [type EXCEPT !.params = FoldLeft(UpdateParam, @, e.items),
                     !.choosers = IF detects THEN FoldLeft(DetectParam, <<>>, e.items) ELSE @]
  IN  IF ~Has(lib, e.name) THEN lib ELSE [lib EXCEPT !.types[e.name] = Updated(@)]

LoadHrcSettings(lib, elements) == FoldLeft(UpdatePrototype, lib, elements)

-----------------------------------------------------------------------------
(* Choice and loading. *)

CalcPriority(c, text) == IF text \in c.words THEN c.prior ELSE 0

GetPriority(lib, t, file, first) ==
  FoldLeft(LAMBDA sum, c : sum + CalcPriority(c, IF c.kind = "filename" THEN file ELSE first),
           0, lib.types[t].choosers)

(* The first of the types with the highest priority.                       *)
ChooseFileType(lib, file, first) ==
  FoldLeft(LAMBDA best, t :
             IF best = NoType \/ GetPriority(lib, t, file, first) > GetPriority(lib, best, file, first)
             THEN t ELSE best,
           NoType, lib.order)

(* addScheme: a scheme is read or skipped by the value its condition's     *)
(* parameter has now.                                                      *)
SchemeOn(lib, t) == GetParamValue(lib, t, CondIf[t]) \in {NoText, "true"}

(* loadFileType: once.                                                     *)
LoadFileType(lib, t) ==
  LET new == {s \in {t} \cup Needs[t] : Has(lib, s)} \ lib.loaded
  IN  IF t \in lib.loaded THEN lib
      ELSE [lib EXCEPT !.loaded = @ \cup new,
                       !.compiled = @ \cup {s \in new : SchemeOn(lib, s)}]

-----------------------------------------------------------------------------
(* What the wrapper does for a parameter. *)

(* Mutant: the parameter is added with the user's value as its default.    *)
SetForGood(lib, t, p, v) ==
  WithParams(lib, t, Put(ParamsOf(lib, t), p, [value |-> v, user |-> v, text |-> NoText]))

(* colorer_set_file_type_param: one the type lacks is added with the value *)
(* "default" has now.                                                      *)
SetFileTypeParam(lib, t, p, v) ==
  SetParamValue(WithParams(lib, t, AddParam(ParamsOf(lib, t), p, GetParamValue(lib, "default", p))),
                t, p, v)

(* It answers -1.                                                          *)
Lacks(lib, t, p) == GetParamValue(lib, t, p) = NoText

ResetFileTypeParam(lib, t, p) == SetParamValue(lib, t, p, NoText)

Or(v, w) == IF v # NoText THEN v ELSE w

(* colorer_file_type_params: the parameters of "default" and those of the  *)
(* type.                                                                   *)
ListedParams(lib, t) ==
  DOMAIN ParamsOf(lib, t) \cup IF Has(lib, "default") THEN DOMAIN ParamsOf(lib, "default") ELSE {}

ParamInfo(lib, t, p) ==
  [value |-> Or(GetParamValue(lib, t, p), GetParamValue(lib, "default", p)),
   default |-> Or(GetParamDefaultValue(lib, t, p), GetParamValue(lib, "default", p)),
   text |-> Or(GetParamDescription(lib, t, p), GetParamDescription(lib, "default", p)),
   userSet |-> GetParamUserValue(lib, t, p) # NoText]

FileTypeParams(lib, t) == [p \in ListedParams(lib, t) |-> ParamInfo(lib, t, p)]
=============================================================================
