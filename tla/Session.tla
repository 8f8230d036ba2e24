------------------------------ MODULE Session ------------------------------
(***************************************************************************)
(* One session of the wrapper (colorer_wrapper.cpp, ColorerSession): lines *)
(* are fed one at a time to the incremental parser, and the caller may     *)
(* have the text of earlier ones dropped.  The line source is a window:    *)
(* count lines from number base on.  What the parser can ask for is what   *)
(* the window holds, so TextParser is instantiated with the lines outside  *)
(* it as the missing ones.                                                 *)
(*                                                                         *)
(* ForgetBefore crosses two integer types on its way from Go into the      *)
(* module: a 64-bit int is cut to a uint32 and read back as a C int.  Word *)
(* stands for 2^32.                                                        *)
(***************************************************************************)
EXTENDS Scheme

CONSTANTS
  Lines,         \* the lines a caller feeds
  LineCount,     \* bound: lines fed between two resets
  MaxRecursion,
  NoSym,
  TypeNames,     \* file types; their base schemes are alike
  NoType,
  Word,          \* 2^32
  ForgetArgs     \* arguments ForgetBefore is called with

ASSUME SessionAssumption ==
  /\ Word \in Nat \ {0} /\ Word % 2 = 0 /\ LineCount \in Nat \ {0}
  /\ ForgetArgs \subseteq Int /\ NoType \notin TypeNames
  /\ Lines \subseteq Seq(Symbols) /\ Lines # {} /\ MaxRecursion \in Nat
  /\ NoSym \notin Symbols

VARIABLES
  base, count,   \* WasmLineSource::base and lines.size()
  type,          \* current_type, or NoType before one was selected
  text, cache, invalidLine, valid, first, phase, parseMode, cur, endl, gx, clear,
  endLine, parent, forward, baseScheme, matchend, found, trace, frames, filled,
  breaking, handler, try   \* of TextParser; parseMode is its mode

nextLine == base + count

(* Mutant: getLine refuses the oldest line.                                *)
HeldAfterBase == base + 1 .. nextLine - 1

(* The lines getLine returns; for any other it returns null.               *)
Held == base .. nextLine - 1

Parser == INSTANCE TextParser WITH
            missing <- (0..LineCount - 1) \ Held,
            Unavailable <- SUBSET (0..LineCount - 1),
            Breaking <- FALSE,
            Modes <- {"update"}, mode <- parseMode

window == <<base, count>>
parsing == <<cache, invalidLine, valid, first, phase, parseMode, cur, endl, gx,
             clear, endLine, parent, forward, baseScheme, matchend, found, trace,
             frames, filled, breaking, handler, try>>
sessionVars == <<window, type, text, parsing>>

(* A line whose text is not stored.                                        *)
Blank == CHOOSE line \in Lines : TRUE

InitSession ==
  /\ base = 0 /\ count = 0 /\ type = NoType
  /\ text = [l \in Parser!LineNos |-> Blank]
  /\ Parser!Init

(* colorer_parse_line: append the line and parse it alone.  Without a file *)
(* type parse() returns at once.                                           *)
FeedLine(line) ==
  /\ phase = "idle" /\ nextLine < LineCount
  /\ count' = count + 1 /\ UNCHANGED <<base, type>>
  /\ text' = [text EXCEPT ![nextLine] = line]
  /\ IF type # NoType
     THEN /\ Parser!StartParse(cache, nextLine, 1, "update")
          /\ valid' = nextLine /\ UNCHANGED <<invalidLine, try>>
     ELSE UNCHANGED parsing

(* colorer_select_type and colorer_set_file_type that found a type.        *)
SelectType(t) ==
  /\ phase = "idle"
  /\ type' = t /\ UNCHANGED <<window, text>>
  /\ Parser!SetFileType

(* colorer_reset_session; the file type stays.                             *)
Reset ==
  /\ phase = "idle"
  /\ base' = 0 /\ count' = 0 /\ UNCHANGED type
  /\ text' = [l \in Parser!LineNos |-> Blank]
  /\ Parser!ClearCache /\ UNCHANGED baseScheme

(* uint64(uint32(line)) of a Go int, then the int parameter lno.           *)
CInt(line) ==
  LET u == (IF line < 0 THEN 0 ELSE line) % Word
  IN  IF u < Word \div 2 THEN u ELSE u - Word

(* Mutant: the window's base is set past its end.                          *)
BaseUnclamped(b, n, lno) == IF lno <= b THEN b ELSE lno

(* WasmLineSource::forgetBefore on a window of n lines from b on.          *)
BaseAfter(b, n, lno) ==
  IF lno <= b THEN b ELSE IF lno - b > n THEN b + n ELSE lno

ForgetBefore(line) ==
  /\ phase = "idle"
  /\ base' = IF CInt(line) <= 0 THEN base ELSE BaseAfter(base, count, CInt(line))
  /\ count' = IF base' - base > count THEN 0 ELSE count - (base' - base)
  /\ text' = [l \in Parser!LineNos |-> IF l < base' THEN Blank ELSE text[l]]
  /\ UNCHANGED <<type, parsing>>

Parsing == UNCHANGED <<window, type, text>> /\ Parser!Step

NextSession ==
  \/ \E line \in Lines : FeedLine(line)
  \/ \E t \in TypeNames : SelectType(t)
  \/ Reset
  \/ \E line \in ForgetArgs : ForgetBefore(line)
  \/ Parsing

SpecSession == InitSession /\ [][NextSession]_sessionVars

-----------------------------------------------------------------------------
(* Properties. *)

(* The lines a caller has got its answer for.                              *)
answered == IF phase = "idle" THEN nextLine ELSE nextLine - 1

Promise == INSTANCE Colouring WITH
             next <- answered,
             open <- Parser!OpenLevels(cache, Parser!SearchLine(cache, answered))

(* A session keeps its promise whatever was dropped, reset or re-typed:    *)
(* the blocks its parse cache says are open at the next line are those of  *)
(* the whole stream, and NextLine counts the lines fed.                    *)
ColoursAsIfKept == Promise!Spec

(* "A line below the next line to be parsed will not be asked for again":  *)
(* getLine is never called for a line that is not in the window.           *)
NeverAsksForDropped == phase = "line" /\ cur < endl => cur \in Held

(* What ForgetBefore(line) must do: drop the text below line and no other, *)
(* and leave the numbering alone.                                          *)
DropsBelow(line) ==
  ForgetBefore(line) => /\ Held' = {l \in Held : l >= line}
                        /\ nextLine' = nextLine

(* It does so for every argument that is a 31-bit number.  (Not for every  *)
(* number, though "the call is clamped": colorer.go:1402.)                 *)
ForgetsBelow ==
  [][\A line \in ForgetArgs :
       line >= 0 /\ line < Word \div 2 => DropsBelow(line)]_sessionVars
=============================================================================
