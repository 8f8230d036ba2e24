--------------------------- MODULE Session_proofs ---------------------------
(***************************************************************************)
(* Proofs about a session: for every language, every text, every word size *)
(* and every use of ForgetBefore.  First its window: the parser asks for   *)
(* no dropped line.  Then its promise: it implements Colouring.            *)
(***************************************************************************)
EXTENDS Session, SequenceTheorems, TLAPS

(* While a line is parsed it is the last one fed, it is stored, and the    *)
(* parser is not before it.                                                *)
WindowInv ==
  /\ base \in Nat /\ count \in Nat
  /\ phase # "idle" =>
       /\ count > 0 /\ endl = nextLine
       /\ cur \in Int /\ cur >= nextLine - 1

(* A step of the parser never goes back, and parses no further.            *)
LEMMA StepGoesOn ==
  ASSUME Parser!Step, cur \in Int, endl \in Int
  PROVE  phase # "idle" /\ endl' = endl /\ cur' \in Int /\ (cur' >= cur \/ cur' >= endl)
  <1>1. CASE Parser!StartLevel
    BY <1>1 DEF Parser!StartLevel, Parser!where
  <1>2. CASE Parser!LinesExhausted
    BY <1>2 DEF Parser!LinesExhausted, Parser!where
  <1>3. CASE Parser!LineMissing
    BY <1>3 DEF Parser!LineMissing
  <1>4. CASE Parser!LineBegin
    BY <1>4 DEF Parser!LineBegin
  <1>5. CASE Parser!ScanNothing
    BY <1>5 DEF Parser!ScanNothing, Parser!Scanning
  <1>6. CASE Parser!ScanRegexp
    BY <1>6 DEF Parser!ScanRegexp, Parser!Scanning
  <1>7. CASE Parser!EnterBlock
    BY <1>7 DEF Parser!EnterBlock, Parser!Scanning
  <1>8. CASE Parser!EndOfBlock
    BY <1>8 DEF Parser!EndOfBlock
  <1>9. CASE Parser!NextLine
    BY <1>9 DEF Parser!NextLine
  <1>10. CASE Parser!LeaveBlock
    BY <1>10 DEF Parser!LeaveBlock
  <1>11. CASE Parser!LeaveLevel
    BY <1>11 DEF Parser!LeaveLevel
  <1>12. CASE Parser!Finish
    BY <1>12 DEF Parser!Finish
  <1> QED
    BY <1>1, <1>2, <1>3, <1>4, <1>5, <1>6, <1>7, <1>8, <1>9, <1>10, <1>11, <1>12 DEF Parser!Step

(* The C int of a 31-bit number is that number.                            *)
LEMMA CIntExact ==
  ASSUME NEW line \in Int, line >= 0, line < Word \div 2
  PROVE  CInt(line) = line
  BY SessionAssumption DEF SessionAssumption, CInt

(* Any Go int is a C int after the two conversions.                        *)
LEMMA CIntType == ASSUME NEW line \in Int PROVE CInt(line) \in Int
  BY SessionAssumption DEF SessionAssumption, CInt

-----------------------------------------------------------------------------
(* The window after a call of ForgetBefore.                                *)
LEMMA ForgetWindow ==
  ASSUME base \in Nat, count \in Nat, NEW line \in Int, ForgetBefore(line)
  PROVE  /\ base' \in Nat /\ count' \in Nat /\ nextLine' = nextLine
         /\ base' >= base /\ base' <= nextLine
         /\ base' = IF CInt(line) <= base THEN base
                    ELSE IF CInt(line) > nextLine THEN nextLine ELSE CInt(line)
  <1>1. CInt(line) \in Int
    BY CIntType
  <1>2. base' = IF CInt(line) <= base THEN base
               ELSE IF CInt(line) > nextLine THEN nextLine ELSE CInt(line)
    BY <1>1 DEF ForgetBefore, BaseAfter, nextLine
  <1>3. base' \in Nat /\ base' >= base /\ base' <= nextLine
    BY <1>1, <1>2 DEF nextLine
  <1>4. count' = count - (base' - base)
    BY <1>3 DEF ForgetBefore, nextLine
  <1> QED
    BY <1>2, <1>3, <1>4 DEF nextLine

(* The invariant holds at first.                                           *)
LEMMA InitWindow == InitSession => WindowInv
  BY DEF InitSession, Parser!Init, WindowInv

(* Every step keeps it.                                                    *)
LEMMA StepWindow == WindowInv /\ [NextSession]_sessionVars => WindowInv'
  <1> SUFFICES ASSUME WindowInv, [NextSession]_sessionVars PROVE WindowInv'
    OBVIOUS
  <1> USE DEF WindowInv, nextLine
  <1>1. ASSUME NEW line \in Lines, FeedLine(line) PROVE WindowInv'
    <2>1. CASE type # NoType
      BY <1>1, <2>1 DEF FeedLine, Parser!StartParse
    <2>2. CASE type = NoType
      BY <1>1, <2>2 DEF FeedLine, parsing
    <2> QED
      BY <2>1, <2>2
  <1>2. ASSUME NEW t \in TypeNames, SelectType(t) PROVE WindowInv'
    BY <1>2 DEF SelectType, window, Parser!SetFileType, Parser!ClearCache, Parser!where
  <1>3. CASE Reset
    BY <1>3 DEF Reset, Parser!ClearCache, Parser!where
  <1>4. ASSUME NEW line \in ForgetArgs, ForgetBefore(line) PROVE WindowInv'
    <2>1. line \in Int
      BY SessionAssumption DEF SessionAssumption
    <2>2. base' \in Nat /\ count' \in Nat
      BY <1>4, <2>1, ForgetWindow
    <2>3. phase' = "idle"
      BY <1>4 DEF ForgetBefore, parsing
    <2> QED
      BY <2>2, <2>3
  <1>5. CASE Parsing
    <2>1. base' = base /\ count' = count /\ Parser!Step
      BY <1>5 DEF Parsing, window
    <2>2. phase # "idle"
      BY <2>1 DEF Parser!Step, Parser!StartLevel, Parser!LinesExhausted,
         Parser!LineMissing, Parser!LineBegin, Parser!ScanNothing,
         Parser!ScanRegexp, Parser!EnterBlock, Parser!EndOfBlock,
         Parser!NextLine, Parser!LeaveBlock, Parser!LeaveLevel,
         Parser!Finish, Parser!Scanning
    <2>3. endl' = endl /\ cur' \in Int /\ (cur' >= cur \/ cur' >= endl)
      BY <2>1, <2>2, StepGoesOn
    <2> QED
      BY <2>1, <2>2, <2>3
  <1>6. CASE UNCHANGED sessionVars
    BY <1>6 DEF sessionVars, window, parsing
  <1> QED
    BY <1>1, <1>2, <1>3, <1>4, <1>5, <1>6 DEF NextSession

-----------------------------------------------------------------------------
(* The parser never asks for a line whose text was dropped, or was not fed *)
(* yet: getLine does not return null in a session.                         *)
THEOREM DroppedNeverNeeded == SpecSession => []NeverAsksForDropped
  <1>1. WindowInv => NeverAsksForDropped
    BY DEF WindowInv, NeverAsksForDropped, Held, nextLine
  <1> QED
    BY <1>1, InitWindow, StepWindow, PTL DEF SpecSession

(* For every argument that fits 31 bits ForgetBefore drops exactly the     *)
(* lines below it and leaves the numbering alone.                          *)
THEOREM ForgettingIsExact == SpecSession => ForgetsBelow
  <1>1. ASSUME WindowInv, NEW line \in ForgetArgs, line >= 0, line < Word \div 2,
               ForgetBefore(line)
        PROVE  Held' = {l \in Held : l >= line} /\ nextLine' = nextLine
    <2>1. line \in Int
      BY SessionAssumption DEF SessionAssumption
    <2>2. CInt(line) = line
      BY <1>1, <2>1, CIntExact
    <2>3. /\ base' \in Nat /\ nextLine' = nextLine
          /\ base' = IF line <= base THEN base
                     ELSE IF line > nextLine THEN nextLine ELSE line
      BY <1>1, <2>1, <2>2, ForgetWindow DEF WindowInv
    <2>4. Held' = base' .. nextLine - 1
      BY <2>3 DEF Held
    <2>5. nextLine \in Nat /\ base \in Nat
      BY <1>1 DEF WindowInv, nextLine
    <2> QED
      BY <2>1, <2>3, <2>4, <2>5 DEF Held
  <1>2. WindowInv /\ [NextSession]_sessionVars =>
          [\A line \in ForgetArgs :
             line >= 0 /\ line < Word \div 2 => DropsBelow(line)]_sessionVars
    BY <1>1 DEF DropsBelow
  <1> QED
    BY <1>2, InitWindow, StepWindow, PTL DEF SpecSession, ForgetsBelow

-----------------------------------------------------------------------------
(***************************************************************************)
(* The session implements Colouring.  A session forgets the text it was    *)
(* fed, but its promise is about all of it; kept is a history variable     *)
(* that remembers it: the lines since the last restart, and an empty line  *)
(* for each line before, which no file type was there to colour.           *)
(***************************************************************************)
VARIABLE kept

Unfed == [l \in Parser!LineNos |-> <<>>]

(* The steps of a session, and what they do to kept.                       *)
KeptNext ==
  \/ \E line \in Lines :
       /\ FeedLine(line)
       /\ kept' = IF type = NoType THEN kept ELSE [kept EXCEPT ![nextLine] = line]
  \/ \E t \in TypeNames : SelectType(t) /\ kept' = Unfed
  \/ Reset /\ kept' = Unfed
  \/ \E line \in ForgetArgs : ForgetBefore(line) /\ kept' = kept
  \/ Parsing /\ kept' = kept

(* SpecSession with its history.                                                  *)
KeptSpec == InitSession /\ kept = Unfed /\ [][KeptNext]_<<sessionVars, kept>>

(* The session's parser, seen as one that is given all lines and knows the *)
(* start of the next one.  No line of a session is read again once it was  *)
(* edited, so blocks are the same only if they began with the same text.   *)
Kept == INSTANCE Incremental_proofs WITH
          text <- kept, missing <- {}, invalidLine <- answered, valid <- answered,
          Lines <- Lines \cup {<<>>}, BackTraced <- Blocks,
          Unavailable <- {{}}, Breaking <- FALSE, Modes <- {"update"},
          mode <- parseMode

(* It has the languages and texts that parser is proved for.              *)
LEMMA KeptAssumptions == Kept!SchemeAssumption /\ Kept!TextAssumption
  <1>1. Kept!SchemeAssumption
    BY SchemeAssumption DEF SchemeAssumption, Kept!SchemeAssumption, Kept!Nodes, Kept!Schemes,
       Nodes, Schemes
  <1>2. Kept!TextAssumption
    <2>1. <<>> \in Seq(Symbols) /\ {} \in SUBSET (0..LineCount - 1)
      OBVIOUS
    <2> QED
      BY <2>1, SessionAssumption DEF SessionAssumption, Kept!TextAssumption
  <1> QED
    BY <1>1, <1>2

-----------------------------------------------------------------------------
(* Both parsers build and search their caches with the same operators,     *)
LEMMA SameCache ==
  ASSUME NEW t, NEW p, NEW k, NEW l
  PROVE  /\ Kept!SearchLine(t, l) = Parser!SearchLine(t, l)
         /\ Kept!Searched(t, l) = Parser!Searched(t, l)
         /\ Kept!ForwardOf(t, p, l) = Parser!ForwardOf(t, p, l)
         /\ Kept!DropKidsAfter(t, p, k) = Parser!DropKidsAfter(t, p, k)
         /\ Kept!DropStale(t, p, k) = Parser!DropStale(t, p, k)
         /\ Kept!OpenLevels(t, p) = Parser!OpenLevels(t, p)
         /\ Kept!EmptyCache = Parser!EmptyCache
  <1> USE DEF Kept!Root, Parser!Root, Kept!Front, Parser!Front, Kept!Last, Parser!Last
  <1>1. ASSUME NEW q PROVE Kept!KidCount(t, q) = Parser!KidCount(t, q)
    BY DEF Kept!KidCount, Parser!KidCount, Kept!Cardinality, Parser!Cardinality
  <1>2. ASSUME NEW q PROVE Kept!Pick(t, q, l) = Parser!Pick(t, q, l)
    <2>1. ASSUME NEW i
          PROVE  Kept!RightmostAtOrBefore(t, q, i, l) = Parser!RightmostAtOrBefore(t, q, i, l)
      BY <1>1 DEF Kept!RightmostAtOrBefore, Parser!RightmostAtOrBefore, Kept!Sline, Parser!Sline
    <2> QED
      BY <2>1 DEF Kept!Pick, Parser!Pick, Kept!Sline, Parser!Sline
  <1>3. Kept!SearchLine(t, l) = Parser!SearchLine(t, l)
    BY <1>2 DEF Kept!SearchLine, Parser!SearchLine, Kept!Covers, Parser!Covers
  <1>4. Kept!Searched(t, l) = Parser!Searched(t, l)
    BY <1>1, <1>2, <1>3 DEF Kept!Searched, Parser!Searched, Kept!IsPrefix, Parser!IsPrefix
  <1>5. Kept!ForwardOf(t, p, l) = Parser!ForwardOf(t, p, l)
    BY <1>1, <1>2 DEF Kept!ForwardOf, Parser!ForwardOf, Kept!Sline, Parser!Sline
  <1>6. ASSUME NEW q, NEW j PROVE Kept!DropKidsAfter(t, q, j) = Parser!DropKidsAfter(t, q, j)
    BY DEF Kept!DropKidsAfter, Parser!DropKidsAfter, Kept!KidsAfter, Parser!KidsAfter
  <1>7. Kept!DropStale(t, p, k) = Parser!DropStale(t, p, k)
    BY <1>6 DEF Kept!DropStale, Parser!DropStale, Kept!DropChildren, Parser!DropChildren,
       Kept!DropNext, Parser!DropNext
  <1>8. Kept!OpenLevels(t, p) = Parser!OpenLevels(t, p)
    BY DEF Kept!OpenLevels, Parser!OpenLevels, Kept!Level, Parser!Level
  <1>9. Kept!EmptyCache = Parser!EmptyCache
    BY DEF Kept!EmptyCache, Parser!EmptyCache, Kept!MaxLine, Parser!MaxLine
  <1> QED
    BY <1>3, <1>4, <1>5, <1>6, <1>7, <1>8, <1>9

(* and find the same matches in a line.                                    *)
LEMMA SameScheme ==
  ASSUME NEW scheme, NEW line, NEW x, NEW stop, NEW block, NEW sym
  PROVE  /\ Kept!NodeAt(scheme, line, x, stop) = Parser!NodeAt(scheme, line, x, stop)
         /\ Kept!SearchMatch(scheme, line, x, stop) = Parser!SearchMatch(scheme, line, x, stop)
         /\ Kept!EndsFrom(block, sym, line, x) = Parser!EndsFrom(block, sym, line, x)
  <1>1. Kept!NodeAt(scheme, line, x, stop) = Parser!NodeAt(scheme, line, x, stop)
    BY DEF Kept!NodeAt, Parser!NodeAt, Kept!Matches, Parser!Matches, Kept!Width, Parser!Width
  <1>2. Kept!SearchMatch(scheme, line, x, stop) = Parser!SearchMatch(scheme, line, x, stop)
    BY <1>1 DEF Kept!SearchMatch, Parser!SearchMatch
  <1>3. Kept!EndsFrom(block, sym, line, x) = Parser!EndsFrom(block, sym, line, x)
    BY DEF Kept!EndsFrom, Parser!EndsFrom
  <1> QED
    BY <1>1, <1>2, <1>3

(* Colouring reads a line as the parser's reference does.                  *)
LEMMA SameReading ==
  ASSUME NEW open, NEW line
  PROVE  Kept!OpenAfter(open, line) = Promise!OpenAfter(open, line)
  BY DEF Kept!OpenAfter, Promise!OpenAfter, Kept!Feed, Promise!Feed, Kept!NodeAt, Promise!NodeAt,
     Kept!Matches, Promise!Matches, Kept!Width, Promise!Width, Kept!SearchMatch,
     Promise!SearchMatch, Kept!EndsFrom, Promise!EndsFrom, Kept!Last, Promise!Last, Kept!Front,
     Promise!Front

-----------------------------------------------------------------------------
(* How deep one parse nests, as far as MAX_RECURSION_LEVEL lets it.        *)
WithinRecursion == Len(frames) <= MaxRecursion

(* While a line is parsed it is the one in the window and in kept, and the *)
(* parser has read it once it is past the head of the line loop.           *)
LineHeld ==
  phase # "idle" =>
    /\ type # NoType /\ parseMode = "update" /\ first = answered
    /\ kept[answered] \in Lines /\ text[answered] = kept[answered]
    /\ phase \in {"scan", "return"} \/ cur >= endl => clear # Parser!NoLine

(* Before a file type is selected there is nothing to know.                *)
NothingYet == type = NoType => cache = Parser!EmptyCache /\ kept = Unfed

FedInv ==
  /\ text \in [Parser!LineNos -> Lines] /\ nextLine <= LineCount
  /\ ~ breaking /\ try = Parser!NoTry
  /\ LineHeld /\ NothingYet

KeptInv == WindowInv /\ FedInv /\ Kept!Whole

(* What the parser's own invariant says of the state.                      *)
LEMMA WholeTypes ==
  ASSUME Kept!Whole
  PROVE  /\ kept \in [0..LineCount - 1 -> Lines \cup {<<>>}] /\ answered \in 0..LineCount
         /\ phase \in {"idle", "level", "line", "scan", "return"}
         /\ cur \in Nat /\ endl \in Nat /\ endLine \in Nat
         /\ phase = "scan" => cur < endl
         /\ phase = "idle" => baseScheme = Base
  BY DEF Kept!Whole, Kept!Ready, Kept!Inv, Kept!ClientTypes, Kept!RunTypes, Kept!Positions,
     Kept!LineNos

-----------------------------------------------------------------------------
(* A step of the session's parser is one of the parser that is given all   *)
(* lines: it asks for the line in the window only, which is the same.      *)
LEMMA StepOfKept ==
  ASSUME KeptInv, Parsing, kept' = kept
  PROVE  /\ Kept!Step
         /\ phase' # "idle" => ~ Kept!Finish /\ answered' = answered
         /\ phase' = "idle" => Kept!Finish /\ answered' = answered + 1 /\ answered \in 0..LineCount - 1
  <1>1. Parser!Step /\ UNCHANGED <<base, count, nextLine, text, kept>>
    BY DEF Parsing, window, nextLine
  <1>2. /\ phase # "idle" /\ cur \in Nat /\ endl = nextLine /\ nextLine \in Nat /\ nextLine > 0
        /\ answered = nextLine - 1 /\ cur >= answered /\ parseMode = "update" /\ try.on = FALSE
        /\ first = answered
        /\ breaking = FALSE /\ base \in Nat /\ count \in Nat /\ count > 0 /\ nextLine <= LineCount
        /\ phase = "scan" => cur < endl
    BY <1>1, StepGoesOn, WholeTypes DEF KeptInv, WindowInv, FedInv, LineHeld, answered, nextLine,
       Parser!NoTry
  <1>3. cur < endl => cur = answered /\ cur \in Held /\ text[cur] = kept[cur]
    BY <1>2 DEF KeptInv, FedInv, LineHeld, Held, nextLine
  <1>4. phase' # "idle" => answered' = answered
    BY <1>1, <1>2 DEF answered
  <1> USE DEF Kept!env, Kept!client, Kept!where, Kept!tree, Kept!matching, Parser!env,
      Parser!client, Parser!where, Parser!tree, Parser!matching, Kept!Root, Parser!Root,
      Kept!Last, Parser!Last, Kept!Front, Parser!Front
  <1>5. ASSUME phase' # "idle"
        PROVE  ~ Kept!Finish /\ answered' = answered
    BY <1>4, <1>5 DEF Kept!Finish
  <1>6. CASE Parser!StartLevel
    <2>1. Kept!StartLevel /\ phase' # "idle"
      BY <1>1, <1>4, <1>6, SameCache DEF Parser!StartLevel, Kept!StartLevel
    <2> QED
      BY <1>5, <2>1 DEF Kept!Step
  <1>7. CASE Parser!LinesExhausted
    <2>1. Kept!LinesExhausted /\ phase' # "idle"
      BY <1>1, <1>4, <1>7 DEF Parser!LinesExhausted, Kept!LinesExhausted
    <2> QED
      BY <1>5, <2>1 DEF Kept!Step
  <1>8. CASE Parser!LineMissing
    BY <1>3, <1>8 DEF Parser!LineMissing
  <1>9. CASE Parser!LineBegin
    <2>1. Kept!EndsAhead = Parser!EndsAhead
      BY <1>3, <1>9, SameScheme DEF Parser!LineBegin, Kept!EndsAhead, Parser!EndsAhead,
         Kept!EndBlock, Parser!EndBlock
    <2>2. Kept!First(Kept!EndsAhead) = Parser!First(Parser!EndsAhead)
      BY <2>1 DEF Kept!First, Parser!First
    <2>3. Kept!LineBegin /\ phase' # "idle"
      BY <1>1, <1>3, <1>4, <1>9, <2>1, <2>2 DEF Parser!LineBegin, Kept!LineBegin,
         Kept!Invisible, Parser!Invisible
    <2> QED
      BY <1>5, <2>3 DEF Kept!Step
  <1>10. ASSUME phase = "scan"
         PROVE  Kept!Hits = Parser!Hits /\ Kept!Hit = Parser!Hit
    BY <1>2, <1>3, <1>10, SameScheme DEF Kept!Hits, Parser!Hits, Kept!Hit, Parser!Hit
  <1>11. CASE Parser!ScanNothing
    <2>1. Kept!ScanNothing /\ phase' # "idle"
      BY <1>1, <1>4, <1>10, <1>11 DEF Parser!ScanNothing, Kept!ScanNothing, Kept!Scanning,
         Parser!Scanning
    <2> QED
      BY <1>5, <2>1 DEF Kept!Step
  <1>12. CASE Parser!ScanRegexp
    <2>1. Kept!ScanRegexp /\ phase' # "idle"
      BY <1>1, <1>4, <1>10, <1>12 DEF Parser!ScanRegexp, Kept!ScanRegexp, Kept!Scanning,
         Parser!Scanning, Kept!PhaseAt, Parser!PhaseAt, Kept!Width, Parser!Width
    <2> QED
      BY <1>5, <2>1 DEF Kept!Step
  <1>13. CASE Parser!EnterBlock
    <2>1. ASSUME NEW node PROVE Kept!Link(cache, parent, forward, node)
                                = Parser!Link(cache, parent, forward, node)
      BY DEF Kept!Link, Parser!Link, Kept!KidsAfter, Parser!KidsAfter
    <2>2. ASSUME NEW block, NEW sym
          PROVE  /\ Kept!NewNode(block, sym, gx, cur) = Parser!NewNode(block, sym, gx, cur)
                 /\ Kept!FrameOf(block, sym) = Parser!FrameOf(block, sym)
      BY DEF Kept!NewNode, Parser!NewNode, Kept!Unclosed, Parser!Unclosed, Kept!FrameOf,
         Parser!FrameOf
    <2>3. /\ phase = "scan" /\ text[cur] = kept[cur] /\ Kept!Hit = Parser!Hit
          /\ Kept!Hits = Parser!Hits
      BY <1>2, <1>3, <1>10, <1>13 DEF Parser!EnterBlock, Parser!Scanning
    <2>4. phase' # "idle"
      BY <1>13 DEF Parser!EnterBlock
    <2>5. Kept!EnterBlock
      BY <1>1, <1>2, <1>4, <1>13, <2>1, <2>2, <2>3, <2>4 DEF Parser!EnterBlock, Kept!EnterBlock,
         Kept!Scanning, Parser!Scanning
    <2> QED
      BY <1>5, <2>4, <2>5 DEF Kept!Step
  <1>14. CASE Parser!EndOfBlock
    <2>1. Kept!EndOfBlock /\ phase' # "idle"
      BY <1>1, <1>4, <1>14 DEF Parser!EndOfBlock, Kept!EndOfBlock
    <2> QED
      BY <1>5, <2>1 DEF Kept!Step
  <1>15. CASE Parser!NextLine
    <2>1. Kept!NextLine /\ phase' # "idle"
      BY <1>1, <1>4, <1>15 DEF Parser!NextLine, Kept!NextLine
    <2> QED
      BY <1>5, <2>1 DEF Kept!Step
  <1>16. CASE Parser!LeaveBlock
    <2>1. Kept!LeaveBlock /\ phase' # "idle"
      BY <1>1, <1>4, <1>16, SameCache DEF Parser!LeaveBlock, Kept!LeaveBlock, Kept!Left,
         Parser!Left, Kept!Restored, Parser!Restored, Kept!Settle, Parser!Settle,
         Kept!PhaseAt, Parser!PhaseAt
    <2> QED
      BY <1>5, <2>1 DEF Kept!Step
  <1>17. CASE Parser!LeaveLevel
    <2>1. Kept!LeaveLevel /\ phase' # "idle"
      BY <1>1, <1>4, <1>17 DEF Parser!LeaveLevel, Kept!LeaveLevel, Kept!Closed, Parser!Closed,
         Kept!Left, Parser!Left
    <2> QED
      BY <1>5, <2>1 DEF Kept!Step
  <1>18. CASE Parser!Finish
    <2>1. phase = "return" /\ phase' = "idle" /\ answered' = answered + 1
          /\ answered \in 0..LineCount - 1
      <3>1. phase = "return" /\ phase' = "idle" /\ LineCount \in Nat
        BY <1>18, SessionAssumption DEF Parser!Finish, SessionAssumption
      <3>2. answered' = nextLine
        BY <1>1, <3>1 DEF answered
      <3> QED
        BY <1>2, <3>1, <3>2
    <2>2. clear # Kept!NoLine
      BY <2>1 DEF KeptInv, FedInv, LineHeld, Kept!NoLine, Parser!NoLine
    <2>3. endLine = answered
      <3>1. endLine < endl /\ answered <= endLine /\ endLine \in Nat
        BY <1>2, <2>1, WholeTypes DEF KeptInv, Kept!Whole, Kept!Ready, Kept!RangeInv, Kept!SeenLines
      <3> QED
        BY <1>2, <3>1
    <2>4. Kept!Finish
      BY <1>1, <1>2, <1>18, <2>1, <2>2, <2>3 DEF Parser!Finish, Kept!Finish,
         Kept!NextInvalid, Kept!Reached, Kept!Torn, Kept!NoTry, Parser!NoTry
    <2> QED
      BY <2>1, <2>4 DEF Kept!Step
  <1> QED
    BY <1>1, <1>6, <1>7, <1>8, <1>9, <1>11, <1>12, <1>13, <1>14, <1>15, <1>16, <1>17, <1>18
       DEF Parser!Step

-----------------------------------------------------------------------------
(* Steps of the parser keep the line it is at and know when it is read.    *)
LEMMA StepFed ==
  ASSUME KeptInv, Parsing, kept' = kept
  PROVE  FedInv'
  <1>1. /\ Parser!Step /\ UNCHANGED <<base, count, nextLine, text, kept, type>>
        /\ phase # "idle" /\ endl' = endl /\ cur' \in Int /\ (cur' >= cur \/ cur' >= endl)
    BY StepGoesOn, WholeTypes DEF Parsing, window, nextLine, KeptInv
  <1>2. /\ cur \in Nat /\ endl = nextLine /\ nextLine \in Nat /\ nextLine <= LineCount
        /\ type # NoType /\ parseMode = "update" /\ ~ breaking /\ try = Parser!NoTry
        /\ kept[answered] \in Lines /\ text[answered] = kept[answered] /\ first = answered
        /\ phase \in {"scan", "return"} \/ cur >= endl => clear # Parser!NoLine
        /\ answered = nextLine - 1 /\ base \in Nat /\ count \in Nat /\ count > 0 /\ endl \in Nat
        /\ cur >= nextLine - 1
    BY <1>1, WholeTypes DEF KeptInv, WindowInv, FedInv, LineHeld, answered, nextLine
  <1>3. cur < endl => cur \in Held
    BY <1>2 DEF Held, nextLine
  <1>4. phase' # "idle" => answered' = answered
    BY <1>1, <1>2 DEF answered
  <1>5. ~ try.on
    BY <1>2 DEF Parser!NoTry
  <1>6. /\ parseMode' = parseMode /\ breaking' = breaking /\ try' = Parser!NoTry /\ first' = first
        /\ phase' # "idle" =>
             (phase' \in {"scan", "return"} \/ cur' >= endl => clear' # Parser!NoLine)
    <2> USE DEF Parser!client, Parser!where, Parser!NoLine
    <2>1. CASE Parser!StartLevel
      BY <1>2, <2>1 DEF Parser!StartLevel
    <2>2. CASE Parser!LinesExhausted
      BY <1>2, <2>2 DEF Parser!LinesExhausted
    <2>3. CASE Parser!LineMissing
      BY <1>3, <2>3 DEF Parser!LineMissing
    <2>4. CASE Parser!LineBegin
      BY <1>2, <2>4 DEF Parser!LineBegin
    <2>5. CASE Parser!ScanNothing
      BY <1>2, <2>5 DEF Parser!ScanNothing, Parser!Scanning
    <2>6. CASE Parser!ScanRegexp
      BY <1>2, <2>6 DEF Parser!ScanRegexp, Parser!Scanning
    <2>7. CASE Parser!EnterBlock
      BY <1>2, <1>5, <2>7 DEF Parser!EnterBlock, Parser!Scanning
    <2>8. CASE Parser!EndOfBlock
      BY <1>2, <1>5, <2>8 DEF Parser!EndOfBlock
    <2>9. CASE Parser!NextLine
      BY <1>2, <2>9 DEF Parser!NextLine
    <2>10. CASE Parser!LeaveBlock
      BY <1>2, <1>5, <2>10 DEF Parser!LeaveBlock
    <2>11. CASE Parser!LeaveLevel
      BY <1>2, <2>11 DEF Parser!LeaveLevel
    <2>12. CASE Parser!Finish
      BY <1>2, <1>5, <2>12 DEF Parser!Finish
    <2> QED
      BY <1>1, <2>1, <2>2, <2>3, <2>4, <2>5, <2>6, <2>7, <2>8, <2>9, <2>10, <2>11, <2>12
         DEF Parser!Step
  <1> QED
    BY <1>1, <1>2, <1>4, <1>6 DEF KeptInv, Parser!LineNos, FedInv, LineHeld, NothingYet

-----------------------------------------------------------------------------
(* A line is fed to a session with a file type.                            *)
LEMMA FedLine ==
  ASSUME KeptInv, NEW line \in Lines, FeedLine(line), type # NoType,
         kept' = [kept EXCEPT ![nextLine] = line]
  PROVE  FedInv' /\ Kept!Whole' /\ answered' = answered
  <1>1. /\ phase = "idle" /\ nextLine < LineCount /\ nextLine' = nextLine + 1
        /\ text' = [text EXCEPT ![nextLine] = line] /\ type' = type
        /\ Parser!StartParse(cache, nextLine, 1, "update") /\ UNCHANGED try
        /\ nextLine \in Nat /\ answered = nextLine /\ ~ breaking /\ try = Parser!NoTry
    BY DEF FeedLine, KeptInv, WindowInv, FedInv, nextLine, answered
  <1>2. /\ phase' = "level" /\ parseMode' = "update" /\ cur' = nextLine /\ endl' = nextLine + 1
        /\ breaking' = FALSE /\ first' = nextLine
    BY <1>1 DEF Parser!StartParse
  <1>3. answered' = nextLine
    BY <1>1, <1>2 DEF answered
  <1>4. nextLine \in 0..LineCount - 1 /\ LineCount \in Nat
    BY <1>1, SessionAssumption DEF SessionAssumption
  <1>5. kept'[nextLine] = line /\ text'[nextLine] = line
    <2>1. kept \in [0..LineCount - 1 -> Lines \cup {<<>>}]
      BY WholeTypes DEF KeptInv
    <2>2. text \in [0..LineCount - 1 -> Lines]
      BY DEF KeptInv, FedInv, Parser!LineNos
    <2> QED
      BY <1>1, <1>4, <2>1, <2>2
  <1>6. FedInv'
    BY <1>1, <1>2, <1>3, <1>4, <1>5 DEF KeptInv, Parser!LineNos, FedInv, LineHeld, NothingYet
  <1>7. Kept!Whole'
    <2>1. Kept!StartParse(cache, nextLine, 1, "update")
      BY <1>1, SameCache DEF Parser!StartParse, Kept!StartParse, Kept!Root, Parser!Root,
         Kept!matching, Parser!matching, Kept!NoLine, Parser!NoLine
    <2>2. /\ Kept!Whole /\ nextLine \in Kept!LineNos /\ nextLine <= answered
          /\ nextLine \in 0..LineCount
      BY <1>1, <1>4 DEF KeptInv, Kept!LineNos
    <2> QED
      BY <1>1, <1>3, <2>1, <2>2, KeptAssumptions, Kept!FeedWhole
  <1> QED
    BY <1>1, <1>3, <1>6, <1>7

-----------------------------------------------------------------------------
(* The parser starts over: behind lines that opened nothing, with nothing  *)
(* in its cache.                                                           *)
LEMMA Restarted ==
  ASSUME KeptInv, phase = "idle", phase' = "idle", nextLine' \in 0..LineCount, kept' = Unfed,
         cache' = Parser!EmptyCache, try' = Parser!NoTry, baseScheme' = Base,
         UNCHANGED <<first, parseMode, cur, endl, gx, clear, endLine, parent, forward, matchend, found,
                     trace, frames, filled, breaking, handler>>
  PROVE  Kept!Whole' /\ answered' = nextLine'
  <1>1. answered' = nextLine' /\ LineCount \in Nat
    BY SessionAssumption DEF answered, SessionAssumption
  <1>2. kept' = [l \in 0..LineCount - 1 |-> <<>>]
    BY DEF Unfed, Parser!LineNos
  <1>3. kept' \in [Kept!LineNos -> Lines \cup {<<>>}] /\ \A l \in 0..answered' - 1 : kept'[l] = <<>>
    <2>1. \A l \in 0..answered' - 1 : l \in 0..LineCount - 1
      <3>1. ASSUME NEW n \in 0..LineCount PROVE \A l \in 0..n - 1 : l \in 0..LineCount - 1
        BY <1>1
      <3>2. answered' \in 0..LineCount
        BY <1>1
      <3> QED
        BY <3>1, <3>2
    <2>2. \A l \in 0..LineCount - 1 : kept'[l] = <<>>
      BY <1>2
    <2> QED
      BY <1>2, <2>1, <2>2 DEF Kept!LineNos
  <1>4. cache' = Kept!EmptyCache /\ try' = Kept!NoTry
    BY SameCache DEF Kept!NoTry, Parser!NoTry
  <1>5. Kept!Whole'
    BY <1>1, <1>3, <1>4, KeptAssumptions, Kept!RestartWhole DEF KeptInv
  <1> QED
    BY <1>1, <1>5

(* Where all blocks are told apart by what they began with, the same open  *)
(* blocks are the same stack.                                              *)
LEMMA SameStack ==
  ASSUME NEW a \in Seq([block : Blocks, sym : Symbols, pos : Nat]),
         NEW b \in Seq([block : Blocks, sym : Symbols, pos : Nat]), Kept!SameLevels(a, b)
  PROVE  a = b
  <1>1. Len(a) = Len(b) /\ DOMAIN a = 1..Len(a) /\ DOMAIN b = 1..Len(b)
    BY DEF Kept!SameLevels
  <1>2. ASSUME NEW k \in 1..Len(a) PROVE a[k] = b[k]
    <2>1. /\ a[k] \in [block : Blocks, sym : Symbols, pos : Nat]
          /\ b[k] \in [block : Blocks, sym : Symbols, pos : Nat]
      <3>1. k \in 1..Len(a) /\ k \in 1..Len(b)
        BY <1>1
      <3> QED
        BY <3>1, ElementOfSeq
    <2>2. a[k].block = b[k].block /\ a[k].pos = b[k].pos /\ a[k].sym = b[k].sym
      BY <1>1, <2>1 DEF Kept!SameLevels, Kept!SameLevel
    <2>3. /\ a[k] = [block |-> a[k].block, sym |-> a[k].sym, pos |-> a[k].pos]
          /\ b[k] = [block |-> b[k].block, sym |-> b[k].sym, pos |-> b[k].pos]
      BY <2>1
    <2> QED
      BY <2>2, <2>3
  <1> QED
    BY <1>1, <1>2

(* Between two lines everything before the next one is known: what the     *)
(* cache says is open there is what all lines leave open.                  *)
LEMMA PromiseIs ==
  ASSUME Kept!Whole, try = Parser!NoTry
  PROVE  Parser!OpenLevels(cache, Parser!SearchLine(cache, answered)) = Kept!Open[answered]
  <1>1. /\ Kept!CacheCorrect /\ Kept!Started(cache) /\ Kept!IsCache(cache) /\ ~ try.on
    BY KeptAssumptions, Kept!KnownIsCorrect DEF Kept!Whole, Kept!Ready, Kept!Inv, Parser!NoTry
  <1>2. answered \in 0..LineCount /\ LineCount \in Nat
    BY WholeTypes, SessionAssumption DEF SessionAssumption
  <1> DEFINE o == Kept!OpenLevels(cache, Kept!SearchLine(cache, answered))
  <1>3. Kept!SameLevels(o, Kept!Open[answered])
    BY <1>1, <1>2 DEF Kept!CacheCorrect, Kept!KnowsLine
  <1>4. o \in Kept!Stacks
    BY <1>1, <1>2, KeptAssumptions, Kept!SearchedIsCache, Kept!OpenLevelsStack
  <1>5. Kept!Open[answered] \in Kept!Stacks
    <2>1. Lines \cup {<<>>} \subseteq Seq(Symbols)
      BY KeptAssumptions DEF Kept!TextAssumption
    <2>2. kept \in [0..LineCount - 1 -> Seq(Symbols)]
      BY <2>1, WholeTypes
    <2> QED
      BY <1>2, <2>2, KeptAssumptions, Kept!OpenAtType DEF Kept!Open
  <1> HIDE DEF o
  <1>6. o = Kept!Open[answered]
    BY <1>3, <1>4, <1>5, SameStack DEF Kept!Stacks
  <1> QED
    BY <1>6, SameCache DEF o

-----------------------------------------------------------------------------
(* At first there is nothing to know.                                      *)
LEMMA InitKept == InitSession /\ kept = Unfed => KeptInv
  <1> SUFFICES ASSUME InitSession, kept = Unfed PROVE KeptInv
    OBVIOUS
  <1>1. WindowInv
    BY InitWindow
  <1>2. phase = "idle" /\ nextLine = 0 /\ answered = 0 /\ cache = Parser!EmptyCache
    BY DEF InitSession, Parser!Init, nextLine, answered
  <1>3. text \in [Parser!LineNos -> Lines] /\ LineCount \in Nat
    BY SessionAssumption DEF InitSession, Blank, SessionAssumption
  <1>4. FedInv
    BY <1>2, <1>3 DEF InitSession, Parser!Init, FedInv, LineHeld, NothingYet
  <1>5. Kept!Init
    <2>1. kept \in [Kept!LineNos -> Lines \cup {<<>>}]
      BY DEF Unfed, Kept!LineNos, Parser!LineNos
    <2> QED
      BY <1>2, <2>1, SameCache DEF InitSession, Parser!Init, Kept!Init, Kept!Root, Parser!Root,
         Kept!NoLine, Parser!NoLine, Kept!NoTry, Parser!NoTry
  <1>6. Kept!Whole
    BY <1>5, KeptAssumptions, Kept!InitWhole
  <1> QED
    BY <1>1, <1>4, <1>6 DEF KeptInv

(* Every step keeps the session true to all it was fed, and is one of      *)
(* Colouring, or changes nothing a caller can see.                         *)
LEMMA UntypedLine ==
  ASSUME KeptInv, NEW line \in Lines, FeedLine(line), type = NoType, kept' = kept
  PROVE  /\ FedInv' /\ Kept!Whole' /\ answered' = answered + 1
         /\ Kept!Open[answered] = <<>> /\ Kept!Open'[answered'] = <<>> /\ type' = type
  <1>1. /\ phase = "idle" /\ nextLine < LineCount /\ nextLine' = nextLine + 1
        /\ text' = [text EXCEPT ![nextLine] = line] /\ type' = type /\ UNCHANGED parsing
        /\ nextLine \in Nat /\ answered = nextLine /\ ~ breaking /\ try = Parser!NoTry
        /\ cache = Parser!EmptyCache /\ kept = Unfed /\ baseScheme = Base
    BY WholeTypes DEF FeedLine, KeptInv, WindowInv, FedInv, NothingYet, nextLine, answered
  <1>2. answered' = answered + 1 /\ phase' = "idle"
    BY <1>1 DEF answered, parsing
  <1>3. FedInv'
    <2>1. text' \in [Parser!LineNos -> Lines]
      BY <1>1 DEF KeptInv, FedInv
    <2>2. nextLine' <= LineCount
      BY <1>1, SessionAssumption DEF SessionAssumption
    <2>3. ~ breaking' /\ try' = Parser!NoTry /\ cache' = Parser!EmptyCache /\ kept' = Unfed
      BY <1>1 DEF parsing
    <2> QED
      BY <1>2, <2>1, <2>2, <2>3 DEF FedInv, LineHeld, NothingYet
  <1>4. Kept!Whole'
    <2>1. nextLine' \in 0..LineCount
      BY <1>1, SessionAssumption DEF SessionAssumption
    <2> QED
      BY <1>1, <1>2, <2>1, Restarted DEF parsing
  <1>5. \A l \in 0..LineCount : Kept!Open[l] = <<>>
    <2>1. LineCount \in Nat /\ kept = [k \in 0..LineCount - 1 |-> <<>>]
      BY <1>1, SessionAssumption DEF SessionAssumption, Unfed, Parser!LineNos
    <2> QED
      BY <2>1, KeptAssumptions, Kept!BlankText DEF Kept!Open
  <1>6. answered \in 0..LineCount /\ answered' \in 0..LineCount /\ Kept!Open' = Kept!Open
    BY <1>1, <1>2, SessionAssumption DEF SessionAssumption, Kept!Open
  <1> QED
    BY <1>1, <1>2, <1>3, <1>4, <1>5, <1>6

(* A line that is being parsed changes none of what came before it.        *)
LEMMA FedOpen ==
  ASSUME KeptInv, NEW line \in Lines, phase = "idle", nextLine < LineCount,
         kept' = [kept EXCEPT ![nextLine] = line], answered' = answered
  PROVE  Kept!Open'[answered'] = Kept!Open[answered]
  <1>1. answered = nextLine /\ nextLine \in Nat /\ LineCount \in Nat
    BY SessionAssumption DEF KeptInv, WindowInv, answered, nextLine, SessionAssumption
  <1>2. nextLine \in Kept!LineNos /\ nextLine \in 0..nextLine
    BY <1>1 DEF Kept!LineNos
  <1>3. Kept!Inv
    BY DEF KeptInv, Kept!Whole, Kept!Ready
  <1> QED
    BY <1>1, <1>2, <1>3, KeptAssumptions, Kept!EditedOpen

(* When its parse is over, the blocks it leaves open are open.             *)
LEMMA ParsedOpen ==
  ASSUME KeptInv, Parsing, kept' = kept, phase' = "idle"
  PROVE  /\ answered' = answered + 1 /\ kept[answered] \in Lines /\ type # NoType /\ type' = type
         /\ Kept!Open'[answered'] = Promise!OpenAfter(Kept!Open[answered], kept[answered])
  <1>1. answered' = answered + 1 /\ answered \in 0..LineCount - 1
    BY StepOfKept
  <1>2. phase # "idle"
    BY StepGoesOn, WholeTypes DEF Parsing, KeptInv
  <1>3. kept[answered] \in Lines /\ type # NoType /\ type' = type
    BY <1>2 DEF KeptInv, FedInv, LineHeld, Parsing
  <1>4. Kept!Open' = Kept!Open
    BY DEF Kept!Open
  <1>5. Kept!Open[answered + 1] = Kept!OpenAfter(Kept!Open[answered], kept[answered])
    <2>1. Kept!Inv /\ answered \in Kept!LineNos
      BY <1>1 DEF KeptInv, Kept!Whole, Kept!Ready, Kept!LineNos
    <2> QED
      BY <2>1, KeptAssumptions, Kept!LineIs
  <1> QED
    BY <1>1, <1>3, <1>4, <1>5, SameReading

(* After a restart nothing is open.                                        *)
LEMMA RestartOpen ==
  ASSUME kept' = Unfed, answered' \in 0..LineCount
  PROVE  Kept!Open'[answered'] = <<>>
  <1>1. LineCount \in Nat /\ kept' = [k \in 0..LineCount - 1 |-> <<>>]
    BY SessionAssumption DEF SessionAssumption, Unfed, Parser!LineNos
  <1>2. \A l \in 0..LineCount : Kept!Open'[l] = <<>>
    BY <1>1, KeptAssumptions, Kept!BlankText DEF Kept!Open
  <1> QED
    BY <1>2

-----------------------------------------------------------------------------
(* A restart keeps the invariant.                                          *)
LEMMA RestartKept ==
  ASSUME KeptInv, phase = "idle", kept' = Unfed, try' = Parser!NoTry, breaking' = breaking,
         phase' = "idle", cache' = Parser!EmptyCache, text' \in [Parser!LineNos -> Lines],
         nextLine' \in 0..LineCount
  PROVE  FedInv'
  <1>1. nextLine' <= LineCount
    BY SessionAssumption DEF SessionAssumption
  <1> QED
    BY <1>1 DEF KeptInv, FedInv, LineHeld, NothingYet

-----------------------------------------------------------------------------
(* What a caller sees of a session is what is known of all its lines.      *)
Shown == <<type, answered, Parser!OpenLevels(cache, Parser!SearchLine(cache, answered))>>

(* It is the type, the number of the next line and what all lines leave    *)
(* open there,                                                             *)
LEMMA ShownIs == KeptInv => Shown = <<type, answered, Kept!Open[answered]>>
  BY PromiseIs DEF KeptInv, FedInv, Shown

(* also after a step.                                                      *)
LEMMA ShownNext == KeptInv' => Shown' = <<type', answered', Kept!Open'[answered']>>
  <1>1. (KeptInv => Shown = <<type, answered, Kept!Open[answered]>>)'
    BY ShownIs, PTL
  <1> QED
    BY <1>1

(* Every step keeps the session true to all it was fed, and is one of      *)
(* Colouring, or changes nothing a caller can see.                         *)
LEMMA StepColours ==
  ASSUME KeptInv, [KeptNext]_<<sessionVars, kept>>, WithinRecursion'
  PROVE  KeptInv' /\ [Promise!Next]_Shown
  <1> DEFINE o == Kept!Open[answered]
             oo == Kept!Open'[answered']
             Goal == FedInv' /\ Kept!Whole'
             Same == type' = type /\ answered' = answered /\ oo = o
             Lined == \E line \in Lines :
                        /\ answered' = answered + 1 /\ type' = type
                        /\ oo = IF type # NoType THEN Promise!OpenAfter(o, line) ELSE o
             Begun == \E t \in TypeNames : type' = t /\ answered' = answered /\ oo = <<>>
             Over  == type' = type /\ answered' = 0 /\ oo = <<>>
  <1>1. WindowInv'
    <2>1. [NextSession]_sessionVars
      BY DEF KeptNext, NextSession
    <2> QED
      BY <2>1, StepWindow DEF KeptInv
  <1>2. ASSUME NEW line \in Lines, FeedLine(line), type # NoType,
               kept' = [kept EXCEPT ![nextLine] = line]
        PROVE  Goal /\ Same
    <2>1. FedInv' /\ Kept!Whole' /\ answered' = answered
      BY <1>2, FedLine
    <2>2. phase = "idle" /\ nextLine < LineCount /\ type' = type
      BY <1>2 DEF FeedLine
    <2> QED
      BY <1>2, <2>1, <2>2, FedOpen
  <1>3. ASSUME NEW line \in Lines, FeedLine(line), type = NoType, kept' = kept
        PROVE  Goal /\ Lined
    BY <1>3, UntypedLine
  <1>4. ASSUME NEW t \in TypeNames, SelectType(t), kept' = Unfed
        PROVE  Goal /\ Begun
    <2>1. /\ phase = "idle" /\ phase' = "idle" /\ type' = t /\ answered' = answered
          /\ nextLine' = nextLine /\ text' = text
          /\ cache' = Parser!EmptyCache /\ try' = Parser!NoTry /\ baseScheme' = Base
          /\ UNCHANGED <<first, parseMode, cur, endl, gx, clear, endLine, parent, forward, matchend,
                         found, trace, frames, filled, breaking, handler>>
      BY <1>4 DEF SelectType, window, answered, nextLine, Parser!SetFileType, Parser!ClearCache,
         Parser!where, Parser!matching
    <2>2. nextLine \in 0..LineCount /\ answered = nextLine /\ text \in [Parser!LineNos -> Lines]
      BY <2>1, SessionAssumption
         DEF KeptInv, WindowInv, FedInv, answered, nextLine, SessionAssumption
    <2>3. FedInv'
      BY <1>4, <2>1, <2>2, RestartKept DEF KeptInv, FedInv
    <2>4. Kept!Whole'
      BY <1>4, <2>1, <2>2, Restarted
    <2>5. oo = <<>>
      BY <1>4, <2>1, <2>2, RestartOpen
    <2> QED
      BY <2>1, <2>3, <2>4, <2>5
  <1>5. ASSUME Reset, kept' = Unfed
        PROVE  Goal /\ Over
    <2>1. /\ phase = "idle" /\ phase' = "idle" /\ type' = type /\ answered' = 0
          /\ nextLine' = 0 /\ text' = [l \in Parser!LineNos |-> Blank]
          /\ cache' = Parser!EmptyCache /\ try' = Parser!NoTry /\ baseScheme' = baseScheme
          /\ UNCHANGED <<first, parseMode, cur, endl, gx, clear, endLine, parent, forward, matchend,
                         found, trace, frames, filled, breaking, handler>>
      BY <1>5 DEF Reset, answered, nextLine, Parser!ClearCache, Parser!where
    <2>2. /\ nextLine' \in 0..LineCount /\ answered' \in 0..LineCount
          /\ text' \in [Parser!LineNos -> Lines] /\ baseScheme = Base
      <3>1. LineCount \in Nat /\ Blank \in Lines
        BY SessionAssumption DEF SessionAssumption, Blank
      <3> QED
        BY <2>1, <3>1, WholeTypes DEF KeptInv
    <2>3. FedInv'
      BY <1>5, <2>1, <2>2, RestartKept
    <2>4. Kept!Whole'
      BY <1>5, <2>1, <2>2, Restarted
    <2>5. oo = <<>>
      BY <1>5, <2>2, RestartOpen
    <2> QED
      BY <2>1, <2>3, <2>4, <2>5
  <1>6. ASSUME NEW line \in ForgetArgs, ForgetBefore(line), kept' = kept
        PROVE  Goal /\ Same
    <2>1. nextLine' = nextLine
      BY <1>6, SessionAssumption, ForgetWindow DEF SessionAssumption, KeptInv, WindowInv
    <2>2. phase = "idle" /\ UNCHANGED <<type, parsing>>
      BY <1>6 DEF ForgetBefore
    <2>3. answered' = answered /\ UNCHANGED Kept!vars
      BY <1>6, <2>1, <2>2 DEF answered, parsing, Kept!vars, Kept!client, Kept!env, Kept!where,
         Kept!tree, Kept!matching
    <2>4. FedInv'
      <3>1. Blank \in Lines
        BY SessionAssumption DEF SessionAssumption, Blank
      <3>2. text' \in [Parser!LineNos -> Lines]
        BY <1>6, <3>1 DEF ForgetBefore, KeptInv, FedInv
      <3> QED
        BY <1>6, <2>1, <2>2, <3>2 DEF parsing, KeptInv, FedInv, LineHeld, NothingYet
    <2>5. Kept!Whole'
      BY <2>3, KeptAssumptions, Kept!WholeNext DEF KeptInv, WithinRecursion, Kept!WithinRecursion
    <2>6. oo = o
      BY <1>6, <2>3 DEF Kept!Open
    <2> QED
      BY <2>2, <2>3, <2>4, <2>5, <2>6
  <1>7. ASSUME Parsing, kept' = kept
        PROVE  Goal /\ (Same \/ Lined)
    <2>1. FedInv'
      BY <1>7, StepFed
    <2>2. Kept!Step
      BY <1>7, StepOfKept
    <2>3. Kept!Whole'
      BY <2>2, KeptAssumptions, Kept!WholeNext
         DEF KeptInv, WithinRecursion, Kept!WithinRecursion, Kept!Next
    <2>4. CASE phase' = "idle"
      <3>1. Lined
        BY <1>7, <2>4, ParsedOpen
      <3> QED
        BY <2>1, <2>3, <3>1
    <2>5. CASE phase' # "idle"
      <3>1. Same
        BY <1>7, <2>5, StepOfKept DEF Parsing, Kept!Open
      <3> QED
        BY <2>1, <2>3, <3>1
    <2> QED
      BY <2>4, <2>5
  <1>8. ASSUME UNCHANGED <<sessionVars, kept>>
        PROVE  Goal /\ Same
    <2>1. UNCHANGED <<type, text, base, count, phase, kept>> /\ answered' = answered
      BY <1>8 DEF sessionVars, window, parsing, answered, nextLine
    <2>2. UNCHANGED Kept!vars
      BY <1>8, <2>1 DEF sessionVars, parsing, Kept!vars, Kept!client, Kept!env, Kept!where, Kept!tree,
         Kept!matching
    <2>3. Kept!Whole'
      BY <2>2, KeptAssumptions, Kept!WholeNext DEF KeptInv, WithinRecursion, Kept!WithinRecursion
    <2>4. FedInv'
      BY <1>8, <2>1 DEF sessionVars, parsing, KeptInv, FedInv, LineHeld, NothingYet, nextLine
    <2> QED
      BY <2>1, <2>3, <2>4 DEF Kept!Open
  <1>9. Goal /\ (Same \/ Lined \/ Begun \/ Over)
    <2>1. ASSUME NEW line \in Lines, FeedLine(line),
                 kept' = IF type = NoType THEN kept ELSE [kept EXCEPT ![nextLine] = line]
          PROVE  Goal /\ (Same \/ Lined)
      <3>1. CASE type = NoType
        BY <1>3, <2>1, <3>1
      <3>2. CASE type # NoType
        BY <1>2, <2>1, <3>2
      <3> QED
        BY <3>1, <3>2
    <2> HIDE DEF Goal, Same, Lined, Begun, Over
    <2> QED
      BY <1>4, <1>5, <1>6, <1>7, <1>8, <2>1 DEF KeptNext
  <1>10. KeptInv'
    BY <1>1, <1>9 DEF KeptInv
  <1>11. Shown = <<type, answered, o>> /\ Shown' = <<type', answered', oo>>
    BY <1>10, ShownIs, ShownNext
  <1> QED
    BY <1>9, <1>10, <1>11 DEF Shown, Promise!Next, Promise!Line, Promise!SelectType, Promise!Reset

-----------------------------------------------------------------------------
(* The session implements Colouring: whatever is fed, dropped, re-typed or *)
(* reset, NextLine counts the lines fed and the blocks that its parse      *)
(* cache says are open at the next line are those of all lines fed since   *)
(* the last restart, read anew.  (Where blocks nest deeper than parse()    *)
(* recurses it gives up on purpose; the theorem is about the sessions      *)
(* where they do not.)  KeptSpec is SpecSession with a history variable.          *)
THEOREM SessionColoursAsIfKept == KeptSpec /\ []WithinRecursion => ColoursAsIfKept
  <1>1. InitSession /\ kept = Unfed => KeptInv
    BY InitKept
  <1>2. KeptInv /\ [KeptNext]_<<sessionVars, kept>> /\ WithinRecursion'
          => KeptInv' /\ [Promise!Next]_Shown
    BY StepColours
  <1>3. InitSession /\ kept = Unfed => Promise!Init
    <2> SUFFICES ASSUME InitSession, kept = Unfed PROVE Promise!Init
      OBVIOUS
    <2>1. type = NoType /\ answered = 0
      BY DEF InitSession, Parser!Init, answered, nextLine
    <2>2. Kept!Open[0] = <<>>
      BY KeptAssumptions, Kept!OpenAtStep, SessionAssumption DEF SessionAssumption, Kept!Open
    <2>3. Shown = <<type, answered, Kept!Open[answered]>>
      BY <1>1, ShownIs
    <2> QED
      BY <2>1, <2>2, <2>3 DEF Shown, Promise!Init
  <1> QED
    BY <1>1, <1>2, <1>3, PTL DEF KeptSpec, ColoursAsIfKept, Promise!Spec, Shown
=============================================================================
