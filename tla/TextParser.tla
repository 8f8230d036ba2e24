----------------------------- MODULE TextParser -----------------------------
(***************************************************************************)
(* The incremental parser (TextParserImpl.cpp): parse() colours a range of *)
(* lines, starting inside the blocks the line cache says are open there,   *)
(* and in update mode rewrites the cache from that line on.  tryParseLine  *)
(* re-reads one edited line to find out whether the cache after it still   *)
(* holds.                                                                  *)
(*                                                                         *)
(* One step of the model is one turn of a loop of the code: a level of     *)
(* parse()'s walk to the root, the head of colorize()'s line loop, one     *)
(* position of its inner loop, or the return from colorize() into          *)
(* searchBL() or parse().  The C++ call stack is the sequence frames.      *)
(***************************************************************************)
EXTENDS Scheme, ParseCache

CONSTANTS
  Lines,         \* the lines a text is made of
  LineCount,     \* number of lines of the text
  Unavailable,   \* the sets of lines LineSource::getLine may return null for
  Breaking,      \* whether breakParse may be called
  Modes,         \* the parse modes in use: "off", "read", "update"
  MaxRecursion,  \* MAX_RECURSION_LEVEL
  NoSym          \* no start text (a null backLine)

ASSUME TextAssumption ==
  /\ Lines \subseteq Seq(Symbols) /\ Lines # {}
  /\ LineCount \in Nat \ {0} /\ MaxRecursion \in Nat
  /\ NoSym \notin Symbols
  /\ Unavailable \subseteq SUBSET (0..LineCount - 1) /\ Unavailable # {}
  /\ Breaking \in BOOLEAN /\ Modes \subseteq {"off", "read", "update"}

NoLine == -1
LineNos == 0..LineCount - 1
MaxLine == 134217727   \* 0x7FFFFFF, the root's eline; 0x7FFFFFFF is Unclosed
Unclosed == 2147483647

VARIABLES
  text,          \* the line source: LineNos -> Lines
  missing,       \* the lines getLine returns null for
  cache,         \* ParseCache tree
  invalidLine,   \* BaseEditor: the first line to be parsed again
  valid,         \* history: whole parses have reached lines 0..valid
  first,         \* history: the line the running parse began at
  phase,         \* "idle", "level", "line", "scan" or "return"
  mode,          \* the mode of the parse; "update" is updateCache
  cur, endl, gx, clear, endLine,
                 \* current_parse_line, end_line4parse, gx, clearLine, endLine
  parent, forward,
                 \* the members of these names: a node and the number of
                 \* its child behind which new nodes are hung (0: none)
  baseScheme,    \* the scheme searchMatch works on
  matchend,      \* [s, e]: the end match, or the end of the line
  found,         \* res: whether matchend is a match of the end expression
  trace,         \* block -> the back trace its end expression holds
  frames,        \* pending calls of searchBL, innermost last
  filled,        \* invisibleSchemesFilled
  breaking,      \* breakParsing
  handler,       \* the region handler's stack of schemes, background first
  try            \* [on, mismatch, stack, expected, result] of tryParseLine

env == <<text, missing>>
where == <<cur, endl, gx, clear, endLine>>
tree == <<cache, parent, forward>>
matching == <<matchend, found, trace, baseScheme>>
client == <<invalidLine, valid, first>>
vars == <<env, client, phase, mode, where, tree, matching, frames, filled,
          breaking, handler, try>>

-----------------------------------------------------------------------------
(* Reading the cache. *)

Level(n) == [block |-> n.block, sym |-> n.sym, pos |-> n.pos]

(* collectOpenLevels: the open blocks from the outermost to node p.        *)
OpenLevels(t, p) == [k \in 1..Len(p) |-> Level(t[SubSeq(p, 1, k)])]

(* Mutants: the block also claims the line it starts on; match positions   *)
(* are not compared.                                                       *)
NewNodeOnLine(block, sym, pos, line) ==
  [sline |-> line, eline |-> Unclosed, block |-> block, sym |-> sym,
   pos |-> pos, cursor |-> 0]
SameText(a, b) == a.block = b.block /\ (a.block \in BackTraced => a.sym = b.sym)

(* sameTryLevel: same block entered at the same place, and by the same     *)
(* text where the end expression can see it.                               *)
SameLevel(a, b) ==
  /\ a.block = b.block
  /\ a.pos = b.pos
  /\ a.block \in BackTraced => a.sym = b.sym

SameLevels(a, b) ==
  /\ Len(a) = Len(b)
  /\ \A k \in DOMAIN a : SameLevel(a[k], b[k])

(* The node searchBL makes for a block started on this line.               *)
NewNode(block, sym, pos, line) ==
  [sline |-> line + 1, eline |-> Unclosed, block |-> block, sym |-> sym,
   pos |-> pos, cursor |-> 0]

(* initCache *)
EmptyCache ==
  [p \in {Root} |-> [sline |-> 0, eline |-> MaxLine, block |-> Base,
                     sym |-> NoSym, pos |-> 0, cursor |-> 0]]

(* sure is history: the cache knew the start of the line after.            *)
NoTry == [on |-> FALSE, mismatch |-> FALSE, stack |-> <<>>, expected |-> <<>>,
          result |-> "none", sure |-> FALSE]

-----------------------------------------------------------------------------
Init ==
  /\ text \in [LineNos -> Lines]
  /\ missing \in Unavailable
  /\ cache = EmptyCache /\ parent = Root /\ forward = 0
  /\ invalidLine = 0 /\ valid = 0 /\ first = 0
  /\ phase = "idle" /\ mode = "off"
  /\ cur = 0 /\ endl = 0 /\ gx = 0 /\ clear = NoLine /\ endLine = 0
  /\ baseScheme = Base
  /\ matchend = [s |-> 0, e |-> 0] /\ found = FALSE
  /\ trace = [b \in Blocks |-> NoSym]
  /\ frames = <<>> /\ filled = FALSE /\ breaking = FALSE
  /\ handler = <<Base>>
  /\ try = NoTry

(* The first half of parse(from, num, m), on the cache t.                  *)
StartParse(t, from, num, m) ==
  LET rooted == [t EXCEPT ![Root].block = baseScheme]
      p == IF m = "off" THEN Root ELSE SearchLine(rooted, from)
  IN  /\ phase' = "level" /\ mode' = m
      /\ first' = from
      /\ cur' = from /\ endl' = from + num /\ gx' = 0 /\ clear' = NoLine
      /\ cache' = IF m = "off" THEN rooted ELSE Searched(rooted, from)
      /\ parent' = p
      /\ forward' = IF m = "off" THEN 0 ELSE ForwardOf(rooted, p, from)
      /\ filled' = FALSE /\ breaking' = FALSE
      /\ handler' = <<Base>>
      /\ UNCHANGED <<endLine, matching, frames>>

(* A client parses from a line it takes to be known: an editor from its    *)
(* first invalid line or from one before it.                               *)
Parse(from, num, m) ==
  /\ phase = "idle"
  /\ from <= invalidLine /\ from + num <= LineCount
  /\ valid' = IF m = "update" /\ from <= valid THEN from ELSE valid
  /\ StartParse(cache, from, num, m)
  /\ UNCHANGED <<env, invalidLine, try>>

(* Mutant: the cache of the previous file type is kept.                    *)
KeepCache == invalidLine' = 0 /\ valid' = 0 /\ try' = NoTry
             /\ UNCHANGED <<first, phase, mode, where, tree, matchend, found,
                            trace, frames, filled, breaking, handler>>

(* clearCache: the parser starts over, and its client with it.             *)
ClearCache ==
  /\ cache' = EmptyCache
  /\ invalidLine' = 0 /\ valid' = 0 /\ try' = NoTry
  /\ UNCHANGED <<first, phase, mode, where, parent, forward, matchend, found, trace,
                 frames, filled, breaking, handler>>

(* setFileType takes the type's base scheme and clears the cache.          *)
SetFileType ==
  /\ phase = "idle"
  /\ baseScheme' = Base
  /\ ClearCache
  /\ UNCHANGED env

(* An edit that only makes the client forget what it knew below the line,  *)
(* and a change of what the line source can deliver.                       *)
Edit(l, line, gone) ==
  /\ phase = "idle"
  /\ text' = [text EXCEPT ![l] = line] /\ missing' = gone
  /\ invalidLine' = IF l < invalidLine THEN l ELSE invalidLine
  /\ valid' = IF l < valid THEN l ELSE valid
  /\ try' = NoTry
  /\ UNCHANGED <<first, phase, mode, where, tree, matching, frames, filled,
                 breaking, handler>>

(* An edit of one valid line, answered by tryParseLine(l).                 *)
TryParseLine(l, line) ==
  /\ phase = "idle" /\ l < invalidLine
  /\ text' = [text EXCEPT ![l] = line]
  /\ LET after == SearchLine(cache, l + 1)
         once == Searched(cache, l + 1)
         before == SearchLine(once, l)
     IN  /\ try' = [on |-> TRUE, mismatch |-> FALSE,
                    stack |-> OpenLevels(once, before),
                    expected |-> OpenLevels(cache, after), result |-> "none",
                    sure |-> l < valid]
         /\ StartParse(Searched(once, l), l, 1, "read")
  /\ UNCHANGED <<missing, invalidLine, valid>>

(* breakParse, from another thread, at any time.                           *)
BreakParse ==
  /\ Breaking
  /\ breaking' = TRUE
  /\ UNCHANGED <<env, client, phase, mode, where, tree, matching, frames,
                 filled, handler, try>>

-----------------------------------------------------------------------------
(* One level of parse()'s loop: forget what the cache holds after the      *)
(* starting point, then colour the rest of block parent.                   *)

(* Mutant: children of a node with no child before the line are kept.      *)
DropOnlyNext(t, p, k) == IF k = 0 THEN t ELSE DropNext(t, Append(p, k))

DropStale(t, p, k) == IF k = 0 THEN DropChildren(t, p)
                      ELSE DropNext(t, Append(p, k))

StartLevel ==
  /\ phase = "level"
  /\ cache' = IF mode = "update" THEN DropStale(cache, parent, forward) ELSE cache
  /\ baseScheme' = cache[parent].block
  /\ trace' = IF parent = Root THEN trace
              ELSE [trace EXCEPT ![cache[parent].block] = cache[parent].sym]
  /\ phase' = "line"
  /\ UNCHANGED <<env, client, mode, where, parent, forward, matchend, found,
                 frames, filled, breaking, handler, try>>

(* root_end_re of the running colorize(): the end of the innermost block   *)
(* entered by searchBL, or of the block parse() resumed; Base has none.    *)
EndBlock == IF frames = <<>> THEN cache[parent].block ELSE Last(frames).block

EndsAhead == IF EndBlock = Base THEN {}
             ELSE EndsFrom(EndBlock, trace[EndBlock], text[cur], gx)

(* Mutant: the last end on the line instead of the first.                  *)
Greedy(S) == CHOOSE i \in S : \A j \in S : j <= i

First(S) == CHOOSE i \in S : \A j \in S : i <= j

LinesExhausted ==
  /\ phase = "line" /\ cur >= endl
  /\ phase' = "return"
  /\ UNCHANGED <<env, client, mode, where, tree, matching, frames, filled,
                 breaking, handler, try>>

(* getLine returned null: leave colorize() as if the block had ended.      *)
LineMissing ==
  /\ phase = "line" /\ cur < endl
  /\ clear # cur /\ cur \in missing
  /\ clear' = NoLine /\ endLine' = cur
  /\ phase' = "return"
  /\ UNCHANGED <<env, client, mode, cur, endl, gx, tree, matching, frames,
                 filled, breaking, handler, try>>

(* Mutant: fillInvisibleSchemes stops at the parent.                       *)
InvisibleOuter == [k \in 1..Len(parent) - 1 |-> cache[SubSeq(parent, 1, k)].block]

(* The pseudo enterScheme calls of fillInvisibleSchemes.                   *)
Invisible == [k \in 1..Len(parent) |-> cache[SubSeq(parent, 1, k)].block]

LineBegin ==
  /\ phase = "line" /\ cur < endl
  /\ clear = cur \/ cur \notin missing
  /\ clear' = cur /\ endLine' = cur
  /\ filled' = TRUE
  /\ handler' = IF filled THEN handler ELSE handler \o Invisible
  /\ found' = (EndsAhead # {})
  /\ matchend' = IF EndsAhead # {}
                 THEN [s |-> First(EndsAhead), e |-> First(EndsAhead) + 1]
                 ELSE [s |-> Len(text[cur]), e |-> Len(text[cur])]
  /\ phase' = "scan"
  /\ UNCHANGED <<env, client, mode, cur, endl, gx, tree, trace, baseScheme,
                 frames, breaking, try>>

-----------------------------------------------------------------------------
(* The inner loop of colorize(): searchMatch at gx. *)

Scanning == phase = "scan" /\ gx <= matchend.s /\ ~breaking

Hits == NodeAt(baseScheme, text[cur], gx, matchend.s)
Hit == SearchMatch(baseScheme, text[cur], gx, matchend.s)

(* The end found before gx ran past it is no end any more: LINE_REPARSE.   *)
PhaseAt(pos, stop) == IF stop < pos THEN "line" ELSE "scan"

(* No node matches here. *)
ScanNothing ==
  /\ Scanning /\ Hits = {}
  /\ gx' = gx + 1
  /\ UNCHANGED <<env, client, phase, mode, cur, endl, clear, endLine, tree,
                 matching, frames, filled, breaking, handler, try>>

(* searchRE *)
ScanRegexp ==
  /\ Scanning /\ Hits # {} /\ Hit \in Regexps
  /\ gx' = gx + Width(Hit)
  /\ phase' = PhaseAt(gx + Width(Hit), matchend.s)
  /\ UNCHANGED <<env, client, mode, cur, endl, clear, endLine, tree,
                 matching, frames, filled, breaking, handler, try>>

(* What searchBL keeps over its call of colorize(): the start match, and   *)
(* the members it puts back.                                               *)
FrameOf(block, sym) ==
  [block |-> block, sym |-> sym, pos |-> gx, line |-> cur, scheme |-> baseScheme,
   matchend |-> matchend, found |-> found, trace |-> trace[block],
   forward |-> forward]

(* searchBL up to its call of colorize().  Past MAX_RECURSION_LEVEL that   *)
(* call returns at once and leaves matchend as it is.  A start match       *)
(* consumes a symbol, so the zero-length block of the code cannot occur.   *)
EnterBlock ==
  /\ Scanning /\ Hits # {} /\ Hit \in Blocks
  /\ LET sym == text[cur][gx + 1]
         node == NewNode(Hit, sym, gx, cur)
     IN  /\ IF mode = "update"
            THEN /\ cache' = Link(cache, parent, forward, node)
                 /\ parent' = Append(parent, forward + 1) /\ forward' = 0
            ELSE UNCHANGED tree
         /\ frames' = Append(frames, FrameOf(Hit, sym))
         /\ trace' = [trace EXCEPT ![Hit] = sym]
         /\ baseScheme' = Hit
         /\ handler' = Append(handler, Hit)
         /\ try' = IF try.on
                   THEN [try EXCEPT !.stack = Append(@, Level(node))] ELSE try
  /\ gx' = gx + 1
  /\ phase' = IF Len(frames) + 1 > MaxRecursion THEN "return" ELSE "line"
  /\ UNCHANGED <<env, client, mode, cur, endl, clear, endLine, matchend, found,
                 filled, breaking>>

(* The position ran past the end match: colorize() returns.  A traced      *)
(* parse takes the block parse() resumed off its own stack.                *)
EndOfBlock ==
  /\ phase = "scan" /\ found
  /\ gx > matchend.s \/ breaking
  /\ cur' = IF gx > matchend.s THEN cur ELSE endl
  /\ phase' = "return"
  /\ try' = IF ~try.on \/ frames # <<>> THEN try
            ELSE IF try.stack = <<>> THEN [try EXCEPT !.mismatch = TRUE]
            ELSE [try EXCEPT !.stack = Front(@)]
  /\ UNCHANGED <<env, client, mode, endl, gx, clear, endLine, tree, matching,
                 frames, filled, breaking, handler>>

(* The position ran past the end of the line, or the parse is broken off.  *)
NextLine ==
  /\ phase = "scan" /\ ~found
  /\ gx > matchend.s \/ breaking
  /\ cur' = (IF gx > matchend.s THEN cur ELSE endl) + 1
  /\ gx' = 0
  /\ phase' = "line"
  /\ UNCHANGED <<env, client, mode, endl, clear, endLine, tree, matching,
                 frames, filled, breaking, handler, try>>

-----------------------------------------------------------------------------
(* Mutant: leaveScheme is reported at the end of the range as well.        *)
LeftAlways(h) == IF h # <<>> THEN Front(h) ELSE h

(* leaveScheme is reported unless the range ended inside the block.        *)
Left(h) == IF cur < endl /\ h # <<>> THEN Front(h) ELSE h

(* The node of the block that searchBL returns from: a block that ended on *)
(* the line it began on is deleted again.                                  *)
Settle(t, p, k, line) ==
  IF line = cur THEN DropKidsAfter(t, Front(p), k)
  ELSE [t EXCEPT ![p].eline = cur]

(* Mutant: the outer block's back trace is not put back.                   *)
TraceKept(f) == trace

(* The back trace the end expression held before this block used it.       *)
Restored(f) == [trace EXCEPT ![f.block] = f.trace]

(* searchBL after its call of colorize(), and the turn of the caller's     *)
(* inner loop it returns into.                                             *)
LeaveBlock ==
  /\ phase = "return" /\ frames # <<>>
  /\ LET f == Last(frames)
     IN  /\ try' = IF try.on /\ f.line = cur /\ try.stack # <<>>
                   THEN [try EXCEPT !.stack = Front(@)] ELSE try
         /\ handler' = Left(handler)
         /\ gx' = matchend.e
         /\ trace' = Restored(f)
         /\ matchend' = f.matchend /\ found' = f.found
         /\ baseScheme' = f.scheme
         /\ IF mode = "update"
            THEN /\ cache' = Settle(cache, parent, f.forward, f.line)
                 /\ parent' = Front(parent)
                 /\ forward' = IF f.line = cur THEN f.forward ELSE Last(parent)
            ELSE UNCHANGED tree
         /\ phase' = IF f.line # cur THEN "line"
                     ELSE PhaseAt(matchend.e, f.matchend.s)
  /\ frames' = Front(frames)
  /\ UNCHANGED <<env, client, mode, cur, endl, clear, endLine, filled, breaking>>

(* Mutant: the last line of a resumed block is not recorded.               *)
LeftOpen(t, p) == t

(* parse() after colorize(): close the level and go up to the next.        *)
Closed(t, p) == IF p = Root THEN t ELSE [t EXCEPT ![p].eline = cur]

LeaveLevel ==
  /\ phase = "return" /\ frames = <<>> /\ parent # Root
  /\ cache' = IF mode = "update" THEN Closed(cache, parent) ELSE cache
  /\ handler' = Left(handler)
  /\ gx' = matchend.e
  /\ forward' = Last(parent) /\ parent' = Front(parent)
  /\ phase' = "level"
  /\ UNCHANGED <<env, client, mode, cur, endl, clear, endLine, matching,
                 frames, filled, breaking, try>>

Verdict ==
  IF ~try.mismatch /\ SameLevels(try.stack, try.expected) THEN "kept" ELSE "lost"

(* What the client makes of the answer: the line after the last one is the *)
(* first invalid one, or the line tried if it was lost.                    *)
NextInvalid ==
  IF mode = "update" THEN endLine + 1
  ELSE IF try.on /\ Verdict = "lost" THEN endLine ELSE invalidLine

(* History.  The last line was not read to its end: getLine returned null  *)
(* for it, or breakParse stopped the parse.                                *)
Torn == clear = NoLine \/ breaking

(* History: the lines whole parses have reached.  A parse of whole lines   *)
(* reaches the line after its last one; one that began at a line nobody    *)
(* had reached adds none.                                                  *)
Reached ==
  IF mode = "update"
  THEN IF first > valid THEN valid ELSE IF Torn THEN endLine ELSE endLine + 1
  ELSE IF try.on /\ try.sure /\ (Torn \/ Verdict = "lost") THEN endLine ELSE valid

(* parse() returns, and with it tryParseLine.                              *)
Finish ==
  /\ phase = "return" /\ frames = <<>> /\ parent = Root
  /\ gx' = matchend.e
  /\ phase' = "idle"
  /\ invalidLine' = NextInvalid
  /\ valid' = Reached
  /\ try' = IF try.on
            THEN [NoTry EXCEPT !.expected = try.expected, !.result = Verdict,
                               !.sure = try.sure /\ ~Torn]
            ELSE NoTry
  /\ UNCHANGED <<env, first, mode, cur, endl, clear, endLine, tree, matching,
                 frames, filled, breaking, handler>>

-----------------------------------------------------------------------------
Step ==
  \/ StartLevel \/ LinesExhausted \/ LineMissing \/ LineBegin
  \/ ScanNothing \/ ScanRegexp \/ EnterBlock \/ EndOfBlock \/ NextLine
  \/ LeaveBlock \/ LeaveLevel \/ Finish

Client ==
  \/ \E from, num \in 0..LineCount, m \in Modes :
        num > 0 /\ Parse(from, num, m)
  \/ SetFileType
  \/ \E l \in LineNos, line \in Lines, gone \in Unavailable : Edit(l, line, gone)
  \/ \E l \in LineNos, line \in Lines : TryParseLine(l, line)
  \/ BreakParse

Next == Step \/ Client

Spec == Init /\ [][Next]_vars /\ WF_vars(Step)

-----------------------------------------------------------------------------
(* Properties. *)

Open == OpenAt(text, LineCount)

BlocksOf(levels) == [k \in DOMAIN levels |-> levels[k].block]

OpenFieldTypes == [block : Schemes, sym : Symbols \cup {NoSym}, pos : Nat]

FrameTypes == [block : Blocks, sym : Symbols, pos : Nat, line : Nat,
               scheme : Schemes, matchend : [s : Nat, e : Nat], found : BOOLEAN,
               trace : Symbols \cup {NoSym}, forward : Nat]

(* The shape of the state: what the client sees of it, the members of the  *)
(* running parse, and the pointers into the cache (parent is a live node   *)
(* and the tree is closed under parents).                                  *)
ClientTypes ==
  /\ text \in [LineNos -> Lines] /\ missing \in Unavailable
  /\ invalidLine \in 0..LineCount /\ valid \in 0..LineCount /\ first \in 0..LineCount
  /\ try \in [on : BOOLEAN, mismatch : BOOLEAN, stack : Seq(OpenFieldTypes),
              expected : Seq(OpenFieldTypes), result : {"none", "kept", "lost"},
              sure : BOOLEAN]

RunTypes ==
  /\ phase \in {"idle", "level", "line", "scan", "return"}
  /\ mode \in {"off", "read", "update"} /\ found \in BOOLEAN /\ filled \in BOOLEAN
  /\ breaking \in BOOLEAN
  /\ cur \in Nat /\ endl \in 0..LineCount /\ gx \in Nat
  /\ clear \in LineNos \cup {NoLine} /\ endLine \in LineNos
  /\ baseScheme \in Schemes /\ matchend \in [s : Nat, e : Nat]
  /\ trace \in [Blocks -> Symbols \cup {NoSym}]
  /\ frames \in Seq(FrameTypes)
  /\ handler \in Seq(Schemes)

CacheTypes ==
  /\ DOMAIN cache \subseteq Seq(Nat \ {0})
  /\ \A p \in DOMAIN cache :
       /\ p # Root => Front(p) \in DOMAIN cache
       /\ cache[p] \in [sline : Nat, eline : Nat, block : Schemes,
                        sym : Symbols \cup {NoSym}, pos : Nat, cursor : Nat]
       /\ (cache[p].block = Base) = (p = Root)
  /\ parent \in DOMAIN cache /\ forward \in Nat

TypeOK == ClientTypes /\ RunTypes /\ CacheTypes

(* Looking line l up in the cache gives the blocks that are really open at *)
(* its start, as the whole text before it determines them.                 *)
KnowsLine(l) == SameLevels(OpenLevels(cache, SearchLine(cache, l)), Open[l])

(* What incremental parsing rests on: whatever the history of parses,      *)
(* edits and traced re-parses, of null lines and broken parses, the cache  *)
(* knows every line that whole parses have reached.  It holds in the       *)
(* middle of a parse as well, for the lines up to the one it began at; and *)
(* a parse that began at a line nobody had reached spoils none of them.    *)
CacheCorrect ==
  \A l \in 0 .. (IF try.on /\ try.sure THEN endl - 1 ELSE valid) : KnowsLine(l)

(* "invalidLine is the first stale line" (BaseEditor.cpp:4): between two   *)
(* parses, when every line can be read, the cache knows the lines up to    *)
(* it.  So it is where getLine never refuses a line and no parse is        *)
(* broken.  In general it is not: BaseEditor also takes the line after one *)
(* that was refused, or in which a broken parse stopped, for known         *)
(* (BaseEditor.cpp:432, :508).                                             *)
InvalidIsFirstStale ==
  phase = "idle" /\ missing = {} => \A l \in 0..invalidLine : KnowsLine(l)

(* "Siblings are ordered by sline and do not overlap", and children lie    *)
(* within their parent: what searchLine's cursor walk presumes.  (Between  *)
(* two levels of parse() the siblings behind the level just closed are     *)
(* stale; the next level deletes them first.)                              *)
SiblingsOrdered ==
  phase # "level" => \A p \in DOMAIN cache \ {Root} :
    /\ cache[p].sline >= cache[Front(p)].sline
    /\ Last(p) > 1 =>
         LET q == [p EXCEPT ![Len(p)] = @ - 1]
         IN  q \in DOMAIN cache /\ cache[q].eline < cache[p].sline

(* The search cursor of a node points at one of its living children.       *)
CursorLive ==
  \A p \in DOMAIN cache :
    cache[p].cursor # 0 => Append(p, cache[p].cursor) \in DOMAIN cache

(* New nodes are hung behind the last child, so that overwriting a next or *)
(* children pointer never loses a subtree.                                 *)
NothingLeaked ==
  mode = "update" /\ phase \in {"line", "scan", "return"} =>
    KidsAfter(cache, parent, forward) = {}

(* A region handler sees properly nested schemes: every leaveScheme closes *)
(* the scheme it entered last, real or invisible, and never the background *)
(* that startParsing put at the bottom.                                    *)
LeavesMatch ==
  phase = "return" /\ cur < endl /\ (frames # <<>> \/ parent # Root) =>
    Len(handler) > 1 /\ Last(handler) = EndBlock

(* When a parse of whole lines from a line that had been reached is over,  *)
(* the schemes its handler has not been told to leave are the blocks open  *)
(* at the start of the next line.                                          *)
HandlerAgrees ==
  phase = "return" /\ frames = <<>> /\ parent = Root /\ ~Torn
    /\ first <= valid /\ mode # "off" =>
    handler = <<Base>> \o BlocksOf(Open[endLine + 1])

(* An end expression is a single object shared by all blocks of its kind,  *)
(* nested ones included: whenever it is searched for, the back trace it    *)
(* holds is the start match of the innermost of them.                      *)
BackTraceOwn ==
  phase = "line" /\ EndBlock # Base =>
    trace[EndBlock] = IF frames = <<>> THEN cache[parent].sym ELSE Last(frames).sym

(* tryParseLine answers yes exactly when the edited line leaves the same   *)
(* blocks open, entered at the same positions and by the same text where   *)
(* their ends depend on it; where the cache knew the line after it, and    *)
(* the line was read to its end.                                           *)
TryExact ==
  phase = "idle" /\ try.result # "none" /\ try.sure =>
    (try.result = "kept") =
      LET now == Open[endLine + 1]
      IN  /\ Len(now) = Len(try.expected)
          /\ \A k \in DOMAIN now :
               /\ now[k].block = try.expected[k].block
               /\ now[k].pos = try.expected[k].pos
               /\ now[k].block \in BackTraced => now[k].sym = try.expected[k].sym

(* Every parse comes to an end.                                            *)
ParseReturns == phase # "idle" ~> phase = "idle"
=============================================================================
