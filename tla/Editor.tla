------------------------------- MODULE Editor -------------------------------
(***************************************************************************)
(* The text editor's side of Colorer: BaseEditor, which parses no more     *)
(* than it is asked to show, the ring of coloured lines it paints, the     *)
(* outliner that listens to the parser, and FarEditor, which drives them   *)
(* from the host's events.  Everything runs on the host's thread: an       *)
(* event is handled to its end before the next.  A redraw asks for the     *)
(* visible lines one by one and then for the pair under the cursor; each   *)
(* such request is a step.                                                 *)
(*                                                                         *)
(* The parser is abstract.  A line is one of a few kinds, a block opens    *)
(* and closes by a kind of line, and the parse cache is what it knows of   *)
(* every line: the number of blocks open at its start (TextParser shows    *)
(* how the real cache finds that out).                                     *)
(***************************************************************************)
EXTENDS LineRegions, FiniteSets

CONSTANTS
  Texts,      \* the texts a file is opened with
  MaxLines,   \* bound: lines of a text
  MaxDepth,   \* blocks nest this deep in the language
  Heights,    \* heights of the editor window, WindowSizeY
  StartSize,  \* the window size BaseEditor is made with (20)
  BackParses, \* values of the backparse parameter of file types
  Budgets,    \* lines an idle parse takes at once, IDLE_PARSE(time)
  MaxEdits,   \* bound: edits of the text
  MaxViews    \* bound: other actions of the user

Kinds == {"plain", "open", "close", "item"}
Levels == 0 .. MaxDepth

ASSUME EditorAssumption ==
  /\ MaxLines \in Nat \ {0} /\ MaxDepth \in Nat
  /\ Heights \subseteq Nat \ {0} /\ Heights # {} /\ StartSize \in Nat \ {0}
  /\ BackParses \subseteq Int /\ BackParses # {} /\ Budgets \subseteq Nat
  /\ MaxEdits \in Nat /\ MaxViews \in Nat
  /\ Texts # {} /\ \A t \in Texts : t \in Seq(Kinds) /\ Len(t) \in 1 .. MaxLines

VARIABLES
  text, top, height, cursor, block,      \* the host's editor; block: first
                                         \* line of the selection, or -1
  prevLine, blockTop,                    \* FarEditor::prevLinePosition, blockTopPosition
  invalidLine, wStart, wSize, lineCount, backParse, \* BaseEditor
  lrSize, firstLine, slots,              \* the ring
  starts,                                \* the parse cache
  outline, modifiedLine,                 \* Outliner
  pc, shown, search, startInvalid,       \* the event being handled
  menu,                                  \* where the cursor was when the
                                         \* outline was listed, or NoMenu
  edits, views,
  untold,                                \* history: lines the outliner knew were
                                         \* changed, and nobody told it
  stretched                              \* history: the window was made higher

host == <<text, top, height, cursor, block>>
far == <<prevLine, blockTop>>
window == <<wStart, wSize, lineCount>>
ring == <<lrSize, firstLine, slots>>
listener == <<outline, modifiedLine>>
engine == <<invalidLine, backParse, window, ring, starts, listener>>
rest == <<search, startInvalid, menu>>
event == <<pc, shown, rest>>
history == <<untold, stretched>>
bounds == <<edits, views, history>>
vars == <<host, far, engine, event, bounds>>

LineNos == 0 .. MaxLines - 1
Kind(l) == text[l + 1]
NoMenu == [line |-> -1, top |-> -1]

-----------------------------------------------------------------------------
(* The language, as the parser reports it. *)

Opens(kind, d) == kind = "open" /\ d < MaxDepth
Closes(kind, d) == kind = "close" /\ d > 0

DepthAfter(kind, d) ==
  IF Opens(kind, d) THEN d + 1 ELSE IF Closes(kind, d) THEN d - 1 ELSE d

(* The blocks open at the start of each line, if d were at from.           *)
DepthFrom(from, d, to) ==
  LET f[l \in from .. to] == IF l = from THEN d ELSE DepthAfter(Kind(l - 1), f[l - 1])
  IN  f

EnterBlock(h, s) == EnterScheme(h, s, "block", Len(h.stack))

(* The blocks open at the start of the line a parse begins with are        *)
(* entered first, at no width: fillInvisibleSchemes.                       *)
OpenBlocks(d) ==
  [stack |-> <<Background>> \o [i \in 1 .. d |-> [region |-> "block", scheme |-> i]],
   line |-> [i \in 1 .. d + 1 |->
               LET bg == IF i = 1 THEN Background ELSE [region |-> "block", scheme |-> i - 1]
               IN  [Flow(bg, 0) EXCEPT !.end = IF i = d + 1 THEN -1 ELSE 0]],
   flow |-> d + 1]

Painted(h, kind) ==
  LET d == Len(h.stack) - 1
  IN  IF Opens(kind, d)
      THEN AddRegion(EnterBlock(h, 1), 1, 2, "PairStart", TRUE)
      ELSE IF Closes(kind, d)
      THEN LeaveScheme(AddRegion(h, 1, 2, "PairEnd", TRUE), 2)
      ELSE IF kind = "item" THEN AddRegion(h, 1, 2, "Outlined", FALSE)
      ELSE h

(* What a line looks like in the middle of a parse: the schemes open at    *)
(* its start are those the lines before it left open.                      *)
ReferenceLine(l, d) == Painted(ClearLine(OpenBlocks(d)), Kind(l)).line

(* A null Region* is no pair's, and an empty slot no line's.               *)
ASSUME NamesAssumption == NoRegion \notin {"PairStart", "PairEnd"}
ASSUME NullAssumption ==
  \A d \in Levels, kind \in Kinds :
    Null \notin {Painted(OpenBlocks(d), kind).line, Painted(ClearLine(OpenBlocks(d)), kind).line}

(* The regions of the lines of a parse, depth being those of their starts. *)
PaintedFrom(from, depth, to) ==
  [l \in from .. to |->
     IF l = from THEN Painted(OpenBlocks(depth[l]), Kind(l)).line
     ELSE ReferenceLine(l, depth[l])]

-----------------------------------------------------------------------------
(* Outliner. *)

ItemsOf(from, depth, to) ==
  LET ls == Only([i \in 1 .. to - from |-> from + i - 1],
                 {l \in from .. to - 1 : Kind(l) = "item"})
  IN  [i \in DOMAIN ls |-> [lno |-> ls[i], level |-> depth[ls[i]]]]

(* modifyEvent: the first item at or after topLine and all after it go.    *)
OutlineBefore(items, topLine) ==
  LET late == {i \in DOMAIN items : items[i].lno >= topLine}
  IN  IF late = {} THEN items
      ELSE SubSeq(items, 1, (CHOOSE i \in late : \A j \in late : i <= j) - 1)

(* Mutant: the last line known is reported again, and the next one lost.   *)
NewItemsAfter(items, modified) == Only(items, {it \in ToSet(items) : it.lno > modified})

(* addRegion: a line before modifiedLine is known already.                 *)
NewItems(items, modified) == Only(items, {it \in ToSet(items) : it.lno >= modified})

-----------------------------------------------------------------------------
(* BaseEditor. *)

regionWindow == IF wSize < 1 THEN 1 ELSE wSize
cover == 2 * regionWindow
MinOf(a, b) == IF a < b THEN a ELSE b

(* TextParser::parse(from, to - from): what it reports to the ring and the *)
(* outliner, and what an update leaves in the cache.  Beyond the last line *)
(* parsed only the base scheme is known to be open.  to is never beyond    *)
(* the text: the line count is the host's.                                 *)
Parse(from, to, update, size, first, before) ==
  \E depth \in {DepthFrom(from, starts[from], to)} :
    /\ slots' = Store(before, first, size, PaintedFrom(from, depth, to - 1))
    /\ outline' = outline \o NewItems(ItemsOf(from, depth, to), modifiedLine)
    /\ modifiedLine' = IF modifiedLine < to - 1 THEN to ELSE modifiedLine
    /\ IF update
       THEN /\ starts' = [l \in 0 .. MaxLines |->
                            IF l <= from THEN starts[l] ELSE IF l <= to THEN depth[l] ELSE 0]
            /\ invalidLine' = to
       ELSE UNCHANGED <<starts, invalidLine>>

(* validate(lno, false): warm the cache up to lno, without the ring moving *)
(* (the lines that fall into it are painted all the same).                 *)
ValidateCache(lno) ==
  LET l == IF lno = -1 \/ lno > lineCount THEN lineCount - 1 ELSE lno
      to == MinOf(l + 1, lineCount)
  IN  /\ UNCHANGED <<window, lrSize, firstLine, backParse>>
      /\ IF to > invalidLine
         THEN Parse(invalidLine, to, TRUE, lrSize, firstLine, slots)
         ELSE UNCHANGED <<slots, outline, modifiedLine, starts, invalidLine>>

(* The window position, the ring's first line and the lines to parse, of   *)
(* which an update is made if they begin or end at invalidLine or beyond.  *)
Layout(lno) ==
  LET grown == lrSize < cover
      start == IF lno < wStart \/ lno > wStart + wSize THEN lno ELSE wStart
      moved == grown \/ start < firstLine \/ start + wSize > firstLine + cover
      newFirst == (start \div regionWindow) * regionWindow
      oneUp == ~grown /\ firstLine - newFirst = regionWindow
      from == IF moved THEN newFirst ELSE wStart + wSize
      to == IF moved THEN newFirst + cover - (IF oneUp THEN regionWindow - 1 ELSE 0)
            ELSE IF invalidLine = 0 THEN firstLine + cover
            ELSE wStart + wSize
  IN  [start |-> start,
       size |-> IF grown THEN 3 * regionWindow ELSE lrSize,
       first |-> IF moved THEN newFirst ELSE firstLine,
       from |-> from, to |-> to,
       update |-> (~moved /\ invalidLine <= to) \/ invalidLine <= from]

(* validate(lno, true): move the window to lno if it is elsewhere, relay   *)
(* the ring when the window left it, and parse what is missing.            *)
ValidateRegions(lno) ==
  LET l == IF lno = -1 \/ lno > lineCount THEN lineCount - 1 ELSE lno
      before(size) == IF lrSize < cover THEN EmptyRing(size) ELSE slots
  IN  \E lay \in {Layout(l)} :
        /\ wStart' = lay.start /\ lrSize' = lay.size /\ firstLine' = lay.first
        /\ UNCHANGED <<wSize, lineCount, backParse>>
        /\ \E from \in {IF lay.update THEN invalidLine ELSE lay.from} :
             IF MinOf(lay.to, lineCount) > from
             THEN Parse(from, MinOf(lay.to, lineCount), lay.update, lay.size, lay.first,
                        before(lay.size))
             ELSE /\ slots' = before(lay.size)
                  /\ UNCHANGED <<outline, modifiedLine, starts, invalidLine>>

(* getLineRegions(lno): too far behind the valid part, nothing is parsed.  *)
TooFar(lno) == backParse > 0 /\ lno - invalidLine > backParse

Request(lno) ==
  IF TooFar(lno)
  THEN UNCHANGED engine
  ELSE ValidateRegions(lno)

Answer(lno) ==
  IF TooFar(lno) THEN Null ELSE GetLineRegions(slots', firstLine', lrSize', lno)

-----------------------------------------------------------------------------
(* FarEditor: the host's events. *)

(* The host puts the cursor on a line and scrolls it into the window.      *)
Scrolled(c, h) == IF c < top THEN c ELSE IF c >= top + h THEN c - h + 1 ELSE top

MaxOf(a, b) == IF a > b THEN a ELSE b

(* The plugin puts it on a line in the middle of the window (a line behind *)
(* the end is the last one to the host: searchPair reads on in the ring).  *)
Centred(lno) ==
  /\ cursor' = MinOf(lno, Len(text) - 1) /\ top' = MaxOf(0, cursor' - height \div 2)
  /\ UNCHANGED <<text, height, block>>

(* matchPair does so only if the line is not in sight.                     *)
MoveTo(lno) ==
  IF lno < top \/ lno > top + height THEN Centred(lno)
  ELSE /\ cursor' = MinOf(lno, Len(text) - 1) /\ top' = Scrolled(cursor', height)
       /\ UNCHANGED <<text, height, block>>

(* modifyEvent(topLine) *)
ModifyEvent(topLine) ==
  IF invalidLine > topLine
  THEN /\ invalidLine' = topLine
       /\ outline' = OutlineBefore(outline, topLine) /\ modifiedLine' = topLine
  ELSE UNCHANGED <<invalidLine, outline, modifiedLine>>

(* Mutant: the line above the change is taken from the cursor alone.       *)
TopOfCursor == MaxOf(0, cursor' - 1)

(* The first line a change may have touched, as a redraw guesses it.       *)
TopOfChange ==
  LET ml == MaxOf(0, MinOf(prevLine, cursor') - 1)
  IN  IF blockTop # -1 THEN MinOf(ml, blockTop) ELSE ml

(* History: what was changed is not valid yet, so no listener is told; but *)
(* a parse for the screen has gone on to there, and the outliner with it.  *)
Untold(topLine) ==
  /\ invalidLine <= topLine
  /\ modifiedLine > topLine \/ \E item \in ToSet(outline) : item.lno >= topLine

(* EE_REDRAW up to the drawing of the first line.                          *)
StartDrawing(change) ==
  /\ untold' = (untold \/ (change /\ Untold(TopOfChange)))
  /\ pc' = "draw" /\ shown' = <<>>
  /\ wStart' = top' /\ wSize' = height' /\ lineCount' = Len(text')
  /\ IF change THEN ModifyEvent(TopOfChange) ELSE UNCHANGED <<invalidLine, listener>>
  /\ prevLine' = cursor' /\ blockTop' = block'
  /\ UNCHANGED <<ring, starts, backParse, search, startInvalid>>

(* With no menu of the plugin on the screen.                               *)
BeginRedraw(change) == StartDrawing(change) /\ menu' = NoMenu

(* Where control goes after a redraw.                                      *)
redrawn == IF menu = NoMenu THEN "idle" ELSE "list"

DrawLine ==
  LET lno == top + Len(shown)
  IN  /\ pc = "draw"
      /\ IF Len(shown) < height /\ lno < Len(text)
         THEN Request(lno) /\ shown' = Append(shown, Answer(lno)) /\ pc' = pc
         ELSE /\ pc' = "pair" /\ UNCHANGED shown
              /\ UNCHANGED engine
      /\ UNCHANGED <<host, far, rest, bounds>>

-----------------------------------------------------------------------------
(* Pairs. *)

Tokens(line) == {r \in ToSet(line) : r.region \in {"PairStart", "PairEnd"}}
PairsOf(line) == IF line = Null THEN <<>> ELSE Only(line, Tokens(line))

(* The last line a pair is searched on for drawing.                        *)
getLastVisibleLine == MinOf(wStart + wSize, lineCount) - 1

(* getPairMatch on the cursor's line; a line of the model has one token.   *)
(* A pair is searched for to be drawn, to move to or to be selected.       *)
BeginSearch(goal) ==
  LET pairs == PairsOf(Answer(cursor))
  IN  /\ Request(cursor)
      /\ IF pairs = <<>>
         THEN pc' = (IF goal = "draw" THEN redrawn ELSE "menu") /\ UNCHANGED search
         ELSE /\ pc' = "search"
              /\ search' = [goal |-> goal, line |-> cursor, lno |-> cursor,
                            bal |-> IF Last(pairs).region = "PairStart" THEN 1 ELSE -1,
                            down |-> Last(pairs).region = "PairStart",
                            lo |-> IF goal = "draw" THEN wStart ELSE 0,
                            hi |-> IF goal = "draw" THEN getLastVisibleLine ELSE lineCount,
                            eline |-> -1]
      /\ UNCHANGED <<host, far, shown, startInvalid, menu>>

(* The end of a redraw: the pair under the cursor, if it stands on one.    *)
DrawPair ==
  /\ pc = "pair"
  /\ \/ BeginSearch("draw")
     \/ /\ pc' = redrawn
        /\ UNCHANGED <<host, far, engine, shown, rest>>
  /\ UNCHANGED bounds

(* Mutant: a token on the way ends the search, whichever way it points.    *)
WeighOpposite(bal, line) == IF line = <<>> THEN bal ELSE 0

Weigh(bal, line) ==
  bal + Cardinality({i \in DOMAIN line : line[i].region = "PairStart"})
      - Cardinality({i \in DOMAIN line : line[i].region = "PairEnd"})

(* searchPair, one line further.                                           *)
SearchStep ==
  LET next == search.lno + (IF search.down THEN 1 ELSE -1)
      bal == Weigh(search.bal, PairsOf(Answer(next)))
  IN  /\ pc = "search"
      /\ IF next < search.lo \/ next > search.hi
         THEN /\ pc' = "found" /\ UNCHANGED search
              /\ UNCHANGED engine
         ELSE /\ Request(next)
              /\ search' = [search EXCEPT !.lno = next, !.bal = bal,
                                          !.eline = IF bal = 0 THEN next ELSE @]
              /\ pc' = IF bal = 0 THEN "found" ELSE pc
      /\ UNCHANGED <<host, far, shown, startInvalid, menu, bounds>>

(* A search for drawing ends the redraw; matchPair moves the cursor to the *)
(* mate, selectPair and selectBlock select from the upper of the two.      *)
EndSearch ==
  /\ pc = "found" /\ UNCHANGED bounds
  /\ \/ /\ search.goal = "draw" \/ search.eline = -1
        /\ pc' = IF search.goal = "draw" THEN redrawn ELSE "menu"
        /\ UNCHANGED <<host, far, engine, shown, rest>>
     \/ /\ search.goal = "move" /\ search.eline # -1
        /\ MoveTo(search.eline) /\ BeginRedraw(FALSE)
     \/ /\ search.goal = "select" /\ search.eline # -1
        /\ block' = MinOf(search.line, search.eline) /\ pc' = "menu"
        /\ UNCHANGED <<text, top, height, cursor, far, engine, shown, rest>>

-----------------------------------------------------------------------------
(* What the user does between two events. *)

(* The first redraw of an opened file.                                     *)
Open == pc = "open" /\ UNCHANGED <<host, bounds>> /\ BeginRedraw(TRUE)

UserActs == pc = "idle" /\ views < MaxViews /\ views' = views + 1 /\ UNCHANGED edits
UserEdits == pc = "idle" /\ edits < MaxEdits /\ edits' = edits + 1 /\ UNCHANGED <<views, stretched>>

(* Scroll, resize the window, move the cursor, select a block ending at it. *)
View(t, h, c, b) ==
  /\ UserActs /\ stretched' = (stretched \/ h > height)
  /\ t <= c /\ c < t + h /\ c < Len(text) /\ b <= c
  /\ top' = t /\ height' = h /\ cursor' = c /\ block' = b /\ UNCHANGED text
  /\ BeginRedraw(FALSE)

(* The text changes and the cursor is left at line c.                      *)
Edited(newText, c) ==
  /\ UserEdits
  /\ text' = newText /\ cursor' = c /\ top' = Scrolled(c, height) /\ block' = -1
  /\ UNCHANGED height
  /\ BeginRedraw(TRUE)

Replace(c, k) == c < Len(text) /\ Edited([text EXCEPT ![c + 1] = k], c)
Split(c, k) ==
  c < Len(text) /\ Len(text) < MaxLines /\ Edited(InsertAt(text, c + 2, k), c + 1)
Join(c) ==
  c < Len(text) /\ Len(text) > 1 /\ Edited(RemoveAt(text, c + 1), MaxOf(0, c - 1))

(* A change of the selected lines: the cursor and the selection stay.      *)
EditBlock(k) ==
  /\ UserEdits /\ block # -1
  /\ text' = [text EXCEPT ![block + 1] = k] /\ UNCHANGED <<top, height, cursor, block>>
  /\ BeginRedraw(TRUE)

MatchPair == UserActs /\ UNCHANGED history /\ BeginSearch("move")

SelectPair == UserActs /\ UNCHANGED history /\ BeginSearch("select")

(* The commands of the plugin's menu; the host redraws when it closes.     *)
(* Some have to know the whole text.                                       *)
WholeText(next) ==
  /\ UserActs /\ UNCHANGED history /\ ValidateCache(-1)
  /\ pc' = next /\ UNCHANGED <<host, far, shown, search, startInvalid>>

(* The word under the cursor is looked for in the outline: the last item   *)
(* with it on another line, else one on this line.                         *)
LocateFunction == WholeText("locate") /\ UNCHANGED menu

Located(named) ==
  LET elsewhere == {i \in named : outline[i].lno # cursor}
  IN  Max(IF elsewhere = {} THEN named ELSE elsewhere)

(* The lines of the items of the outline.                                  *)
Listed == {l \in LineNos : \E i \in DOMAIN outline : outline[i].lno = l}

EndLocate ==
  /\ pc = "locate" /\ UNCHANGED bounds
  /\ \/ \E named \in SUBSET DOMAIN outline \ {{}}, lno \in Listed :
          /\ lno = outline[Located(named)].lno
          /\ Centred(lno) /\ BeginRedraw(FALSE)
     \/ pc' = "menu" /\ UNCHANGED <<host, far, engine, shown, rest>>

-----------------------------------------------------------------------------
(* The list of functions (or errors).  Which items its filter and its      *)
(* level of the tree let through is left open.                             *)

ListFunctions ==
  /\ WholeText(IF outline' = <<>> THEN "menu" ELSE "list")
  /\ menu' = IF outline' = <<>> THEN NoMenu ELSE [line |-> cursor, top |-> top]

InList == pc = "list" /\ UNCHANGED stretched

ChooseFunction ==
  /\ InList /\ UNCHANGED <<edits, views>>
  /\ \E lno \in Listed : Centred(lno) /\ BeginRedraw(FALSE)

(* Ctrl-Up and Ctrl-Down show the next item in the text, under the menu.   *)
Browse ==
  /\ InList /\ views < MaxViews /\ views' = views + 1 /\ UNCHANGED edits
  /\ \E lno \in Listed : Centred(lno) /\ StartDrawing(FALSE) /\ UNCHANGED menu

(* Ctrl-Return puts the name of an item where the cursor is now.           *)
InsertName ==
  /\ InList /\ edits < MaxEdits /\ edits' = edits + 1 /\ UNCHANGED views
  /\ \E k \in Kinds : text' = [text EXCEPT ![cursor + 1] = k]
  /\ UNCHANGED <<top, height, cursor, block>>
  /\ BeginRedraw(TRUE)

(* Without a choice the cursor goes back to where it was.                  *)
LeaveList ==
  /\ InList /\ UNCHANGED <<edits, views>>
  /\ cursor' = menu.line /\ top' = menu.top /\ UNCHANGED <<text, height, block>>
  /\ BeginRedraw(FALSE)

-----------------------------------------------------------------------------
UpdateHighlighting ==
  /\ UserActs /\ UNCHANGED history /\ ValidateRegions(top)
  /\ pc' = "menu" /\ UNCHANGED <<host, far, shown, rest>>

(* selectRegion: a region under the cursor is selected.                    *)
SelectRegion ==
  /\ UserActs /\ UNCHANGED history
  /\ block' = cursor /\ pc' = "menu"
  /\ UNCHANGED <<text, top, height, cursor, far, engine, shown, rest>>

(* reloadTypeSettings: of a type's parameters, backparse is kept here.     *)
ReloadTypeSettings == backParse' \in BackParses

(* setFileType: the parser forgets the text, the outliners their lines.    *)
SetFileType ==
  /\ UserActs /\ untold' = FALSE /\ UNCHANGED stretched
  /\ starts' = [l \in 0 .. MaxLines |-> 0] /\ invalidLine' = 0
  /\ outline' = <<>> /\ modifiedLine' = 0
  /\ ReloadTypeSettings
  /\ pc' = "menu" /\ UNCHANGED <<host, far, window, ring, shown, rest>>

(* setRegionMapper: every line is coloured anew; the outliners are not told. *)
Remap ==
  /\ UserActs /\ UNCHANGED history /\ invalidLine' = 0 /\ pc' = "menu"
  /\ UNCHANGED <<host, far, backParse, window, ring, starts, listener, shown, rest>>

CloseMenu == pc = "menu" /\ UNCHANGED <<host, bounds>> /\ BeginRedraw(FALSE)

(* KEY_IDLE: progressParse parses in steps until its time is over, and     *)
(* redraws if the parser has come by the top or the bottom of the window.  *)
Idle ==
  /\ pc = "idle" /\ invalidLine < lineCount
  /\ pc' = "parse" /\ startInvalid' = invalidLine
  /\ UNCHANGED <<host, far, engine, shown, search, menu, bounds>>

IdleJob(b) ==
  /\ pc = "parse" /\ ValidateCache(invalidLine + b)
  /\ pc' \in IF invalidLine' < lineCount THEN {"parse", "parsed"} ELSE {"parsed"}
  /\ UNCHANGED <<host, far, shown, rest, bounds>>

(* Mutant: a parse that ends right above the line does not count.          *)
PassedBeyond(lno) == startInvalid < lno /\ invalidLine > lno

Passed(lno) == startInvalid < lno /\ invalidLine >= lno

EndIdle ==
  /\ pc = "parsed" /\ UNCHANGED bounds
  /\ IF Passed(top) \/ Passed(top + height)
     THEN UNCHANGED host /\ BeginRedraw(FALSE)
     ELSE pc' = "idle" /\ UNCHANGED <<host, far, engine, shown, rest>>

-----------------------------------------------------------------------------
Init ==
  /\ text \in Texts /\ height \in Heights
  /\ top = 0 /\ cursor = 0 /\ block = -1
  /\ prevLine = 0 /\ blockTop = -1
  /\ invalidLine = 0 /\ backParse \in BackParses /\ wStart = 0 /\ wSize = StartSize /\ lineCount = 0
  /\ lrSize = 3 * StartSize /\ firstLine = 0 /\ slots = EmptyRing(3 * StartSize)
  /\ starts = [l \in 0 .. MaxLines |-> 0]
  /\ outline = <<>> /\ modifiedLine = 0
  /\ pc = "open" /\ shown = <<>> /\ startInvalid = 0
  /\ menu = NoMenu
  /\ search = [goal |-> "draw", line |-> 0, lno |-> 0, bal |-> 0, down |-> FALSE,
               lo |-> 0, hi |-> 0, eline |-> -1]
  /\ edits = 0 /\ views = 0 /\ untold = FALSE /\ stretched = FALSE

(* The event being handled goes on to its end.                             *)
Handle ==
  Open \/ DrawLine \/ DrawPair \/ SearchStep \/ EndSearch \/ EndLocate
  \/ ChooseFunction \/ LeaveList \/ CloseMenu
  \/ (\E b \in Budgets : IdleJob(b)) \/ EndIdle

Next ==
  \/ Handle \/ Idle
  \/ \E t, c \in LineNos, h \in Heights, b \in {-1} \cup LineNos : View(t, h, c, b)
  \/ \E c \in LineNos, k \in Kinds : Replace(c, k) \/ Split(c, k)
  \/ \E c \in LineNos : Join(c)
  \/ \E k \in Kinds : EditBlock(k)
  \/ MatchPair \/ SelectPair \/ SelectRegion \/ LocateFunction
  \/ ListFunctions \/ Browse \/ InsertName \/ UpdateHighlighting \/ SetFileType \/ Remap

(* Handle is enabled exactly while an event is being handled.              *)
Handling == pc # "idle"

(* An event is handled to its end (this is WF_vars(Handle), spelled out),  *)
(* and the host's KEY_IDLE comes as long as the user lets it; nothing      *)
(* makes the user act.                                                     *)
Fairness == ([]<>(~Handling) \/ []<><<Handling>>_vars) /\ WF_vars(Idle)

Spec == Init /\ [][Next]_vars /\ Fairness

-----------------------------------------------------------------------------
(* Properties. *)

TrueDepth == DepthFrom(0, 0, Len(text))

(* "invalidLine is the first stale line" (BaseEditor.cpp:4): the parser    *)
(* knows the true state at the start of every line up to it, whatever was  *)
(* edited, selected, remapped or half parsed before: a redraw guesses the  *)
(* first changed line from where the cursor and the selection were.        *)
CacheKnown ==
  /\ invalidLine <= Len(text)
  /\ \A l \in 0 .. invalidLine : starts[l] = TrueDepth[l]

(* "colored cover is 2*wSize; LineRegion ring is 3*wSize and never shrinks. *)
(* validate(lno, true) paints the cover" (BaseEditor.cpp:5-6): a line is    *)
(* drawn as the text is now, or not coloured at all.                       *)
CoverPainted ==
  \A i \in DOMAIN shown :
    \/ shown[i] = Null
    \/ Drawn(shown[i]) = Drawn(ReferenceLine(top + i - 1, TrueDepth[top + i - 1]))

(* So it is until the window is made higher: the ring is moved, grown and  *)
(* partly refilled, and never gives a line of before.  A ring that holds   *)
(* twice the new height is not painted again, and what lies beyond the     *)
(* cover of the lower window may be any line.                              *)
ShownFresh == ~stretched => CoverPainted

IsOpen(l) == Opens(Kind(l), TrueDepth[l])
IsClose(l) == Closes(Kind(l), TrueDepth[l])
InText(l) == l \in 0 .. Len(text) - 1

(* m closes the block that l opens.                                        *)
Mates(l, m) ==
  /\ l < m /\ IsOpen(l) /\ IsClose(m) /\ TrueDepth[m + 1] = TrueDepth[l]
  /\ \A n \in l + 1 .. m : TrueDepth[n] > TrueDepth[l]
MateOf(l, m) == InText(l) /\ InText(m) /\ (Mates(l, m) \/ Mates(m, l))

(* The pair drawn under the cursor is the true one, and it is found when   *)
(* it is on the screen, of which the ring has to know the lines.           *)
LocalPairRight ==
  pc = "found" /\ search.goal = "draw" /\ ~stretched =>
    IF search.eline # -1 THEN MateOf(search.line, search.eline)
    ELSE \A m \in search.lo .. search.hi : ~MateOf(search.line, m)

(* "Used to create, store and maintain list or tree of different special   *)
(* regions" (Outliner.h:14): the outline of the lines parsed so far names  *)
(* each outlined item of them and its depth, in the order of the text, and *)
(* nothing that was edited away.  An item may be there twice.              *)
OutlineMaintained ==
  LET valid == OutlineBefore(outline, invalidLine)
  IN  /\ ToSet(valid) = ToSet(ItemsOf(0, TrueDepth, invalidLine))
      /\ \A i \in 1 .. Len(valid) - 1 : valid[i].lno <= valid[i + 1].lno

(* So it is, unless lines were changed that are not valid but that a parse *)
(* for the screen had reported: BaseEditor tells nobody of such a change.  *)
OutlineComplete == ~untold => OutlineMaintained

Coloured == \A i \in 1 .. MinOf(height, Len(text) - top) :
              i \in DOMAIN shown /\ shown[i] # Null

(* When the user stops, the whole text is parsed and every line on the     *)
(* screen is coloured: a line refused for being too far is drawn again.    *)
Settles == <>[]((Coloured \/ stretched) /\ invalidLine = lineCount)
=============================================================================
