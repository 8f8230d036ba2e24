# Colorer for Go: formal models

This directory holds TLA+ models of colorer4go: of the Colorer library (the
incremental parser and its cache, schemes, keyword lists, regular expressions,
file types, the HRC library, the editor classes), of the far2l plugin built on
it, of the WebAssembly wrapper and of the Go package. Each model is checked by
TLC on small instances; what matters most and can be proved is proved with
TLAPS for every instance.

Paths are relative to `src/`; `L/` stands for
`colorer/src/Colorer-library/src/colorer/`.

## 1. The system

| part | state | operations | works with |
|---|---|---|---|
| Incremental parser, `L/parsers/TextParserImpl.cpp` | position (`current_parse_line`, `gx`), the end match, the active scheme, a place in the cache (`parent`, `forward`), the C++ call stack | `parse`, `tryParseLine`, `breakParse`, `clearCache`, `setFileType` | asks a `LineSource` for lines, reads schemes, reports to a `RegionHandler`, owns the parse cache |
| Parse cache, `L/parsers/TextParserHelpers.cpp` | a tree of multi-line blocks, a search cursor per node | `searchLine`, `dropChildren`, `dropNext`, linking | used by the parser only |
| Virtual tables (`VTList`) | stack of substitutions | `push`, `pop`, `pushvirt`, `popvirt`, `store`, `restore` | used while inherited schemes are searched |
| Schemes, `L/parsers/SchemeNode.h`, `SchemeImpl.h` | ordered nodes per scheme: regexps, blocks, keywords, inheritance; search lists and first-character tables | read only while parsing; the end expression of a block holds a back trace that parsing sets | built by the HRC library |
| Keyword lists, `L/parsers/KeywordList.cpp` | sorted keywords with the index of each one's longest prefix | sort, index, merge, search | searched by the parser |
| Regular expressions, `L/cregexp/` | a tree of nodes, facts about it, the matcher's stack and counters | compile, match, early rejections | used by schemes and file types |
| HRC library, `L/parsers/HrcLibraryImpl.cpp` | file types and their loading state, regions, schemes, a shared lock | load, import, link, look up | parser holds its shared lock while parsing |
| File types, `L/parsers/FileTypeImpl.cpp`, `FileTypeChooser.cpp` | prototypes in order, choosers, parameters with default and user values | choose, list, set and reset parameters | the library, user's files |
| Catalog and colour styles, `L/parsers/ParserFactoryImpl.cpp`, `L/handlers/RegionMapper.cpp` | styles by class, what a style assigns to regions | enumerate, load, look up with parents | handlers |
| Region handlers, `L/handlers/LineRegionsSupport.cpp` | ring of line regions, pool of recycled ones, stack of schemes, background | callbacks of the parser | wrapper's and editor's handlers derive from it |
| Editor, `L/editor/BaseEditor.cpp`, `Outliner.cpp`, `colorer/src/pcolorer2/FarEditor.cpp` | first invalid line, visible window, ring, outline | `validate`, `idleJob`, `modifyEvent`, pairs, redraw | drives the parser incrementally |
| Far plugin, `colorer/src/pcolorer2/FarEditorSet.cpp` | the loaded base, an instance for every editor and viewer, settings in memory and on disk | events, menus, dialogs | owns editors |
| Wrapper session, `wrapper/colorer_wrapper.cpp` | window of lines, current type, regions of the last line | `colorer_parse_line`, `colorer_select_type`, `colorer_reset_session`, `colorer_forget_before`, ... | drives the parser one new line at a time |
| Go session, `colorer.go` | first failure, reason collected by callbacks, module memory it allocated | every method of `Session`, `NewSession`, `Close` | calls the wrapper; a trap ends the module |
| Set-up, `colorer.go` | process-wide compilation cache, a lock | `NewSession` from many goroutines | wazero |
| Strings, XML, file input, tools | text | | |

What is hard here:

* **Incrementality.** A parse starts in the middle of the text, in blocks that
  the cache says are open, deletes part of the cache and rebuilds it. One wrong
  node shows only after a certain history of edits and partial parses. The
  editor parses no more than it must show, and remembers how far it got.
* **Shared mutable pieces.** All blocks of a kind share one end expression and
  its back trace; sibling lists are reached through a remembered cursor; lists
  are extended by overwriting pointers; regions are recycled with the colours
  they had; counters of repetitions live in the expression.
* **Callbacks in pairs.** Handlers keep stacks and rely on `enterScheme` and
  `leaveScheme` being paired, also where a parse starts or stops inside blocks.
* **Short cuts.** First-character tables, required characters, slices of sorted
  lists, merged keyword lists, expanded inherits: each works out in advance
  what a plain search would find, and loses matches if it is wrong.
* **Recursion through data.** Loading a type loads the types it names, which may
  name it again; inherits nest and replace one another.
* **Failure.** A line source may return null, a parse may be broken off from
  another thread, a file may not load, a call into the module may trap between
  any two others.
* **Lifetimes.** A session frees the text of earlier lines while the parser
  keeps state that refers to them; the plugin frees its base while instances
  point into it.
* **Widths.** A line number crosses Go `int`, `uint32`, C `int` and `size_t`.

What makes each part correct is stated as properties in the modules (section 4)
and listed, hazard by hazard, in `PROJECT.json`.

## 2. Modules

| module | models | stands on |
|---|---|---|
| `ParseCache` | the cache tree and its operations, as operators | |
| `Scheme` | what the parser knows of a language; a reference reading of a text | |
| `TextParser` | the parser with its clients | `Scheme`, `ParseCache` |
| `Colouring` | what a session promises: it colours a stream as if it kept all of it | `Scheme` |
| `Session` | the wrapper's session | instantiates `TextParser` with the lines outside the window missing; instantiates `Colouring` as the specification it implements |
| `HostCalls` | the call protocol of the Go session | |
| `LineRegions` | the handler's ring and the flow of regions, as operators | |
| `Editor` | `BaseEditor`, `FarEditor` and `Outliner` over an abstract parser | `LineRegions` |
| `HrcLibrary` | loading and linking of types, the library's lock, sessions that parse | |
| `RegExp` | compiling and matching of expressions | |
| `Keywords` | keyword lists and their search | |
| `VirtualSchemes` | inherits, virtual tables and search lists | |
| `Matchers` | what the parser tries at a place: one of the three above | `RegExp`, `Keywords`, `VirtualSchemes` |
| `Styles` | colour styles and recycled regions, as operators | |
| `FileTypes` | file types, their choice and parameters, as operators | |
| `SessionApi` | the methods of a Go session and what they answer | `Styles`, `FileTypes` |
| `FarEditorSet` | the plugin: base, instances, settings, dialogs | |
| `SessionParts` | what a session stands on, side by side | `HostCalls`, `Session`, `HrcLibrary` |
| `PluginParts` | the plugin's set of editors and the matchers, side by side | `FarEditorSet`, `Matchers` |
| `MCTextParser`, `MCSession`, `MCHostCalls`, `MCEditor`, `MCHrcLibrary`, `MCMatchers`, `MCRegExpBranch`, `MCSessionApi`, `MCFarEditorSet`, `MCSessionParts`, `MCPluginParts` | the instances TLC checks; the last two put together those of the parts | |
| `TextParser_proofs` | lemmas about the tree operations; theorems about the parser's tree and what its handlers see | `TextParser` |
| `Incremental_proofs` | lemmas about the reference reading of a text; incremental parsing gives what reading the whole text gives | `TextParser_proofs` |
| `Session_proofs` | theorems about the session, up to what it promises its caller | `Session`; instantiates `Incremental_proofs` for the text it was fed |
| `HostCalls_proofs`, `HrcLibrary_proofs`, `Editor_proofs`, `FarEditorSet_proofs`, `SessionApi_proofs` | theorems about the call protocol, loading, the editor, the plugin, the parameters, colours, pairs and outlines a session reports | `HostCalls`, `HrcLibrary`, `Editor`, `FarEditorSet`, `SessionApi` |

How they fit: `TextParser` is the parser itself, and what it guarantees
(`CacheCorrect`: at every line that parses have reached, the blocks open are those
of the whole text) is what `Editor` and `SessionApi` take for their parsers. What
`TextParser` takes as one ordered list of nodes with plain matches is what
`VirtualSchemes` shows the search through inherits to be, and `Keywords` and
`RegExp` show what a node of a list finds. `HrcLibrary` shows that the schemes
are linked when a parse begins.

### TextParser

One step is one turn of a loop of the code. `phase` says where control is:

| phase | place in the code | actions |
|---|---|---|
| idle | outside `parse()` | `Parse`, `TryParseLine`, `Edit`, `SetFileType` |
| level | head of `parse()`'s loop from the starting block to the root | `StartLevel` |
| line | head of `colorize()`'s line loop | `LineBegin`, `LineMissing`, `LinesExhausted` |
| scan | inner loop, `searchMatch` at `gx` | `ScanNothing`, `ScanRegexp`, `EnterBlock`, `EndOfBlock`, `NextLine` |
| return | `colorize()` has returned | `LeaveBlock` (into `searchBL`), `LeaveLevel` and `Finish` (into `parse`) |

`frames` is the C++ stack of nested `searchBL` calls with the locals they
restore. `cache`, `parent` and `forward` are the members of these names, a node
being named by its path from the root; `trace` is the back trace each block's
end expression holds; `handler` is the stack a region handler would keep. The
client is an editor with `BaseEditor`'s `invalidLine`, which after a parse is the
line after the last one (`NextInvalid`), whatever became of that line. It parses
from any line up to there, edits lines, tells the parser of one edited line
(`tryParseLine`), changes the file type, and may break a parse off, or a
`tryParseLine`. The line source may refuse a line and deliver it later.

`invalidLine` is more than the cache can know (`InvalidIsFirstStale`, run
`parser_stale`), so two more variables, on which nothing else depends, keep
what may be relied on: `valid` is how far parses of whole lines have reached, each
from a line that others had reached (`Reached`), and `first` is where the running
parse began. A line that was refused, or torn by a break (`Torn`), ends the reach
of its parse; a parse begun behind `valid` adds nothing to it. The client may
begin anywhere up to `invalidLine` all the same, and the properties are about
those runs as well.

A line is a short sequence of symbols. A block starts with one symbol and ends
with one; which one may depend on the start (a back trace). A regexp takes two
symbols, so that it can run over the end found before it (the code's
`LINE_REPARSE`). Regions, keywords, inheritance with virtual schemes (see
`Keywords`, `VirtualSchemes`) and long lines in chunks are left out here.
`schemeStart` and zero-length blocks are left out too, and low priority is kept
for nodes and not for the content of a block.

The reference is `Scheme!OpenAt`: a push-down automaton that reads the whole
text symbol by symbol, without looking for ends ahead, without a cache and
without a stack of frames.

### Session

`base` and `count` are the window of `WasmLineSource`. Every operation of the
wrapper that touches lines or the parser is an action. The parser is
`TextParser` itself, with `missing` the lines outside the window: the same
definitions that the parser's runs check are the ones the session runs.
`Colouring` is the abstract session. The refinement reads the abstract `open`
from the concrete cache: the blocks the cache says are open at the next line.
`ForgetBefore` and the steps inside a parse are stutters of it.

`CInt` is the journey of the argument of `ForgetBefore`: cut to an unsigned
word, read back as a signed one. `Word` stands for 2^32 and is a constant, so
that a small one shows what the large one does.

### HostCalls

A method is a plan: some blocks to allocate, then calls. Every call may return,
make the method give up early, or trap; when the method returns, by whichever
path, its deferred frees run as calls of their own. `NewSession` is a plan too,
of calls made before there is a session to remember a failure. It throws away
the error of its `colorer_free` calls: `Release` may trap, and `NewSession` goes
on. Three variables are history: `dead` says whether a call trapped, `noticed`
whether one did whose error the code looks at, `ranDead` whether the module was
entered after that.

Assumed: the module's exports are all there (their absence is a build
mismatch); the module leaves an unfinished line on stderr only in a call it
aborts; a module that has trapped unnoticed answers as any other.

### LineRegions and Editor

`LineRegions` is `LineRegionsSupport` as operators: the stack of schemes, the
regions of the line being parsed with the running background (`flow`), and the
ring of lines, indexed modulo its size.

`Editor` is the host's event loop with `FarEditor` behind it. An event is
handled to its end by `Handle` before the next; a redraw asks `BaseEditor` for
the visible lines one by one (`DrawLine`, `Request`, `ValidateCache`) and then
for the pair under the cursor, and each such request is a step, as is each line
of a pair search. `pc` says where the handler is.

| action | code |
|---|---|
| `View` | scrolling, resizing, moving the cursor or the selection |
| `Replace`, `Split`, `Join`, `EditBlock` | edits; `editorEvent` guesses the first changed line from where cursor and selection were |
| `Idle`, `IdleJob`, `EndIdle` | KEY_IDLE: the background parse and the redraw it may cause |
| `MatchPair`, `SelectPair` | a search for the pair beyond the window, to jump to it or to select up to it |
| `SelectRegion` | selects the region under the cursor |
| `LocateFunction`, `EndLocate` | looks for the definition of the word under the cursor |
| `ListFunctions`, `Browse`, `ChooseFunction`, `InsertName`, `LeaveList` | the outline list: moving in it jumps, choosing stays there, inserting puts the name into the text, leaving goes back |
| `UpdateHighlighting`, `SetFileType`, `Remap` | everything parsed again; `setRegionMapper` |
| `ReloadTypeSettings` | `backParse` is read anew from the type's parameters |

The parser is abstract: a line is of one of four kinds (plain, opens a block,
closes one, an item for the outline), and `starts` is what the cache knows of
the depth at the start of every line.

### HrcLibrary

Loading recurses through the names in the files. `stack` is that recursion: one
frame for each call of `parseHRC`, `addType`, `addScheme`, `updateLinks` and
`qualifyForeignName`, with what the call still has to read and what it saved of
its caller (`parseType`, the mode). One `Load` step handles one element of the
innermost frame. `LoadProtoTypes` and `OpenFile` are the host's calls;
`ParseLine`, `ResolveRegions`, `BeginParse` and `EndParse` those of a session.
`writer` and `readers` are the lock. The files of a library are given: types
that import each other, a type in another's file, a file that cannot be parsed,
one without the type it should hold, a package without a file, a prototype that
comes twice.

### RegExp, Keywords, VirtualSchemes, Matchers

`RegExp` compiles a pattern (a sequence of tokens) to a tree (`Structs`,
`setStructs`) and runs `lowParse` as the machine it is: the current node, an
explicit stack of positions to return to, the counters of the repetitions, the
groups, the step limit. Every match is made twice, first without and then with
the early rejections (`QuickCheck`, first characters, anchors, longest match,
required characters, branches). `Ways` is the reference: all the ways a tree can
match at a place, in order of preference, by recursion on the tree.

`Keywords` turns `<keywords>` elements into sorted, indexed, merged lists, and
does `searchKW` one round of the binary search a step. `KeywordsAsListed` reads
the elements as they are written.

`VirtualSchemes` makes `updateLinks`' search lists (static inherits expanded)
and first-character tables, and walks them as `searchMatch`, `searchIN` and
`searchBL` do, one node a step, with `VTList` pushed and popped on the way.
Blocks stay open from place to place; at any place the parse may stop (`Stop`,
`Unwind`) and go on from what the cache stored (`Resume`, `TakeUp`). The
reference `StandingAt` has no lists and no stack: each inherit is read in an
environment of substitutions, `Meant`.

`Matchers` is the three side by side; a behaviour is one of any.
`MCRegExpBranch` is an instance of `RegExp` alone, with one pattern.

### SessionParts, PluginParts

The parts meet in operators and promises, not in shared steps: a session's calls
(`HostCalls`), its lines (`Session`) and its library (`HrcLibrary`) have no
variable in common, nor have the plugin (`FarEditorSet`) and the matchers.
`SessionParts` and `PluginParts` put them side by side with their own `Init`,
`Next` and fairness: a behaviour is one of any part, while the others stay where
they started. Nothing is claimed of how they interleave. `Rest` is the one
step added: a closed session, and a library nobody asks anything, may stop,
and nothing else may.

### Styles, FileTypes, SessionApi

`SessionApi` is the API of a Go session seen from outside: a method is one step,
and `answer` is what it returned. `stage` is "new", "loading" (the user's files,
one by one), "open" or "failed". The actions are `NewSession`, `LoadUserPath`,
`SetHRD`, `EnumHRDInstances`, `GetRegionDefineOf`, `SelectType`, `SetFileType`,
`LoadType`, `FileType`, `Types`, `FileTypeParam`, `SetParam`, `ResetParam`,
`ListParams`, `ParseLine`, `LineOutline` and `Reset`. `Styles` has the colours
(`RegionMapper` with its cache, `StyledRegion`, the wrapper's handler with its
pool of recycled regions), `FileTypes` the types (prototypes and settings files,
choosers, parameters and their defaults). The parser is what `CacheCorrect` says
of `TextParser`: it knows the blocks open at the next line. The module is built
without exceptions, so where the code throws the call traps, and the session is
of no more use.

### FarEditorSet

`plugin` is the object with its two files (settings and user profile), `host`
what far2l shows, `dialog` the dialog on the screen. Every event, menu item and
dialog is an action. `TestLoadBase` is the trial load that the settings dialog
makes, of a base of its own that is thrown away. An instance of an editor or
viewer records what it was made from; `live` says whether the base it points
into still exists, and `misused` whether a handler used one that does not.
Loading a base may fail wherever the code loads one, a redraw may fail, and
far2l may restart at any time.

Assumed of the host: it sends EE_READ once for an editor; nobody else writes the
settings file; no redraw fails while a dialog is open. The redraw that
ECTL_REDRAW causes inside a handler is ignored by the code (`inEventProcess`)
and left out.

## 3. Runs

| run | instance | shows |
|---|---|---|
| `parser_nest` | 3 lines, a block nested in itself and closed by a back trace | the cache, handlers, back traces and `tryParseLine` are right after every history of edits, parses and re-tries |
| `parser_gaps` | 2 lines, two kinds of blocks, an escape, a low priority regexp, one line null at a time, `breakParse` at any step | what the client may rely on after an incomplete parse; every parse returns |
| `parser_unpaired` | 2 lines, one of them null | **violated**: `leaveScheme` for schemes never entered |
| `parser_stale` | as `parser_gaps` | **violated**: the cache does not know the lines up to `invalidLine` |
| `session_parts` | calls: four shapes of methods, two user files; lines: 3 between resets, two types, `ForgetBefore` below, inside and beyond the window; library: five small libraries, two sessions, two files opened | failure, heap and reason of the call protocol; the session implements `Colouring` and never asks for dropped lines; links are right whenever somebody may parse, failed loads leave nothing half done, nobody waits for ever |
| `host_setup` | the calls of `session_parts` alone | **violated**: a session that does not know its module trapped |
| `editor` | texts of 2 to 4 lines, windows of 1 and 2 lines, one edit, two other actions | what is drawn, paired and outlined is what the text is; everything ends up parsed and coloured |
| `editor_grow` | a text of 7 lines, a window of 2 that is made 3 lines high | **violated**: a line is drawn as another one was |
| `editor_outline` | 5 lines, a window of 3, two lines joined and an item typed | **violated**: the item is never listed |
| `plugin_parts` | plugin: two editors, a viewer, two files, paths and types; matchers: some 400 patterns over 6 texts with 3 sets of flags, keyword lists alone and two in a row, 250 libraries of six schemes | nothing freed is used while enabled, all is drawn by the settings in use; matches, keywords and inherited nodes are found as written |
| `matchers_branch` | the pattern `((a\|\Mb)\| )` on three lines | **violated**: the match has other bounds than without the early rejections |
| `api` | two colour styles and what four users add to them, four prototypes, three lines | regions, pairs, outline and parameters a client gets |

The bounds, and why they are enough:

* Three lines give the parser a block that opens before, spans, and closes after
  the line that is edited or parsed from, with a sibling before or after it; two
  symbols on a line give a block that ends and one that starts on the same line,
  and two that start on one line. Both kinds of sibling deletion and both
  directions of the search cursor occur.
* `MaxRecursion` is the code's 100 and is not reached: beyond it a resumed
  parse and a parse of the whole text differ by construction, since each level
  counts its nesting from 0.
* The texts are all those made of the listed lines; they include every pairing
  of open, close, close-and-reopen and escape that the language has.
* `TPM_CACHE_OFF` is in the model; no caller in the repository uses it and the
  runs leave it out.
* The methods of `session_parts` and `host_setup`: the shapes cover no, two and
  three strings, one and several calls. The protocol's properties are proved for
  all shapes.
* In `editor`, `StartSize` (20 in the code) is 1, `BackParses` are 0 (no line is
  too far ahead to be parsed at once) and 1, and the windows as small, so that a
  text of four lines is longer than the window, scrolls out of it both ways, and
  has lines too far ahead to be parsed at once. An edit may come before, between
  and after two other actions.
* In `session_parts` each library has one thing that may go wrong (a cycle, a type
  replaced by a later file, a broken file, a missing one, one without its type);
  two sessions are enough for a reader to keep a writer waiting that has been
  let in by another.
* In `plugin_parts` the patterns are every group of a list with every quantifier and
  three tails, symbols with quantifiers between anchors, and some chosen for
  markers, looks and back references; the step limit is 80, above what any
  pattern without a tangled repetition needs on these texts. The keyword lists are all
  those of at most three out of ten keywords, chosen to be prefixes of each
  other, symbols and words, in two cases and outside ASCII; every place and every
  end of every text is searched. The libraries differ in three tables of
  substitutions (five each) and in the order of a scheme; a search goes over at
  most four places, of three characters, one outside ASCII.
* In `api` a client feeds or sets three things in all, which allows a line
  before and after any change, and a parameter to be set, reset and set again.
* In `plugin_parts` the types and the files are told apart by nothing but their names
  (symmetry); at most one parameter has a user value at a time, in a list of two
  for two types.

`parser_nest`, `parser_gaps` and `parser_unpaired` use a VIEW that, between
parses, hides what `parse()` sets before it reads it (position, phase leftovers,
the end match, the handler's stack); back traces are set before they are read as
well. States that agree on the rest have the same futures, so that the liveness
property of `parser_gaps` is not touched: it is about the states inside a
parse, of which nothing is hidden. Only `plugin_parts` uses symmetry, and has no
liveness property.

The deadlock check is off where the system really may stop: a closed Go session
does nothing more (`host_setup`), nor does a failed one (`api`); a search ends
(`plugin_parts`, `matchers_branch`); the user of an editor has done what the
bounds allow and everything is parsed (the runs of `Editor`). The other runs
check it; in `session_parts` a closed session and a library that nobody asks may
rest (`Rest`).

**Fairness.** `TextParser` assumes weak fairness of `Step`, the disjunction of
the parser's own steps. `parse()` is a synchronous call: the thread that called
it runs it to its end, and nothing in it waits. `ParseReturns` needs no fairness
of clients, and `breakParse`, which may come at any step, does not stop it.
`Editor` assumes that an event is handled to its end, for the same reason (with
the outline list on the screen this means that the user leaves it in the end: it
is modal), and that far2l goes on sending KEY_IDLE while the user does nothing;
nothing makes the user act or stop. `HrcLibrary` assumes that the call that
holds the lock runs on, that a parse ends (`ParseReturns`), and that who waits
for a lock that stays free gets it.

### Disagreements found

* **A stale line taken for known** (`parser_stale`). `BaseEditor.cpp:4`:
  "invalidLine is the first stale line"; `TextParser.h:71-73`: parsing may
  continue "from any already reached position of text. This guarantees the
  validness of result parse information". After `parse()` `BaseEditor` always sets
  `invalidLine` to the line after the one it returned (`BaseEditor.cpp:432`, `:508`),
  also when that line was refused by `getLine` or torn by `breakParse`.
  What it opens or closes is then missing below until something else is changed
  above it. `CacheCorrect`, `TryExact` and `HandlerAgrees` say what holds in
  spite of it; where no line is refused and no parse broken off the claim is
  true, and proved (`InvalidLineIsKnown`). `tryParseLine` is exposed too: its
  comment says "True iff" (`TextParserImpl.cpp:757-759`), but of a refused or
  torn line it compares what it had read so far, and may say yes.
* **A session that does not know** (`host_setup`). `colorer.go:476-479`: after a
  call that did not return "the session refuses every later call". `NewSession`
  and `loadUserPath` throw away the error of `colorer_free` (`:794`, `:833`); if
  it traps, the stopped module is called again and the session handed out.
* **A skipped branch that mattered** (`matchers_branch`). `cregexp.h:249-252`: a
  branch that starts with a zero-width operator is never skipped, as "\M bounds
  group 0 for a later alternative". `analyzeBranchFirstChars` asks only whether
  the first atom may take nothing (`cregexp.cpp:669-673`), which `(a|\Mb)` may
  not. `FastPathsSound` therefore says nothing of the bounds of group 0 where
  such a branch may be skipped (`MarkerSkipped`); that there is a match, and all
  other groups, it covers for these patterns too.
* **`leaveScheme` without `enterScheme`** (`parser_unpaired`).
  `L/RegionHandler.h:10` promises that the calls are properly enclosed. When the
  first line of a resumed parse is null, `colorize()` returns before
  `fillInvisibleSchemes`, and `parse()` leaves the blocks it resumed.
* **Lines drawn as others were** (`editor_grow`). `BaseEditor.cpp:5-6`: "colored
  cover is 2*wSize; LineRegion ring is 3*wSize and never shrinks. validate(lno,
  true) paints the cover". When the window is made higher and the ring is large
  enough for twice the new height, nothing is painted again: what lies between
  twice the old height and twice the new one is drawn from whatever is in the
  ring, the regions of a line whose number is the same modulo the size of the
  ring, or nothing at all, and stays so. Elsewhere `ShownFresh`, `LocalPairRight`
  and `Settles` therefore speak of a window that was not made higher
  (`stretched`).
* **Items that are never listed** (`editor_outline`). The outliner is to
  "maintain list or tree of different special regions" (`Outliner.h:10`).
  `BaseEditor::modifyEvent` tells its listeners of a change only when it lies
  before `invalidLine` (`BaseEditor.cpp:365`). A parse for the screen that moves
  the ring may begin behind `invalidLine`; it leaves `invalidLine` where it is,
  and the outliner takes its items all the same and counts those lines as
  known. When they are changed nobody is told: an item that is gone stays in the
  list, and a new one is taken for known and refused. `OutlineComplete` is about
  the behaviours in which that has not happened (`untold`); the windows of the run
  `editor`, which are no higher than two lines, had hidden it until a proof of the
  property was tried.

### Other behaviour a reader should know

None of this contradicts the code's own documentation plainly enough to be
listed as a finding, but the models had to be written around it, and each is a
place where a change may surprise.

* Regular expressions: the counters of a repetition are not put back when an
  earlier choice is revised, so `(a|ab){2}` may miss a match, and `(a*)*b` or
  `(b?){2,}b` run into the step limit and count as no match. `MatchesAsSaid`
  leaves such expressions out (`Tangled`) and says that no other is given up.
  A back reference to a group that did not take part matches the empty string.
* Parse cache: `README.md:301` says it "holds one node per multi-line block that
  is still open". `searchBL` deletes a node only when its block ends on the line
  it began on (`TextParserImpl.cpp:476-493`), so the cache holds one for every
  multi-line block of the lines parsed, open or closed.
* Keywords: where a list gives a word two regions, the addresses of the regions
  decide. Merged lists prefer the longest word to the earlier list.
* Virtual tables: a chain of substitutions that ends at the scheme it began with
  (A by B by A) is not undone by `popvirt` on the way out of a block
  (`TextParserImpl.cpp:499`). The libraries have none. Inherits that form a
  cycle recurse without end and are not modelled.
* HRC: a link that is not found is dropped, not kept for the next load, so a name
  that turns up later (a package declared in the file of a type that is loaded
  later, a type that is in the file of another) is missed; in a library that is
  `Tidy` no name turns up later. A prototype whose file does not exist throws out
  of a load with `updateStarted` set, and nothing links any more; `LinksResolved`
  excepts that state. A prototype that comes twice deletes a `FileType` others may
  still point to.
* Editor: an outline item may be listed twice, and `setRegionMapper` does
  not tell the outliner that the parser starts again. The global
  pair search stops at the lines that are in the ring; after the text has become
  shorter these may be lines behind its end, and the host puts the cursor on the
  last line.
* Session: `ForgetBefore` says that it is clamped (`colorer.go:1402`,
  `README.md:163`), but a number of more than 31 bits is cut to 32 and read as a
  C `int`: math.MaxInt drops nothing. `ForgetsBelow` is about the others. A line
  that was dropped does not abort the module when it is asked for, as
  `colorer_wrapper.cpp:92-94` says: the parser stops without it
  (`TextParserImpl.cpp:601-608`); it is never asked for (`NeverAsksForDropped`).
  Pairs are reported only after `SetHRD`. Of two user styles with one name
  `SetHRD` takes the first. A value of "default" becomes a type's own default
  the first time the type's parameter is set, and stays after a reset.
  Conditional schemes are decided when the type is loaded. Parameters from a
  settings file are lost when a later HRC file redefines the prototype.
* Plugin: the settings dialog enables a disabled plugin when its paths are
  changed. After "Reload base" the current editor has no instance until it gets
  focus, and a menu command then throws and disables the plugin. Cancel in the
  dialog of type parameters keeps what was changed in memory, and picking
  another type drops the text in the field if it was not saved; other editors are
  not redrawn by its OK. Disabled, the settings dialog may read the deleted base
  through an instance that was left (`FarEditorSet.cpp:1050`).

## 4. Properties

`TextParser`: `TypeOK` (with the shape of the tree: parents alive, the resumed
node alive); `CacheCorrect` (the open blocks of every line that whole parses
have reached are those of the whole text, during a parse as well);
`InvalidIsFirstStale` (so are those of every line up to `invalidLine`;
violated); `SiblingsOrdered` (what `searchLine`'s walk presumes); `CursorLive`
(no dangling cursor); `NothingLeaked` (no pointer to a live subtree is
overwritten); `LeavesMatch` and `HandlerAgrees` (the handler's stack);
`BackTraceOwn` (the shared end expression); `TryExact` (`tryParseLine` answers
yes exactly when it should, of a line that was reached and read to its end);
`ParseReturns`.

`Session`: `ColoursAsIfKept` (implements `Colouring`), `NeverAsksForDropped`,
`ForgetsBelow`.

`HostCalls`: `TypeOK`, `FailureIsFinal` (a failure somebody was told of is known
to the session, and the module is not entered again), `FailureKnown` (so is every
other; violated), `FirstFailureKept`, `HeapBalanced`, `ReasonOfFailingCall`.

`Editor`: `CacheKnown` (every line up to `invalidLine` starts as the whole text
says), `ShownFresh` (a line is drawn as it now is, or not coloured,
until the window is made higher), `LocalPairRight` (the pair drawn under the
cursor is the true one, and it is found if it is on the screen), `OutlineComplete`
(the items before `invalidLine` are those of the text, unless lines behind
`invalidLine` were changed that the outliner had taken), `Settles` (left alone, the
text is parsed to its end and the screen coloured).

`HrcLibrary`: `LinksResolved` (whenever a session may parse, every scheme of a
loaded type leads where its file says), `ContextRestored` (between calls nothing
is half loaded), `CallsReturn` (loads end and sessions do not wait for ever).

`Matchers`: `MatchesAsSaid` (a match is the first way at the first place, found
within the limit of steps unless the expression is tangled),
`FastPathsSound` (the early rejections lose no match and no group, but for the
bounds of group 0 where an alternative with a marker may be skipped),
`MarkersKept` (nor those bounds; violated), `KeywordsAsListed`, `FoundAsNested`.

`SessionApi`: `LinePainted` (painting a line's regions in order gives every
character the style of its match, completed from the blocks around it),
`TokensReported` (pairs and outline), `ParamsReported` (the value set last, else
the file's, else that of "default").

`FarEditorSet`: `LiveBase` (nothing freed is used while the plugin is enabled),
`SettingsShown` (base, instances and file agree with the settings in use),
`ViewerFresh` (a viewer has the type of the file it shows), `NoStrayEdits` (the
dialog changes no value but the one being edited).

Next to the definitions the modules hold mutated forms of some of them, marked
`Mutant`: plausible mistakes, each of which breaks the property it is listed
with in `PROJECT.json`.

## 5. Proofs

`HostCalls_proofs`, from `HostAssumption` (counts are naturals, names do not
clash): all five properties, for any methods, numbers of strings and calls, and
user files, with traps in any call, those of `colorer_free` that nobody looks at
included. `HeapBalanced` and `FailureIsFinal` are not inductive. The
invariant `Inv` adds `BlocksOwed` (the blocks alive are at least those the running
method owes, and exactly those while no call has trapped), `SetupShape` (in
`NewSession`, where no deferred call frees anything, what is owed can be read off
the calls left, and after a failure that it looked at none is left) and
`OpenShape` (a method owes nothing when none runs). `FailureKnown` is no theorem
(`host_setup`). `StepInv` goes through the
actions one by one; the theorems follow from `Invariance`.

`Session_proofs`, from `SessionAssumption`: `NeverAsksForDropped` for every
language, text and use of `ForgetBefore`, and `ForgetsBelow` for every even word
size. `WindowInv` says that a parse in progress is that of the line fed last,
that this line is still held, and that the parser is not before it; it needs
that no step of the parser goes back (`StepGoesOn`). The bound on lines does not
matter to the proofs.

And the refinement **`ColoursAsIfKept`**: a session implements `Colouring`, step
by step, whatever is fed, dropped, re-typed and reset, in runs that keep below
the recursion limit (`WithinRecursion`, as below). `Colouring` is about all
lines that were ever fed, the session holds a window of them, so the theorem is
about `KeptSpec`: `SpecSession` with a history variable `kept`, which remembers
the lines since the last restart and puts an empty line for each line before it.
`kept` guards nothing and every step of `SpecSession` has a value for it, so
each behaviour of `SpecSession` is one of `KeptSpec`. The argument:

1. The session's parser takes the steps of a parser that is given `kept` as its
   whole text (`Kept`, an instance of `Incremental_proofs`), since it asks for the
   line in the window only, and that line is the same (`StepOfKept`, which needs
   `WindowInv` and `LineHeld`).
2. So `Kept!Whole`, the invariant behind `CacheIsCorrect`, holds of the session
   (`KeptInv`). Feeding a line and restarting are not steps of `TextParser`'s
   client; `FeedWhole` and `RestartWhole`, at the end of `Incremental_proofs`, show
   that they keep it. A restart in the middle of a stream is sound because empty
   lines open nothing (`BlankText`).
3. `Whole` says that what the cache has at the next line is `Kept!Open` there
   (`PromiseIs`). In this instance every block is told apart by its text, so that
   they are equal as stacks and not only up to what ends depend on (`SameStack`).
4. Steps of `KeptNext` then map to steps of `Colouring` (`StepColours`): the last
   step of a parse to `Line`, a line fed without a file type to `Line`,
   `SelectType` and `Reset` to themselves, all others to stuttering.

`TextParser_proofs` begins with lemmas about the operators of `ParseCache`: what
`searchLine` returns is a live node of the tree, and `dropChildren`, `dropNext`
and linking a node behind a last child keep a well-formed tree (`IsTree`: closed
under parents, siblings numbered without a gap, cursors at live children).

With them, and from the assumptions of `Scheme` and `TextParser` on their
constants, it shows `TypeOK`, `CursorLive`, `NothingLeaked` and `SiblingsOrdered`, for
every language, text and recursion limit, with null lines and breaks. None is
inductive. That a node is linked behind the last child needs to know that
nothing stands behind `forward` while a parse updates the cache (`Grafting`),
and still does not when `searchBL` returns to an outer level, so that each
pending block's node is the last child of its parent and follows the `forward`
saved in its frame (`Pending`). That `parse()` ends at the root needs the scheme
it compares with `baseScheme` to be the base scheme exactly at depth 0, through
every save and restore (`OuterRestored`). `OrderInv` says where the parser is
among the lines of the tree: behind everything that stays in it, and inside
every block it has open. There is one lemma for each action; `Invariance`
collects them.

From the same invariant: `BackTraceOwn` (the shared end
expression holds the back trace of the block whose end is looked for), for any
null lines; and, assuming that no line is ever null (`Unavailable = {{}}`),
`LeavesMatch`. `HandlerInv` says what a handler has been told once
`fillInvisibleSchemes` has run: the background, the cached levels still open,
then the pending blocks. The assumption cannot be dropped: `parser_unpaired` is
its counterexample.

`Incremental_proofs` begins with `Scheme!OpenAt`, the reference, alone. It is a
recursive function over the symbols of a line and over the lines of a text, and
what the proofs need of it is that reading a prefix and then the rest is reading
the whole; that symbols in which nothing matches change nothing; and that the
end of a block found ahead (`EndsAhead`, the code's `searchRE` for the end) is
where the reading, symbol by symbol, will close it, unless a nested block or a
regexp that runs over it comes first. Where such a lemma needs an induction
over a number it takes the least counterexample of a set of naturals, which
needs no theorem with an operator parameter.

What it shows: **`CacheCorrect`, `TryExact` and `HandlerAgrees`**, the three
properties that say that incremental parsing is right, for every language, every
text, every history of edits, parses, breaks and `tryParseLine`, null lines
included, for a client that begins its parses wherever `BaseEditor`'s
`invalidLine` lets it. `CacheCorrect` and `HandlerAgrees` are about lines that
parses of whole lines have reached, `TryExact` about answers for such a line
that was read to its end. **`InvalidLineIsKnown`** joins the two: if every line
can be read and no parse is broken off (`Unavailable = {{}}`, `Breaking =
FALSE`), then `invalidLine` is the line reached whenever no update runs
(`Plain`), and the cache knows all lines up to it. They assume
`[]WithinRecursion`: blocks entered by one `parse()` do not nest beyond
`MAX_RECURSION_LEVEL`. The code needs it: past the limit `colorize()` returns
without having looked for the end of the block just entered, as if it ended
there, and since each resumed level counts from 0, a text that nests deeper is
parsed differently when it is parsed from another line. The invariant `Whole` is
`Ready`, `KnownInv` and `TryInv`:

* `Ready`: the invariants above (`Inv`, `OrderInv`); `LevelsInv` (the stack of
  frames above the resumed nodes is a stack of blocks, each with the text it
  began with) and `Started`; `RangeInv` (which lines the parse is about);
  `ReadInv` (the reading of the line up to `gx` stands exactly where the parser
  stands, and the end the parser looks forward to is where it is);
  `PendInv` (what was open at the beginning of the current line is what is open
  at `cur` in the whole text).
* `KnownInv`: for every line up to `valid`, the nodes that cover it are those of
  the blocks open there. So they are for the lines that an update has read,
  if it began where the cache knew the start (`Sighted`); a node that is about to
  be dropped (`Stale`) does not count, nor does what a broken parse leaves behind
  the line it stopped at (`Horizon`). An update begun behind `valid` touches only
  nodes of lines behind it.
* `TryInv`: what `tryParseLine` compares is what was open before and after the
  edit, if the line had been reached (`sure`), is there and nobody broke the
  parse off (`Tried`).

`HandlerIsTold` adds `TellInv` (what the handler was told so far, block by
block, in a parse that is `Sighted`, unless the first line of a resumed parse was
null).

`HrcLibrary_proofs`, from `HrcAssumption` (nobody is neither a session nor the
host) and, for the second, `LibraryAssumption` (what a library is made of).

`ContextRestored`: for any library of files, any nesting of loads and any
of them left by an exception. The property is about the empty stack; what makes
it inductive is a statement of every stack. `Restores` says of `parseType`, which
`addType` and `updateLinks` change, and of the mode, which `loadSource` changes:
the outermost of the calls that change it saved the value of before, and without
such a call it has that value. `Marked` says that whatever type is marked as
being read has a call that reads it, and `Frames` that a call of
`qualifyForeignName` or `updateLinks` has its caller below it. Calls, returns
and going on (`Calls`, `Returns`, `GoesOn`) keep this for any stack; a step of
the loader is one or two of the three. `LockInv` (who loads has the lock alone)
is what lets a call begin with an empty stack.

`LinksResolved`, for every library that is `Tidy` (files of types declare no
packages, and a type is only in the file its prototypes name); in others a link
that was not found may be of a name that turns up later, and the code does not
look again. What a name means depends on what has been read when it is looked
up, so the proof follows the names through every call that is open. `Later`
orders the states of the library: types, schemes and imports are only added, and
a type that was read stays as it was read. What is settled in one state is then
settled in all that come later (`Settled`, and for a name that is nowhere
`Unknown`: a candidate is `Final`, read or with nothing to be read, and has no
such scheme). `LinksInv` has two parts. While the catalog is read
(`Cataloguing`), `CatalogOK`: no type is read and no scheme exists. Afterwards
`LoadInv`:

* `Shape`: which call may have which caller, and that `parseType` and the mode
  are those of the innermost call that sets them;
* `StackData`, `TopData`: what each call knows of what it still has to read. What
  is left is the rest of the file, type or scheme as written (`HrcFrame`,
  `TypeFrame`, `SchemeFrame`); the candidates a lookup has passed do not know the
  name and never will;
* `SchemesOK`: the nodes read so far are those written, in order, and each link is
  as written, or was found as its type was read, or is `Settled`;
* `Linking`: in a pass of `updateLinks` every link that is still `Open` is ahead of
  it, in the scheme it is at or in one it has not come to, unless something was
  loaded in between, and then `structureChanged` makes it pass again;
* `Idle`: with `updateStarted` clear nothing is being read and no link is open.

Each action has a lemma that it keeps `LoadInv` (`AddNodeLoads`, `LookInLoads`,
`UpdateLinkLoads`, ...); `StepLoads`, `CatalogLoads` and `NextLinks` put them
together, and `LinksHold` concludes from `Idle`. The invariant was checked by TLC on
small tidy libraries before. That the places `updateLinks`
walks are all the links there are is a statement about a fold (`FlatIs`,
`PlacesAre`), proved by `Induction` over the positions.

`Editor_proofs`, from `EditorAssumption`, `NamesAssumption` and `NullAssumption`
(a null region is not that of a pair, an empty slot is no line): four properties,
for every text, window height and `backparse`, and everything the user does.

`CacheKnown`: a redraw guesses the first
changed line (`TopOfChange`) from where the cursor was and is and from where the
selection began at the last redraw, and no event carries the change itself. That
the guess is never behind the change needs `BlockSeen` (outside the plugin's own
commands `blockTop` is where the selection begins); `ReplaceStep`, `SplitStep`,
`JoinStep`, `EditBlockStep` and `InsertNameStep` compare it with each change.
`StepKinds` sorts the actions by what they are to the engine (it paints, warms the
cache, is told of a change, starts again or rests), and the cache is compared
with the text for these five (`PaintKnows`, `WarmKnows`, `RedrawKnows`,
`RestartKnows`). Depths are a recursive function over the lines; `DepthsAgree`
says that two texts that begin alike have the same depths there.

`ShownFresh`: what a slot of the ring holds must be the line as the text is now,
although it was painted by an earlier parse, with another window, and the line is
drawn from its number modulo the size of the ring. `RingInv` is the invariant
between redraws: the lines of the cover that are before `invalidLine` are in the
ring as they are (`Fresh`), whatever stands in the other slots. `DrawInv` adds what
holds within a redraw, in which the window stays and each request leaves the cover
painted: the lines drawn so far are right (`ShownRight`). The first line of a
parse is painted by another way than those after it, with the open blocks entered
at no width; what is drawn is the same (`FirstAlike`). `Layout` is compared with
the ring in two cases: where it is moved everything of the new cover is parsed,
from behind `invalidLine` or from it, or was there before (`oneUp`); where it
stays, `PaintDirect` says that a request for a line that is already valid finds the
cover painted. A window made higher breaks `RingInv`, and only that:
the disagreement `editor_grow`.

`LocalPairRight`: the search counts regions from line to line, and each line it
looks at is a request that may parse and paint. `PairsInside` says what the
regions of a painted line come to: one token, and it is a pair's start or end as
the text has it at that depth. `InWindow` keeps the cursor on the screen through
edits, scrolling and the ways back from a list, and by `DrawInv` all of the window
is painted and valid once it is drawn (`Sighted`), so that no request on the way
moves the ring (`InSight`) and each answers with the line as the text has it. The
balance of the search is then a difference of depths: `DownTo` and `UpTo` say that
all lines passed are inside the block and how deep the search stands in it.
`DownFound` and `UpFound` conclude that balance 0 is the mate, `DownMissed` and
`UpMissed` that there is none when the window ends first. `PairsInv` adds this to
the invariant of `ShownFresh`, with which it shares the exception.

`OutlineComplete`: the outliner appends what a parse reports from `modifiedLine`
on, and `modifyEvent` filters away what lies at the change or behind it.
`ListedIn` is what it keeps: its items are items of the text, with their depths
and in order; none is behind `modifiedLine`; and each item of the text that is
before `modifiedLine` or before `invalidLine` is there. A parse keeps this
(`ListedMore`, `ParseTells`) because it begins at `invalidLine` or before it, and
a change does because the event names a line that is not behind it
(`ListedChanged`, `RedrawTells`, with the guess bounded as for `CacheKnown`). A
change behind `invalidLine` is not passed on, and then what parses for the screen
had reported of those lines is not taken back: `ListedIn` fails, and the property
with it (`editor_outline`). The history variable `untold` says whether this has
happened; only a new file type, which empties the outlines, ends it (`StepTold`).
`OnlyFilters` says what `modifyEvent`'s loop leaves of a list.

`FarEditorSet_proofs`, from `FarAssumption` and `NoneAssumption`: all four
properties, for any editors, viewers, files, types and parameters. `Inv` adds to
them what makes them inductive: `FieldShown` (the field of the dialog shows the
value of the type and parameter it is at, which `NoStrayEdits` rests on),
`Sound` (what an enabled and a disabled plugin look like), `Fresh` (viewers) and
`Opened` (an instance is of an editor that is open, so that EE_READ never meets
one). The parts of the code (`DisableColorer`, `ReloadBase`, `AddCurrentEditor`,
`ApplySettingsToEditors`, ...) have a lemma each, stated of any sound state; the
lemma of an action names the parts it is made of.

`SessionApi_proofs`: all three properties. `ParamsReported`, from
`FilesAssumption` (files are lists of prototypes, each with its lists of items,
and the value of a parameter is a string), for any catalog, user files and
sequence of methods. What the code answers comes from a table that every file
read and every call rewrites; it is compared with two histories from which
nothing is taken, what the files said (`said`) and what the client set (`sets`).

* The library is built by nested loops over files, elements and items, which the
  model writes as folds. A fold is described by an operation and the states it
  passes (`FoldExists`, `FoldIs`), and `Induction` over them carries `FilesAgree`
  from element to element: a type has a parameter exactly when the files give it a
  value, and its value is that of their last word (`Says`). A prototype read again
  replaces the type and its parameters, and the first item of a name counts
  (`PrototypeAgrees`); settings change a value, or give a type a parameter it did
  not have, and the last item counts (`SettingsAgree`). `HrcAgrees`,
  `FileSettingsAgree` and `CatalogAgrees` put them together, and `AreLoads` says of
  the user's files still to be loaded that they are lists.
* In an open session (`SetsAgree`, `Holds`) a parameter the files give the type keeps
  their value as its default. Setting one that only "default" has adds it to the
  type with the value "default" has at that time, which may be one a client set and
  has since changed: that is why `Expected` allows every value "default" ever had,
  and why the invariant must say where such a parameter came from. The user's value
  is the one set last, none after a reset, and a parameter that is not there was
  never set. `SetAgrees` and `ResetAgrees` keep this, `LoadAgrees` because loading a
  type touches no parameter, and `OpenAgrees` begins it; `ListAgrees` and
  `ValueExpected` conclude for what `ListParams` and `FileTypeParam` return.

`LinePainted`, from `RegionsAssumption` (a region is derived from one that was
there before it), `StylesAssumption` (style files are lists of assignments, and a
style names files there are), `GrammarAssumption` (marks and blocks have regions or
none) and `LinesAssumption` (a line is a list), for any colour schemes, grammar,
lines and sequence of methods. The handler paints by what lies on its stack, with
a mapper that remembers what it was asked and regions that still hold an old
style; the property reads the whole text once more and asks the colour scheme
directly. `PaintInv`, which holds between methods, says that the mapper is one of
its files with a cache that is right (`Cached`), that the background is the
mapper's, and that `open` is what the text leaves open (`OpenAfter`).

* A style: `DefineIn` walks up the parents and stops at what is remembered.
  `UpExists` (a function that is defined along the parents exists, from the
  induction `Ancestry`) makes it and `Lineage` known; `NearestIs` says that the
  walk without a cache ends at the nearest region with a style, `CachedIs` that one
  with a right cache finds the same, `AskedKnows` that what it remembers is right,
  and `StyledIs` what a region gets inside another, whatever the recycled one held.
* A line: `Good` holds after each symbol. The stack is `Framed` by the open
  blocks, each entry being what the scheme says of the block in the style below
  it, so its top is the style around (`FramedAround`); the regions so far
  (`Pieces`) end where the line has come to, but for the running background,
  which covers what is to come and ends at the symbol where a block starts or
  ends (`PiecesMore`, `PiecesSwitch`). `AddRegionShows`, `EnterShows` and
  `LeaveShows` say that what was painted stays, and what shows at the new symbol
  is its style; `ScanShows` puts the two orders of an edge and its block
  together, `ResumeShows` begins with the blocks open from earlier lines, and
  `LineShows` concludes for a line by `Induction`.
* A text: `LinePaints` is the step of `ParseLine`. What a session loads or sets
  afterwards does not change what the text's symbols were (`Keeps`: a type's scheme
  is read once, when the type is loaded), so `open` stays right through the other
  methods (`UnpaintedMethods`). `HarvestShows` says that painting what is returned,
  from which special and empty regions are left out, shows what the line holds.

`TokensReported`, from the same assumptions and `PairsAssumption`: the regions of
pairs derive from "def:Special". The handler looks for pairs only among special
regions, and `wrapper/colorer_wrapper.cpp:133` says they are
(`colorer/configs/base/hrc/lib/def.hrc:24` declares it); without it a pair
would be painted and not reported. `Good` already compares the handler with the
text symbol by symbol, so what is added is what the handler marks and notes besides
painting. `TokensInv`, which holds between methods, has two parts: `SpecialKnown`,
the special region is the library's, and `OutlineKnown`, what the outliner collected
is the outline of the last line (`OutlineSaid`). Without a type "def" nothing
declares outline regions, and the property says nothing of outlines there.

* An event: `AddRegionTells`, `EnterTells` and `LeaveTells` say which marks and
  notes a call of the handler adds, `ScanTells` puts the two orders of an edge and
  its block together, `SwitchTells` and `ResumeTells` say that a change of the
  background and the blocks open from earlier lines report nothing, and `LineTells`
  carries this along the line.
* Pairs: a token is a pair when its region derives from one of the two, at
  whichever side (`PairRegion`); the pairs of the marks so far are those of the
  text so far, in order (`PairsListed`, `OnePair`).
* Outlines: an item begins with the first match of its kind and takes the later
  ones as spans (`Heeds`). Noting a match keeps this for its own kind (`NoteOwn`); what
  it does for one kind leaves the other's item alone (`NoteSpares`, `NoteOther`).
* A text: `LineTellsTokens` and `OutlineTells` conclude for the last line, and
  `UntoldMethods` says which methods change nothing of this.

Only model-checked: `ParseReturns`, `Settles` and `CallsReturn`, because liveness
under fairness is beyond the provers; `RegExp` and `VirtualSchemes`, whose
references are RECURSIVE operators, which cost the provers their backend;
`Keywords`, whose lists are sorted by a permutation that is chosen and made with
`SelectSeq`, both opaque to the provers; and `LinksResolved` for the libraries that
are not tidy.

## 6. What is left

In order of importance:

1. Blocks of zero width in `VirtualSchemes` and `TextParser`: `searchBL` then
   goes on with the next node, at the same place.
2. `LineRegionsCompactSupport`, which cuts overlapping regions, against the
   painting of `LinePainted`.
3. What a viewer draws (`FarViewer`), with the parser's `TPM_CACHE_READ`.

## 7. Not modelled

Strings, XML, file input and logging are data and I/O. The tables of character
classes and the parsing of escapes, numbers and named groups in expressions are
conversions no property here depends on; a class is the set of its characters.
Colours are values, and `TextHRDMapper`'s text styles are used by console tools
only. Session set-up makes one call to wazero's compilation cache: what happens
there when goroutines compile at once is that library's. Console tools and the
example only drive the library. The language and colour configurations are data.
`PROJECT.json` lists every part with its status and what its model leaves out.
