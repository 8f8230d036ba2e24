----------------------------- MODULE SessionApi -----------------------------
(***************************************************************************)
(* What the methods of a Go Session (colorer.go) do and answer: setting a  *)
(* session up from a catalog and the user's own files, colour schemes,     *)
(* file types and their parameters, and the regions, pairs and outline of  *)
(* a line.  Session models the window of lines and the parser of the same  *)
(* session, HostCalls the calls themselves; here a method is one step, and *)
(* the parser is what CacheCorrect of TextParser says of it: it knows the  *)
(* blocks open at the start of the next line.                              *)
(*                                                                         *)
(* The module is compiled without exceptions: where the code throws, the   *)
(* call traps and the session is of no more use (Fatal).                   *)
(***************************************************************************)
EXTENDS Styles, FileTypes

CONSTANTS
  Catalog,          \* what the catalog declares: [styles, types]
  HrdFiles,         \* location -> what an HRD file assigns, in order, or Bad
  Paths,            \* option of NewSession -> the paths a host may give it
  NoPath,           \* the option is not given
  Bad,              \* a file that cannot be parsed
  Unreadable,       \* the types whose HRC file cannot be parsed
  Schemeless,       \* the types without a base scheme
  Grammar,          \* type -> symbol -> what its scheme makes of it; others are plain
  Lines,            \* what a client may feed
  Names,            \* [file, first, type, class, style, param, value, region]:
                    \* what a client may pass
  MaxInputs         \* bound on the lines fed and the parameters set, together

(* The files: prototypes and settings, in order, of items, in order.  The  *)
(* value of a parameter is a string.                                       *)
IsList(s) == s \in Seq({s[i] : i \in DOMAIN s})
AreElements(els) ==
  /\ IsList(els)
  /\ \A i \in DOMAIN els :
       /\ IsList(els[i].items)
       /\ \A j \in DOMAIN els[i].items :
            els[i].items[j].kind = "param" => els[i].items[j].value # NoText

(* Styles, in order, and the files they name, of what they assign.         *)
AreStyles(nodes) ==
  /\ IsList(nodes)
  /\ \A i \in DOMAIN nodes :
       /\ IsList(nodes[i].locations)
       /\ ToSet(nodes[i].locations) \subseteq {""} \cup DOMAIN HrdFiles

IsDefine(d) == d = [fore |-> d.fore, back |-> d.back, style |-> d.style]

ASSUME StylesAssumption ==
  /\ AreStyles(Catalog.styles)
  /\ \A given \in Paths :
       given["hrd"] = NoPath \/ given["hrd"].content = Bad \/ AreStyles(given["hrd"].content)
  /\ \A l \in DOMAIN HrdFiles :
       HrdFiles[l] # Bad =>
         IsList(HrdFiles[l]) /\ \A i \in DOMAIN HrdFiles[l] : IsDefine(HrdFiles[l][i].define)

(* What a scheme makes of a symbol: a region of its own, a block that      *)
(* starts or ends, or nothing.                                             *)
ASSUME GrammarAssumption ==
  \A t \in DOMAIN Grammar : \A symbol \in DOMAIN Grammar[t] :
    LET token == Grammar[t][symbol]
        Maybe == Regions \cup {NoRegion}
    IN  /\ token.kind = "mark" => token.region \in Maybe
        /\ token.kind = "open" => {token.block.region, token.block.first, token.block.last} \subseteq Maybe

(* The regions of pairs are special.                                       *)
ASSUME PairsAssumption ==
  \A r \in {"def:PairStart", "def:PairEnd"} \cap Regions : "def:Special" \in Lineage[r]

ASSUME LinesAssumption == \A line \in Lines : IsList(line)

ASSUME FilesAssumption ==
  /\ AreElements(Catalog.types)
  /\ \A given \in Paths : \A option \in {"settings", "hrc", "userSettings"} :
       given[option] = NoPath \/ given[option].content = Bad \/ AreElements(given[option].content)

VARIABLES
  stage,    \* "new", "loading", "open" or "failed"
  loads,    \* the user's files that are mounted and not loaded yet
  hrds,     \* ParserFactory: class -> its styles, in order
  lib,      \* the library's file types
  handler,  \* WasmRegionHandler
  current,  \* current_type
  open,     \* the blocks open at the start of the next line
  text,     \* history: the lines fed since the parser's cache was cleared
  said,     \* history: what the HRC files loaded say of prototypes, in order
  sets,     \* history: every value set, in order
  inputs,   \* how many lines were fed and parameters set
  answer    \* what the last method returned

vars == <<stage, loads, hrds, lib, handler, current, open, text, said, sets, inputs, answer>>

Nil == [call |-> "none"]
Answer(call, value) == [call |-> call, value |-> value]

-----------------------------------------------------------------------------
(* Catalog and colour schemes (CatalogParser, ParserFactory). *)

(* parseHRDSetsChild: a style needs a class, a name and a place.           *)
Usable(node) == "" \notin {node.class, node.name} /\ \E i \in DOMAIN node.locations : node.locations[i] # ""

(* addHrd: behind those of its class.                                      *)
AddHrd(nodes, node) ==
  IF node.class \in DOMAIN nodes THEN [nodes EXCEPT ![node.class] = Append(@, node)]
  ELSE Put(nodes, node.class, <<node>>)

LoadHrdSets(nodes, set) ==
  FoldLeft(LAMBDA ns, node : IF Usable(node) THEN AddHrd(ns, node) ELSE ns, nodes, set)

EnumHrdInstances(nodes, class) == IF class \in DOMAIN nodes THEN nodes[class] ELSE <<>>

(* getHrdNode: the first of that name, if any.                             *)
GetHrdNode(nodes, class, name) ==
  LET ns == EnumHrdInstances(nodes, class)
      found == {i \in DOMAIN ns : ns[i].name = name}
  IN  IF found = {} THEN <<>> ELSE <<ns[Min(found)]>>

(* StyledHRDMapper::loadRegionMappings: a later assignment replaces one of *)
(* the same name.                                                          *)
LoadRegionMappings(defines, file) ==
  FoldLeft(LAMBDA ds, a : IF a.name = "" THEN ds ELSE Put(ds, a.name, a.define), defines, file)

(* fillMapper: the files of a style, in order.                             *)
FillMapper(node) ==
  NewMapper(FoldLeft(LAMBDA ds, l : IF l = "" THEN ds ELSE LoadRegionMappings(ds, HrdFiles[l]),
                     <<>>, node.locations))

Loadable(node) == \A l \in ToSet(node.locations) \ {""} : HrdFiles[l] # Bad

-----------------------------------------------------------------------------
(* Files: the catalog, and the user's own. *)

(* readCatalog and loadCatalog.                                            *)
ReadCatalog == LoadHrdSets(<<>>, Catalog.styles)
LoadCatalog == LoadHrc(EmptyLibrary, Catalog.types)

(* loadHrd: a file of a folder says itself which style it is.              *)
LoadHrd(nodes, node) == IF "" \in {node.class, node.name} THEN nodes ELSE AddHrd(nodes, node)

LoadHrdPath(nodes, path) ==
  IF path.folder THEN FoldLeft(LoadHrd, nodes, path.content) ELSE LoadHrdSets(nodes, path.content)

(* loadHrcPath: a file, or those of a folder but for the files of entities. *)
LoadHrcPath(library, path) == LoadHrc(library, path.content)

(* loadHrcSettings, which the session calls with a path only.              *)
LoadSettings(library, path) == LoadHrcSettings(library, path.content)

(* A file that cannot be parsed; the styles of a set are read by SetHRD.   *)
Torn(u) ==
  \/ u.path.content = Bad
  \/ u.option = "hrd" /\ u.path.folder /\ \E i \in DOMAIN u.path.content : ~Loadable(u.path.content[i])

-----------------------------------------------------------------------------
(* NewSession. *)

Options == <<"settings", "hrd", "hrc", "userSettings">>

NewHandler ==
  [mapper |-> NoMapper, background |-> NoDefine, special |-> NoRegion,
   stack |-> <<Entry(NoRegion, NoDefine)>>, line |-> <<>>, flow |-> 0, pool |-> <<>>,
   marks |-> [k \in {"start", "end", "outlined", "error"} |-> NoRegion],
   level |-> 0, started |-> {}, outline |-> <<>>]

Init ==
  /\ stage = "new" /\ loads = <<>> /\ hrds = <<>> /\ lib = EmptyLibrary
  /\ handler = NewHandler /\ current = NoType /\ open = <<>> /\ text = <<>>
  /\ said = <<>> /\ sets = <<>> /\ inputs = 0 /\ answer = Nil

(* userMount: the names Colorer would open have to be ASCII, and HRC       *)
(* settings are one file.                                                  *)
Mounted(option, path) ==
  /\ path # NoPath /\ path.exists /\ path.ascii
  /\ option \in {"settings", "userSettings"} => ~path.folder

Sayings(kind, elements) == [i \in DOMAIN elements |-> [kind |-> kind, of |-> elements[i]]]

Mounts(given) ==
  FoldLeft(LAMBDA us, o : IF Mounted(o, given[o]) THEN Append(us, [option |-> o, path |-> given[o]]) ELSE us,
           <<>>, Options)

(* colorer_init loads the catalog; the user's paths are mounted before.    *)
NewSession ==
  /\ stage = "new"
  /\ \E given \in Paths : loads' = Mounts(given)
  /\ hrds' = ReadCatalog /\ lib' = LoadCatalog
  /\ stage' = "loading" /\ said' = Sayings("hrc", Catalog.types)
  /\ UNCHANGED <<handler, current, open, text, sets, inputs, answer>>

(* loadHrdPath, loadHrcPath and loadHrcSettings with one of them.          *)
LoadUserPath ==
  /\ stage = "loading" /\ loads # <<>>
  /\ LET u == Head(loads)
     IN  IF Torn(u)
         THEN stage' = "failed" /\ UNCHANGED <<loads, hrds, lib, said>>
         ELSE /\ loads' = Tail(loads) /\ stage' = stage
              /\ hrds' = IF u.option = "hrd" THEN LoadHrdPath(hrds, u.path) ELSE hrds
              /\ lib' = CASE u.option = "hrc" -> LoadHrcPath(lib, u.path)
                          [] u.option = "hrd" -> lib
                          [] OTHER -> LoadSettings(lib, u.path)
              /\ said' = IF u.option = "hrd" THEN said
                         ELSE said \o Sayings(IF u.option = "hrc" THEN "hrc" ELSE "settings", u.path.content)
  /\ UNCHANGED <<handler, current, open, text, sets, inputs, answer>>

Opened ==
  /\ stage = "loading" /\ loads = <<>> /\ stage' = "open"
  /\ UNCHANGED <<loads, hrds, lib, handler, current, open, text, said, sets, inputs, answer>>

(* A method of the open session: what it leaves alone is named by the      *)
(* method.                                                                 *)
Method == stage = "open" /\ UNCHANGED <<loads, hrds, said>>
Returns(call, value) == stage' = stage /\ answer' = Answer(call, value)
MayFeed == inputs < MaxInputs /\ inputs' = inputs + 1
Fatal == stage' = "failed" /\ answer' = Nil

-----------------------------------------------------------------------------
(* Colour schemes. *)

(* getRegion loads the type that declares the region, if there is one.     *)
Declared(region) == IF Has(lib, "def") THEN region ELSE NoRegion

(* colorer_set_hrd: mapper, background and special region go together.     *)
PutMapper(h, mapper) ==
  [h EXCEPT !.mapper = mapper, !.background = Named(mapper, "def:Text"),
            !.special = Declared("def:Special")]

(* SetHRD; a style that is not there, or whose files cannot be read, traps. *)
SetHRD(class, name) ==
  LET node == GetHrdNode(hrds, class, name)
  IN  /\ Method
      /\ IF node = <<>> \/ (node # <<>> /\ ~Loadable(node[1]))
         THEN Fatal /\ UNCHANGED <<lib, handler>>
         ELSE /\ handler' = PutMapper(handler, FillMapper(node[1]))
              /\ lib' = LoadFileType(lib, "def")
              /\ Returns("set", TRUE)
      /\ UNCHANGED <<current, open, text, sets, inputs>>

(* colorer_enum_hrd_instances, and the names one by one.                   *)
StyleNames(class) ==
  [i \in DOMAIN EnumHrdInstances(hrds, class) |-> EnumHrdInstances(hrds, class)[i].name]

EnumHRDInstances(class) ==
  /\ Method /\ Returns("styles", StyleNames(class))
  /\ UNCHANGED <<lib, handler, current, open, text, sets, inputs>>

(* colorer_get_region_define: by name only, what the scheme says of a      *)
(* parent does not count.                                                  *)
DefineOf(region) ==
  IF handler.mapper = NoMapper THEN NoDefine ELSE Named(handler.mapper, region)

GetRegionDefineOf(region) ==
  /\ Method /\ Returns("define", DefineOf(region))
  /\ UNCHANGED <<lib, handler, current, open, text, sets, inputs>>

-----------------------------------------------------------------------------
(* File types. *)

(* setFileType: the parser starts with a new cache.                        *)
GiveType(t) ==
  /\ lib' = LoadFileType(lib, t)
  /\ current' = t /\ open' = <<>> /\ text' = <<>>

SelectType(file, first) ==
  LET t == ChooseFileType(lib, file, first)
  IN  /\ Method
      /\ IF t = NoType THEN Returns("type", t) /\ UNCHANGED <<lib, current, open, text>>
         ELSE IF t \in Unreadable THEN Fatal /\ UNCHANGED <<lib, current, open, text>>
         ELSE Returns("type", t) /\ GiveType(t)
      /\ UNCHANGED <<handler, sets, inputs>>

SetFileType(t) ==
  /\ Method
  /\ IF ~Has(lib, t) THEN Returns("type", NoType) /\ UNCHANGED <<lib, current, open, text>>
     ELSE IF t \in Unreadable THEN Fatal /\ UNCHANGED <<lib, current, open, text>>
     ELSE Returns("type", t) /\ GiveType(t)
  /\ UNCHANGED <<handler, sets, inputs>>

(* LoadFileType loads a type and does not select it.                       *)
LoadType(t) ==
  /\ Method
  /\ IF ~Has(lib, t) THEN Returns("loaded", NoType) /\ UNCHANGED lib
     ELSE IF t \in Unreadable THEN Fatal /\ UNCHANGED lib
     ELSE Returns("loaded", t \notin Schemeless) /\ lib' = LoadFileType(lib, t)
  /\ UNCHANGED <<handler, current, open, text, sets, inputs>>

(* FileType; colorer_enum_file_types and FileTypes.                        *)
FileType ==
  /\ Method /\ Returns("current", current)
  /\ UNCHANGED <<lib, handler, current, open, text, sets, inputs>>

TypeNames == lib.order

Types ==
  /\ Method /\ Returns("types", TypeNames)
  /\ UNCHANGED <<lib, handler, current, open, text, sets, inputs>>

(* FileTypeParam: the type's own, "default" is not asked.                  *)
FileTypeParam(t, p) ==
  /\ Method /\ Returns("param", [type |-> t, param |-> p, value |-> GetParamValue(lib, t, p)])
  /\ UNCHANGED <<lib, handler, current, open, text, sets, inputs>>

SetParam(t, p, v) ==
  /\ Method /\ MayFeed
  /\ IF ~Has(lib, t) \/ (Lacks(lib, t, p) /\ Lacks(lib, "default", p))
     THEN Returns("set", FALSE) /\ UNCHANGED <<lib, sets>>
     ELSE /\ Returns("set", TRUE) /\ lib' = SetFileTypeParam(lib, t, p, v)
          /\ sets' = Append(sets, <<t, p, v>>)
  /\ UNCHANGED <<handler, current, open, text>>

ResetParam(t, p) ==
  /\ Method /\ MayFeed
  /\ IF ~Has(lib, t) \/ Lacks(lib, t, p) THEN Returns("set", FALSE) /\ UNCHANGED <<lib, sets>>
     ELSE /\ Returns("set", TRUE) /\ lib' = ResetFileTypeParam(lib, t, p)
          /\ sets' = Append(sets, <<t, p, NoText>>)
  /\ UNCHANGED <<handler, current, open, text>>

ListParams(t) ==
  /\ Method
  /\ IF Has(lib, t) THEN Returns("params", [type |-> t, list |-> FileTypeParams(lib, t)])
     ELSE Returns("params", NoType)
  /\ UNCHANGED <<lib, handler, current, open, text, sets, inputs>>

-----------------------------------------------------------------------------
(* A line. *)

Marked(region) == Has(lib, "def") /\ region \in Regions

(* resolveRegions, before the parse.                                       *)
ResolveRegions ==
  LET Mark(r) == IF Marked(r) THEN r ELSE NoRegion
  IN  [start |-> Mark("def:PairStart"), end |-> Mark("def:PairEnd"),
       outlined |-> Mark("def:Outlined"), error |-> Mark("def:Error")]

(* fillInvisibleSchemes: the handler hears of what is open first.          *)
Resume(h, blocks) == FoldLeft(LAMBDA g, b : EnterScheme(g, 0, b.region), h, blocks)

(* A block starts: its own region and that of the match, in either order.  *)
Enter(h, i, b) ==
  IF b.inner THEN EnterScheme(AddRegion(h, i - 1, i, b.first), i, b.region)
  ELSE AddRegion(EnterScheme(h, i - 1, b.region), i - 1, i, b.first)

Leave(h, i, b) ==
  IF b.inner THEN AddRegion(LeaveScheme(h, i - 1), i - 1, i, b.last)
  ELSE LeaveScheme(AddRegion(h, i - 1, i, b.last), i)

(* What the scheme of a type makes of a symbol.                            *)
Plain == [kind |-> "plain"]
Token(t, symbol) ==
  IF t \in lib.compiled /\ t \in DOMAIN Grammar /\ symbol \in DOMAIN Grammar[t]
  THEN Grammar[t][symbol] ELSE Plain

TokensOf(line) == [i \in DOMAIN line |-> Token(current, line[i])]

(* One symbol of the line at s.open in the handler s.h.                    *)
Scan(s, i, token) ==
  CASE token.kind = "mark" -> [s EXCEPT !.h = AddRegion(@, i - 1, i, token.region)]
    [] token.kind = "open" ->
         [h |-> Enter(s.h, i, token.block), open |-> Append(s.open, token.block)]
    [] token.kind = "close" /\ s.open # <<>> ->
         [h |-> Leave(s.h, i, Last(s.open)), open |-> Front(s.open)]
    [] OTHER -> s

(* TextParser::parse of one line, for the handler.                         *)
Parsed(h, line) ==
  LET tokens == TokensOf(line)
  IN  FoldLeftDomain(LAMBDA s, i : Scan(s, i, tokens[i]),
        [h |-> Resume(ClearLine(StartParsing(h)), open), open |-> open], tokens)

(* harvest, and what Go reads of it.                                       *)
Region(r) == [start |-> r.start, end |-> r.end, name |-> r.region, define |-> r.define]
Pair(h, r) == [start |-> r.start, end |-> r.end, opens |-> PairKind(h, r.region) = "opens",
               define |-> r.define]

Result(h) ==
  LET rs == Harvested(h)
      ps == Pairs(h)
  IN  [regions |-> [i \in DOMAIN rs |-> Region(rs[i])],
       pairs |-> [i \in DOMAIN ps |-> Pair(h, ps[i])]]

(* colorer_parse_line: without a scheme the parser returns at once.        *)
AfterLine(line) ==
  LET ready == [Clear(handler) EXCEPT !.marks = ResolveRegions]
  IN  IF current = NoType \/ current \in Schemeless THEN [h |-> ready, open |-> open]
      ELSE Parsed(ready, line)

(* ParseLine and ParseLinePairs.                                           *)
ParseLine(line) ==
  /\ Method /\ MayFeed
  /\ LET after == AfterLine(line)
     IN  /\ handler' = after.h /\ open' = after.open
         /\ Returns("line", Result(after.h))
  /\ lib' = LoadFileType(lib, "def")
  /\ text' = Append(text, line)
  /\ UNCHANGED <<current, sets>>

(* LineOutline: a span that starts one makes an item, the others of its    *)
(* kind join the last.                                                     *)
Joined(items, span) ==
  LET mine == {i \in DOMAIN items : items[i].kind = span.kind}
      part == [start |-> span.start, end |-> span.end]
      item == [kind |-> span.kind, region |-> span.name, start |-> span.start,
               level |-> span.level, spans |-> <<part>>]
  IN  IF span.starts \/ mine = {} THEN Append(items, item)
      ELSE [items EXCEPT ![Max(mine)].spans = Append(@, part)]

LineOutline ==
  /\ Method /\ Returns("outline", FoldLeft(Joined, <<>>, handler.outline))
  /\ UNCHANGED <<lib, handler, current, open, text, sets, inputs>>

Reset ==
  /\ Method /\ handler' = Clear(handler) /\ open' = <<>> /\ text' = <<>>
  /\ Returns("reset", TRUE)
  /\ UNCHANGED <<lib, current, sets, inputs>>

Next ==
  \/ NewSession \/ LoadUserPath \/ Opened
  \/ \E class \in Names.class : EnumHRDInstances(class) \/ \E name \in Names.style : SetHRD(class, name)
  \/ \E region \in Names.region : GetRegionDefineOf(region)
  \/ \E file \in Names.file, first \in Names.first : SelectType(file, first)
  \/ FileType \/ Types
  \/ \E t \in Names.type :
       \/ SetFileType(t) \/ LoadType(t) \/ ListParams(t)
       \/ \E p \in Names.param :
            FileTypeParam(t, p) \/ ResetParam(t, p) \/ \E v \in Names.value : SetParam(t, p, v)
  \/ \E line \in Lines : ParseLine(line)
  \/ LineOutline \/ Reset

Spec == Init /\ [][Next]_vars

-----------------------------------------------------------------------------
(* Properties. *)

(* The text read once more: the blocks open at a symbol, a block counting  *)
(* at its own start and end if it is not inner.                            *)
Tokens == [l \in DOMAIN text |-> TokensOf(text[l])]

After(blocks, token) ==
  IF token.kind = "open" THEN Append(blocks, token.block)
  ELSE IF token.kind = "close" /\ blocks # <<>> THEN Front(blocks) ELSE blocks

OpenBefore(i) ==
  LET Line(blocks, line) == FoldLeft(After, blocks, line)
  IN  Line(FoldLeft(Line, <<>>, Front(Tokens)), SubSeq(Last(Tokens), 1, i - 1))

BlocksAt(i) ==
  LET token == Last(Tokens)[i]
      before == OpenBefore(i)
  IN  IF token.kind = "open" /\ ~token.block.inner THEN Append(before, token.block)
      ELSE IF token.kind = "close" /\ before # <<>> /\ Last(before).inner THEN Front(before)
      ELSE before

(* The region of the match at a symbol of the last line, if it has one.    *)
TokenRegion(i) ==
  LET token == Last(Tokens)[i]
  IN  CASE token.kind = "mark" -> token.region
        [] token.kind = "open" -> token.block.first
        [] token.kind = "close" /\ OpenBefore(i) # <<>> -> Last(OpenBefore(i)).last
        [] OTHER -> NoRegion

(* What the colour scheme makes of a region that lies in a style.          *)
SchemeSays(mapper, r, outer) ==
  LET Said(s) == Named(mapper, s)
      nearest == {s \in Lineage[r] : Said(s) # NoDefine
                   /\ \A q \in Lineage[r] \ Lineage[s] : Said(q) = NoDefine}
      Over(d) == [fore |-> IF d.fore = Unset THEN outer.fore ELSE d.fore,
                  back |-> IF d.back = Unset THEN outer.back ELSE d.back,
                  style |-> d.style \cup outer.style]
  IN  IF nearest = {} THEN outer
      ELSE LET d == Said(CHOOSE s \in nearest : TRUE)
           IN  IF outer = NoDefine THEN d ELSE Over(d)

StyleAround(i) ==
  FoldLeft(LAMBDA style, b : IF b.region = NoRegion THEN style
                             ELSE SchemeSays(handler.mapper, b.region, style),
           Named(handler.mapper, "def:Text"), BlocksAt(i))

StyleAt(i) ==
  LET r == TokenRegion(i)
  IN  IF handler.mapper = NoMapper THEN NoDefine
      ELSE IF r = NoRegion \/ HasParent(r, handler.special) THEN StyleAround(i)
      ELSE SchemeSays(handler.mapper, r, StyleAround(i))

(* Where a client's regions put the last of them that covers a symbol.     *)
PaintedAt(regions, i) ==
  FoldLeft(LAMBDA d, r : IF r.start < i /\ (r.end = -1 \/ i <= r.end) THEN r.define ELSE d,
           NoDefine, regions)

LineKnown == text # <<>> /\ current # NoType /\ current \notin Schemeless

(* Painting the regions of a line in the order ParseLine returns them      *)
(* gives every character the style the colour scheme has for it: that of   *)
(* the match it belongs to, completed from the blocks around it however    *)
(* many lines ago they were opened, whatever was parsed, reset or recycled *)
(* before and whichever style was chosen last (README.md, "regions").      *)
LinePainted ==
  answer.call = "line" /\ LineKnown =>
    \A i \in DOMAIN Last(text) : PaintedAt(answer.value.regions, i) = StyleAt(i)

Starts == "def:PairStart"
Ends == "def:PairEnd"
Matches(roots) ==
  LET hit == [i \in DOMAIN Last(text) |-> \E m \in roots : HasParent(TokenRegion(i), m)]
  IN  FoldLeftDomain(LAMBDA at, i : IF hit[i] THEN Append(at, i) ELSE at, <<>>, hit)

PairAt(i) ==
  [start |-> i - 1, end |-> i, opens |-> HasParent(TokenRegion(i), Starts),
   define |-> SchemeSays(handler.mapper, TokenRegion(i), StyleAround(i))]

(* The one item a line has of a kind: the first match, its depth and all   *)
(* the matches of the line.                                                *)
ItemOf(kind, root) ==
  LET at == Matches({root})
  IN  IF at = <<>> THEN <<>>
      ELSE <<[kind |-> kind, region |-> TokenRegion(Head(at)), start |-> Head(at) - 1,
              level |-> Len(BlocksAt(Head(at))),
              spans |-> [i \in DOMAIN at |-> [start |-> at[i] - 1, end |-> at[i]]]]>>

(* After SetHRD a line's pairs are the matches derived from def:PairStart  *)
(* or def:PairEnd, in order, each the side its region says; and, if there  *)
(* is a type "def" to declare those, a line's outline has one item for its *)
(* functions and one for its errors, at the depth of the blocks open there, *)
(* with every match of its kind                                            *)
(* (ParseLinePairs, LineOutline; Outliner and BaseEditor in the library).  *)
TokensReported ==
  LineKnown =>
    /\ answer.call = "line" /\ handler.special # NoRegion =>
         LET at == Matches({Starts, Ends})
         IN  answer.value.pairs = [i \in DOMAIN at |-> PairAt(at[i])]
    /\ answer.call = "outline" /\ Has(lib, "def") =>
         ToSet(answer.value) = ToSet(ItemOf("outlined", "def:Outlined") \o ItemOf("error", "def:Error"))

(* What the files loaded say of a parameter of a type: the last prototype  *)
(* of that name, and the settings loaded after it.  A prototype gives its  *)
(* parameter the first value it names, settings the last.                  *)
Items(saying, p) ==
  {i \in DOMAIN saying.of.items :
     LET c == saying.of.items[i]
     IN  c.kind = "param" /\ c.name = p /\ (saying.kind = "hrc" => c.value # "")}

FilesSay(t, p) ==
  LET About(kind) == {i \in DOMAIN said : said[i].kind = kind /\ said[i].of.name = t}
      proto == Max(About("hrc"))
      later == {i \in About("settings") : i > proto /\ Items(said[i], p) # {}}
      Value(saying, i) == saying.of.items[i].value
  IN  IF "" \in {t, p} \/ About("hrc") = {} THEN NoText
      ELSE IF later # {} THEN Value(said[Max(later)], Max(Items(said[Max(later)], p)))
      ELSE IF said[proto].of.package \/ Items(said[proto], p) = {} THEN NoText
      ELSE Value(said[proto], Min(Items(said[proto], p)))

SetTo(t, p) ==
  LET at == {i \in DOMAIN sets : sets[i][1] = t /\ sets[i][2] = p}
  IN  IF at = {} THEN NoText ELSE sets[Max(at)][3]

(* The parameters the files name.                                          *)
ParamsSaid ==
  UNION {{said[i].of.items[j].name : j \in DOMAIN said[i].of.items} : i \in DOMAIN said}

(* The values "default" has or had for a parameter.                        *)
DefaultsOf(p) ==
  {FilesSay("default", p)} \cup {s[3] : s \in {s \in ToSet(sets) : s[1] = "default" /\ s[2] = p}}

Expected(t, p, value) ==
  IF SetTo(t, p) # NoText THEN value = SetTo(t, p)
  ELSE IF FilesSay(t, p) # NoText THEN value = FilesSay(t, p)
  ELSE value \in DefaultsOf(p) \ {NoText}

(* The parameters listed for a type are those the HRC files give it or     *)
(* "default"; each has the value set last, or else the one the HRC files   *)
(* give the type, or else one of "default"; UserSet says whether it was    *)
(* set; and FileTypeParam answers a value of the type alone                *)
(* (FileTypeParams, SetFileTypeParam, ResetFileTypeParam).                 *)
ParamsReported ==
  /\ answer.call = "params" /\ answer.value # NoType =>
       LET t == answer.value.type
           list == answer.value.list
       IN  /\ DOMAIN list = {p \in ParamsSaid : {FilesSay(t, p), FilesSay("default", p)} # {NoText}}
           /\ \A p \in DOMAIN list :
                /\ Expected(t, p, list[p].value)
                /\ list[p].userSet = (SetTo(t, p) # NoText)
                /\ FilesSay(t, p) # NoText => list[p].default = FilesSay(t, p)
  /\ answer.call = "param" /\ answer.value.value # NoText =>
       Expected(answer.value.type, answer.value.param, answer.value.value)
=============================================================================
