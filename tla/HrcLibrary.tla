---------------------------- MODULE HrcLibrary ----------------------------
(***************************************************************************)
(* HrcLibrary::Impl: how the library reads HRC files, loads the types they *)
(* refer to while it reads, and links the schemes when it is done; with    *)
(* the lock that keeps loading and parsing apart and the sessions that     *)
(* parse.  Loading is recursive: to resolve a name the library loads the   *)
(* type the name may belong to, whose own names load further types.  The   *)
(* recursion is the explicit stack of the model, one frame for each call   *)
(* of parseHRC, addType, addScheme, updateLinks and qualifyForeignName.    *)
(*                                                                         *)
(* A name is [kind, type, name], type being None if it is not qualified.   *)
(* A file is a sequence of prototypes and types, or Bad (not HRC); a       *)
(* location no file exists at is Missing.  A type is a sequence of regions *)
(* and entities (name, and the name they refer to, or None), imports and   *)
(* schemes.  A node of a scheme has the names that are resolved while it   *)
(* is read (early) and those of schemes resolved later (links).  Of the    *)
(* entities and regions of a node one of each kind is enough.              *)
(***************************************************************************)
EXTENDS Integers, FiniteSets, Sequences, SequencesExt

CONSTANTS
  Types,      \* names of file types and packages
  Names,      \* names of schemes, regions and entities
  Libraries,  \* [files |-> file -> contents, catalog |-> Seq(file)]
  Wanted,     \* the name of the region a session looks up before it parses
  Sessions,   \* threads that parse
  MaxParses,  \* bound: lines a session parses
  MaxOpens,   \* bound: files opened in an editor
  None, Bad, Missing

(* Nobody is neither a session nor the host.                               *)
ASSUME HrcAssumption == None \notin Sessions /\ None # "host"

(* What a library is made of.                                              *)
Contents(l) == {f \in DOMAIN l.files : l.files[f] # Bad}
IsList(s) == s \in Seq({s[i] : i \in DOMAIN s})
IsName(n) == n # None /\ n.kind \in {"scheme", "region", "entity"} /\ n.name \in Names

(* An inherit looks the scheme it names up as it is read.                  *)
IsNode(node) ==
  /\ node.tag \in {"block", "inherit", "regexp", "keywords"}
  /\ IsList(node.early) /\ \A i \in DOMAIN node.early : IsName(node.early[i])
  /\ IsList(node.links)
  /\ \A i \in DOMAIN node.links : IsName(node.links[i]) /\ node.links[i].kind = "scheme"
  /\ node.tag = "inherit" => node.links # <<>> /\ node.early = <<node.links[1]>>

IsItem(item) ==
  /\ item.tag \in {"region", "entity", "import", "scheme"}
  /\ item.tag = "scheme" => /\ IsList(item.nodes)
                            /\ \A i \in DOMAIN item.nodes : IsNode(item.nodes[i])

IsElement(l, e) ==
  /\ e.tag \in {"type", "prototype"} /\ e.type \in Types
  /\ e.tag = "type" => IsList(e.items) /\ \A i \in DOMAIN e.items : IsItem(e.items[i])
  /\ e.tag = "prototype" => e.file \in DOMAIN l.files \cup {Missing}

IsLibrary(l) ==
  /\ IsList(l.catalog) /\ \A i \in DOMAIN l.catalog : l.catalog[i] \in DOMAIN l.files
  /\ \A f \in Contents(l) : /\ IsList(l.files[f])
                            /\ \A i \in DOMAIN l.files[f] : IsElement(l, l.files[f][i])

ASSUME LibraryAssumption ==
  /\ None \notin Types /\ \A t \in Types, n \in Names : <<t, n>> # None
  /\ \A l \in Libraries : IsLibrary(l)

VARIABLES
  lib,           \* what is on the disk
  catalog,       \* files of prototypes still to be loaded at the start
  types,         \* fileTypeHash
  schemes,       \* schemeHash: <<type, name>> -> [owner, nodes]
  defined,       \* names of regionNamesHash and schemeEntitiesHash
  stack, parseType, mode, structureChanged, updateStarted,
  writer,        \* who holds the lock exclusively: a session, "host" or None
  readers,       \* the sessions that hold it shared
  pc, parses, regions, \* of each session; regions: it found the one it looks up
  opens

library == <<types, schemes, defined>>
loader == <<stack, parseType, mode, structureChanged, updateStarted>>
sessions == <<readers, pc, parses, regions>>
vars == <<lib, catalog, opens, library, loader, writer, sessions>>

Frame(do, of, rest, saved) ==
  [do |-> do, of |-> of, rest |-> rest, saved |-> saved, outer |-> FALSE,
   asked |-> FALSE, want |-> <<>>, got |-> <<>>]

top == Last(stack)
below == Front(stack)
Running(do) == stack # <<>> /\ top.do = do

(* The frame goes on with its next element.                                *)
Advance(f) == [f EXCEPT !.rest = Tail(@), !.asked = FALSE, !.got = <<>>]

-----------------------------------------------------------------------------
(* loadSource and loadFileType. *)

ParseHRC(owner, file, m, rest) ==
  /\ stack' = Append(rest, [Frame("hrc", owner, lib.files[file], mode) EXCEPT
                              !.outer = ~updateStarted])
  /\ mode' = m /\ updateStarted' = TRUE

LoadFileType(t, rest) ==
  LET ft == types[t]
  IN  IF ft.loading \/ ft.source \/ ft.broken
      THEN stack' = rest /\ UNCHANGED <<types, mode, updateStarted>>
      ELSE IF lib.files[ft.file] = Bad
      THEN /\ types' = [types EXCEPT ![t].broken = TRUE]
           /\ stack' = rest /\ UNCHANGED <<mode, updateStarted>>
      ELSE /\ types' = [types EXCEPT ![t].source = TRUE]
           /\ ParseHRC(t, ft.file, "TYPE", rest)

(* Mutant: only a load that succeeds puts back what it changed.            *)
ClosedIfLoaded(owner, failed, fts) ==
  IF owner \notin DOMAIN fts \/ failed THEN fts ELSE [fts EXCEPT ![owner].source = FALSE]

(* What loadFileType puts back, however the load ends.                     *)
Closed(owner, failed, fts) ==
  IF owner \notin DOMAIN fts THEN fts
  ELSE [fts EXCEPT ![owner].source = FALSE, ![owner].broken = @ \/ failed]

(* An exception ends the innermost load: loadSource restores its context,  *)
(* and loadFileType, or whoever called the library, goes on.               *)
Throw(fts) == stack' = below /\ mode' = top.saved /\ types' = Closed(top.of, TRUE, fts)

-----------------------------------------------------------------------------
(* parseHrcBlock. *)

NewType(file) == [file |-> file, loading |-> FALSE, source |-> FALSE, broken |-> FALSE,
                  done |-> FALSE, imports |-> <<>>, base |-> None]

(* Prototypes are not read with a type, internal packages only with one.   *)
Skipped(elem) ==
  IF elem.global THEN mode = "TYPE" ELSE mode = "PROTOTYPE"

(* A second prototype of a name takes the place of the first, whose        *)
(* schemes go (unloadFileType).                                            *)
AddPrototype ==
  LET elem == Head(top.rest)
      others == {k \in DOMAIN schemes : schemes[k].owner # elem.type}
      kept == DOMAIN types \ {elem.type}
  IN  /\ Running("hrc") /\ top.rest # <<>> /\ elem.tag = "prototype"
      /\ IF Skipped(elem)
         THEN /\ stack' = Append(below, Advance(top)) /\ UNCHANGED <<types, schemes, mode>>
         ELSE /\ schemes' = [k \in others |-> schemes[k]]
              /\ IF elem.file = Missing
                 THEN Throw([t \in kept |-> types[t]])
                 ELSE /\ types' = [t \in kept \cup {elem.type} |->
                                     IF t = elem.type THEN NewType(elem.file) ELSE types[t]]
                      /\ stack' = Append(below, Advance(top)) /\ UNCHANGED mode
      /\ UNCHANGED <<defined, parseType, structureChanged, updateStarted>>

AddType ==
  LET elem == Head(top.rest)
      t == elem.type
      skipped == mode = "PROTOTYPE" \/ t \notin DOMAIN types \/ types[t].loading
      next == Append(below, Advance(top))
  IN  /\ Running("hrc") /\ top.rest # <<>> /\ elem.tag = "type"
      /\ IF skipped
         THEN stack' = next /\ UNCHANGED <<types, parseType>>
         ELSE /\ types' = [types EXCEPT ![t].loading = TRUE]
              /\ stack' = Append(next, Frame("type", t, elem.items, parseType))
              /\ parseType' = t
      /\ UNCHANGED <<schemes, defined, mode, structureChanged, updateStarted>>

QualifyOwnName(t, name) == <<t, name>>

(* The end of a type: its base scheme is the one of its own name.          *)
EndType ==
  LET t == top.of
      key == QualifyOwnName(t, t)
  IN  /\ Running("type") /\ top.rest = <<>>
      /\ types' = [types EXCEPT ![t].done = TRUE,
                                ![t].base = IF key \in DOMAIN schemes THEN key ELSE None]
      /\ parseType' = top.saved /\ stack' = below
      /\ UNCHANGED <<schemes, defined, mode, structureChanged, updateStarted>>

(* The end of a file; only the load that started the update links.         *)
EndHRC ==
  /\ Running("hrc") /\ top.rest = <<>> /\ structureChanged' = TRUE
  /\ IF top.outer
     THEN /\ stack' = Append(stack, Frame("links", {}, <<>>, None))
          /\ UNCHANGED <<types, mode>>
     ELSE stack' = below /\ mode' = top.saved /\ types' = Closed(top.of, FALSE, types)
  /\ UNCHANGED <<schemes, defined, parseType, updateStarted>>

-----------------------------------------------------------------------------
(* Names. *)

Known(kind, t, name) ==
  IF kind = "scheme" THEN <<t, name>> \in DOMAIN schemes ELSE <<kind, t, name>> \in defined

Candidates(t, n) ==
  IF n.type # None THEN <<n.type>>
  ELSE IF t = None THEN <<>> ELSE <<t>> \o types[t].imports

(* qualifyForeignName begins: the types the name may belong to.            *)
Qualify ==
  /\ stack # <<>> /\ top.want # <<>>
  /\ stack' = Append(stack, Frame("qualify", Head(top.want),
                                  Candidates(parseType, Head(top.want)), None))
  /\ UNCHANGED <<library, parseType, mode, structureChanged, updateStarted>>

Answer(result) ==
  stack' = Append(Front(below), [Last(below) EXCEPT !.want = Tail(@),
                                                    !.got = Append(@, result)])

(* A candidate that is not loading yet is loaded first; what is being      *)
(* loaded knows the names read so far.                                     *)
LookIn ==
  LET n == top.of
      t == Head(top.rest)
      found == Known(n.kind, t, n.name)
               /\ (n.type = None \/ t = parseType \/ types[t].loading)
  IN  /\ Running("qualify") /\ top.rest # <<>> /\ t \in DOMAIN types
      /\ IF ~top.asked /\ ~types[t].loading
         THEN LoadFileType(t, Append(below, [top EXCEPT !.asked = TRUE]))
         ELSE /\ IF found THEN Answer(<<t, n.name>>)
                 ELSE stack' = Append(below, Advance(top))
              /\ UNCHANGED <<types, mode, updateStarted>>
      /\ UNCHANGED <<schemes, defined, parseType, structureChanged>>

(* No candidate is left, or there is no such type.                         *)
NotFound ==
  /\ Running("qualify")
  /\ \/ top.rest = <<>> /\ Answer(None)
     \/ top.rest # <<>> /\ Head(top.rest) \notin DOMAIN types
        /\ stack' = Append(below, Advance(top))
  /\ UNCHANGED <<library, parseType, mode, structureChanged, updateStarted>>

-----------------------------------------------------------------------------
(* parseTypeBlock and parseSchemeBlock: an element asks for its names, and *)
(* is added when they are known. *)

Early(elem) ==
  IF elem.tag = "scheme" \/ elem.tag = "import" THEN <<>>
  ELSE IF elem.tag = "region" /\ <<"region", top.of, elem.name>> \in defined THEN <<>>
  ELSE elem.early

Asks ==
  /\ Running("type") \/ Running("scheme")
  /\ top.rest # <<>> /\ ~top.asked
  /\ stack' = Append(below, [top EXCEPT !.asked = TRUE, !.want = Early(Head(top.rest))])
  /\ UNCHANGED <<library, parseType, mode, structureChanged, updateStarted>>

Answered == top.rest # <<>> /\ top.asked /\ top.want = <<>>

(* addTypeRegion, addTypeEntity, addTypeImport, addScheme.                 *)
AddItem ==
  LET elem == Head(top.rest)
      next == Append(below, Advance(top))
      key == QualifyOwnName(top.of, elem.name)
  IN  /\ Running("type") /\ Answered
      /\ \/ /\ elem.tag \in {"region", "entity"}
            /\ defined' = defined \cup {<<elem.tag>> \o key}
            /\ stack' = next /\ UNCHANGED <<types, schemes>>
         \/ /\ elem.tag = "import" /\ stack' = next
            /\ types' = IF elem.name \in DOMAIN types
                        THEN [types EXCEPT ![top.of].imports = Append(@, elem.name)]
                        ELSE types
            /\ UNCHANGED <<schemes, defined>>
         \/ /\ elem.tag = "scheme" /\ UNCHANGED <<types, defined>>
            /\ IF key \in DOMAIN schemes
               THEN stack' = next /\ UNCHANGED schemes
               ELSE /\ schemes' = [k \in DOMAIN schemes \cup {key} |->
                                     IF k = key THEN [owner |-> top.of, nodes |-> <<>>]
                                     ELSE schemes[k]]
                    /\ stack' = Append(next, Frame("scheme", key, elem.nodes, None))
      /\ UNCHANGED <<parseType, mode, structureChanged, updateStarted>>

(* parseSchemeKeywords: keywords whose region is not known are left out.    *)
KeywordsSkipped(elem, got) == elem.tag = "keywords" /\ got = <<None>>

(* addSchemeInherit, addSchemeRegexp, addSchemeBlock: a link is [name, to];*)
(* an inherit may know its scheme already.                                 *)
AddNode ==
  LET elem == Head(top.rest)
      early(i) == IF elem.tag = "inherit" /\ i = 1 /\ top.got # <<>> THEN top.got[1] ELSE None
      node == [tag |-> elem.tag,
               links |-> [i \in DOMAIN elem.links |->
                            [name |-> IF early(i) = None THEN elem.links[i]
                                      ELSE [elem.links[i] EXCEPT !.type = early(i)[1]],
                             to |-> early(i)]]]
  IN  /\ Running("scheme") /\ Answered
      /\ schemes' = IF KeywordsSkipped(elem, top.got) THEN schemes
                    ELSE [schemes EXCEPT ![top.of].nodes = Append(@, node)]
      /\ stack' = Append(below, Advance(top))
      /\ UNCHANGED <<types, defined, parseType, mode, structureChanged, updateStarted>>

EndScheme ==
  /\ Running("scheme") /\ top.rest = <<>> /\ stack' = below
  /\ UNCHANGED <<library, parseType, mode, structureChanged, updateStarted>>

(* A region the host asks for by name (getRegion) is known: the call ends. *)
EndLookup ==
  /\ Running("lookup") /\ top.want = <<>> /\ stack' = below
  /\ UNCHANGED <<library, parseType, mode, structureChanged, updateStarted>>

-----------------------------------------------------------------------------
(* updateLinks.  Its frame holds in "of" the schemes this pass has not     *)
(* visited, in "rest" the places of the visited one it has still to look   *)
(* at, each <<scheme, node, link>>.                                        *)

Places(key) ==
  LET nodes == schemes[key].nodes
  IN  FlattenSeq([i \in DOMAIN nodes |-> [j \in DOMAIN nodes[i].links |-> <<key, i, j>>]])

NextPass ==
  /\ Running("links") /\ structureChanged /\ top.rest = <<>> /\ parseType = top.saved
  /\ structureChanged' = FALSE
  /\ stack' = Append(below, [top EXCEPT !.of = DOMAIN schemes])
  /\ UNCHANGED <<library, parseType, mode, updateStarted>>

(* The hash table gives the schemes in any order.                          *)
VisitScheme ==
  /\ Running("links") /\ ~structureChanged /\ top.rest = <<>> /\ parseType = top.saved
  /\ \E key \in top.of :
       LET next == [top EXCEPT !.of = @ \ {key}]
       IN  IF types[schemes[key].owner].done
           THEN /\ stack' = Append(below, [next EXCEPT !.rest = Places(key)])
                /\ parseType' = schemes[key].owner
           ELSE stack' = Append(below, next) /\ UNCHANGED parseType
  /\ UNCHANGED <<library, mode, structureChanged, updateStarted>>

LinkAt(place) == schemes[place[1]].nodes[place[2]].links[place[3]]

(* A link that has a name, and no scheme yet.                              *)
Unlinked(link) == link.name # None /\ link.to = None

PassLink ==
  /\ Running("links") /\ top.rest # <<>> /\ ~top.asked /\ ~Unlinked(LinkAt(Head(top.rest)))
  /\ stack' = Append(below, Advance(top))
  /\ UNCHANGED <<library, parseType, mode, structureChanged, updateStarted>>

AskLink ==
  /\ Running("links") /\ top.rest # <<>> /\ ~top.asked /\ Unlinked(LinkAt(Head(top.rest)))
  /\ stack' = Append(below, [top EXCEPT !.asked = TRUE,
                                        !.want = <<LinkAt(Head(top.rest)).name>>])
  /\ UNCHANGED <<library, parseType, mode, structureChanged, updateStarted>>

(* Mutant: a name that was not found is kept for the next pass.            *)
LinkedKept(link, to) == [name |-> IF to = None THEN link.name ELSE None, to |-> to]

(* updateSchemeLink: found or not, the name is dropped.                    *)
Linked(link, to) == [name |-> None, to |-> to]

UpdateSchemeLink ==
  LET p == Head(top.rest)
  IN  /\ Running("links") /\ Answered
      /\ schemes' = [schemes EXCEPT ![p[1]].nodes[p[2]].links[p[3]] = Linked(@, top.got[1])]
      /\ stack' = Append(below, Advance(top))
      /\ UNCHANGED <<types, defined, parseType, mode, structureChanged, updateStarted>>

EndVisit ==
  /\ Running("links") /\ top.rest = <<>> /\ parseType # top.saved
  /\ parseType' = top.saved
  /\ UNCHANGED <<library, stack, mode, structureChanged, updateStarted>>

(* Mutant: a pass that loaded types is the last one all the same.          *)
LinkedOnce == top.of = {} \/ structureChanged

(* All schemes were visited and nothing was loaded meanwhile.              *)
AllLinked == top.of = {} /\ ~structureChanged

EndLinks ==
  LET hrc == Last(below)
  IN  /\ Running("links") /\ AllLinked /\ top.rest = <<>> /\ parseType = top.saved
      /\ updateStarted' = FALSE
      /\ stack' = Front(below) /\ mode' = hrc.saved /\ types' = Closed(hrc.of, FALSE, types)
      /\ UNCHANGED <<schemes, defined, parseType, structureChanged>>

Step ==
  \/ AddPrototype \/ AddType \/ EndType \/ EndHRC \/ Qualify \/ LookIn \/ NotFound
  \/ Asks \/ AddItem \/ AddNode \/ EndScheme \/ EndLookup
  \/ NextPass \/ VisitScheme \/ PassLink \/ AskLink \/ UpdateSchemeLink \/ EndVisit \/ EndLinks

-----------------------------------------------------------------------------
(* The lock, and the calls into the library. *)

Exclusive(who) == writer = None /\ readers = {} /\ writer' = who

(* ParserFactory::loadHrc: one file of the catalog; a file that is not HRC *)
(* is reported and passed over.                                            *)
LoadProtoTypes ==
  /\ catalog # <<>> /\ catalog' = Tail(catalog) /\ Exclusive("host")
  /\ IF lib.files[Head(catalog)] = Bad
     THEN UNCHANGED <<stack, mode, updateStarted>>
     ELSE ParseHRC(None, Head(catalog), "PROTOTYPE", <<>>)
  /\ UNCHANGED <<lib, opens, library, parseType, structureChanged, sessions>>

(* A file of a type is opened in an editor.                                *)
OpenFile(t) ==
  /\ catalog = <<>> /\ t \in DOMAIN types /\ ~types[t].done /\ ~types[t].broken
  /\ opens < MaxOpens /\ opens' = opens + 1
  /\ Exclusive("host") /\ LoadFileType(t, <<>>)
  /\ UNCHANGED <<lib, catalog, schemes, defined, parseType, structureChanged, sessions>>

Load == stack # <<>> /\ Step /\ UNCHANGED <<lib, catalog, opens, writer, sessions>>

(* The call returns and the lock is released.                              *)
Return ==
  /\ stack = <<>> /\ writer # None /\ writer' = None
  /\ IF writer \in Sessions
     THEN /\ pc' = [pc EXCEPT ![writer] = "resolved"]
          /\ regions' = [regions EXCEPT ![writer] = Known("region", Wanted.type, Wanted.name)]
     ELSE UNCHANGED <<pc, regions>>
  /\ UNCHANGED <<lib, catalog, opens, library, loader, readers, parses>>

(* colorer_parse_line looks its regions up before it calls the parser,     *)
(* which reads the library until the line is done.                         *)
ParseLine(s) ==
  /\ catalog = <<>> /\ pc[s] = "idle" /\ parses[s] < MaxParses
  /\ pc' = [pc EXCEPT ![s] = IF regions[s] THEN "resolved" ELSE "called"]
  /\ parses' = [parses EXCEPT ![s] = @ + 1]
  /\ UNCHANGED <<lib, catalog, opens, library, loader, writer, readers, regions>>

(* getRegion(name) may load a type.                                        *)
ResolveRegions(s) ==
  /\ pc[s] = "called" /\ Exclusive(s)
  /\ stack' = <<[Frame("lookup", s, <<>>, None) EXCEPT !.want = <<Wanted>>]>>
  /\ UNCHANGED <<lib, catalog, opens, library, parseType, mode, structureChanged, updateStarted,
                 sessions>>

(* Mutant: the parser is started first, and its handler looks them up.     *)
ParseFirst(s) ==
  /\ pc[s] = "called" /\ writer = None /\ readers' = readers \cup {s}
  /\ UNCHANGED <<lib, catalog, opens, library, loader, writer, pc, parses, regions>>

BeginParse(s) ==
  /\ pc[s] = "resolved" /\ writer = None
  /\ readers' = readers \cup {s} /\ pc' = [pc EXCEPT ![s] = "parsing"]
  /\ UNCHANGED <<lib, catalog, opens, library, loader, writer, parses, regions>>

EndParse(s) ==
  /\ pc[s] = "parsing"
  /\ readers' = readers \ {s} /\ pc' = [pc EXCEPT ![s] = "idle"]
  /\ UNCHANGED <<lib, catalog, opens, library, loader, writer, parses, regions>>

Init ==
  /\ lib \in Libraries /\ catalog = lib.catalog /\ opens = 0
  /\ types = [t \in {} |-> None] /\ schemes = [k \in {} |-> None] /\ defined = {}
  /\ stack = <<>> /\ parseType = None /\ mode = "FULL"
  /\ structureChanged = FALSE /\ updateStarted = FALSE
  /\ writer = None /\ readers = {}
  /\ pc = [s \in Sessions |-> "idle"] /\ parses = [s \in Sessions |-> 0]
  /\ regions = [s \in Sessions |-> FALSE]

Next ==
  \/ LoadProtoTypes \/ Load \/ Return
  \/ \E t \in Types : OpenFile(t)
  \/ \E s \in Sessions : ParseLine(s) \/ ResolveRegions(s) \/ BeginParse(s) \/ EndParse(s)

(* A call that has the lock runs on, a parse comes to its end (TextParser), *)
(* and who waits for a lock that stays free gets it.                       *)
Fairness ==
  /\ WF_vars(Load) /\ WF_vars(Return)
  /\ \A s \in Sessions : WF_vars(ResolveRegions(s)) /\ WF_vars(BeginParse(s))
                          /\ WF_vars(EndParse(s))

Spec == Init /\ [][Next]_vars /\ Fairness

-----------------------------------------------------------------------------
(* Properties. *)

(* The scheme the library as it is now knows by a name used in type t.     *)
Target(t, n) ==
  LET from == Candidates(t, n)
      knows == {i \in DOMAIN from : Known("scheme", from[i], n.name)}
  IN  IF knows = {} THEN None ELSE <<from[Min(knows)], n.name>>

(* The nodes a scheme was written with: the first of its name in the first *)
(* element of its type.                                                    *)
TypesAt(file, t) == {i \in DOMAIN file : file[i].tag = "type" /\ file[i].type = t}
ItemsWritten(t) ==
  LET file == lib.files[types[t].file]
  IN  file[Min(TypesAt(file, t))].items

SchemesAt(items, name) == {i \in DOMAIN items : items[i].tag = "scheme" /\ items[i].name = name}
Written(key) ==
  LET items == ItemsWritten(key[1])
  IN  items[Min(SchemesAt(items, key[2]))].nodes

(* An inherit may have been linked while its type was read.                *)
LinkRight(t, node, n, link) ==
  IF node.tag = "inherit" THEN link.to = None <=> Target(t, n) = None
  ELSE link.to = Target(t, n)

(* The nodes are those written, in their order, but that keyword lists may *)
(* have been left out; node i is the one at[i].                            *)
ReadFrom(nodes, written, at) ==
  /\ \A i, j \in DOMAIN nodes : i < j => at[i] < at[j]
  /\ \A k \in DOMAIN written : written[k].tag # "keywords" => \E i \in DOMAIN nodes : at[i] = k
  /\ \A i \in DOMAIN nodes : /\ nodes[i].tag = written[at[i]].tag
                             /\ DOMAIN nodes[i].links = DOMAIN written[at[i]].links

LinksRight ==
  \A key \in DOMAIN schemes :
    LET nodes == schemes[key].nodes
        written == Written(key)
    IN  types[schemes[key].owner].done =>
          \E at \in [DOMAIN nodes -> DOMAIN written] :
            /\ ReadFrom(nodes, written, at)
            /\ \A i \in DOMAIN nodes : \A j \in DOMAIN nodes[i].links :
                 LinkRight(key[1], nodes[i], written[at[i]].links[j], nodes[i].links[j])

(* Files of types declare no packages of their own, and a type is only in  *)
(* the file its prototypes name.                                           *)
Tidy(l) ==
  \A f, g \in Contents(l) : \A i \in DOMAIN l.files[f], j \in DOMAIN l.files[g] :
    LET e == l.files[f][i]
        p == l.files[g][j]
    IN  p.tag = "prototype" => p.global /\ (e.tag = "type" /\ e.type = p.type => p.file = f)

Quiet == stack = <<>> \/ readers # {}

(* Whenever somebody may parse, every scheme of every loaded type leads    *)
(* where its file says: no order of loading, cycle of imports, file that   *)
(* is broken or read twice leaves a block without its scheme.  Only an     *)
(* exception in an outermost load does, which leaves updateStarted set.    *)
(* A link that was not found is not looked for again, so of the libraries  *)
(* that are not tidy it holds only as long as no name turns up later.      *)
LinksResolved == Quiet /\ ~updateStarted => LinksRight

(* Between calls nothing is half loaded, and the next load starts from the *)
(* context the first one did, however the loads before it ended.           *)
ContextRestored ==
  stack = <<>> =>
    /\ parseType = None /\ mode = "FULL"
    /\ \A t \in DOMAIN types : ~types[t].source /\ (types[t].loading => types[t].done)

(* Every load comes to its end, whatever the types refer to, and every     *)
(* line is parsed: nobody waits for a lock he keeps from being released.   *)
CallsReturn ==
  /\ []<>(stack = <<>>)
  /\ \A s \in Sessions : [](pc[s] # "idle" => <>(pc[s] = "idle"))
=============================================================================
