--------------------------- MODULE VirtualSchemes ---------------------------
(***************************************************************************)
(* How schemes that inherit one another are searched: the lists and tables *)
(* updateLinks works out for each scheme (buildSearchNodes, searchDispatch)*)
(* and the search at one place of a line through inherits and virtual      *)
(* substitutions (searchMatch, searchIN, searchBL and VTList), one node a  *)
(* step, with blocks that stay open from place to place and parses that    *)
(* stop inside of them and go on from the cache.                           *)
(*                                                                         *)
(* A node is [tag, name, starts, at, to, virtual]: the characters its      *)
(* expression may start with and those it matches at, the scheme an        *)
(* inherit or a block leads to, and the entries <<scheme, subst>> of an    *)
(* inherit.                                                                *)
(***************************************************************************)
EXTENDS Integers, Sequences, FiniteSets, SequencesExt

CONSTANTS
  Libraries,  \* linked libraries: scheme -> its nodes, in order
  Main,       \* the base scheme of the type, one of every library
  NoScheme,   \* a null SchemeImpl*
  SevenBits,  \* characters below 128
  Places,     \* the characters, ends of line included
  MaxPlaces   \* bound on the places searched

VARIABLES
  schemes,      \* schemeHash
  searchNodes,  \* scheme -> the nodes searched, static inherits expanded
  searchDispatch, \* scheme -> character -> those of them that may start with it
  baseScheme,
  vtlist, last_index, \* VTList: [vlist, shadow_last] each; how many count
  calls,        \* searchMatch, searchIN and searchBL, innermost last
  levels,       \* the open blocks of the cache, [scheme, vcache]
  place,        \* the character at gx
  phase,        \* "next", "search", "return" or "stop"
  places,       \* how many were searched
  hit, expected, \* history: what the search found, and had to find
  inside        \* history: the open blocks as read, [scheme, tables]

linked == <<schemes, searchNodes, searchDispatch>>
tables == <<vtlist, last_index>>
history == <<expected, inside>>
vsVars == <<linked, baseScheme, tables, calls, levels, place, phase, places, hit, history>>

-----------------------------------------------------------------------------
(* updateLinks, once the links are made. *)

InheritsOf(lib) == {n \in UNION {ToSet(lib[k]) : k \in DOMAIN lib} : n.tag = "inherit"}
Entries(lib) == UNION {ToSet(n.virtual) : n \in InheritsOf(lib)}

(* virtualTarget                                                           *)
Targets(lib) == {v[1] : v \in Entries(lib)} \ {NoScheme}

(* buildSearchNodes: an inherit without entries, of a scheme that nothing  *)
(* replaces, is expanded, unless it leads back into what is being built.   *)
RECURSIVE BuildSearchNodes(_, _, _)
BuildSearchNodes(lib, s, building) ==
  LET Static(n) == /\ n.tag = "inherit" /\ n.to # NoScheme /\ n.virtual = <<>>
                   /\ n.to \notin Targets(lib) \cup building \cup {s}
      Part(n) == IF Static(n) THEN BuildSearchNodes(lib, n.to, building \cup {s}) ELSE <<n>>
  IN  FlattenSeq([i \in DOMAIN lib[s] |-> Part(lib[s][i])])

(* schemeCanStartWith: a scheme met again on the way may start with        *)
(* anything (so what startCache remembers is what a fresh call answers).   *)
RECURSIVE SchemeCanStartWith(_, _, _, _, _)
SchemeCanStartWith(lib, built, s, c, met) ==
  \/ s \in met
  \/ \E n \in ToSet(built[s]) :
       IF n.tag # "inherit" THEN c \in n.starts
       ELSE n.to = NoScheme \/ SchemeCanStartWith(lib, built, n.to, c, met \cup {s})
  \/ \E v \in Entries(lib) : v[1] = s /\ v[2] # NoScheme
       /\ SchemeCanStartWith(lib, built, v[2], c, met \cup {s})

NodeCanStartWith(lib, built, n, c) ==
  IF n.tag = "inherit" THEN n.to = NoScheme \/ SchemeCanStartWith(lib, built, n.to, c, {})
  ELSE c \in n.starts

(* The table is dropped where it would hardly shorten the search.          *)
Dispatch(lib, built, s) ==
  LET slice == [c \in SevenBits |-> SelectSeq(built[s], LAMBDA n : NodeCanStartWith(lib, built, n, c))]
      indexes == FoldSet(LAMBDA c, sum : sum + Len(slice[c]), 0, SevenBits)
  IN  IF Len(built[s]) >= 2 /\ 4 * indexes <= 3 * Cardinality(SevenBits) * Len(built[s])
      THEN slice ELSE <<>>

-----------------------------------------------------------------------------
(* VTList: nodes beyond last_index are out of use until popvirt. *)

Push(n) ==
  /\ vtlist' = InsertAt(vtlist, last_index + 1, [vlist |-> n.virtual, shadow_last |-> 0])
  /\ last_index' = last_index + 1

Pop == vtlist' = RemoveAt(vtlist, last_index) /\ last_index' = last_index - 1

(* pushvirt: the tables from the innermost out, each from its first entry; *)
(* [to, by], by being the outermost that replaced the scheme.              *)
Substitution(scheme) ==
  LET Entry(found, v, i) ==
        IF found.to = v[1] /\ v[2] # NoScheme THEN [to |-> v[2], by |-> i] ELSE found
      Table(found, i) == FoldLeft(LAMBDA f, v : Entry(f, v, i), found, vtlist[i].vlist)
  IN  FoldLeft(Table, [to |-> scheme, by |-> 0], Reverse([i \in 1 .. last_index |-> i]))

Replaces(scheme) == scheme \in Targets(schemes) /\ Substitution(scheme).by # 0

PushVirt(by) ==
  /\ vtlist' = [vtlist EXCEPT ![by].shadow_last = last_index]
  /\ last_index' = by - 1

(* Mutant: what was in use before is not.                                  *)
PopVirtOne ==
  /\ vtlist' = [vtlist EXCEPT ![last_index + 1].shadow_last = 0]
  /\ last_index' = last_index + 1

PopVirt ==
  /\ vtlist' = [vtlist EXCEPT ![last_index + 1].shadow_last = 0]
  /\ last_index' = vtlist[last_index + 1].shadow_last

(* store and restore                                                       *)
Store == [i \in 1 .. last_index |-> vtlist[i].vlist]

Restore(vcache) ==
  /\ vtlist' = [i \in DOMAIN vcache |-> [vlist |-> vcache[i], shadow_last |-> 0]]
  /\ last_index' = Len(vcache)

(* What searchIN and searchBL undo when they return.                       *)
Undo(call) ==
  CASE call.undo = "pop" -> Pop
    [] call.undo = "popvirt" -> PopVirt
    [] call.undo = "nothing" -> UNCHANGED tables

-----------------------------------------------------------------------------
(* What stands at a place, as the library says it: an inherit stands for   *)
(* the nodes of its scheme, or of what the tables around it replace that   *)
(* by; in a replacement the tables outside of the one that made it count.  *)

Substituted(table, s) == FoldLeft(LAMBDA to, v : IF to = v[1] /\ v[2] # NoScheme THEN v[2] ELSE to, s, table)

RECURSIVE Meant(_, _)
Meant(env, s) ==
  IF env = <<>> THEN [to |-> s, tables |-> <<>>, replaced |-> FALSE]
  ELSE LET to == Substituted(Last(env), s)
           outer == Meant(Front(env), to)
       IN  CASE outer.replaced -> outer
             [] ~outer.replaced /\ to # s -> [to |-> to, tables |-> Front(env), replaced |-> TRUE]
             [] OTHER -> [to |-> s, tables |-> env, replaced |-> FALSE]

NothingHit == [name |-> "nothing", scheme |-> NoScheme]
Pending == [name |-> "pending", scheme |-> NoScheme]

RECURSIVE StandingAt(_, _, _)
StandingAt(ns, env, c) ==
  IF ns = <<>> THEN [hit |-> NothingHit, tables |-> <<>>]
  ELSE LET n == Head(ns)
           m == Meant(env, n.to)
           around == IF m.replaced \/ n.virtual = <<>> THEN m.tables ELSE Append(m.tables, n.virtual)
           within == StandingAt(schemes[m.to], around, c)
           next == StandingAt(Tail(ns), env, c)
       IN  CASE n.tag = "leaf" /\ c \in n.at -> [hit |-> [NothingHit EXCEPT !.name = n.name], tables |-> <<>>]
             [] n.tag = "block" /\ n.to # NoScheme /\ c \in n.at ->
                  [hit |-> [name |-> n.name, scheme |-> m.to], tables |-> m.tables]
             [] n.tag = "inherit" /\ n.to # NoScheme -> IF within.hit # NothingHit THEN within ELSE next
             [] OTHER -> next

-----------------------------------------------------------------------------
(* The search. *)

(* searchMatch: the nodes it tries.                                        *)
Candidates(s) ==
  IF place' \in SevenBits /\ searchDispatch[s] # <<>> THEN searchDispatch[s][place'] ELSE searchNodes[s]

searchMatch(s, undo) == [of |-> "searchMatch", rest |-> Candidates(s), undo |-> undo]

Inner == Last(calls)
AtBase == calls = <<>> \/ Inner.of = "searchBL"
Trying(tags) == phase = "search" /\ Inner.rest # <<>> /\ Head(Inner.rest).tag \in tags
tryNode == Head(Inner.rest)
tried == [calls EXCEPT ![Len(calls)].rest = Tail(@)]

(* colorize: the nodes of the base scheme at the next place.               *)
Search(c) ==
  /\ phase = "next" /\ places < MaxPlaces
  /\ place' = c /\ places' = places + 1
  /\ phase' = "search" /\ hit' = Pending
  /\ calls' = Append(calls, searchMatch(baseScheme, "nothing"))
  /\ expected' = StandingAt(schemes[Last(inside).scheme], Last(inside).tables, c)
  /\ UNCHANGED <<linked, baseScheme, tables, levels, inside>>

(* A node that does not match, or whose scheme was not found.              *)
Skip ==
  /\ Trying({"leaf", "block", "inherit"})
  /\ IF tryNode.tag = "leaf" THEN place \notin tryNode.at
     ELSE tryNode.to = NoScheme \/ (tryNode.tag = "block" /\ place \notin tryNode.at)
  /\ calls' = tried
  /\ UNCHANGED <<linked, baseScheme, tables, levels, place, phase, places, hit, history>>

(* searchRE, searchKW                                                      *)
searchRE ==
  /\ Trying({"leaf"}) /\ place \in tryNode.at
  /\ hit' = [NothingHit EXCEPT !.name = tryNode.name] /\ phase' = "return"
  /\ UNCHANGED <<linked, baseScheme, tables, calls, levels, place, places, history>>

searchIN ==
  /\ Trying({"inherit"}) /\ tryNode.to # NoScheme
  /\ LET by == Substitution(tryNode.to)
         call == IF Replaces(tryNode.to) THEN searchMatch(by.to, "popvirt")
                 ELSE searchMatch(tryNode.to, IF tryNode.virtual = <<>> THEN "nothing" ELSE "pop")
     IN  /\ place' = place
         /\ calls' = Append(tried, call)
         /\ CASE call.undo = "popvirt" -> PushVirt(by.by)
              [] call.undo = "pop" -> Push(tryNode)
              [] call.undo = "nothing" -> UNCHANGED tables
  /\ UNCHANGED <<linked, baseScheme, levels, phase, places, hit, history>>

(* searchBL, up to the parse inside of the block.                          *)
searchBL ==
  /\ Trying({"block"}) /\ tryNode.to # NoScheme /\ place \in tryNode.at
  /\ LET by == Substitution(tryNode.to)
         ssubst == IF Replaces(tryNode.to) THEN by.to ELSE tryNode.to
     IN  /\ IF Replaces(tryNode.to) THEN PushVirt(by.by) ELSE UNCHANGED tables
         /\ calls' = Append(tried, [of |-> "searchBL", old_scheme |-> baseScheme,
                                    undo |-> IF ssubst # tryNode.to THEN "popvirt" ELSE "nothing",
                                    cache |-> Len(levels) + 1])
         /\ levels' = Append(levels, [scheme |-> ssubst, vcache |-> <<>>])
         /\ baseScheme' = ssubst
         /\ hit' = [name |-> tryNode.name, scheme |-> ssubst]
         /\ inside' = Append(inside, [scheme |-> expected.hit.scheme, tables |-> expected.tables])
  /\ phase' = "next"
  /\ UNCHANGED <<linked, place, places, expected>>

(* searchMatch returns, and the searchIN around it: the nodes are through, *)
(* or one matched.                                                         *)
Return ==
  /\ phase = "return" \/ (phase = "search" /\ Inner.rest = <<>>)
  /\ ~AtBase
  /\ Undo(Inner) /\ calls' = Front(calls)
  /\ LET base == calls' = <<>> \/ Last(calls').of = "searchBL"
     IN  /\ phase' = IF base THEN "next" ELSE phase
         /\ hit' = IF base /\ phase = "search" THEN NothingHit ELSE hit
  /\ UNCHANGED <<linked, baseScheme, levels, place, places, history>>

(* The end of the innermost block: searchBL returns what matched.          *)
EndBlock ==
  /\ phase = "next" /\ calls # <<>>
  /\ Undo(Inner) /\ calls' = Front(calls)
  /\ baseScheme' = Inner.old_scheme /\ inside' = Front(inside)
  /\ levels' = Front(levels)
  /\ phase' = "return"
  /\ UNCHANGED <<linked, place, places, hit, expected>>

(* parse() takes up the innermost block of the cache, or the base scheme.  *)
TakeUp(cached) ==
  /\ levels' = cached
  /\ baseScheme' = IF cached = <<>> THEN Main ELSE Last(cached).scheme
  /\ Restore(IF cached = <<>> THEN <<>> ELSE Last(cached).vcache)

EndOfResumed ==
  /\ phase = "next" /\ calls = <<>> /\ levels # <<>>
  /\ TakeUp(Front(levels)) /\ inside' = Front(inside)
  /\ UNCHANGED <<linked, calls, place, phase, places, hit, expected>>

(* The parse ends at its last line and unwinds; each searchBL leaves what  *)
(* the parse of a later line goes on from, outside of the inner ones.      *)
Stop ==
  /\ phase = "next" /\ calls # <<>>
  /\ phase' = "stop"
  /\ UNCHANGED <<linked, baseScheme, tables, calls, levels, place, places, hit, history>>

Unwind ==
  /\ phase = "stop" /\ calls # <<>>
  /\ Undo(Inner) /\ calls' = Front(calls)
  /\ IF Inner.of # "searchBL" THEN UNCHANGED <<levels, baseScheme>>
     ELSE /\ levels' = [levels EXCEPT ![Inner.cache].vcache = Store]
          /\ baseScheme' = Inner.old_scheme
  /\ UNCHANGED <<linked, place, phase, places, hit, history>>

Resume ==
  /\ phase = "stop" /\ calls = <<>>
  /\ phase' = "next" /\ TakeUp(levels)
  /\ UNCHANGED <<linked, calls, place, places, hit, history>>

-----------------------------------------------------------------------------
NoNesting ==
  /\ schemes = <<>> /\ searchNodes = <<>> /\ searchDispatch = <<>> /\ baseScheme = NoScheme
  /\ vtlist = <<>> /\ last_index = 0 /\ calls = <<>> /\ levels = <<>> /\ inside = <<>>
  /\ place = NoScheme /\ phase = "idle" /\ places = 0
  /\ hit = NothingHit /\ expected = [hit |-> NothingHit, tables |-> <<>>]

InitNesting ==
  /\ schemes \in Libraries
  /\ searchNodes = [k \in DOMAIN schemes |-> BuildSearchNodes(schemes, k, {})]
  /\ searchDispatch = [k \in DOMAIN schemes |-> Dispatch(schemes, searchNodes, k)]
  /\ baseScheme = Main /\ inside = <<[scheme |-> Main, tables |-> <<>>]>>
  /\ vtlist = <<>> /\ last_index = 0 /\ calls = <<>> /\ levels = <<>>
  /\ place = NoScheme /\ phase = "next" /\ places = 0
  /\ hit = NothingHit /\ expected = [hit |-> NothingHit, tables |-> <<>>]

NextNesting ==
  \/ \E c \in Places : Search(c)
  \/ Skip \/ searchRE \/ searchIN \/ searchBL \/ Return
  \/ EndBlock \/ EndOfResumed
  \/ Stop \/ Unwind \/ Resume

-----------------------------------------------------------------------------
(* A search finds what the library says stands at the place inside of the  *)
(* blocks open there, and a block goes on with the scheme it is to be read *)
(* by: whatever replaced what around it, in whatever order the searches    *)
(* and blocks before it came to their ends, and if the parse was resumed.  *)
FoundAsNested == hit # Pending => hit = expected.hit
=============================================================================
