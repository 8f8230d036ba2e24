------------------------------- MODULE Styles -------------------------------
(***************************************************************************)
(* How the regions of a line get their colours, as pure operators:         *)
(* RegionMapper (what a colour scheme says of a region, with its cache),   *)
(* StyledRegion (a style fills its gaps from the style it lies in) and     *)
(* LineRegionsSupport with its pool of recycled regions, as the wrapper's  *)
(* handler derives from it.                                                *)
(*                                                                         *)
(* The handler is a record                                                 *)
(*   mapper      the RegionMapper, or NoMapper                             *)
(*   background, special    what SetHRD set                                *)
(*   stack, line, flow      the open schemes, the regions of the line in   *)
(*                          order, the index of flowBackground             *)
(*   pool        regionPool: the define each recycled region still holds   *)
(*   marks       the regions outlines and pairs are recognised by          *)
(*   level, started, outline    what the wrapper adds for outlines         *)
(***************************************************************************)
EXTENDS Integers, Sequences, SequencesExt

CONSTANTS
  Parent,      \* region -> the region it is derived from, or NoRegion
  NoRegion,    \* a null Region*
  NoDefine,    \* a null RegionDefine*
  Unset        \* a colour a style leaves open

Regions == DOMAIN Parent

(* A region is derived from one that is there before it.                   *)
ASSUME RegionsAssumption ==
  /\ NoRegion \notin Regions
  /\ \A r \in Regions : Parent[r] \in Regions \cup {NoRegion}
  /\ \A rs \in (SUBSET Regions) \ {{}} : \E r \in rs : Parent[r] \notin rs

(* A region and all it is derived from.                                    *)
Lineage[r \in Regions] ==
  {r} \cup IF Parent[r] = NoRegion THEN {} ELSE Lineage[Parent[r]]

HasParent(r, s) == r # NoRegion /\ s \in Lineage[r]

-----------------------------------------------------------------------------
(* StyledRegion. *)

(* Mutant: a style of its own hides the bits of the one around it.         *)
StyleReplaced(d, outer) ==
  [fore |-> IF d.fore = Unset THEN outer.fore ELSE d.fore,
   back |-> IF d.back = Unset THEN outer.back ELSE d.back,
   style |-> IF d.style = {} THEN outer.style ELSE d.style]

AssignParent(d, outer) ==
  [fore |-> IF d.fore = Unset THEN outer.fore ELSE d.fore,
   back |-> IF d.back = Unset THEN outer.back ELSE d.back,
   style |-> d.style \cup outer.style]

(* LineRegion::replaceRdef: a recycled region holds old.                   *)

(* Mutant: nothing to set leaves what a recycled region held.              *)
KeepOld(old, d) == IF d = NoDefine THEN old ELSE d

ReplaceRdef(old, d) == d

ApplyRegionDefine(old, d, outer) ==
  LET own == ReplaceRdef(old, d)
  IN  IF NoDefine \in {own, outer} THEN own ELSE AssignParent(own, outer)

-----------------------------------------------------------------------------
(* RegionMapper: what the files say (defines, by name), and a cache.       *)

(* A null RegionMapper*.                                                   *)
NoMapper == [defines |-> <<>>, cache |-> <<>>]

NewMapper(defines) ==
  [defines |-> defines, cache |-> [r \in Regions |-> NoDefine]]

(* getRegionDefine(name)                                                   *)
Named(mapper, r) ==
  IF r \in DOMAIN mapper.defines THEN mapper.defines[r] ELSE NoDefine

(* getRegionDefine(region): the cache, the region's own define, or that of *)
(* its parent.                                                             *)
DefineIn(mapper) ==
  LET define[r \in Regions] ==
        IF mapper.cache[r] # NoDefine THEN mapper.cache[r]
        ELSE IF Named(mapper, r) # NoDefine THEN Named(mapper, r)
        ELSE IF Parent[r] = NoRegion THEN NoDefine ELSE define[Parent[r]]
  IN  define

(* Every region asked on the way up remembers the answer.                  *)
Remember(mapper, r) ==
  LET asked[s \in Regions] ==
        {s} \cup IF mapper.cache[s] # NoDefine \/ Named(mapper, s) # NoDefine
                     \/ Parent[s] = NoRegion
                 THEN {} ELSE asked[Parent[s]]
  IN  [mapper EXCEPT !.cache = [s \in Regions |->
         IF s \in asked[r] THEN DefineIn(mapper)[r] ELSE @[s]]]

GetRegionDefine(mapper, r) ==
  IF NoMapper = mapper \/ r = NoRegion THEN NoDefine ELSE DefineIn(mapper)[r]

Asked(mapper, r) ==
  IF NoMapper = mapper \/ r = NoRegion THEN mapper ELSE Remember(mapper, r)

-----------------------------------------------------------------------------
(* LineRegionsSupport. *)

(* allocRegion: the define a region from the pool still holds.             *)
Recycled(pool) == IF pool = <<>> THEN NoDefine ELSE Last(pool)
Alloc(pool) == IF pool = <<>> THEN pool ELSE Front(pool)

Free(pool, regions) == pool \o [i \in DOMAIN regions |-> regions[i].define]

(* clear(), and clearLine's freeRegionChain.                               *)
Clear(h) == [h EXCEPT !.pool = Free(@, h.line), !.line = <<>>, !.outline = <<>>]

Entry(region, define) == [region |-> region, define |-> define]

StartParsing(h) ==
  [h EXCEPT !.pool = Free(@, Tail(h.stack)),
            !.stack = <<Entry(NoRegion, h.background)>>, !.level = 0]

(* allocRegion(src): what runs from s to the end of the line.              *)
Flow(pool, entry, s) ==
  [start |-> s, end |-> -1, region |-> entry.region, special |-> FALSE,
   define |-> ReplaceRdef(Recycled(pool), entry.define)]

ClearLine(h) ==
  LET pool == Free(h.pool, h.line)
  IN  [h EXCEPT !.line = <<Flow(pool, Last(h.stack), 0)>>, !.flow = 1,
                !.pool = Alloc(pool), !.started = {}]

(* The define of a region in the scheme on top of the stack.               *)
Styled(h, region) ==
  LET outer == Last(h.stack).define
      own == GetRegionDefine(h.mapper, region)
  IN  IF h.mapper = NoMapper
      THEN ApplyRegionDefine(Recycled(h.pool), NoDefine, NoDefine)
      ELSE ApplyRegionDefine(Recycled(h.pool), IF own = NoDefine THEN outer ELSE own, outer)

(* The running background ends at s, and that of entry begins.             *)
Switch(h, entry, s) ==
  [h EXCEPT !.line = Append([@ EXCEPT ![h.flow].end = s], Flow(h.pool, entry, s)),
            !.flow = Len(h.line) + 1, !.pool = Alloc(@)]

(* A region the Outliner collects, once for each list it belongs to; the   *)
(* first of a line starts an item.                                         *)
Collect(h, s, e, region) ==
  LET Listed(kind) == IF HasParent(region, h.marks[kind]) THEN <<kind>> ELSE <<>>
      lists == Listed("outlined") \o Listed("error")
      Span(kind) == [kind |-> kind, start |-> s, end |-> e, level |-> h.level,
                     starts |-> kind \notin h.started, name |-> region]
  IN  [h EXCEPT !.outline = @ \o [i \in DOMAIN lists |-> Span(lists[i])],
                !.started = @ \cup {lists[i] : i \in DOMAIN lists}]

AddRegion(h, s, e, region) ==
  LET added == [h EXCEPT
        !.line = Append(@, [start |-> s, end |-> e, region |-> region,
                            special |-> HasParent(region, h.special),
                            define |-> Styled(h, region)]),
        !.pool = Alloc(@), !.mapper = Asked(@, region)]
  IN  Collect(added, s, e, region)

EnterScheme(h, s, region) ==
  LET entry == Entry(region, Styled(h, region))
      opened == [h EXCEPT !.stack = Append(@, entry), !.pool = Alloc(@),
                          !.mapper = Asked(@, region), !.level = @ + 1]
  IN  IF region = NoRegion THEN opened ELSE Switch(opened, entry, s)

LeaveScheme(h, e) ==
  LET closed == [h EXCEPT !.stack = Front(@), !.level = @ - 1,
                          !.pool = Free(@, <<Last(h.stack)>>)]
  IN  IF Last(h.stack).region = NoRegion THEN closed
      ELSE Switch(closed, Last(closed.stack), e)

-----------------------------------------------------------------------------
(* harvest: what of the line is reported, and where. *)

(* Mutant: the start of a pair is looked for in what it is derived from    *)
(* directly.                                                               *)
DirectPairKind(h, region) ==
  IF region # NoRegion /\ Parent[region] = h.marks["start"] THEN "opens"
  ELSE IF HasParent(region, h.marks["end"]) THEN "closes" ELSE "none"

PairKind(h, region) ==
  IF HasParent(region, h.marks["start"]) THEN "opens"
  ELSE IF HasParent(region, h.marks["end"]) THEN "closes" ELSE "none"

Reported(r) == ~r.special /\ ~(r.region = NoRegion /\ r.define = NoDefine)

Harvested(h) == FoldLeft(LAMBDA rs, r : IF Reported(r) THEN Append(rs, r) ELSE rs, <<>>, h.line)

IsPair(h, r) == r.special /\ PairKind(h, r.region) # "none"

Pairs(h) == FoldLeft(LAMBDA rs, r : IF IsPair(h, r) THEN Append(rs, r) ELSE rs, <<>>, h.line)
=============================================================================
