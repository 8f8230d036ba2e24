---------------------------- MODULE MCSessionApi ----------------------------
(* A small library, two colour schemes and what a user may add to them.    *)
EXTENDS SessionApi, TLC

MCParent ==
  [r \in {"def:Text", "def:Special", "def:Outlined", "def:Error", "go:Block"} |-> NoRegion]
  @@ [r \in {"def:PairStart", "def:PairEnd"} |-> "def:Special"]
  @@ ("go:Open" :> "def:PairStart") @@ ("go:Brace" :> "go:Open") @@ ("go:Close" :> "def:PairEnd")
  @@ ("go:Func" :> "def:Outlined") @@ ("go:Bad" :> "def:Error") @@ ("go:Str" :> "go:Block")

Item(kind, name, value, weight, words) ==
  [kind |-> kind, name |-> name, value |-> value, text |-> "", weight |-> weight, words |-> words]
MCParam(name, value) == Item("param", name, value, -1, {})
Proto(name, items) == [name |-> name, package |-> FALSE, items |-> items]

Style(class, name, locations) == [class |-> class, name |-> name, locations |-> locations]
Rgb(fore, back, style) == [fore |-> fore, back |-> back, style |-> style]
Assign(name, define) == [name |-> name, define |-> define]

MCCatalog ==
  [styles |-> <<Style("rgb", "dark", <<"base", "dark">>), Style("", "none", <<"base">>)>>,
   types |-> <<Proto("default", <<MCParam("wide", "no")>>),
               [Proto("def", <<MCParam("wide", "off")>>) EXCEPT !.package = TRUE],
               Proto("txt", <<Item("firstline", "", "", -1, {"#!"})>>),
               Proto("go", <<Item("filename", "", "", -1, {"a.go"}), Item("firstline", "", "", 3, {"#!"}),
                             Item("filename", "", "", 9, Broken), MCParam("strict", "true")>>)>>]

MCHrdFiles ==
  [base |-> <<Assign("def:Text", Rgb("grey", "black", {})), Assign("go:Block", Rgb("red", Unset, {"b"}))>>,
   dark |-> <<Assign("go:Str", Rgb(Unset, "blue", {"i"})), Assign("go:Open", Rgb("gold", Unset, {})),
              Assign("go:Block", Rgb("green", Unset, {"b"}))>>,
   light |-> <<Assign("go:Str", Rgb("black", Unset, {"i"}))>>,
   torn |-> Bad]

Given(content) == [exists |-> TRUE, ascii |-> TRUE, folder |-> FALSE, content |-> content]
Folder(content) == [Given(content) EXCEPT !.folder = TRUE]
Nothing == [o \in {"settings", "hrd", "hrc", "userSettings"} |-> NoPath]
MCPaths ==
  {[Nothing EXCEPT !.hrd = Given(<<Style("rgb", "light", <<"light">>), Style("rgb", "dark", <<"torn">>)>>),
                   !.settings = Given(<<Proto("default", <<MCParam("wide", "yes")>>),
                                        Proto("go", <<MCParam("wide", "all")>>)>>)],
   [Nothing EXCEPT !.hrc = Given(<<Proto("go", <<Item("filename", "", "", -1, {"a.go"})>>)>>),
                   !.settings = Given(<<Proto("go", <<MCParam("strict", "false")>>)>>),
                   !.userSettings = Given(<<Proto("go", <<Item("firstline", "", "", -1, {"#!"}),
                                                          MCParam("wide", "go")>>)>>)],
   [Nothing EXCEPT !.settings = [Given(Bad) EXCEPT !.ascii = FALSE], !.hrc = Given(Bad),
                   !.hrd = Folder(<<Style("rgb", "light", <<"light">>), Style("", "x", <<"dark">>)>>)],
   [Nothing EXCEPT !.hrd = Folder(<<Style("rgb", "light", <<"torn">>)>>)]}

Block(region, inner) == [region |-> region, inner |-> inner, first |-> "go:Brace", last |-> "go:Close"]
MCGrammar ==
  "go" :> [f |-> [kind |-> "mark", region |-> "go:Func"], e |-> [kind |-> "mark", region |-> "go:Bad"],
           o |-> [kind |-> "open", block |-> Block("go:Block", TRUE)],
           q |-> [kind |-> "open", block |-> Block("go:Str", FALSE)],
           n |-> [kind |-> "open", block |-> Block(NoRegion, FALSE)],
           c |-> [kind |-> "close"]]

MCLines == {<<"o", "f", "q", "f">>, <<"c", "f", "e", "c">>, <<"n", "q", "c">>}
MCNames ==
  [file |-> {"a.go", "x"}, first |-> {"#!"}, type |-> {"default", "go"},
   class |-> {"rgb"}, style |-> {"dark", "light", "none"}, param |-> {"wide", "strict"}, value |-> {"false"},
   region |-> {"go:Str"}]

MCNeeds == [t \in {"default", "def"} |-> {}] @@ [t \in {"txt", "go"} |-> {"def"}]
MCCondIf == [t \in {"default", "def", "txt"} |-> NoText] @@ [t \in {"go"} |-> "strict"]
=============================================================================
