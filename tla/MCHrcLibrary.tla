---------------------------- MODULE MCHrcLibrary ----------------------------
(* Instance of HrcLibrary: small libraries that import each other.         *)
EXTENDS HrcLibrary

Q(kind, t, n) == [kind |-> kind, type |-> t, name |-> n]
U(kind, n) == Q(kind, None, n)
Prototype(t, file) == [tag |-> "prototype", type |-> t, file |-> file, global |-> TRUE]
Internal(t, file) == [Prototype(t, file) EXCEPT !.global = FALSE]
Type(t, items) == [tag |-> "type", type |-> t, items |-> items]
Region(n, early) == [tag |-> "region", name |-> n, early |-> early]
Entity(n, early) == [tag |-> "entity", name |-> n, early |-> early]
Import(t) == [tag |-> "import", name |-> t]
Scheme(n, nodes) == [tag |-> "scheme", name |-> n, nodes |-> nodes]
Block(early, to) == [tag |-> "block", early |-> early, links |-> <<to>>]
Inherit(to, virtual) == [tag |-> "inherit", early |-> <<to>>, links |-> <<to>> \o virtual]
Regexp(early) == [tag |-> "regexp", early |-> early, links |-> <<>>]
Keywords(region) == [tag |-> "keywords", early |-> <<region>>, links |-> <<>>]

MCTypes == {"a", "b", "c", "def"}
MCNames == {"a", "b", "def", "x", "r"}
MCWanted == Q("region", "def", "r")

(* a and b import each other; b's file also holds def, which b reads first. *)
A == Type("a", <<Import("b"), Import("def"),
                 Scheme("a", <<Regexp(<<U("entity", "x")>>),
                               Block(<<U("region", "r")>>, U("scheme", "x")),
                               Inherit(U("scheme", "b"), <<U("scheme", "x"), Q("scheme", "b", "x")>>)>>),
                 Scheme("x", <<Block(<<Q("region", "b", "r")>>, Q("scheme", "b", "b"))>>)>>)
B == Type("b", <<Import("a"), Region("r", <<Q("region", "def", "r")>>),
                 Scheme("b", <<Keywords(U("region", "r")), Block(<<>>, U("scheme", "a")),
                               Inherit(U("scheme", "x"), <<>>)>>)>>)
Def == Type("def", <<Region("r", <<>>), Entity("x", <<U("entity", "x")>>),
                     Scheme("x", <<Keywords(U("region", "x")), Block(<<>>, U("scheme", "def"))>>)>>)

Catalog == <<Prototype("a", "a"), Prototype("b", "b"), Prototype("def", "def")>>
Files(p, a, b, def) == [proto |-> p, a |-> a, b |-> b, def |-> def]
Library(files) == [catalog |-> <<"proto">>, files |-> files]

MCLibraries ==
  {Library(Files(Catalog, <<A>>, <<B>>, <<Def>>)),
   \* def is in b's file, which its own file replaces in a second catalog file
   Library(Files(<<Prototype("a", "a"), Prototype("b", "b"), Prototype("def", "b")>>,
                 <<A>>, <<Def, B>>, <<Def>>)),
   \* b's file cannot be read; def's has no type of that name
   Library(Files(Catalog, <<A>>, Bad, <<>>)),
   \* b's file names a package no file exists for, after its type; b comes twice
   Library(Files(<<Internal("c", Missing)>> \o Catalog \o <<Prototype("b", "b")>>,
                 <<A>>, <<B, Prototype("a", "a"), Internal("c", Missing)>>, <<Def>>)),
   [catalog |-> <<"def", "proto">>, files |-> Files(Catalog, <<A>>, <<B>>, Bad)]}
=============================================================================
