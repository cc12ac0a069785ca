---------------------------- MODULE MCPageLinks ----------------------------
(***************************************************************************)
(* Header fields of every kind of link and parameter, any short text in    *)
(* their place, and HTML heads of any three tags.                          *)
(***************************************************************************)
EXTENDS PageLinks

Rel(form, value, gap) == [name |-> <<"rel">>, form |-> form, value |-> value, gap |-> gap]

LinkTo(t, ps, tail)      == [link |-> TRUE, target |-> t, params |-> ps, tail |-> tail]
Junk(x)                  == [link |-> FALSE, junk |-> x]

Relation == <<LinkRelation>>
Tricky   == <<",", "<", "x", ">", ";", "rel", "=", LinkRelation>>

Params ==
  {Rel("token", Relation, g) : g \in {<<>>, <<" ">>}}
  \cup {Rel("quoted", v, <<>>) : v \in {Relation, <<"x", " ">> \o Relation, <<"x">> \o Relation,
                                        <<"x", " ", "\"", " ">> \o Relation, Tricky}}
  \cup {[Rel("quoted", v, <<" ">>) EXCEPT !.name = <<"x">>] : v \in {Relation, <<"\\">>, Tricky}}
  \cup {Rel("bare", <<>>, <<>>), Rel("token", <<"x">>, <<>>),
        [Rel("token", <<"x">>, <<>>) EXCEPT !.name = <<"anchor">>]}

ParamLists == UNION {[1..n -> Params] : n \in 0..2}

Found  == LinkTo(<<"y">>, <<Rel("quoted", Relation, <<>>)>>, <<>>)
Around == {<<>>, <<Found>>, <<Junk(<<>>), Junk(<<"x", "=", "\"">>)>>}

(* A link of any parameters, between links and junk. *)
WellWritten ==
  {before \o <<LinkTo(t, ps, tail)>> \o after :
     before \in Around, after \in {<<>>, <<Found>>}, ps \in ParamLists,
     t \in {<<"x">>, <<"x", ",", "<">>}, tail \in {<<>>, <<" ", "x">>}}

(* Any text of three symbols, alone or after the beginning of a link. *)
Marks   == {"<", ">", ",", ";", "=", "\"", "\\", " ", "rel"}
AnyText == {<<Junk(before \o x)>> :
              before \in {<<>>, <<"<", "x", ">", ";">>, <<"<", "x", ">", ";", "x", "=", "\"">>},
              x \in UNION {[1..n -> Marks] : n \in 0..3}}

(* HTML. *)
Tag(kind, n, attrs) == [kind |-> kind, name |-> n, attrs |-> attrs]
Href(v)    == [name |-> "href", value |-> v]
RelIs(v)   == [name |-> "rel", value |-> v]

Tags ==
  {Tag("end", "head", <<>>), Tag("start", "body", <<>>), Tag("end", "other", <<>>),
   Tag("other", "other", <<>>), Tag("start", "base", <<>>),
   Tag("start", "base", <<Href(<<>>)>>), Tag("start", "base", <<Href(<<"x">>), Href(<<"y">>)>>),
   Tag("start", "link", <<RelIs(Relation)>>),
   Tag("start", "link", <<Href(<<" ">>), RelIs(Relation)>>)}
  \cup {Tag("start", "link", <<RelIs(r), Href(<<"x", " ">>), Href(<<"y">>), RelIs(Relation)>>) :
          r \in {Relation, <<"x", " ">> \o Relation, <<"x">>}}

Heads == {[fields |-> <<>>, html |-> TRUE, tokens |-> ts] :
            ts \in UNION {[1..n -> Tags] : n \in 0..3}}

OnlyFields(fs) ==
  [fields |-> fs, html |-> FALSE,
   tokens |-> <<Tag("start", "link", <<Href(<<"x">>), RelIs(Relation)>>)>>]

MCPages ==
  {OnlyFields(<<es>>) : es \in WellWritten \cup AnyText}
  \cup {OnlyFields(<<<<Found>>, es, <<Found, Found>>>>) : es \in AnyText}
  \cup Heads
=============================================================================
