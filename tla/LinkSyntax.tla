----------------------------- MODULE LinkSyntax -----------------------------
(***************************************************************************)
(* The text of a Link header field, and what it says.  A text is a         *)
(* sequence of symbols: the characters the parser looks for, and words.    *)
(* Words stand for anything else, with their case folded; " " stands for   *)
(* blanks of both kinds.                                                   *)
(*                                                                         *)
(* A field is written as a sequence of elements: links, and text that is   *)
(* none.  Render is how a server puts it on the wire, and Meant is what it *)
(* means (RFC 8288), neither of which is in the code of discovery.         *)
(***************************************************************************)
EXTENDS Naturals, Sequences, SequencesExt

CONSTANT OtherWords

LinkRelation == "ai-catalog"
Words        == {LinkRelation, "rel", "anchor"} \cup OtherWords
Blank        == {" "}
Symbol       == Words \cup Blank \cup {"<", ">", ",", ";", "=", "\"", "\\"}
Text         == Seq(Symbol)

(* A parameter without a value, with a token, or with a quoted string; gap   *)
(* is written around its marks.  tail follows the parameters of a link.      *)
Param   == [name : Text, form : {"bare", "token", "quoted"}, value : Text, gap : Text]
Element == [link : {TRUE}, target : Text, params : Seq(Param), tail : Text]
           \cup [link : {FALSE}, junk : Text]

-----------------------------------------------------------------------------
Escaped(v) ==
  FlattenSeq([k \in DOMAIN v |-> IF v[k] \in {"\"", "\\"} THEN <<"\\", v[k]>> ELSE <<v[k]>>])

RenderParam(p) ==
  p.gap \o <<";">> \o p.gap \o p.name
    \o (IF p.form = "bare" THEN <<>>
        ELSE p.gap \o <<"=">> \o p.gap
               \o (IF p.form = "token" THEN p.value
                   ELSE <<"\"">> \o Escaped(p.value) \o <<"\"">>))

RenderElement(e) ==
  IF e.link
  THEN <<"<">> \o e.target \o <<">">>
         \o FlattenSeq([k \in DOMAIN e.params |-> RenderParam(e.params[k])]) \o e.tail
  ELSE e.junk

Render(es) ==
  FlattenSeq([k \in DOMAIN es |-> (IF k = 1 THEN <<>> ELSE <<",">>) \o RenderElement(es[k])])

-----------------------------------------------------------------------------
(* strings.FieldsSeq: whether v, read as words between blanks, has w.        *)
HasWord(v, w) ==
  \E k \in DOMAIN v : /\ v[k] = w
                      /\ (k = 1 \/ v[k - 1] \in Blank)
                      /\ (k = Len(v) \/ v[k + 1] \in Blank)

(* The link has the relation if its first rel says so, and it is a link of   *)
(* the page itself if it has no anchor.                                      *)
Points(e) ==
  /\ e.link
  /\ \A k \in DOMAIN e.params : e.params[k].name # <<"anchor">>
  /\ \E k \in DOMAIN e.params :
       /\ e.params[k].name = <<"rel">>
       /\ \A j \in 1..(k - 1) : e.params[j].name # <<"rel">>
       /\ e.params[k].form # "bare"
       /\ HasWord(e.params[k].value, LinkRelation)

Meant(es) ==
  FlattenSeq([k \in DOMAIN es |-> IF Points(es[k]) THEN <<es[k].target>> ELSE <<>>])

(* A field whose elements can be told apart: no comma outside a link's own   *)
(* marks, and nothing after a parameter that reads as more of it.            *)
Plain(x)      == Range(x) \cap {",", ";", "=", "<", ">", "\"", "\\"} = {}
IsToken(x)    == x # <<>> /\ Plain(x) /\ Range(x) \cap Blank = {}
WellFormed(e) ==
  IF ~e.link THEN "," \notin Range(e.junk) /\ "<" \notin Range(e.junk)
  ELSE /\ Plain(e.tail) /\ (e.tail = <<>> \/ Head(e.tail) \in Blank)
       /\ Range(e.target) \cap (Blank \cup {">"}) = {}
       /\ \A k \in DOMAIN e.params : LET p == e.params[k] IN
            /\ IsToken(p.name)
            /\ p.form = "token" => IsToken(p.value)
            /\ Range(p.gap) \subseteq Blank
=============================================================================
