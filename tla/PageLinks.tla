----------------------------- MODULE PageLinks -----------------------------
(***************************************************************************)
(* How discovery reads the references of a page: targetsWithRel over its   *)
(* Link header fields, then findHTMLLinks over the tokens of its HTML.     *)
(* One action is one round of a loop of the parsers.  The tokenizer is     *)
(* external; a tag is its name and its attributes in order.                *)
(***************************************************************************)
EXTENDS LinkSyntax

CONSTANTS
  Absent,     \* the value of an attribute a tag does not have
  Pages       \* the pages that may be read

ASSUME AbsentAssumption == Absent \notin Text

Attribute == [name : {"href", "rel", "other"}, value : Text]
Token     == [kind : {"start", "end", "other"}, name : {"head", "body", "base", "link", "other"},
              attrs : Seq(Attribute)]
Page      == [fields : Seq(Seq(Element)), html : BOOLEAN, tokens : Seq(Token)]

ASSUME PagesAssumption == \A p \in Pages : p \in Page

VARIABLES
  page,       \* the page, as it was written
  fields,     \* its Link header fields, as they arrived
  pc,         \* which loop is running
  f,          \* the field at hand
  at,         \* where its rest begins, or the token at hand
  target,     \* the target of the link at hand
  params,     \* its parameters so far
  name,       \* the name of a parameter whose value is quoted
  text,       \* that value so far
  targets,    \* what targetsWithRel has found
  base,       \* htmlLinks.base; Absent until haveBase
  hrefs       \* htmlLinks.hrefs

vars == <<page, fields, pc, f, at, target, params, name, text, targets, base, hrefs>>

-----------------------------------------------------------------------------
(* Definitions named Mutant... are plausible mistakes in the definition that *)
(* follows; the properties are tested by putting them in its place.         *)
Field == fields[f]

(* The first place from k on that holds one of S, or the end. *)
Seek(k, S) == CHOOSE n \in k..(Len(Field) + 1) :
                /\ n > Len(Field) \/ Field[n] \in S
                /\ \A j \in k..(n - 1) : Field[j] \notin S

(* strings.TrimLeft: the first place from k on that holds none of S. *)
Skip(k, S) == Seek(k, Symbol \ S)

Holds(k, s)   == k <= Len(Field) /\ Field[k] = s
Between(k, n) == SubSeq(Field, k, n - 1)

(* strings.TrimSpace. *)
TrimSpace(x) ==
  LET kept == {k \in DOMAIN x : x[k] \notin Blank}
  IN  IF kept = {} THEN <<>> ELSE SubSeq(x, Min(kept), Max(kept))

(* Where a name occurs among parameters or attributes. *)
Named(s, n) == {k \in DOMAIN s : s[k].name = n}

MutantLastRelCounts(ps) ==
  /\ \A k \in DOMAIN ps : ps[k].name # <<"anchor">>
  /\ \E k \in DOMAIN ps : /\ ps[k].name = <<"rel">>
                          /\ \A j \in DOMAIN ps : j > k => ps[j].name # <<"rel">>
                          /\ HasWord(ps[k].value, LinkRelation)

(* newLink, and whether its relations have the one that is looked for. *)
hasLinkRelation(ps) ==
  LET rels == Named(ps, <<"rel">>)
  IN  /\ rels # {} /\ HasWord(ps[Min(rels)].value, LinkRelation)
      /\ Named(ps, <<"anchor">>) = {}

(* A parameter without a name is dropped. *)
withParam(n, v) == IF n = <<>> THEN params ELSE Append(params, [name |-> n, value |-> v])

-----------------------------------------------------------------------------
Init ==
  /\ page \in Pages
  /\ fields = [k \in DOMAIN page.fields |-> Render(page.fields[k])]
  /\ pc = IF fields = <<>> THEN "head" ELSE "link"
  /\ f = 1
  /\ at = 1
  /\ target = <<>>
  /\ params = <<>>
  /\ name = <<>>
  /\ text = <<>>
  /\ targets = <<>>
  /\ base = Absent
  /\ hrefs = <<>>

MutantLinkStart == Skip(at, Blank)

LinkStart == Skip(at, Blank \cup {","})

(* Junk between links: resume at the next comma. *)
SkipJunk ==
  /\ pc = "link"
  /\ LinkStart <= Len(Field)
  /\ ~Holds(LinkStart, "<")
  /\ Seek(LinkStart, {","}) <= Len(Field)
  /\ at' = Seek(LinkStart, {","})
  /\ UNCHANGED <<page, fields, pc, f, target, params, name, text, targets, base, hrefs>>

(* Nothing is left but junk or a link without an end; on to the next field. *)
FieldEnds ==
  /\ pc = "link"
  /\ IF Holds(LinkStart, "<") THEN Seek(LinkStart + 1, {">"}) > Len(Field)
                              ELSE Seek(LinkStart, {","}) > Len(Field)
  /\ f' = f + 1
  /\ at' = 1
  /\ pc' = IF f = Len(fields) THEN "head" ELSE "link"
  /\ UNCHANGED <<page, fields, target, params, name, text, targets, base, hrefs>>

OpenLink ==
  /\ pc = "link"
  /\ Holds(LinkStart, "<")
  /\ LET close == Seek(LinkStart + 1, {">"}) IN
     /\ close <= Len(Field)
     /\ target' = TrimSpace(Between(LinkStart + 1, close))
     /\ at' = close + 1
  /\ params' = <<>>
  /\ pc' = "param"
  /\ UNCHANGED <<page, fields, f, name, text, targets, base, hrefs>>

(* What follows is no parameter: the link is complete, the rest of it junk. *)
ParamsEnd ==
  /\ pc = "param"
  /\ ~Holds(Skip(at, Blank), ";")
  /\ at' = Seek(Skip(at, Blank), {","})
  /\ targets' = IF hasLinkRelation(params) THEN Append(targets, target) ELSE targets
  /\ pc' = "link"
  /\ UNCHANGED <<page, fields, f, target, params, name, text, base, hrefs>>

(* A parameter: a name, and perhaps a value, which is a token or is quoted. *)
ReadParam ==
  /\ pc = "param"
  /\ Holds(Skip(at, Blank), ";")
  /\ LET first == Skip(Skip(at, Blank) + 1, Blank)
         last  == Seek(first, {"=", ";", ","} \cup Blank)
         equal == Skip(last, Blank)
         value == Skip(equal + 1, Blank)
         stop  == Seek(value, {";", ","} \cup Blank)
     IN  IF ~Holds(equal, "=")
         THEN /\ params' = withParam(Between(first, last), <<>>)
              /\ at' = equal
              /\ UNCHANGED <<pc, name, text>>
         ELSE IF Holds(value, "\"")
         THEN /\ pc' = "quoted"
              /\ name' = Between(first, last)
              /\ text' = <<>>
              /\ at' = value + 1
              /\ UNCHANGED params
         ELSE /\ params' = withParam(Between(first, last), Between(value, stop))
              /\ at' = stop
              /\ UNCHANGED <<pc, name, text>>
  /\ UNCHANGED <<page, fields, f, target, targets, base, hrefs>>

MutantPastTheEnd ==
  /\ pc = "quoted"
  /\ at > Len(Field) \/ Holds(at, "\"")
  /\ params' = withParam(name, text)
  /\ at' = at + 1
  /\ pc' = "param"
  /\ UNCHANGED <<page, fields, f, target, name, text, targets, base, hrefs>>

(* The closing quote, or the end of the field. *)
QuotedEnds ==
  /\ pc = "quoted"
  /\ at > Len(Field) \/ Holds(at, "\"")
  /\ params' = withParam(name, text)
  /\ at' = IF at > Len(Field) THEN at ELSE at + 1
  /\ pc' = "param"
  /\ UNCHANGED <<page, fields, f, target, name, text, targets, base, hrefs>>

(* A character, after a backslash if there is one; that may be the last. *)
QuotedChar ==
  /\ pc = "quoted"
  /\ at <= Len(Field)
  /\ ~Holds(at, "\"")
  /\ LET k == IF Holds(at, "\\") THEN at + 1 ELSE at IN
     IF k <= Len(Field) THEN text' = Append(text, Field[k]) /\ at' = k + 1
                        ELSE at' = k /\ UNCHANGED text
  /\ UNCHANGED <<page, fields, pc, f, target, params, name, targets, base, hrefs>>

-----------------------------------------------------------------------------
MutantLastAttribute(token, n) ==
  LET found == Named(token.attrs, n)
  IN  IF found = {} THEN Absent ELSE token.attrs[Max(found)].value

(* readAttributes: the first occurrence of an attribute wins. *)
Attr(token, n) ==
  LET found == Named(token.attrs, n)
  IN  IF found = {} THEN Absent ELSE token.attrs[Min(found)].value

IsTag(token, n) == token.kind = "start" /\ token.name = n

EndsHead(token) == IsTag(token, "body") \/ (token.kind = "end" /\ token.name = "head")

(* An absent href and one of blanks are alike. *)
PointsTo(token) == LET href == Attr(token, "href")
                   IN  IF href = Absent THEN <<>> ELSE TrimSpace(href)

hasRel(token) == Attr(token, "rel") # Absent /\ HasWord(Attr(token, "rel"), LinkRelation)

ReadToken ==
  /\ pc = "head"
  /\ page.html
  /\ at \in DOMAIN page.tokens
  /\ LET token == page.tokens[at] IN
     /\ ~EndsHead(token)
     /\ base' = IF IsTag(token, "base") /\ base = Absent THEN Attr(token, "href") ELSE base
     /\ hrefs' = IF IsTag(token, "link") /\ PointsTo(token) # <<>> /\ hasRel(token)
                 THEN Append(hrefs, PointsTo(token)) ELSE hrefs
  /\ at' = at + 1
  /\ UNCHANGED <<page, fields, pc, f, target, params, name, text, targets>>

(* The body begins, the head or the document ends, or the page is not HTML. *)
HeadEnds ==
  /\ pc = "head"
  /\ page.html /\ at \in DOMAIN page.tokens => EndsHead(page.tokens[at])
  /\ pc' = "done"
  /\ UNCHANGED <<page, fields, f, at, target, params, name, text, targets, base, hrefs>>

Next == \/ SkipJunk \/ FieldEnds \/ OpenLink \/ ParamsEnd \/ ReadParam
        \/ QuotedEnds \/ QuotedChar \/ ReadToken \/ HeadEnds

Spec == Init /\ [][Next]_vars

(* The parsers run on. *)
FairSpec == Spec /\ WF_vars(Next)
-----------------------------------------------------------------------------
(* Every variable stays in its set, and the cursor within one past the end  *)
(* of what is read.                                                         *)
TypeOK ==
  /\ page \in Page
  /\ fields \in Seq(Text)
  /\ pc \in {"link", "param", "quoted", "head", "done"}
  /\ pc \in {"link", "param", "quoted"} => f \in DOMAIN fields /\ at \in 1..(Len(Field) + 1)
  /\ pc = "head" => at \in 1..(Len(page.tokens) + 1)
  /\ params \in Seq([name : Text, value : Text])
  /\ {target, name, text} \subseteq Text
  /\ targets \in Seq(Text) /\ hrefs \in Seq(Text)
  /\ base \in Text \cup {Absent}

(* The targets found are those the fields name, all of them and in order,   *)
(* whatever commas, quotes, blanks and junk are in and between the links of *)
(* a well-formed field (link.go:26-184).                                    *)
LinksAsWritten ==
  /\ pc = "done"
  /\ \A n \in DOMAIN page.fields : \A k \in DOMAIN page.fields[n] : WellFormed(page.fields[n][k])
  => targets = FlattenSeq([n \in DOMAIN page.fields |-> Meant(page.fields[n])])

(* What a page says in its head, by definitions that read no tokens in turn. *)
InHead(k) == \A j \in 1..k : ~EndsHead(page.tokens[j])

(* The value of the first attribute n of a tag, if there is one. *)
FirstValue(token, n) ==
  {v \in {a.value : a \in Range(token.attrs)} :
     \E j \in DOMAIN token.attrs : /\ token.attrs[j] = [name |-> n, value |-> v]
                                   /\ \A i \in 1..(j - 1) : token.attrs[i].name # n}

HeadBases == {k \in DOMAIN page.tokens : /\ InHead(k) /\ IsTag(page.tokens[k], "base")
                                         /\ FirstValue(page.tokens[k], "href") # {}}

HeadLinks == {k \in DOMAIN page.tokens :
                /\ InHead(k) /\ IsTag(page.tokens[k], "link")
                /\ \E v \in FirstValue(page.tokens[k], "href") : Range(v) \ Blank # {}
                /\ \E v \in FirstValue(page.tokens[k], "rel") : HasWord(v, LinkRelation)}

(* Of the HTML, only the head counts: the first base that has a reference,  *)
(* and every link with the relation, in order (html.go:26-79).              *)
HeadAsRead ==
  LET href(k) == CHOOSE v \in FirstValue(page.tokens[k], "href") : TRUE
  IN  pc = "done" =>
        IF ~page.html THEN base = Absent /\ hrefs = <<>>
        ELSE /\ base = IF HeadBases = {} THEN Absent ELSE href(Min(HeadBases))
             /\ Len(hrefs) = Cardinality(HeadLinks)
             /\ \A k \in HeadLinks :
                  hrefs[Cardinality({j \in HeadLinks : j <= k})] = TrimSpace(href(k))

(* Reading ends on any text, junk, unclosed brackets and unclosed quotes    *)
(* included.                                                                *)
Terminates == <>(pc = "done")
=============================================================================
