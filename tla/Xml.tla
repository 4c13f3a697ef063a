-------------------------------- MODULE Xml ---------------------------------
(***************************************************************************)
(* xml_parser.c: a parser that calls its user back for every element of    *)
(* the document; the user's callback reads the body of the element, walks  *)
(* its children, skips it or ends the parsing.                             *)
(*                                                                         *)
(* A document is a sequence of tokens: an opening tag with its name and    *)
(* attributes, a closing tag, a piece of text without '<' and '>', a       *)
(* preamble, or a '<' behind which the document ends.  A name is a         *)
(* sequence of letters, because the parser searches for "<" and a name     *)
(* without looking at what follows.                                        *)
(***************************************************************************)
EXTENDS Naturals, Sequences, SequencesExt, FiniteSets, FiniteSetsExt

CONSTANTS OpenTags,        \* the opening tags that documents are made of
          MaxInner,        \* bound on the tokens inside the root element
          MaxAttributes,   \* size of parser->attributes
          MaxNameLen,      \* MAX_NAME_LEN
          max_depth        \* parser->max_depth

VARIABLES doc,             \* the document
          parser,          \* at: index of the first token of parser->doc;
                           \* nodes: the elements whose callbacks are running, with processed;
                           \* pc, ret: what the innermost callback is doing, what it got back;
                           \* stop, error, depth: stop_parsing, error and the callback stack;
                           \* attributes: the array that all nodes share
          seen,            \* the elements the user was called for, in order
          bodies,          \* the bodies the user was given: <<element, last token>>
          ended            \* whether a callback has asked for the end of the parsing

xmlVars == <<doc, parser, seen, bodies, ended>>

Text == [k |-> "text", name |-> <<>>, attrs |-> <<>>]
Preamble == [k |-> "pre", name |-> <<>>, attrs |-> <<>>]
Cut == [k |-> "cut", name |-> <<>>, attrs |-> <<>>]
Close(tag) == [k |-> "close", name |-> tag.name, attrs |-> <<>>]

\* What may stand inside an element, by its number of tokens.
Inside[n \in Nat] ==
    IF n = 0 THEN {<<>>}
    ELSE {<<Text>> \o rest : rest \in Inside[n - 1]}
         \cup UNION {{<<tag>> \o in \o <<Close(tag)>> \o rest :
                          tag \in OpenTags, in \in Inside[m], rest \in Inside[n - 2 - m]} :
                     m \in IF n < 2 THEN {} ELSE 0 .. (n - 2)}

Whole == {<<tag>> \o in \o <<Close(tag)>> : tag \in OpenTags, in \in UNION {Inside[n] : n \in 0 .. MaxInner}}
Documents == Whole
             \cup {<<Preamble>> \o d : d \in {d \in Whole : Len(d) < 4}}
             \cup UNION {{SubSeq(d, 1, n), Append(SubSeq(d, 1, n), Cut)} :
                             n \in 0 .. 4, d \in {d \in Whole : Len(d) = 5}}

\* The first token from i on that has a '<', and that has a '>'; zero if there is none.
First(S) == IF S = {} THEN 0 ELSE Min(S)
NextOpenBracket(i) == First({j \in i .. Len(doc) : doc[j].k # "text"})
NextCloseBracket(i) == First({j \in i .. Len(doc) : doc[j].k \notin {"text", "cut"}})

\* The characters of parser->doc.
Length(t) == CASE t.k = "open" -> Len(t.name) + 2 + 4 * Len(t.attrs)
               [] t.k = "close" -> Len(t.name) + 3
               [] OTHER -> 1
Remaining(i) == FoldLeft(LAMBDA n, t : n + Length(t), 0, SubSeq(doc, i, Len(doc)))

----------------------------------------------------------------------------
(* Skipping to the end of an element: a closing tag of the same name, past *)
(* as many of them as there are opening tags that begin with the name.     *)

RECURSIVE ClosingTag(_, _, _)
ClosingTag(name, from, depth_count) ==
    LET close == First({j \in from .. Len(doc) : doc[j] = Close([name |-> name])})
        opens == {j \in from .. close : doc[j].k = "open" /\ IsPrefix(name, doc[j].name)}
        depth == depth_count + Cardinality(opens) - 1
    IN  IF close = 0 \/ depth = 0 THEN close ELSE ClosingTag(name, close + 1, depth)

\* How a callback's call into the parser ends; a failure for good sets parser->error.
Returned(p, ret) == [p EXCEPT !.pc = "returned", !.ret = ret]
Fails(p) == Returned(p, "err")
FailsForGood(p) == Returned([p EXCEPT !.error = "err"], "err")

s_advance_to_closing_tag(p, node) ==
    LET name == doc[node].name
        close == ClosingTag(name, p.at, 1)
    IN  CASE Len(name) + 3 > Remaining(node + 1) -> FailsForGood(p)
          [] Len(name) + 3 <= Remaining(node + 1) /\ Len(name) > MaxNameLen -> FailsForGood(p)
          [] Len(name) + 3 <= Remaining(node + 1) /\ Len(name) <= MaxNameLen /\ close = 0 -> Fails(p)
          [] OTHER -> Returned([p EXCEPT !.at = close + 1], p.error)

----------------------------------------------------------------------------

\* The user is called for the element that opens at n, below the elements in p.nodes.
s_load_node_decl(p, n) ==
    IF Len(doc[n].attrs) > MaxAttributes THEN Fails(p)
    ELSE [p EXCEPT !.nodes = Append(@, [node |-> n, processed |-> FALSE]), !.pc = "callback",
                   !.attributes = doc[n].attrs]

\* One round of the loop of aws_xml_node_traverse, in which any closing tag is the parent's.
NextChild(p) ==
    LET n == NextOpenBracket(p.at)
        after == [p EXCEPT !.at = n + 1]
    IN  CASE n = 0 -> Fails(p)
          [] n # 0 /\ NextCloseBracket(p.at) = 0 -> Fails(p)
          [] n # 0 /\ doc[n].k = "close" -> Returned([after EXCEPT !.depth = @ - 1], p.error)
          [] OTHER -> s_load_node_decl(after, n)

Loop(p) == CASE p.stop -> Returned(p, p.error)
             [] ~p.stop /\ p.error = "err" -> Returned([p EXCEPT !.depth = @ - 1], p.error)
             [] OTHER -> NextChild(p)

\* The callback of a child returned go to aws_xml_node_traverse.
AfterChild(p, go) ==
    LET node == Last(p.nodes)
        up == [p EXCEPT !.nodes = Front(@)]
        skipped == s_advance_to_closing_tag(up, node.node)
    IN  CASE ~go -> Returned([up EXCEPT !.stop = TRUE], p.error)
          [] go /\ ~p.stop /\ ~node.processed ->
                 IF skipped.ret = "err" THEN skipped ELSE Loop(skipped)
          [] OTHER -> Loop(up)

\* The callback of the root returned go to s_node_next_sibling.
AfterRoot(p, go) ==
    LET node == Last(p.nodes)
        stopped == [p EXCEPT !.stop = ~go, !.nodes = <<>>]
        end == IF node.processed THEN Returned(stopped, p.error)
               ELSE s_advance_to_closing_tag(stopped, node.node)
    IN  [end EXCEPT !.pc = "done"]

s_node_next_sibling(p) ==
    LET n == NextOpenBracket(p.at)
        called == s_load_node_decl([p EXCEPT !.at = n + 1], n)
    IN  CASE n = 0 -> [p EXCEPT !.pc = "done", !.ret = p.error]
          [] n # 0 /\ NextCloseBracket(n) = 0 -> [Fails(p) EXCEPT !.pc = "done"]
          [] OTHER -> IF called.ret = "err" THEN [called EXCEPT !.pc = "done"] ELSE called

\* Everything before the root element is passed over.
aws_xml_parser_parse(p) ==
    LET root == First({j \in 1 .. Len(doc) : doc[j].k \notin {"text", "pre"}})
    IN  CASE root = 0 /\ doc # <<>> /\ Last(doc).k = "text" -> [Fails(p) EXCEPT !.pc = "done"]
          [] root # 0 /\ NextCloseBracket(root) = 0 -> [Fails(p) EXCEPT !.pc = "done"]
          [] OTHER -> s_node_next_sibling([p EXCEPT !.at = IF root = 0 THEN Len(doc) + 1 ELSE root])

aws_xml_parser_new ==
    [at |-> 1, nodes |-> <<>>, pc |-> "new", ret |-> "ok", stop |-> FALSE, error |-> "ok", depth |-> 0,
     attributes |-> <<>>]

XmlInit ==
    /\ doc \in Documents
    /\ parser = aws_xml_parser_new
    /\ seen = <<>>
    /\ bodies = {}
    /\ ended = FALSE

\* A step of the parser that may end in another callback.
Becomes(p) ==
    /\ parser' = p
    /\ seen' = IF p.pc = "callback" THEN Append(seen, Last(p.nodes).node) ELSE seen
    /\ UNCHANGED doc

Parses ==
    /\ parser.pc = "new"
    /\ Becomes(aws_xml_parser_parse([parser EXCEPT !.depth = 1]))
    /\ UNCHANGED <<bodies, ended>>

Current == Last(parser.nodes).node
Processed == [parser EXCEPT !.nodes[Len(parser.nodes)].processed = TRUE]

aws_xml_node_as_body ==
    /\ parser.pc = "callback"
    /\ LET p == s_advance_to_closing_tag(Processed, Current)
       IN  /\ Becomes(p)
           /\ bodies' = IF p.ret = "err" THEN bodies ELSE bodies \cup {<<Current, p.at - 2>>}
    /\ UNCHANGED ended

aws_xml_node_traverse ==
    /\ parser.pc = "callback"
    /\ Becomes(IF parser.depth >= max_depth THEN FailsForGood(Processed)
               ELSE Loop([Processed EXCEPT !.depth = @ + 1]))
    /\ UNCHANGED <<bodies, ended>>

\* The callback returns, without a call or after one; it does not go on after an error.
CallbackReturns ==
    /\ parser.pc \in {"callback", "returned"}
    /\ \E go \in BOOLEAN :
        /\ parser.pc = "returned" /\ parser.ret = "err" => ~go
        /\ ended' = (ended \/ ~go)
        /\ Becomes(IF Len(parser.nodes) = 1 THEN AfterRoot(parser, go) ELSE AfterChild(parser, go))
    /\ UNCHANGED bodies

XmlNext == Parses \/ aws_xml_node_as_body \/ aws_xml_node_traverse \/ CallbackReturns

----------------------------------------------------------------------------

Opens == {i \in DOMAIN doc : doc[i].k = "open"}
Level(i) == Cardinality({j \in 1 .. i : doc[j].k = "open"}) - Cardinality({j \in 1 .. i : doc[j].k = "close"})
Match(i) == Min({j \in i .. Len(doc) : doc[j].k = "close" /\ Level(j) = Level(i) - 1})
ParentOf(i) == Max({j \in Opens : j < i /\ Level(j) = Level(i) - 1} \cup {0})

\* Documents within the parser's limits, in which no name begins with another one.
WellFormed ==
    /\ doc # <<>> /\ Level(Len(doc)) = 0 /\ Last(doc).k = "close"
    /\ \A i \in Opens : Len(doc[i].attrs) <= MaxAttributes /\ Len(doc[i].name) <= MaxNameLen
    /\ \A i, j \in Opens : ~IsStrictPrefix(doc[i].name, doc[j].name)
Shallow == \A i \in Opens : Level(i) <= max_depth - 1

\* In whatever way the callbacks use the elements they are given, the user is called for
\* the children of every element that is walked, each of them once and in order, with the
\* attributes of that element; a body ends where the element ends, elements of the same
\* name inside it notwithstanding; and a parse that was not ended by the user passes the
\* whole document and fails only where the nesting exceeds max_depth.
XmlExact ==
    WellFormed =>
        /\ \A i, j \in DOMAIN seen : i < j => seen[i] < seen[j]
        /\ parser.pc = "callback" =>
               /\ parser.attributes = doc[Current].attrs
               /\ \A k \in 2 .. Len(parser.nodes) : ParentOf(parser.nodes[k].node) = parser.nodes[k - 1].node
               /\ \A i \in Opens : ParentOf(i) = ParentOf(Current) /\ i < Current => i \in Range(seen)
        /\ \A b \in bodies : b[2] = Match(b[1]) - 1
        /\ parser.pc = "returned" /\ parser.ret = "ok" /\ ~parser.stop => parser.at = Match(Current) + 1
        /\ parser.pc = "done" /\ ~ended => parser.ret = "ok" /\ parser.at = Len(doc) + 1
        /\ Shallow => parser.error = "ok"
=============================================================================
