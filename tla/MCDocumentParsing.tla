-------------------------- MODULE MCDocumentParsing --------------------------
(* Every text of four lines, every PDF of two pages and every list of three  *)
(* elements that can be made of a few lines, and the overrides.              *)
EXTENDS DocumentParsing

Line(k, n, p, s) == [kind |-> k, len |-> n, page |-> p, scan |-> s]

TextLines == {<<"text", 0>>, <<"text", 2>>, <<"heading", 1>>, <<"text", 9>>}

Texts == [1 .. 4 -> TextLines]

Elements == [1 .. 3 -> TextLines \cup {<<"table", 3>>, <<"image", 0>>, <<"image", 2>>}]

OnePage(f) == [i \in DOMAIN f |-> Line(f[i][1], f[i][2], 0, FALSE)]

Layers == {<<>>, <<<<"text", 1>>>>, <<<<"heading", 3>>, <<"text", 0>>, <<"text", 2>>>>,
           <<<<"text", 4>>, <<"text", 0>>, <<"text", 8>>>>, <<<<"table", 2>>>>}

Scans == {<<>>, <<2>>, <<5>>, <<2, 0, 9>>}

Page(layer, scan, p) ==
    [i \in DOMAIN layer |-> Line(layer[i][1], layer[i][2], p, FALSE)]
    \o [i \in DOMAIN scan |-> Line("text", scan[i], p, TRUE)]

TwoPages == {Page(l1, s1, 1) \o Page(l2, s2, 2) : l1, l2 \in Layers, s1, s2 \in Scans}

File(mime, override, extension, lines) ==
    [mime |-> mime, override |-> override, extension |-> extension, lines |-> lines]

MCFiles ==
    {File("plain", "none", "none", OnePage(t)) : t \in Texts}
    \cup {File("markdown", "none", "md", OnePage(t)) : t \in Texts}
    \cup {File("other", "none", "none", OnePage(e)) : e \in Elements}
    \cup {File("pdf", o, "none", ps) : o \in {"none", "ocr"}, ps \in TwoPages}
    \cup {File("plain", o, "none", OnePage(<<<<"text", 2>>>>)) : o \in {"mineru", "tika", "unstructured"}}
=============================================================================
