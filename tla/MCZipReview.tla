------------------------------ MODULE MCZipReview ------------------------------
EXTENDS ZipReview

LowerNames == [n \in Names |-> CASE n = "A" -> "a" [] n = "Vendor" -> "vendor" [] OTHER -> n]
Excluded == ("vendor" :> "dependency")
DocsVisualizations == <<"docs", "visualizations">>
NoPaths == {}
OnePath == {<<"d", "secret">>}
Ranks == ("A" :> 1) @@ (".env" :> 2) @@ ("a" :> 3) @@ ("d" :> 4) @@ ("docs" :> 5)
         @@ ("img.png" :> 6) @@ ("j.js" :> 7) @@ ("p.py" :> 8) @@ ("secret" :> 9)
         @@ ("Vendor" :> 0) @@ ("vendor" :> 10) @@ ("visualizations" :> 11)
AllNames == DOMAIN Ranks
Languages == [n \in Names |-> IF n = "p.py" THEN "python" ELSE IF n = "j.js" THEN "javascript" ELSE "text"]
DerivedWords == [c \in Concepts |-> IF c = "component" THEN <<"landmark">> ELSE <<"x", "review">>]

Line(size, word, decl, indent, braces) ==
  [size |-> size, word |-> word, decl |-> decl, indent |-> indent, braces |-> braces]
Blank == Line(1, NoWord, "none", 0, <<>>)
Source(lines) == [lines |-> lines, nul |-> FALSE]

\* Two short lines of text, and a Python class with a method.
Short == Source(<<Line(2, "x", "none", 0, <<>>), Line(2, "y", "none", 0, <<>>)>>)
Class == Source(<<Line(3, "x", "block", 0, <<>>), Line(3, "y", "block", 1, <<>>)>>)
Binary == [Short EXCEPT !.nul = TRUE]

File(path, source) == [path |-> path, dir |-> FALSE, safe |-> TRUE, packed |-> 2, source |-> source]
Directory(path) == [path |-> path, dir |-> TRUE, safe |-> TRUE, packed |-> 0, source |-> None]
Declared(path) == [File(path, Short) EXCEPT !.dir = TRUE]

Entries ==
  {File(<<"a">>, Short), File(<<"A">>, Short), File(<<"a", "p.py">>, Class), Directory(<<"A">>),
   Directory(<<"Vendor">>), Declared(<<"d">>), File(<<"d", "p.py">>, Class), File(<<"vendor", "d", "a">>, Short),
   File(<<"docs", "visualizations", "a">>, Short), File(<<".env">>, Short),
   File(<<"d", "img.png">>, Binary), File(<<"d", "secret">>, Short), File(<<"d", "a">>, Binary),
   [File(<<"j.js">>, Short) EXCEPT !.safe = FALSE], [File(<<"j.js">>, Short) EXCEPT !.packed = 0]}

\* Every text of up to three lines: the layout of Python, the braces of JavaScript.
PythonLines == {Blank} \cup {Line(s, "x", d, i, <<>>) :
                               s \in {2, 5}, d \in {"none", "block"}, i \in {0, 1}}
JavaScriptLines == {Blank, Line(2, "x", "alias", 0, <<"{">>)}
                   \cup {Line(2, "x", d, 0, b) : d \in {"none", "block"},
                                                b \in {<<>>, <<"{">>, <<"}">>, <<"{", "}">>}}
Texts(lines) == UNION {[1 .. n -> lines] : n \in 0 .. 3}

SomeArchives ==
  UNION {[1 .. n -> Entries] : n \in 0 .. 3}
  \cup {<<File(<<"p.py">>, Source(t))>> : t \in Texts(PythonLines)}
  \cup {<<File(<<"j.js">>, Source(t))>> : t \in Texts(JavaScriptLines)}

Question(words, bytes) == [words |-> words, bytes |-> bytes, file |-> None, broad |-> FALSE]
SomeQuestions ==
  {Question({}, 0), Question({"the"}, 1), [Question({"x"}, 1) EXCEPT !.broad = TRUE],
   [Question({"y", "the"}, 2) EXCEPT !.file = "a"], Question({"review", "y"}, 2),
   Question({"z"}, 1), Question({"x"}, 3)}
=============================================================================
