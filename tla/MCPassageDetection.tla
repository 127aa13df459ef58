-------------------------- MODULE MCPassageDetection --------------------------
(* A small instance of PassageDetection: documents with headings up to six    *)
(* characters, without them up to nine, windows of three and of five.        *)
EXTENDS PassageDetection

Docs(kinds, n) == UNION {[1..k -> kinds] : k \in 1..n}

SomeTexts == Docs(Kinds, 6) \cup Docs({"word", "stop", "space"}, 9)

ThreeChunks == {<<0, 3>>, <<2, 5>>, <<5, 8>>}
=============================================================================
