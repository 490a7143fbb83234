--------------------------- MODULE MCAnchorResolution ---------------------------
(* Short texts over two letters, full of repetitions.                           *)
EXTENDS AnchorResolution, SequencesExt

MCLetters == {"a", "b", "c"}
Words(n) == [1..n -> {"a", "b"}]

MCSources == Words(5) \cup Words(6)
MCFocuses == {<<0>>, <<1, 4>>, <<4, 2>>, <<>>}
MCSnippets == Words(1) \cup Words(2)
\* The last one is longer than any limit, as a function with its envelope may be.
MCReplacements == {<<>>, <<"a">>, <<"a", "c", "b">>, <<"a", "b", "c", "a", "b">>}
=============================================================================
