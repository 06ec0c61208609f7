----------------------------- MODULE MCSections -----------------------------
(* Every note of up to three of six tokens, and longer ones with the two   *)
(* heading forms, sections that nest and skip levels, frontmatter and      *)
(* fences.                                                                 *)
EXTENDS Sections

MCTokens == {Hashes[n] : n \in 1..6}
               \cup {"rule", "equals", "fence", "a", "b", "c", "d", "nl"}

ShortTokens == {"#", "rule", "equals", "fence", "a", "nl"}

MCStartNotes ==
    UNION {[1..n -> ShortTokens] : n \in 0..3}
    \cup {<<"#", "a", "nl", "a", "nl", "##", "b", "nl", "b", "nl", "#", "c">>,
          <<"##", "a", "nl", "a", "nl", "nl", "b", "nl", "rule", "nl", "b">>,
          <<"a", "nl", "rule", "nl", "b", "nl", "rule", "b">>,
          <<"a", "nl", "b", "nl", "rule", "nl", "nl", "c", "nl", "rule">>,
          <<"rule", "nl", "#", "a", "nl", "rule", "nl", "#", "b", "nl", "b">>,
          <<"#", "a", "nl", "fence", "nl", "##", "b", "nl", "fence", "nl", "##", "b">>,
          <<"#", "a", "nl", "##", "b", "nl", "##", "b", "nl", "##", "c">>,
          <<"##", "a", "nl", "#", "b", "nl", "##", "a", "nl", "##", "c">>,
          <<"##", "a", "nl", "####", "b", "nl", "###", "c", "nl", "a", "nl", "##", "b">>,
          <<"######", "a", "nl", "#", "b", "nl", "#####", "c", "nl", "###", "c">>,
          <<"a", "nl", "equals", "nl", "b", "nl", "rule", "nl", "###", "c", "nl",
            "b", "nl", "c", "nl", "equals">>,
          <<"a", "nl", "equals", "nl", "equals", "nl", "rule", "nl", "b">>}

MCContents == {<<>>, <<"a">>, <<"nl">>, <<"a", "nl">>, <<"a", "nl", "nl">>,
               <<"equals">>, <<"a", "nl", "rule">>, <<"###", "d">>, <<"#", "d", "nl">>,
               <<"fence", "nl", "#", "d", "nl", "fence">>, <<"fence", "nl">>}
=============================================================================
