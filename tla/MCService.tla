----------------------------- MODULE MCService -----------------------------
(* One vault, and the pieces of "Fully synced" a child may write: token by *)
(* token, either end of a line, or two lines at once.                      *)
EXTENDS Service

MCHeartbeat == <<"Fully", "synced">>

MCChunks == {<<"Fully">>, <<"synced">>, <<"cr", "nl">>,
             <<"nl", "Fully", "synced", "nl">>}
=============================================================================
