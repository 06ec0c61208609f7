---------------------------- MODULE MCVaultTree ----------------------------
(* A vault with a note, and a folder that holds a note of the same name.   *)
EXTENDS VaultTree, TLC

Written(bases) == [i \in DOMAIN bases |-> Name(bases[i])]

MCBases == {"", ".", "..", "a", "b", "f", ".h", ".trash", "vault"}

Numbered(b) == [base |-> b, nums |-> <<1>>]

MCHidden == {".trash", ".h"}

MCStart == <<>> :> 0
           @@ Written(<<"a">>) :> 1
           @@ Written(<<"f">>) :> 0
           @@ Written(<<"f", "a">>) :> 2
           @@ Written(<<".h">>) :> 3

(* Plain paths, paths that are refused, the vault itself, paths that take  *)
(* detours through a folder or through the trash, and numbered names.      *)
MCRawPaths ==
    {Written(p) : p \in {<<>>, <<"", "a">>, <<"..", "a">>, <<".">>,
                         <<"a">>, <<"f">>, <<"f", "a">>, <<"f", "b", "a">>,
                         <<"f", "..", "a">>, <<".h">>,
                         <<".trash">>, <<".trash", "a">>, <<".trash", "f">>,
                         <<".trash", "f", "a">>,
                         <<".trash", "..", "a">>, <<".trash", "..", "f", "a">>,
                         <<".trash", "f", "..", "..", "a">>,
                         <<".", ".trash", "a">>}}
    \cup {<<Trash, Numbered("a")>>, <<Trash, Numbered(".h")>>}
=============================================================================
