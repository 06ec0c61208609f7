---------------------------- MODULE MCVaultFiles ----------------------------
(* A vault that starts with a note and, in the trash, an older one of the  *)
(* same name.                                                              *)
EXTENDS VaultFiles, TLC

MCText == {"x", "y"}

MCContents == {<<>>, <<"y", "x">>}

MCStart == << [path |-> Plain(Root, "a"), text |-> <<"x", "x">>],
              [path |-> Plain(Trash, "a"), text |-> <<"y">>] >>
=============================================================================
