----------------------------- MODULE MCFat32Dir -----------------------------
(***************************************************************************)
(* A root with a directory d and a file K of another system.  Names: LL is *)
(* a long one in upper case in two pieces, x fills its piece, and a file   *)
(* may be given the name, and with it the short name, of the directory.    *)
(* Paths lead to the root, to d, and two levels deep.                      *)
(***************************************************************************)
EXTENDS Fat32Dir, TLC

Name(pieces, stem) == [pieces |-> pieces, stem |-> stem, full |-> FALSE,
                       long |-> FALSE, upper |-> FALSE, plain |-> FALSE]

MCNames == "a" :> Name(1, "A") @@ "d" :> Name(1, "D") @@ "e" :> Name(1, "E")
    @@ "LL" :> [Name(2, "L") EXCEPT !.long = TRUE, !.upper = TRUE]
    @@ "x" :> [Name(1, "X") EXCEPT !.long = TRUE, !.full = TRUE]
    @@ "K" :> [Name(1, "K") EXCEPT !.plain = TRUE, !.upper = TRUE]

MCDirs == 2 :> <<Piece("d", 1, <<"D", 0>>), [attr |-> "dir", short |-> <<"D", 0>>, start |-> 3, size |-> 0],
                 FileEntry(<<"K", 0>>, 4, 1), Free, Free, Free, Free>>
       @@ 3 :> [i \in 1 .. 7 |-> Free]

MCPaths == { <<"a">>, <<"LL">>, <<"x">>, <<"K">>, <<"d">>, <<"d", "/", "a">>,
             <<"d", "/", "e", "/", "a">>, <<"d", "/">>, <<"d", "/", "/", "a">>, << >> }

ASSUME MCFilesAssumption == FilesHaveOtherNames
=============================================================================
