------------------------------ MODULE MCNames ------------------------------
(* Names, and commands, short enough for TLC: every kind of character that *)
(* the program's string functions tell apart, in the positions that matter.*)
EXTENDS Names

Home == <<"~", "/">>
Sync == Home \o <<"s", "/">>

A == <<"a">>
AB == <<"a", "b">>
A_B == <<"a", " ", "b">>
Tilde_A == <<"~", "a">>
A_Newline_Line == <<"a", "\n", " ", "-", " ", "b">>   \* reads like two lines of a listing

TheCharacters ==
    {" ", "\n", "/", "~", "-", "C", ":", "h", "s", "a", "b", "d", "u", "x"}
TheNames == {A, AB, A_B, Tilde_A, A_Newline_Line}
TheStrandable == {AB}
TheCommands ==
    {<<"u", " ">> \o Sync \o A \o <<"\n">>,          \* from the directory
     <<"u", " ", " ">> \o Home \o AB \o <<" ", "\n">>,   \* from next to it
     <<"u", " ">> \o Sync \o A_B \o <<"\n">>,
     <<"x", " ">> \o A \o <<"\n">>,
     <<"x", " ">> \o Tilde_A \o <<"\n">>,
     <<"d", " ">> \o A \o <<" ">> \o Sync \o <<"\n">>,
     <<"d", " ">> \o AB \o <<" ", " ">> \o Home \o <<"\n">>,
     <<"d", " ">> \o AB \o <<" ">> \o Home \o <<"x", "/", "\n">>}   \* no such directory

(* The commands satisfy the hypothesis of NamesProofs!ContentCorrect.       *)
ASSUME CommandsAssumption == DownloadsToDirectories
=============================================================================
