------------------------------ MODULE MCFileServer ------------------------------
(* An instance of FileServer: a directory with one file, of two pages.    *)
EXTENDS FileServer

CONSTANTS root, home, note

Tree     == [n \in {home, note} |-> IF n = home THEN root ELSE home]
Names    == [n \in {home, note} |-> IF n = home THEN "home" ELSE "note"]
Sizes    == [n \in Node |-> IF n = note THEN 2 ELSE 1]
Paths    == {<<"home", "note">>, <<"home">>, <<"note">>}
================================================================================
