------------------------------- MODULE MCDirs -------------------------------
(* Two names that become directories, and up to four in the root; one file *)
(* a level deeper.  Sectors of two entries, so that the root needs its     *)
(* table for the third name and the fourth would be behind it.             *)
EXTENDS Dirs

MCArg == {<<"/", "a", "", "c">>, <<"b">>, <<"..">>, <<"/", "a", "..", "b", ".", "b">>}
MCCreatePath == {<<"c">>, <<"d">>, <<"a", "b">>}
MCOpenPath   == {<<"c">>, <<"a", "b">>}
=============================================================================
