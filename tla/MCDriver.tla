------------------------------ MODULE MCDriver ------------------------------
(***************************************************************************)
(* Instances of Driver: command lines of up to three files, in each mode,  *)
(* with forks and an output that may fail; and some with an assembler that may die.      *)
(***************************************************************************)
EXTENDS Driver

OneFile == {<<"c">>, <<"s">>, <<"unsupported">>}
MoreFiles == {<<"c", "s">>, <<"s", "c">>, <<"c", "unsupported">>, <<"c", "c", "c">>}

MCJobs ==
    [mode : {"exe", "asm", "pp"}, files : OneFile \cup MoreFiles,
     failures : {{}, {"fork", "open"}}] \cup
    [mode : {"exe"}, files : {<<"c", "c">>, <<"c", "s">>, <<"s">>}, failures : {{"as"}}]
=============================================================================
