----------------------------- MODULE MCSessionHost -----------------------------
EXTENDS SessionHost, TLC

(* Two sessions that use one tmux name after each other: the first owes a      *)
(* result, the second is a user's, adopted.                                    *)
Both == {1, 2}
First == {1}
Second == {2}
SomeOps == {<<"capture", 1>>, <<"cancel", 2>>, <<"cleanup", 2>>}
OneName == (1 :> "seat" @@ 2 :> "seat")
===============================================================================
