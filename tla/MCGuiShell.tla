----------------------------- MODULE MCGuiShell -----------------------------
(* The shell with a mailbox of two messages, a command line of two characters *)
(* and one line of each kind of outcome.                                      *)
EXTENDS GuiShell

MCPrintable == {"a", "r", "f"}
MCCommands == [line \in {<<"a">>, <<"r">>, <<"f">>} |->
  CASE line = <<"a">> -> "FS_LIST"
    [] line = <<"r">> -> "ATK_EXEC"
    [] line = <<"f">> -> "fault"]
MCNoMessage == [type |-> "NONE", payload |-> "none"]
MCMessages == {Key(c) : c \in Keys} \cup {Response(r) : r \in Requests}
=============================================================================
