---------------------------- MODULE MCCompletion ----------------------------
EXTENDS Completion
MCLines == {<<>>, <<"g", "_">>}
MCWord == {<<"g">>}
MCTool == <<"g">>
MCNoTool == <<"k">>
MCCommands == {<<"g", "g">>}
MCFiles == {<<"x", "/">>}
MCOther == {<<"g", "g">>, <<"g", "x">>}
=============================================================================
