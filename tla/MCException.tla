----------------------------- MODULE MCException -----------------------------
(***************************************************************************)
(* An exception with every mixture of empty and other fields, made on      *)
(* stacks with null frames, frames without a symbol, and more frames than  *)
(* there is room for.                                                      *)
(***************************************************************************)
EXTENDS ExceptionText

\* dladdr finds no symbol for frame 2; main is a C name.
MCSymbol == <<"_ZN1A1fEv", "", "main", "_Zli3_kmd">>
MCDemangled == [_ZN1A1fEv |-> "A::f()", _Zli3_kmd |-> "operator\"\" _km"]
MCStacks == {<<>>, <<2, 0, 1, 2, 3>>, <<3, 4, 0, 3>>}

MCText == {"", "message"}
MCSpecial == {"operator\"\" _km", "C:\\logs"}
MCNumberText == [f24 |-> "24.531000"]
MCNotes == {Note("Credit", "f24", "int f()"), Note("Path", "C:\\logs", "")}
=============================================================================
