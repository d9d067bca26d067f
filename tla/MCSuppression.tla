---------------------------- MODULE MCSuppression ----------------------------
(***************************************************************************)
(* Problems of one line and of several, nested and side by side, with and       *)
(* without a new line at the end of the text, in front of more code, behind a   *)
(* wide character, among comments the user has written, and in scripts.         *)
(***************************************************************************)
EXTENDS Suppression

N == NewLine
MCEndOf == [p |-> "p", q |-> "q", m |-> "mEnd", o |-> "oEnd"]
MCDocuments ==
  { <<"o", N, Indent, "m", N, Indent, "p", N, Indent, "mEnd", N, "q", N, "oEnd", N>>,
    <<"m", N, "p", "x", "x", "q", N, "mEnd">>,
    <<"w", "p", N, Indent, "m", N, "q", "mEnd">>,
    <<"ignore-start", N, "p", N, "m", N, "mEnd", N, "q">>,
    <<Indent, "m", N, Script, "p", N, Script, "ignore-next-line", N, Script, "mEnd", "q">> }
=============================================================================
