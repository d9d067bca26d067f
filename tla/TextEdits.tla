------------------------------ MODULE TextEdits ------------------------------
(***************************************************************************)
(* The text of one document in the editor and in the file cache: edits sent  *)
(* as incremental changes (applyIncrementalChanges in methods/synchronize.go)  *)
(* and the conversions of positions (pkg/utils/indexToPos.go).               *)
(*                                                                         *)
(* A text is a sequence of characters.  What no property tells apart is one    *)
(* character: a word, a key, a comment.  The editor counts characters, as LSP   *)
(* does by default; the server counts bytes, and a wide character has two.      *)
(***************************************************************************)
EXTENDS Naturals, Sequences, FiniteSets, SequencesExt

CONSTANTS
  Documents,     \* the texts that may be opened
  Wide,          \* the wide character
  Typed,         \* what the user types
  MaxTyped       \* bound: edits by hand

NewLine == "newline"

ASSUME DocumentsAssumption == \A document \in Documents : document \in Seq(ToSet(document))
ASSUME WideAssumption == Wide # NewLine

VARIABLES
  client,        \* the editor's text, in characters
  server,        \* the cached text, in bytes
  typed,
  misread        \* history: the server has read a change's columns otherwise

textVars == <<client, server, typed, misread>>

Encoded(character) == IF character = Wide THEN <<Wide, "second byte">> ELSE <<character>>
Bytes(text) ==
  LET bytes[n \in 0..Len(text)] == IF n = 0 THEN <<>> ELSE bytes[n - 1] \o Encoded(text[n])
  IN  bytes[Len(text)]
Smaller(m, n) == IF m < n THEN m ELSE n
-----------------------------------------------------------------------------
Position(line, character) == [line |-> line, character |-> character]

NewLines(text) == {i \in DOMAIN text : text[i] = NewLine}
Lines(text) == Cardinality(NewLines(text)) + 1
LineStart(text, line) ==
  LET ends == NewLines(text)
  IN  CASE line = 0 -> 0
        [] line > Cardinality(ends) -> Len(text)
        [] OTHER -> CHOOSE i \in ends : Cardinality({j \in ends : j <= i}) = line

\* mutation: the line begins with its newline
PosToIndexBefore(pos, content) ==
  LET start == LineStart(content, pos.line)
  IN  Smaller((IF start = 0 THEN 0 ELSE start - 1) + pos.character, Len(content))
(* A column past the end of its line runs into the lines that follow.         *)
PosToIndex(pos, content) == Smaller(LineStart(content, pos.line) + pos.character, Len(content))

\* mutation: columns count from the newline
IndexToPosAfter(index, content) ==
  LET before == {i \in NewLines(content) : i <= index}
  IN  IF before = {} THEN Position(0, index) ELSE Position(Cardinality(before), index - Max(before) + 1)
IndexToPos(index, content) ==
  LET before == {i \in NewLines(content) : i <= index}
  IN  IF before = {} THEN Position(0, index) ELSE Position(Cardinality(before), index - Max(before))

(* The editor's reading of a position: a column past the end of a line is its  *)
(* end, and so is a line past the end of the text.                           *)
LineEnd(text, line) == IF line + 1 >= Lines(text) THEN Len(text) ELSE LineStart(text, line + 1) - 1
ClientIndex(pos, text) == Smaller(LineStart(text, pos.line) + pos.character, LineEnd(text, pos.line))
-----------------------------------------------------------------------------
Splice(text, from, to, new) == SubSeq(text, 1, from) \o new \o SubSeq(text, to + 1, Len(text))

Change(start, end, text) == [start |-> start, end |-> end, text |-> text]

Apply(change, text) ==
  Splice(text, PosToIndex(change.start, text), PosToIndex(change.end, text), Bytes(change.text))
applyIncrementalChanges(content, changes) ==
  LET after[n \in 0..Len(changes)] == IF n = 0 THEN content ELSE Apply(changes[n], after[n - 1])
  IN  after[Len(changes)]

(* The editor replaces parts of its text, the last one first, and sends them.  *)
Part(from, to, text) == [from |-> from, to |-> to, text |-> text]
Replace(part, text) == Splice(text, part.from, part.to, part.text)
Edited(content, parts) ==
  LET after[n \in 0..Len(parts)] == IF n = 0 THEN content ELSE Replace(parts[n], after[n - 1])
  IN  after[Len(parts)]

WideBefore(i) == \E j \in 1..i : client[j] = Wide /\ \A k \in j..i : client[k] # NewLine
Sent(part) == Change(IndexToPos(part.from, client), IndexToPos(part.to, client), part.text)
DidChange(parts) ==
  /\ client' = Edited(client, parts)
  /\ server' = applyIncrementalChanges(server, [i \in DOMAIN parts |-> Sent(parts[i])])
  /\ misread' = (misread \/ \E i \in DOMAIN parts : WideBefore(parts[i].from) \/ WideBefore(parts[i].to))

(* The user types at the cursor, or deletes a character.                       *)
Type(from, to, text) ==
  /\ typed < MaxTyped /\ ~misread
  /\ to <= Len(client)
  /\ typed' = typed + 1
  /\ DidChange(<<Part(from, to, text)>>)

(* DidOpen sends the whole text.                                            *)
TextInit ==
  /\ client \in Documents
  /\ server = Bytes(client)
  /\ typed = 0 /\ misread = FALSE
=============================================================================
