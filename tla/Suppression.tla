----------------------------- MODULE Suppression -----------------------------
(***************************************************************************)
(* Diagnostics and the comments that suppress them: parser/suppression.go,     *)
(* services/diagnostics.go, utils/codeActions.go and methods/codeAction.go.     *)
(* The user edits by hand or takes an action that came with a diagnostic, which  *)
(* may have been computed for an earlier text.                               *)
(***************************************************************************)
EXTENDS TextEdits

CONSTANTS
  EndOf,         \* the last character of every problem's range; the problem is the first
  Overwritten,   \* characters an inline comment is put over
  MaxChanges       \* bound: edits, by hand or by actions

VARIABLES
  published,     \* the diagnostics published last, with their actions
  stale,         \* history: the text has changed since
  actions,
  silenced       \* history: the problems silenced by actions, if the user has left the text alone

ASSUME OverwrittenAssumption == Overwritten \in Nat

suppressionVars == <<textVars, published, stale, actions, silenced>>

Problems == DOMAIN EndOf
Indent == "indent"
Script == "script"   \* the indentation of a line of a block scalar
Comments == {"ignore-file", "ignore", "ignore-next-line", "ignore-start", "ignore-end"}

DocumentCharacters == UNION {ToSet(document) : document \in Documents}
Characters == DocumentCharacters \union Typed \union Comments \union {NewLine, Indent, Script, Wide, "second byte"}

(* A problem's character is one problem, at one place of the document, and the   *)
(* ends of problems are code.                                               *)
ASSUME ProblemsAssumption ==
  /\ Problems \intersect (Typed \union Comments \union {NewLine, Indent, Script, "second byte"}) = {}
  /\ Problems \intersect {"end without start", "start in a range", "start without end"} = {}
  /\ \A problem \in Problems : EndOf[problem] \notin Comments \union {NewLine, Indent, Script}
  /\ \A document \in Documents : \A i, j \in DOMAIN document :
       document[i] \in Problems /\ document[i] = document[j] => i = j
ASSUME WideIsCode == Wide \notin Comments \union {Indent, Script}
-----------------------------------------------------------------------------
(* In a block scalar nothing is a comment node.  A line is known to be of one by *)
(* its own indentation.                                                     *)
InScript(text, i) ==
  \E j \in 1..i : /\ text[j] = Script /\ (j = 1 \/ text[j - 1] = NewLine)
                 /\ \A k \in j..i : text[k] # NewLine
ScriptLine(text, line) == InScript(text, LineEnd(text, line))

(* What follows # on a line.  The action puts a space before `# cci-ignore'.    *)
IsComment(text, i) ==
  /\ text[i] \in Comments /\ ~InScript(text, i)
  /\ text[i] = "ignore" \/ i = 1 \/ text[i - 1] \in {NewLine, Indent}
CommentOf(text, line) ==
  LET end == LineEnd(text, line)
      marks == {i \in LineStart(text, line) + 1 .. end : IsComment(text, i)}
  IN  IF marks = {} THEN <<>> ELSE SubSeq(text, Min(marks), end)

(* Only ignoreInlineRegex may match the end of a comment.                     *)
Directive(text, line) ==
  LET comment == CommentOf(text, line)
  IN  IF comment # <<>> /\ (Len(comment) = 1 \/ Last(comment) = "ignore") THEN Last(comment) ELSE "none"

InComment(text, i) ==
  \E j \in 1..i : IsComment(text, j) /\ \A k \in j..i : text[k] # NewLine

Diag(problem, start, end) == [problem |-> problem, start |-> start, end |-> end]
OnLine(text, problem, line) ==
  Diag(problem, IndexToPos(LineEnd(text, line) - Len(CommentOf(text, line)), text),
                IndexToPos(LineEnd(text, line), text))

\* mutation: a start inside a range begins another one
StartAgain(info, directive, text, line) ==
  CASE directive = "ignore-file" -> [info EXCEPT !.wholeFile = TRUE]
    [] directive = "ignore" -> [info EXCEPT !.lines = @ \union {line}]
    [] directive = "ignore-next-line" -> [info EXCEPT !.lines = @ \union {line + 1}]
    [] directive = "ignore-start" -> [info EXCEPT !.open = TRUE, !.start = line]
    [] directive = "ignore-end" ->
         IF ~info.open THEN [info EXCEPT !.errors = @ \union {OnLine(text, "end without start", line)}]
         ELSE [info EXCEPT !.open = FALSE, !.ranges = @ \union {<<info.start, line>>}]
    [] OTHER -> info
Comment(info, directive, text, line) ==
  CASE directive = "ignore-file" -> [info EXCEPT !.wholeFile = TRUE]
    [] directive = "ignore" -> [info EXCEPT !.lines = @ \union {line}]
    [] directive = "ignore-next-line" -> [info EXCEPT !.lines = @ \union {line + 1}]
    [] directive = "ignore-start" ->
         IF info.open THEN [info EXCEPT !.errors = @ \union {OnLine(text, "start in a range", line)}]
         ELSE [info EXCEPT !.open = TRUE, !.start = line]
    [] directive = "ignore-end" ->
         IF ~info.open THEN [info EXCEPT !.errors = @ \union {OnLine(text, "end without start", line)}]
         ELSE [info EXCEPT !.open = FALSE, !.ranges = @ \union {<<info.start, line>>}]
    [] OTHER -> info

NoComments == [wholeFile |-> FALSE, lines |-> {}, ranges |-> {}, open |-> FALSE, start |-> 0, errors |-> {}]
SuppressionsBefore(text, n) ==
  LET before[line \in 0..n] ==
        IF line = 0 THEN NoComments ELSE Comment(before[line - 1], Directive(text, line - 1), text, line - 1)
  IN  before[n]
ParseSuppressionComments(text) ==
  LET info == SuppressionsBefore(text, Lines(text))
  IN  IF ~info.open THEN info
      ELSE [info EXCEPT !.errors = @ \union {Diag("start without end", Position(info.start, 0), Position(info.start, 100))}]

isDiagnosticSuppressed(info, d) ==
  \/ info.wholeFile
  \/ d.start.line \in info.lines
  \/ \E r \in info.ranges : r[1] <= d.start.line /\ d.start.line <= r[2]

(* What the parser and the validator find, a problem from its first character   *)
(* to its last, and what the comments themselves have wrong.                   *)
Found(text) ==
  LET problems == {i \in DOMAIN text : text[i] \in Problems /\ ~InComment(text, i)}
      EndsAt(i) == {j \in i..Len(text) : text[j] = EndOf[text[i]] /\ ~InComment(text, j)}
  IN  UNION {{Diag(text[i], IndexToPos(i - 1, text), IndexToPos(j, text)) : j \in EndsAt(i)} : i \in problems}
DiagnosticYAML(text) ==
  LET info == ParseSuppressionComments(text)
  IN  {d \in Found(text) \union info.errors : ~isDiagnosticSuppressed(info, d)}
-----------------------------------------------------------------------------
IndentOf(text, line) ==
  LET content == SubSeq(text, LineStart(text, line) + 1, LineEnd(text, line))
      code == {i \in DOMAIN content : content[i] # Indent}
  IN  IF ScriptLine(text, line) THEN <<Script>>
      ELSE IF code = {} THEN content ELSE SubSeq(content, 1, Min(code) - 1)

WithActions(d, text) == [diagnostic |-> d, indent |-> IndentOf(text, d.start.line)]

Kinds == {"next line", "inline", "range", "file"}
Offered(d) == IF d.start.line = d.end.line THEN Kinds \ {"range"} ELSE Kinds \ {"inline"}

Insert(line, text) == Change(Position(line, 0), Position(line, 0), text)
\* mutation: the end is put a line too low
RangeTooFar(p, kind) ==
  LET first == p.diagnostic.start
      last == p.diagnostic.end
  IN  CASE kind = "next line" -> <<Insert(first.line, p.indent \o <<"ignore-next-line", NewLine>>)>>
        [] kind = "inline" -> <<Change(Position(first.line, last.character + 1),
                                       Position(first.line, last.character + 1 + Overwritten), <<"ignore">>)>>
        [] kind = "range" -> <<Insert(last.line + 2, p.indent \o <<"ignore-end", NewLine>>),
                               Insert(first.line, p.indent \o <<"ignore-start", NewLine>>)>>
        [] kind = "file" -> <<Insert(0, <<"ignore-file", NewLine>>)>>
(* AppendSuppressionCodeActions.                                            *)
EditsOf(p, kind) ==
  LET first == p.diagnostic.start
      last == p.diagnostic.end
  IN  CASE kind = "next line" -> <<Insert(first.line, p.indent \o <<"ignore-next-line", NewLine>>)>>
        [] kind = "inline" -> <<Change(Position(first.line, last.character + 1),
                                       Position(first.line, last.character + 1 + Overwritten), <<"ignore">>)>>
        [] kind = "range" -> <<Insert(last.line + 1, p.indent \o <<"ignore-end", NewLine>>),
                               Insert(first.line, p.indent \o <<"ignore-start", NewLine>>)>>
        [] kind = "file" -> <<Insert(0, <<"ignore-file", NewLine>>)>>

(* The actions that do what they say.  In a script only that for the whole file   *)
(* does: the comments of the others become part of the script.  An inline comment *)
(* is put over what follows the problem on its line, but for one character; the   *)
(* end of a range lands behind the last line's code, or in its comment or script, *)
(* when the text does not end with a new line.                              *)
OverwritesNothing(p) ==
  LET last == p.diagnostic.end
  IN  LineEnd(client, last.line) <= ClientIndex(Position(last.line, last.character + 1), client)
EndIsAComment(p) ==
  LET line == p.diagnostic.end.line
  IN  line + 1 < Lines(client) \/ (p.indent # <<>> /\ CommentOf(client, line) = <<>> /\ ~ScriptLine(client, line))
Works(p, kind) ==
  /\ ~stale
  /\ kind # "file" => ~ScriptLine(client, p.diagnostic.start.line)
  /\ kind = "inline" => OverwritesNothing(p)
  /\ kind = "range" => EndIsAComment(p)
-----------------------------------------------------------------------------
Publish ==
  /\ stale
  /\ published' = {WithActions(d, server) : d \in DiagnosticYAML(server)}
  /\ stale' = FALSE
  /\ UNCHANGED <<textVars, actions, silenced>>

UserTypes(from, to, text) ==
  /\ typed + actions < MaxChanges /\ Type(from, to, text)
  /\ stale' = TRUE /\ silenced' = {}
  /\ UNCHANGED <<published, actions>>

(* CodeAction returns the actions the diagnostic came with, and the editor      *)
(* carries one out on the text as it is now.                                 *)
TakeAction(p, kind) ==
  /\ typed + actions < MaxChanges /\ ~misread
  /\ p \in published /\ kind \in Offered(p.diagnostic)
  /\ LET edits == EditsOf(p, kind)
     IN  DidChange([i \in DOMAIN edits |->
           Part(ClientIndex(edits[i].start, client), ClientIndex(edits[i].end, client), edits[i].text)])
  /\ actions' = actions + 1
  /\ stale' = TRUE
  /\ silenced' = IF Works(p, kind) /\ ~misread' THEN silenced \union ({p.diagnostic.problem} \intersect Problems) ELSE {}
  /\ UNCHANGED <<typed, published>>

SuppressionInit ==
  /\ TextInit
  /\ published = {} /\ stale = TRUE /\ actions = 0 /\ silenced = {}

SuppressionNext ==
  \/ Publish
  \/ \E from \in 0..Len(client), text \in {<<>>} \union {<<c>> : c \in Typed} :
     UserTypes(from, IF text = <<>> THEN from + 1 ELSE from, text)
  \/ \E p \in published, kind \in Kinds : TakeAction(p, kind)

SuppressionSpec == SuppressionInit /\ [][SuppressionNext]_suppressionVars
-----------------------------------------------------------------------------
(* The cached text is the editor's, after any edits by hand and by actions, as   *)
(* long as no change lay behind a wide character on its line.                 *)
TextAgrees == misread \/ server = Bytes(client)

(* Every offset of the cached text survives the way to a position and back.     *)
PositionsRoundTrip ==
  \A i \in 0..Len(server) : PosToIndex(IndexToPos(i, server), server) = i

(* A problem that an action has silenced stays silent whatever is silenced next,  *)
(* the problems it lies in or that lie in it included.                         *)
StaysSilent == \A d \in DiagnosticYAML(server) : d.problem \notin silenced

(* An action silences no problem but those it is about: those of its line, of its  *)
(* range, or of the file; nor does it bring a silent one back.  But a range that     *)
(* was left open, or that begins in the new one, is closed by the end of it.        *)
About(p, kind) ==
  CASE kind = "range" -> p.diagnostic.start.line .. p.diagnostic.end.line
    [] kind = "file" -> 0..Lines(server)
    [] OTHER -> {p.diagnostic.start.line}
EndsNoOther(p, kind) ==
  LET info == ParseSuppressionComments(server)
  IN  ~info.open /\ (kind = "range" => \A r \in info.ranges : r[1] \notin About(p, kind) \/ r[2] \in About(p, kind))
Shown(text, apart) == {d.problem : d \in {e \in DiagnosticYAML(text) : e.start.line \notin apart}} \intersect Problems
OthersStayAsTheyAre ==
  [][\A p \in published, kind \in Kinds :
       actions' # actions /\ TakeAction(p, kind) /\ Works(p, kind) /\ ~misread' /\ EndsNoOther(p, kind) =>
         /\ Shown(server, About(p, kind)) \subseteq Shown(server', {})
         /\ Shown(server', {}) \subseteq Shown(server, {})]_suppressionVars
=============================================================================
