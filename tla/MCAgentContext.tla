--------------------------- MODULE MCAgentContext ---------------------------
(* Instances of AgentContext for TLC.                                      *)
EXTENDS AgentContext

Line(kind, width, term, of) == [kind |-> kind, width |-> width, term |-> term, of |-> of]
Text(lines)   == [state |-> "text", lines |-> lines]
Broken(lines) == [state |-> "broken", lines |-> lines]
Absent == [state |-> "PATH_UNAVAILABLE", lines |-> <<>>]

(* Path 1 is a writable module that imports path 2, a read-only one of the *)
(* same package; path 3 is a writable text file.                           *)
MCScope  == <<{"WRITABLE", "READABLE"}, {"READ_ONLY"}, {"WRITABLE"}>>
MCPython == {1, 2}
MCTaskTerms == {"parse"}
MCPathTerms == <<{"parse"}, {}, {}>>

(* A function between two imports, and another below; the same file after  *)
(* an edit to one class; a library, one that does not parse, or none; an   *)
(* empty text and a long one.                                              *)
Module == Text(<<Line("import", 1, "load", 2), Line("def", 1, "parse", 0),
                 Line("import", 1, "save", 2), Line("def", 2, "x", 0)>>)
Edited == Text(<<Line("class", 1, "parse", 0), Line("method", 1, "x", 0), Line("method", 1, "parse", 0)>>)
Library == Text(<<Line("def", 1, "load", 0), Line("text", 2, "", 0), Line("def", 1, "y", 0)>>)

MCVersions == <<
  {Module, Edited},
  {Library, Broken(<<Line("text", 3, "", 0), Line("text", 1, "", 0)>>), Absent},
  {Text(<<>>), Text([i \in 1..5 |-> Line("text", <<1, 2, 1, 2, 2>>[i], "", 0)])}>>
=============================================================================
