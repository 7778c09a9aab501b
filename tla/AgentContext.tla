---------------------------- MODULE AgentContext ----------------------------
(***************************************************************************)
(* What a model is shown while it works on a task: the ContextPacket of a  *)
(* slice (context/builder.py, with the file ranking of relevance.py) and   *)
(* the tool results that stay in the conversation (retention.py), through  *)
(* the continuation slices that hand a ContextContinuationState on.        *)
(*                                                                         *)
(* A path is its position in path order.  A file is a sequence of lines of *)
(* one character each; a line has a kind (what ast.parse makes of it), a   *)
(* width in bytes, a term and, for an import, the visible file it names.   *)
(* A hash is the content itself.                                           *)
(***************************************************************************)
EXTENDS Integers, Sequences, FiniteSets, SequencesExt, FiniteSetsExt

CONSTANTS
  Scope,           \* scope kinds each visible file matches
  Python,          \* files that end in .py
  Versions,        \* contents each file may have
  TaskTerms,       \* terms of the objective, criteria and scopes
  PathTerms,       \* terms of each path
  MaxFiles, MaxFileChars, MaxTotalChars, MaxUnits,   \* ContextBudget
  MaxIndexFiles, MaxDependencyFiles, MaxRegions,     \* RelevantCodeExtractor
  MaxGroups, MaxSingle, MaxTurn,                     \* AgentContextRetention
  Envelope,        \* tokens of a tool result without its content
  MinPreview,      \* least content budget that is used (128)
  Sizes,           \* tokens of a search result
  MaxListed,       \* paths the working state lists (100)
  MaxCalls,        \* turns of an agent session times the calls of a turn (12 * 8)
  MaxSlices, MaxLateWrites                           \* bounds of the model

Paths == DOMAIN Scope
LineKinds == {"import", "def", "class", "method", "text"}
ScopeKinds == {"WRITABLE", "READ_ONLY", "READABLE"}
Failures == {"NON_UTF8", "SOURCE_FILE_TOO_LARGE", "PATH_UNAVAILABLE"}

ASSUME BudgetAssumption ==
  /\ {MaxFiles, MaxFileChars, MaxTotalChars, MaxUnits, MaxRegions, MaxGroups, MaxIndexFiles} \subseteq Nat \ {0}
  /\ MaxDependencyFiles \in Nat
  /\ MinPreview <= MaxSingle /\ MaxSingle <= MaxTurn

(* Lines and scopes are of the kinds the extractor and the builder know.   *)
ASSUME ContentAssumption ==
  /\ Scope \in [Paths -> SUBSET ScopeKinds]
  /\ \A p \in Paths : \A c \in Versions[p] : \A i \in DOMAIN c.lines : c.lines[i].kind \in LineKinds

(* Paths are numbered from 1; 0 is none.  The bounds are numbers.          *)
ASSUME PathAssumption ==
  /\ IsFiniteSet(Paths) /\ Paths \subseteq Nat \ {0}
  /\ MaxSlices \in Nat \ {0} /\ MaxLateWrites \in Nat

(* A session cannot change more files than the working state lists: 12     *)
(* turns of 8 calls against 100 paths in the default configuration.        *)
ASSUME ListAssumption == {MaxCalls, MaxListed} \subseteq Nat /\ MaxCalls <= MaxListed

VARIABLES
  pc,          \* ready, working, ended or stopped
  slice,       \* slice_index
  tree, head,  \* worktree and commit the slice started from
  resume,      \* ContextContinuationState of the slice, or NoState
  state,       \* the one a stopped slice leaves
  packet,      \* _latest_context_packet, or NoPacket
  groups,      \* tool groups of the agent session, oldest first
  compacted,   \* groups left out although they are recent
  memory,      \* _StateBuilder
  calls,       \* tool calls of the session so far
  known,       \* contents that some packet of the task selected
  late         \* writes of abandoned tool threads so far

session == <<groups, compacted, memory, calls>>
contextVars == <<pc, slice, tree, head, resume, state, packet, session, known, late>>

NoState == [read |-> {}, changed |-> {}]
NoPacket == [changed |-> {}, candidates |-> 0, selected |-> <<>>, truncations |-> {}, omitted |-> 0, reused |-> {}]
NoMemory == [inspected |-> {}, changed |-> {}]

SumOf(s, Op(_)) == FoldLeft(LAMBDA a, x : a + Op(x), 0, s)
SmallerOf(a, b) == IF a < b THEN a ELSE b
First(s, n) == SubSeq(s, 1, SmallerOf(n, Len(s)))
LastOf(s, n) == SubSeq(s, IF Len(s) > n THEN Len(s) - n + 1 ELSE 1, Len(s))

(* The members of S in order: before the i-th one there are i - 1.         *)
Sorted(S, Before(_, _)) ==
  [i \in 1..Cardinality(S) |-> CHOOSE a \in S : Cardinality({b \in S : Before(b, a)}) = i - 1]

(* The members of S by decreasing weight, then by position.                *)
Ranked(S, Weight(_), Position(_)) ==
  Sorted(S, LAMBDA a, b : Weight(a) > Weight(b) \/ (Weight(a) = Weight(b) /\ Position(a) < Position(b)))

(* context_window_units: the bytes of a text.                              *)
Units(text) == SumOf(text, LAMBDA l : l.width)

(***************************************************************************)
(* RelevantCodeExtractor.                                                  *)
(***************************************************************************)
(* A file that ast.parse accepts.                                          *)
Parses(content) == content.state = "text"

(* The last line of the symbol that line i of text opens.                  *)
SymbolEnd(text, i) ==
  LET closing == {"import", "def", "class"} \cup (IF text[i].kind = "method" THEN {"method"} ELSE {})
      next == {j \in (i + 1)..Len(text) : text[j].kind \in closing}
  IN  IF next = {} THEN Len(text) ELSE Min(next) - 1

Symbols(text) ==
  {[from |-> i, to |-> SymbolEnd(text, i), top |-> text[i].kind # "method", terms |-> {text[i].term}] :
     i \in {j \in 1..Len(text) : text[j].kind \in {"def", "class", "method"}}}

PreambleEnd(text) == Max({0} \cup {i \in 1..Len(text) : text[i].kind = "import"})

Imports(text) == {text[i] : i \in {j \in 1..Len(text) : text[j].kind = "import" /\ text[j].of \in Paths}}

BaseScore(p, changed) ==
  (IF p \in changed THEN 10000 ELSE 0) + (IF "WRITABLE" \in Scope[p] THEN 8000 ELSE 0)
  + (IF "READ_ONLY" \in Scope[p] THEN 3000 ELSE 0) + (IF "READABLE" \in Scope[p] THEN 1000 ELSE 0)
  + 180 * Cardinality(PathTerms[p] \cap TaskTerms)

SeedPriority(p, changed) ==
  BaseScore(p, changed) + (IF p \in changed THEN 20000 ELSE 0) + (IF "WRITABLE" \in Scope[p] THEN 10000 ELSE 0)

(* _initial_indexes: the first max_index_files in seed order that parse.   *)
InitialIndexes(changed) ==
  {p \in Range(First(Ranked(Python \cap Paths, LAMBDA p : SeedPriority(p, changed), LAMBDA p : p), MaxIndexFiles)) :
     Parses(tree[p])}

(* The indexed files, other than p itself, that import p.                  *)
Importers(p, indexed) == {q \in indexed \ {p} : \E i \in Imports(tree[q].lines) : i.of = p}

(* _index_dependencies: imported files that are not indexed yet.           *)
DependencyIndexes(indexed) ==
  LET queue == {p \in Paths \ indexed : Importers(p, indexed) # {} /\ Parses(tree[p])}
  IN  Range(First(Ranked(queue, LAMBDA p : 0, LAMBDA p : p), MaxDependencyFiles))

(* _apply_dependency_scores, in path order: an earlier dependency already  *)
(* has its raised score when a later one looks at it.                      *)
DependencyScores(changed, indexed) ==
  FoldLeft(LAMBDA score, p :
             IF Importers(p, indexed) = {} THEN score
             ELSE [score EXCEPT ![p] = Max({@, Max({score[q] : q \in Importers(p, indexed)}) - 1500})],
           [p \in Paths |-> BaseScore(p, changed)],
           Ranked(Paths, LAMBDA p : 0, LAMBDA p : p))

(* Symbols of a file with their scores; top-level ones of a writable or    *)
(* changed file when none is relevant.                                     *)
ScoredSymbols(p, changed, imported) ==
  LET symbols == Symbols(tree[p].lines)
      Relevance(s) == 240 * Cardinality(s.terms \cap TaskTerms) + 360 * Cardinality(s.terms \cap imported)
      relevant == {s \in symbols : Relevance(s) > 0}
      top == First(Ranked({s \in symbols : s.top}, LAMBDA s : 0, LAMBDA s : s.from), MaxRegions)
  IN  IF relevant # {}
      THEN {[from |-> s.from, to |-> s.to, score |-> Relevance(s) + (IF s.top THEN 20 ELSE 0)] : s \in relevant}
      ELSE IF p \in changed \/ "WRITABLE" \in Scope[p]
           THEN {[from |-> s.from, to |-> s.to, score |-> 40] : s \in Range(top)}
           ELSE {}

Overlap(a, b) == ~(a.to < b.from \/ b.to < a.from)

(* The best symbols, none inside another: a class hides its methods or one *)
(* of its methods hides it.                                                *)
SelectedSymbols(scored) ==
  First(FoldLeft(LAMBDA chosen, s : IF \E i \in 1..Len(chosen) : Overlap(s, chosen[i]) THEN chosen
                                    ELSE Append(chosen, s),
                 <<>>, Ranked(scored, LAMBDA s : s.score, LAMBDA s : s.from)),
        MaxRegions)

(* Regions by their first line, then by their last.                        *)
InPlace(regions) == Sorted(regions, LAMBDA r, q : r.from < q.from \/ (r.from = q.from /\ r.to < q.to))

(* Fault: overlapping regions are kept apart.                              *)
RegionsUnmerged(regions) == InPlace(regions)

(* Regions that overlap or touch become one.                               *)
MergeAdjacentRegions(regions) ==
  FoldLeft(LAMBDA merged, r :
             IF merged = <<>> \/ r.from > merged[Len(merged)].to + 1 THEN Append(merged, r)
             ELSE [merged EXCEPT ![Len(merged)] =
                     [from |-> @.from, to |-> Max({@.to, r.to}), score |-> Max({@.score, r.score})]],
           <<>>, InPlace(regions))

RegionsForIndex(p, changed, imported) ==
  LET end == PreambleEnd(tree[p].lines)
      preamble == IF end > 0 THEN {[from |-> 1, to |-> end, score |-> 80]} ELSE {}
  IN  MergeAdjacentRegions(preamble \cup Range(SelectedSymbols(ScoredSymbols(p, changed, imported))))

(* The terms the seeds import from file p.                                 *)
Imported(p, seeds) == {i.term : i \in {j \in UNION {Imports(tree[q].lines) : q \in seeds \ {p}} : j.of = p}}

(* The regions of every indexed file.                                      *)
FileRegions(changed, seeds) ==
  [p \in Paths |-> IF p \in seeds \cup DependencyIndexes(seeds)
                  THEN RegionsForIndex(p, changed, Imported(p, seeds)) ELSE <<>>]

(* Candidates by score: that of the file and of its best region.           *)
CandidateOrder(scores, regions) ==
  Ranked(Paths, LAMBDA p : scores[p] + Max({0} \cup {regions[p][i].score : i \in DOMAIN regions[p]}), LAMBDA p : p)

Candidates(scores, regions) == [order |-> CandidateOrder(scores, regions), regions |-> regions]

(* select: every candidate with its regions, best first.                   *)
Select(changed) ==
  LET seeds == InitialIndexes(changed)
  IN  Candidates(DependencyScores(changed, seeds), FileRegions(changed, seeds))

(***************************************************************************)
(* ContextPacketBuilder.                                                   *)
(***************************************************************************)
(* Fault: the search stops one short.                                      *)
FitPrefixShort(text, chars, units) ==
  IF chars <= 0 \/ units <= 0 THEN <<>>
  ELSE LET cut == First(text, chars)
           search[low \in 0..Len(cut), high \in 0..Len(cut)] ==
             IF low >= high - 1 THEN low
             ELSE LET mid == (low + high + 1) \div 2
                  IN  IF Units(First(cut, mid)) <= units THEN search[mid, high] ELSE search[low, mid - 1]
       IN  IF Units(cut) <= units THEN cut ELSE First(cut, search[0, Len(cut)])

(* _fit_prefix: a binary search for the longest prefix within both limits. *)
FitPrefix(text, chars, units) ==
  IF chars <= 0 \/ units <= 0 THEN <<>>
  ELSE LET cut == First(text, chars)
           search[low \in 0..Len(cut), high \in 0..Len(cut)] ==
             IF low >= high THEN low
             ELSE LET mid == (low + high + 1) \div 2
                  IN  IF Units(First(cut, mid)) <= units THEN search[mid, high] ELSE search[low, mid - 1]
       IN  IF Units(cut) <= units THEN cut ELSE First(cut, search[0, Len(cut)])

(* Which limits cut a text short.                                          *)
Limits(text, perFile, total, units) ==
  (IF perFile < Len(text) THEN {"PER_FILE_CHAR_LIMIT"} ELSE {})
  \cup (IF total < Len(text) THEN {"TOTAL_CHAR_LIMIT"} ELSE {})
  \cup (IF units < Units(text) THEN {"TOKEN_BUDGET"} ELSE {})

NoFile == [path |-> 0, hash |-> <<>>, snippets |-> <<>>, reasons |-> {}]

(* _load_region_candidate.                                                 *)
LoadRegions(p, regions, chars, units) ==
  FoldLeft(LAMBDA acc, r :
             LET text == SubSeq(tree[p].lines, r.from, r.to)
                 shown == FitPrefix(text, SmallerOf(acc.perFile, acc.chars), acc.units)
                 limits == IF Len(shown) < Len(text) THEN Limits(text, acc.perFile, acc.chars, acc.units) ELSE {}
             IN  [snippets |-> IF shown = <<>> THEN acc.snippets
                               ELSE Append(acc.snippets, [from |-> r.from, to |-> r.from + Len(shown) - 1]),
                  reasons |-> acc.reasons \cup limits,
                  perFile |-> acc.perFile - Len(shown), chars |-> acc.chars - Len(shown),
                  units |-> acc.units - Units(shown)],
           [snippets |-> <<>>, reasons |-> {}, perFile |-> MaxFileChars, chars |-> chars, units |-> units],
           regions)

(* _load_prefix_candidate.                                                 *)
LoadPrefix(p, chars, units) ==
  LET text == tree[p].lines
      shown == FitPrefix(text, SmallerOf(MaxFileChars, chars), units)
  IN  [snippets |-> IF shown = <<>> /\ text # <<>> THEN <<>> ELSE <<[from |-> 1, to |-> Len(shown)]>>,
       reasons |-> IF Len(shown) < Len(text) THEN Limits(text, MaxFileChars, chars, units) ELSE {}]

(* _load_candidate: the file, or NoFile with the reason why it is left out.*)
LoadCandidate(p, regions, chars, units) ==
  IF tree[p].state \in Failures THEN [NoFile EXCEPT !.reasons = {tree[p].state}]
  ELSE LET got == IF regions # <<>> THEN LoadRegions(p, regions, chars, units) ELSE LoadPrefix(p, chars, units)
       IN  IF got.snippets = <<>> THEN [NoFile EXCEPT !.reasons = {"TOKEN_BUDGET"}]
           ELSE [path |-> p, hash |-> tree[p], snippets |-> got.snippets, reasons |-> got.reasons]

Chars(file) == SumOf(file.snippets, LAMBDA s : s.to - s.from + 1)
Bytes(file) == SumOf(file.snippets, LAMBDA s : Units(SubSeq(file.hash.lines, s.from, s.to)))

(* Fault: a file that was read is taken for unchanged.                     *)
ReuseUnhashed(p, res, changed) ==
  \/ p \in res.changed
  \/ p \notin changed /\ \E r \in res.read : r.path = p

(* _can_reuse_candidate: changed by the slice before, or read by it and    *)
(* the same bytes still.                                                   *)
CanReuse(p, res, changed) ==
  \/ p \in res.changed
  \/ p \notin changed /\ tree[p].state \notin Failures /\ [path |-> p, hash |-> tree[p]] \in res.read

(* The rest of the candidates is given up for one reason.                  *)
GiveUp(acc, reason, rest) ==
  [acc EXCEPT !.done = TRUE, !.omitted = @ + rest,
              !.truncations = @ \cup {[path |-> 0, reason |-> reason, files |-> rest]}]

(* One candidate, with rest candidates from it on.                         *)
Consider(acc, p, rest, regions, res, changed) ==
  IF acc.done THEN acc
  ELSE IF Len(acc.selected) >= MaxFiles THEN GiveUp(acc, "FILE_COUNT_LIMIT", rest)
  ELSE IF CanReuse(p, res, changed) THEN [acc EXCEPT !.reused = @ \cup {p}]
  ELSE IF acc.chars <= 0 THEN GiveUp(acc, "TOTAL_CHAR_LIMIT", rest)
  ELSE IF acc.units <= 0 THEN GiveUp(acc, "TOKEN_BUDGET", rest)
  ELSE LET file == LoadCandidate(p, regions, acc.chars, acc.units)
           cuts == {[path |-> p, reason |-> r, files |-> IF file.path = 0 THEN 1 ELSE 0] : r \in file.reasons}
       IN  IF file.path = 0
           THEN [acc EXCEPT !.omitted = @ + 1, !.truncations = @ \cup cuts]
           ELSE [acc EXCEPT !.selected = Append(@, file), !.truncations = @ \cup cuts,
                            !.chars = @ - Chars(file), !.units = @ - Bytes(file)]

(* _rank_candidates: the extractor orders every candidate of the packet    *)
(* and chooses the regions of each.                                        *)
RankCandidates(changed) == Select(changed)

(* The candidates considered one after the other.                          *)
Pack(res, changed, ranking) ==
  FoldLeft(LAMBDA acc, i : Consider(acc, ranking.order[i], Len(ranking.order) - i + 1,
                                    ranking.regions[ranking.order[i]], res, changed),
           [selected |-> <<>>, truncations |-> {}, omitted |-> 0, reused |-> {},
            chars |-> MaxTotalChars, units |-> MaxUnits, done |-> FALSE],
           [i \in 1..Len(ranking.order) |-> i])

PacketOf(changed, packed) ==
  [changed |-> changed, candidates |-> Cardinality(Paths), selected |-> packed.selected,
   truncations |-> packed.truncations, omitted |-> packed.omitted, reused |-> packed.reused]

Build(res) ==
  LET changed == {p \in Paths : tree[p] # head[p]} \cup res.changed
  IN  PacketOf(changed, Pack(res, changed, RankCandidates(changed)))

ContextInit ==
  /\ pc = "ready" /\ slice = 1
  /\ tree \in [Paths -> UNION {Versions[p] : p \in Paths}] /\ \A p \in Paths : tree[p] \in Versions[p]
  /\ head = tree
  /\ resume = NoState /\ state = NoState /\ packet = NoPacket
  /\ groups = <<>> /\ compacted = 0 /\ memory = NoMemory /\ calls = 0
  /\ known = {} /\ late = 0

Selected(k) == {[path |-> k.selected[i].path, hash |-> k.selected[i].hash] : i \in DOMAIN k.selected}

(* The Developer's packet, built with the continuation state.              *)
BuildContext ==
  /\ pc = "ready"
  /\ pc' = "working"
  /\ packet' = Build(resume)
  /\ known' = known \cup Selected(packet')
  /\ UNCHANGED <<slice, tree, head, resume, state, session, late>>

(* The Reviewer's packet, built without it; the Repair agent that follows  *)
(* has a conversation of its own.                                          *)
BuildReview ==
  /\ pc = "ended"
  /\ pc' = "working"
  /\ packet' = Build(NoState)
  /\ known' = known \cup Selected(packet')
  /\ UNCHANGED <<slice, tree, head, resume, state, session, late>>

(***************************************************************************)
(* AgentContextRetention.  A call is a tool, a path, whether it succeeded, *)
(* the content it read or wrote, the tokens of its result and those that   *)
(* escaping the result in JSON adds.                                       *)
(***************************************************************************)
Call(tool, p, ok, content, size, escapes) ==
  [tool |-> tool, path |-> p, ok |-> ok, content |-> content, size |-> size, escapes |-> escapes]

(* The calls a model may make on worktree t; a write outside the writable  *)
(* scope is refused.  apply_patch is a write_file here.                    *)
Searches == UNION {{Call("search_code", 0, TRUE, <<>>, z, e) : e \in {0, 1}} : z \in Sizes}
Reads(t) == {Call("read_file", p, t[p].state \notin Failures, t[p], Units(t[p].lines), 0) : p \in Paths}
Writes(t) ==
  UNION {{Call("write_file", p, "WRITABLE" \in Scope[p], c, 1, 0) : c \in Versions[p] \ {t[p]}} : p \in Paths}

CallsOn(t) == Searches \cup Reads(t) \cup Writes(t)

After(t, call) == IF call.tool = "write_file" /\ call.ok THEN [t EXCEPT ![call.path] = call.content] ELSE t

(* _bounded_tool_result_message: tokens of one result when left of the     *)
(* turn's tokens remain.                                                   *)
BoundedResult(call, left) ==
  LET limit == Min({MaxSingle, Max({0, left - Envelope})})
  IN  IF limit < MinPreview THEN Envelope + 1
      ELSE Envelope + Min({call.size, limit}) + call.escapes

TurnTokens(results) ==
  FoldLeft(LAMBDA acc, call :
             LET n == BoundedResult(call, acc.left)
             IN  [left |-> Max({0, acc.left - n}), sum |-> acc.sum + n],
           [left |-> MaxTurn, sum |-> 0], results).sum

(* Fault: a written file is not taken for inspected.                       *)
ObserveReadsOnly(m, call) ==
  IF ~call.ok \/ call.path = 0 THEN m
  ELSE IF call.tool = "write_file" THEN [m EXCEPT !.changed = @ \cup {call.path}]
  ELSE [m EXCEPT !.inspected = @ \cup {call.path}]

(* _observe: what the working state keeps of a successful call.            *)
Observe(m, call) ==
  IF ~call.ok \/ call.path = 0 THEN m
  ELSE [inspected |-> m.inspected \cup {call.path},
        changed |-> m.changed \cup (IF call.tool = "write_file" THEN {call.path} ELSE {})]

(* Fault: a group is kept whatever its results take.                       *)
AddOversizedGroup(results) ==
  /\ memory' = FoldLeft(Observe, memory, results)
  /\ IF \E i \in DOMAIN results : results[i].tool = "write_file" /\ results[i].ok
     THEN compacted' = compacted + 1 /\ UNCHANGED groups
     ELSE groups' = Append(groups, results) /\ UNCHANGED compacted

(* add_group: a group whose results do not fit, or that changed code, is   *)
(* left out of the conversation as a whole.                                *)
AddGroup(results) ==
  /\ memory' = FoldLeft(Observe, memory, results)
  /\ IF \/ TurnTokens(results) > MaxTurn
        \/ \E i \in DOMAIN results : results[i].tool = "write_file" /\ results[i].ok
     THEN compacted' = compacted + 1 /\ UNCHANGED groups
     ELSE groups' = Append(groups, results) /\ UNCHANGED compacted

Turn(results, t) ==
  /\ pc = "working"
  /\ calls + Len(results) <= MaxCalls
  /\ calls' = calls + Len(results)
  /\ tree' = t
  /\ AddGroup(results)
  /\ UNCHANGED <<pc, slice, head, resume, state, packet, known, late>>

OneCall == calls < MaxCalls /\ \E a \in CallsOn(tree) : Turn(<<a>>, After(tree, a))

TwoCalls ==
  /\ calls + 1 < MaxCalls
  /\ \E a \in CallsOn(tree) : LET t == After(tree, a)
                              IN  \E b \in CallsOn(t) : Turn(<<a, b>>, After(t, b))

(* Fault: only groups that grew too old count as compacted.                *)
CompactedByAge == Max({0, Len(groups) - MaxGroups})

CompactedGroupCount == compacted + Max({0, Len(groups) - MaxGroups})

(* messages(): the working state, if it is part of the conversation, and   *)
(* the retained groups.                                                    *)
Messages ==
  [memory |-> IF CompactedGroupCount > 0
              THEN {p \in memory.changed : Cardinality({q \in memory.changed : q < p}) < MaxListed}
              ELSE {},
   groups |-> LastOf(groups, MaxGroups)]

(***************************************************************************)
(* The end of a slice.                                                     *)
(***************************************************************************)
(* The agent returns and its conversation is gone.                         *)
EndSession ==
  /\ pc = "working"
  /\ pc' = "ended"
  /\ groups' = <<>> /\ compacted' = 0 /\ memory' = NoMemory /\ calls' = 0
  /\ UNCHANGED <<slice, tree, head, resume, state, packet, known, late>>

(* _current_context_state, of the latest packet whoever it was built for.  *)
StopSlice ==
  /\ pc = "ended"
  /\ pc' = "stopped"
  /\ state' = [read |-> Selected(packet), changed |-> {p \in Paths : tree[p] # head[p]}]
  /\ UNCHANGED <<slice, tree, head, resume, packet, session, known, late>>

(* A tool thread that timed out ends its write after the agent stopped.    *)
LateWrite(p) ==
  /\ pc = "stopped"
  /\ late < MaxLateWrites
  /\ "WRITABLE" \in Scope[p]
  /\ \E c \in Versions[p] \ {tree[p]} : tree' = [tree EXCEPT ![p] = c]
  /\ late' = late + 1
  /\ UNCHANGED <<pc, slice, head, resume, state, packet, session, known>>

(* The checkpoint commit takes the worktree as it is; the next slice       *)
(* starts from it with the state computed before.                          *)
Continue ==
  /\ pc = "stopped"
  /\ slice < MaxSlices
  /\ tree # head
  /\ slice' = slice + 1
  /\ head' = tree
  /\ resume' = state
  /\ pc' = "ready"
  /\ packet' = NoPacket /\ state' = NoState
  /\ UNCHANGED <<tree, session, known, late>>

ContextNext == BuildContext \/ BuildReview \/ OneCall \/ TwoCalls \/ EndSession \/ StopSlice \/ Continue \/ \E p \in Paths : LateWrite(p)

ContextSpec == ContextInit /\ [][ContextNext]_contextVars

(***************************************************************************)
(* Properties.                                                             *)
(***************************************************************************)

(* Types; every size the retention counts with stays in range.             *)
ContextTypeOK ==
  /\ pc \in {"ready", "working", "ended", "stopped"} /\ slice \in 1..MaxSlices
  /\ \A p \in Paths : tree[p] \in Versions[p] /\ head[p] \in Versions[p]
  /\ resume.changed \subseteq Paths /\ state.changed \subseteq Paths /\ packet.changed \subseteq Paths
  /\ memory.inspected \subseteq Paths /\ memory.changed \subseteq memory.inspected
  /\ calls \in 0..MaxCalls /\ Len(groups) + compacted <= calls
  /\ late \in 0..MaxLateWrites

(* What is shown, reused and handed on are visible files with contents      *)
(* that they may have.                                                      *)
PacketTyped ==
  /\ packet.reused \subseteq Paths
  /\ packet.candidates \in 0..Cardinality(Paths) /\ packet.omitted \in 0..Cardinality(Paths)
  /\ \A r \in resume.read \cup state.read \cup Selected(packet) : r.path \in Paths /\ r.hash \in Versions[r.path]

(* The validators of ContextFile and ContextPacket accept every packet the *)
(* builder makes (one they refuse fails the whole task): no line of a file *)
(* is in two snippets, and no budget is exceeded by the sum of the files   *)
(* however each of them was cut.                                           *)
PacketValidates ==
  LET files == packet.selected
  IN  /\ \A i \in DOMAIN files :
           /\ \A a, b \in DOMAIN files[i].snippets : a # b => ~Overlap(files[i].snippets[a], files[i].snippets[b])
           /\ Chars(files[i]) <= Min({MaxFileChars, Len(files[i].hash.lines)})
           /\ Bytes(files[i]) <= Units(files[i].hash.lines)
           /\ \A j \in DOMAIN files : files[i].path = files[j].path => i = j
      /\ Len(files) <= MaxFiles
      /\ SumOf(files, Chars) <= MaxTotalChars
      /\ SumOf(files, Bytes) <= MaxUnits

(* Every candidate is accounted for once: shown, reused, or left out by a  *)
(* truncation that says so; and a file is cut short only where one more    *)
(* character would have broken a budget.                                   *)
NothingLostSilently ==
  LET files == packet.selected
      Used(Op(_), i) == SumOf(SubSeq(files, 1, i), Op)
  IN  /\ packet.candidates = Len(files) + Cardinality(packet.reused) + packet.omitted
      /\ packet.omitted = MapThenSumSet(LAMBDA t : t.files, {t \in packet.truncations : t.files > 0})
      /\ \A i \in DOMAIN files :
           LET s == files[i].snippets[Len(files[i].snippets)]
               next == s.to + 1
           IN  files[i].reasons # {} /\ Len(files[i].snippets) = 1 /\ s.from = 1 /\ next <= Len(files[i].hash.lines) =>
                 \/ Chars(files[i]) = MaxFileChars
                 \/ Used(Chars, i) = MaxTotalChars
                 \/ Used(Bytes, i) + files[i].hash.lines[next].width > MaxUnits

(* A file the packet leaves out as already known is known: some packet of  *)
(* the task held exactly its present content, or the prompt names it as    *)
(* changed.  An abandoned tool thread may have rewritten it meanwhile.     *)
HiddenIsKnown ==
  \A p \in Paths \cap packet.reused :
    p \in packet.changed \/ (pc = "working" /\ tree[p] = head[p] => [path |-> p, hash |-> tree[p]] \in known)

(* A conversation never shows a superseded file without warning: if a      *)
(* retained read differs from the worktree, the working state is part of   *)
(* the conversation and lists the file as changed.                         *)
StaleReadFlagged ==
  pc = "working" =>
    \A i \in DOMAIN Messages.groups : \A j \in DOMAIN Messages.groups[i] :
      LET call == Messages.groups[i][j]
      IN  call.tool = "read_file" /\ call.ok /\ call.content # tree[call.path] => call.path \in Messages.memory

(* The tool results of every retained turn fit its token budget, envelopes *)
(* and escapes included.                                                   *)
TurnWithinBudget ==
  \A i \in DOMAIN groups : ~(TurnTokens(groups[i]) > MaxTurn)

(* A packet passes its validators and accounts for everything it leaves out. *)
PacketSound == PacketTyped /\ PacketValidates /\ NothingLostSilently

(* A conversation stays within its budget and never passes an old file off  *)
(* as the present one.                                                      *)
ConversationSound == ContextTypeOK /\ StaleReadFlagged /\ TurnWithinBudget

=============================================================================
