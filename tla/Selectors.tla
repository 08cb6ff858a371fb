----------------------------- MODULE Selectors -----------------------------
(***************************************************************************)
(* Sizzle (js/jquery-1.10.1.js): the selectors that the browser does not    *)
(* know are matched from right to left, and the combinators remember, at    *)
(* the elements they pass, what they found out about them.  A memory is     *)
(* good for one run over the document (dirruns), and what it says about     *)
(* the elements further up for one element of that run (cachedruns); the    *)
(* selectors inside :not and :has are runs within the run.                  *)
(*                                                                         *)
(* The elements are numbered in document order and have one class each.  A  *)
(* selector is a group of chains, a chain a sequence of compounds, each     *)
(* with the combinator in front of it, a class and a pseudo-class.          *)
(***************************************************************************)
EXTENDS Integers, Sequences, SequencesExt

CONSTANTS
  Size,        \* the number of elements
  MaxQueries   \* bound: how often the page asks for elements

VARIABLES
  parent, class,  \* the document
  sizzle,         \* what Sizzle keeps: see SizzleInit
  outcome,        \* history: the last query, among whom, and its answer
  queries         \* how often the page has asked

selectorVars == <<parent, class, sizzle, outcome, queries>>

AllNodes == 1 .. Size
Document == 0
NoContext == -1     \* null, the context of :not
FalseContext == -2  \* false, the outermost context of a run over the document
Undefined == -3
Yes == -1           \* true in a memory, where numbers mean false

Trees == {p \in [AllNodes -> 0 .. Size - 1] :
            /\ p[1] = Document
            /\ \A e \in AllNodes \ {1} : p[e] \in {e - 1} \cup {p[f] : f \in 2 .. e - 1} /\ p[e] < e /\ p[e] > 0
            /\ \A e, f \in AllNodes : f < e /\ p[e] < f => p[f] >= p[e]}

Compound(comb, cls, pseudo, argument) == [comb |-> comb, class |-> cls, pseudo |-> pseudo, argument |-> argument]
Plain(comb, cls) == Compound(comb, cls, "none", "none")

Queries == {".b:has(.a)", ".a .b .a", ".a ~ .b .b, .b > .a", ".a:not(.b .a) .b", ".a:has(.b:has(.a)) .b"}
Chains(selector) ==
  CASE selector = ".a .b .a" -> <<<<Plain("", "a"), Plain(" ", "b"), Plain(" ", "a")>>>>
    [] selector = ".a ~ .b .b, .b > .a" ->
         <<<<Plain("", "a"), Plain("~", "b"), Plain(" ", "b")>>, <<Plain("", "b"), Plain(">", "a")>>>>
    [] selector = ".a:not(.b .a) .b" -> <<<<Compound("", "a", "not", ".b .a"), Plain(" ", "b")>>>>
    [] selector = ".a:has(.b:has(.a)) .b" -> <<<<Compound("", "a", "has", ".b:has(.a)"), Plain(" ", "b")>>>>
    [] selector = ".b .a" -> <<<<Plain("", "b"), Plain(" ", "a")>>>>
    [] selector = ".b:has(.a)" -> <<<<Compound("", "b", "has", ".a")>>>>
    [] selector = ".a" -> <<<<Plain("", "a")>>>>

(* querySelectorAll knows the selector. *)
Native(selector) == \A i \in DOMAIN Chains(selector) : \A j \in DOMAIN Chains(selector)[i] :
                      Chains(selector)[i][j].pseudo = "none"

(* A :has of it has an argument that querySelectorAll does not know. *)
RunsInHas(selector) == \E i \in DOMAIN Chains(selector) : \E j \in DOMAIN Chains(selector)[i] :
                         LET c == Chains(selector)[i][j] IN c.pseudo = "has" /\ ~Native(c.argument)

Previous(e) == LET before == {f \in AllNodes : f < e /\ parent[f] = parent[e]}
               IN  IF before = {} THEN 0 ELSE CHOOSE f \in before : \A g \in before : g <= f
Dir(comb) == IF comb \in {" ", ">"} THEN "parentNode" ELSE "previousSibling"
Along(dir, e) == IF dir = "parentNode" THEN parent[e] ELSE Previous(e)

Beyond(comb, e) ==
  LET next == Along(Dir(comb), e)
      further[f \in 0 .. Size] == IF f = 0 THEN {} ELSE {f} \cup further[Along(Dir(comb), f)]
  IN  IF comb \in {">", "+"} THEN {next} \ {0} ELSE further[next]

InOrder == [i \in AllNodes |-> i]
Under(context) == SelectSeq(InOrder, LAMBDA e : context = Document \/ context \in Beyond(" ", e))

-----------------------------------------------------------------------------
(* What a selector means. *)
RECURSIVE Meets(_, _, _, _), Wanted(_, _)
Meets(chain, n, e, scope) ==
  LET c == chain[n]
  IN  /\ c.class \in {"", class[e]}
      /\ c.pseudo = "not" => \A i \in DOMAIN Chains(c.argument) :
                               ~Meets(Chains(c.argument)[i], Len(Chains(c.argument)[i]), e, Document)
      /\ c.pseudo = "has" => Wanted(c.argument, e) # <<>>
      /\ n > 1 => \E f \in Beyond(c.comb, e) : Meets(chain, n - 1, f, scope)
      /\ n = 1 /\ scope # Document => scope \in Beyond(IF c.comb = "" THEN " " ELSE c.comb, e)

Wanted(selector, scope) ==
  SelectSeq(Under(scope), LAMBDA e : \E i \in DOMAIN Chains(selector) :
                            Meets(Chains(selector)[i], Len(Chains(selector)[i]), e, scope))

-----------------------------------------------------------------------------
(* A compiled selector lacks the class of its last compound if that has    *)
(* been used to find the elements to start from.                           *)
Compiled(selector, seeded) == [selector |-> selector, seeded |-> seeded]
ChainsOf(m) ==
  LET chain == Chains(m.selector)[1]
  IN  IF m.seeded THEN <<[chain EXCEPT ![Len(chain)].class = ""]>> ELSE Chains(m.selector)

AllCompiled == [selector : Queries \cup {".b .a"}, seeded : BOOLEAN]
Nothing == [key |-> <<>>, value |-> Undefined]

SizzleInit ==
  [memory |-> [e \in AllNodes |-> [dir \in {"parentNode", "previousSibling"} |-> Nothing]],
   dirruns |-> <<0, 0>>,  \* its integer and its random part
   draws |-> 0,           \* how many random parts were drawn in this run
   cachedruns |-> 0,
   runs |-> [m \in AllCompiled |-> 0],  \* matcherCachedRuns of each
   context |-> Undefined]  \* outermostContext

Result(ok, s) == [ok |-> ok, s |-> s]

RECURSIVE Test(_, _, _), Walk(_, _, _, _, _), SuperMatcher(_, _, _, _, _)

(* addCombinator *)
Combined(at, comb, e, s) ==
  LET next == Along(Dir(comb), e)
  IN  IF comb \in {" ", "~"} THEN Walk(at, Dir(comb), next, <<s.dirruns, at.of, at.chain, at.number>>, s)
      ELSE IF next = 0 THEN Result(FALSE, s) ELSE Test(at, next, s)

(* The walk past e and what is beyond it.  A nested run may replace the    *)
(* memory while it is being filled.                                        *)
Remembered(dir, e, key, r) ==
  IF r.s.memory[e][dir].key # key THEN r
  ELSE [r EXCEPT !.s.memory[e][dir].value = IF r.ok THEN Yes ELSE r.s.cachedruns]

Past(at, dir, e, key, r) == IF r.ok THEN r ELSE Walk(at, dir, Along(dir, e), key, r.s)

Walk(at, dir, e, key, s) ==
  LET known == s.memory[e][dir]
      empty == [s EXCEPT !.memory[e][dir] = [key |-> key, value |-> Undefined]]
  IN  IF e = 0 THEN Result(FALSE, s)
      ELSE IF known.key # key THEN Past(at, dir, e, key, Remembered(dir, e, key, Test(at, e, empty)))
      ELSE IF known.value \in {Yes, s.cachedruns} THEN Result(known.value = Yes, s)
      ELSE Walk(at, dir, Along(dir, e), key, s)

(* select: it starts from the elements that a single chain may end with. *)
Select(selector, context, s) ==
  LET last == Chains(selector)[1][Len(Chains(selector)[1])]
      seeded == Len(Chains(selector)) = 1 /\ last.class # ""
      seeds == SelectSeq(Under(context), LAMBDA e : seeded => class[e] = last.class)
  IN  IF seeded /\ (seeds = <<>> \/ (Len(Chains(selector)[1]) = 1 /\ last.pseudo = "none"))
      THEN [found |-> seeds, s |-> s]
      ELSE SuperMatcher(Compiled(selector, seeded), seeds, context, TRUE, s)

Sizzle(selector, context, s) ==
  IF Native(selector) THEN [found |-> Wanted(selector, context), s |-> s] ELSE Select(selector, context, s)

Answered(r, empty) == Result((r.found = <<>>) = empty, r.s)
Pseudo(c, e, s) ==
  CASE c.pseudo = "none" -> Result(TRUE, s)
    [] c.pseudo = "not" -> Answered(SuperMatcher(Compiled(c.argument, FALSE), <<e>>, NoContext, FALSE, s), TRUE)
    [] c.pseudo = "has" -> Answered(Sizzle(c.argument, e, s), FALSE)

(* The matcher that matcherFromTokens makes for a chain, up to a compound: *)
(* its pseudo-class, its class, and what is to the left of it; at the left *)
(* end, that the element can be reached from the context.                  *)
ToTheLeft(at, c, e, p) ==
  IF ~p.ok \/ c.class \notin {"", class[e]} THEN Result(FALSE, p.s)
  ELSE IF c.comb = "" /\ at.context # p.s.context THEN Result(TRUE, p.s)
  ELSE Combined([at EXCEPT !.number = @ - 1], IF c.comb = "" THEN " " ELSE c.comb, e, p.s)

Test(at, e, s) ==
  LET c == ChainsOf(at.of)[at.chain][at.number]
  IN  IF at.number = 0 THEN Result(e = at.context, s) ELSE ToTheLeft(at, c, e, Pseudo(c, e, s))

(* The chains of a group, the last first. *)
AnyChain(m, context, e, s) ==
  LET chains == ChainsOf(m)
  IN  FoldRight(LAMBDA i, r :
                  IF r.ok THEN r
                  ELSE Test([of |-> m, chain |-> i, number |-> Len(chains[i]), context |-> context], e, r.s),
                [i \in DOMAIN chains |-> i], Result(FALSE, s))

(* The end of the outermost loop for one element; the mutant leaves the    *)
(* memory of what is further up valid for the next.                        *)
NextElementKept(m, run, s) == [s EXCEPT !.dirruns = run]
NextElement(m, run, s) ==
  [s EXCEPT !.dirruns = run, !.runs[m] = @ + 1, !.cachedruns = s.runs[m] + 1]

(* matcherFromGroupMatchers *)
Begun(m, run, context, outermost, s) ==
  LET drawn == [s EXCEPT !.dirruns = run, !.draws = run[2]]
  IN  IF ~outermost THEN drawn
      ELSE [drawn EXCEPT !.context = IF context = Document THEN FalseContext ELSE context,
                         !.cachedruns = s.runs[m]]
Found(done, e, r) == [found |-> IF r.ok THEN Append(done, e) ELSE done, s |-> r.s]
Ended(run, context, outermost, scan) ==
  IF outermost THEN [scan EXCEPT !.s.dirruns = run, !.s.context = context] ELSE scan

SuperMatcher(m, elems, context, outermost, s) ==
  LET run == IF s.context = Undefined THEN <<s.dirruns[1] + 1, 0>> ELSE <<s.dirruns[1], s.draws + 1>>
      Try(done, e) == Found(done.found, e, AnyChain(m, context, e, done.s))
      Loop(done, e) == LET next == Try(done, e)
                       IN  IF outermost THEN [next EXCEPT !.s = NextElement(m, run, @)] ELSE next
      start == [found |-> <<>>, s |-> Begun(m, run, context, outermost, s)]
  IN  Ended(run, s.context, outermost, FoldLeft(Loop, start, elems))

-----------------------------------------------------------------------------
NoOutcome == [selector |-> "none", among |-> <<>>, found |-> <<>>]

SelectorsInit ==
  /\ parent \in Trees
  /\ class \in [AllNodes -> {"a", "b"}]
  /\ sizzle = SizzleInit
  /\ outcome = NoOutcome
  /\ queries = 0

Answers(selector, among, r) ==
  /\ queries < MaxQueries
  /\ queries' = queries + 1
  /\ sizzle' = r.s
  /\ outcome' = [selector |-> selector, among |-> among, found |-> r.found]
  /\ UNCHANGED <<parent, class>>

(* $(selector) *)
FindAll == \E q \in Queries : Answers(q, InOrder, Sizzle(q, Document, sizzle))

(* $(elements).filter(selector) *)
FilterSet ==
  \E q \in Queries, elems \in {InOrder, Reverse(InOrder)} :
    Answers(q, elems, SuperMatcher(Compiled(q, FALSE), elems, Document, TRUE, sizzle))

(* The class of an element changes. *)
ChangeClass ==
  /\ 0 < queries /\ queries < MaxQueries /\ outcome # NoOutcome
  /\ \E e \in AllNodes : class' = [class EXCEPT ![e] = IF @ = "a" THEN "b" ELSE "a"]
  /\ outcome' = NoOutcome
  /\ UNCHANGED <<parent, sizzle, queries>>

SelectorsNext == FindAll \/ FilterSet \/ ChangeClass

-----------------------------------------------------------------------------
(* What memories and nested runs there are, an answer has the elements      *)
(* that match, each once and in the order of the set; only a selector with *)
(* a :has inside a :has, whose run replaces cachedruns, may               *)
(* miss some of them (jquery-1.10.1.js:2542-2590,2775-2874).               *)
SelectsWhatMatches ==
  outcome # NoOutcome =>
    LET matching == Wanted(outcome.selector, Document)
        right == SelectSeq(outcome.among, LAMBDA e : Contains(matching, e))
    IN  IF RunsInHas(outcome.selector)
        THEN outcome.found = SelectSeq(right, LAMBDA e : Contains(outcome.found, e))
        ELSE outcome.found = right

=============================================================================
