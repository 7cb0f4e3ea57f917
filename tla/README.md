# A verification model of Myauka

Myauka generates lexical analyzers: from a description (`%codes`, `%keywords`,
`%numbers`, ... with regular expressions) it writes a scanner in C++. These
modules model the way from the characters of a description to the files of the
generated scanner: the scanners and parsers of the description, the tables they
leave behind, the automata and transition tables made from them, what decides
how the generated scanner runs, and the files of a run. TLC checks them on small
instances; TLAPS proves the safety of most of them for every instance: the data
structure all tables are keyed by, the lexemes and lines of both scanners and the section
parsers and their composition for texts of any length, the stack, the commands, the first
message and the result of the expression parser, the tables of a generated scanner, the
operations on categories of characters, which characters a generated scanner
can react to, why a run ends with an error, and where the files of a run are.

All paths below are relative to the repository's own `src/` directory
(`src/main_parser.cpp`, `include/trie.h`, ...).

## 1. Inventory

The program is one process with one thread. It reads one file, keeps everything
in memory, and writes and moves files at the end. There are no messages and
nothing runs concurrently. What is hard about it:

* many hand-written automata with *error recovery* share one stream of lexemes,
  one scope and one count of errors; every one of them may be called at any
  lexeme, any number of times, in any order of sections;
* objects *keep fields from one call to the next*, and work on copies of tables
  that are written back in some operations only;
* a lexeme that is given back is read again by somebody else, so that the
  *termination* of the main loop and the *line numbers* are properties of all
  parsers and both scanners together;
* the automata and tables are *numbered by hand*: states, commands, segments and
  children are indices into each other's vectors;
* errors that are printed, errors that are counted and errors that stop the
  generation are three different things (*partial failure*), files are written
  before the last errors are known, and *what an earlier run left* in the
  directory is there for the next one.

| component | state | operations | made correct by | model |
|---|---|---|---|---|
| prefix trees (`trie.h`, `char_trie`, `trie_for_set.h`) | `node_buffer`, `nodes_indeces` | `insert` = loop of `add_child`; `get_string`, `get_length`, `get_set`, `maximal_degree` | an index stands for one word for ever; what is read back is what was inserted; every walk ends | `Trie`, `WordTable` |
| location, giving back, count of errors | position, line, `number_of_errors` | `current_lexem`, `back`, `increment_number_of_errors` | a lexeme is read again after `back` and never otherwise; lines are right | `Location` (characters), `LexemeSource` (lexemes) |
| main scanner (`main_scaner`) | automaton, state, buffer, token | `current_lexem`, six procedures and their final ones | the lexeme depends on the text alone | `MainScaner`, `Scanners` |
| scanner of expressions (`expr_scaner`, `aux_expr_scaner`) | automaton, state, set of characters | the same for classes, actions, escapes, `[^...]` | the same, sets are those written | `ExprScaner`, `Scanners` |
| scope and table of codes (`scope.h`, `collected_data.h`) | `idsc`, `strsc`, `codes_`, `last_code_val_` | `add_new_lexem_code`, `add_action_definition`, `add_fictive_delimiter` | one role per identifier and string; the enumeration and the scope agree | `Scope` |
| `%comments` | state, marks | seven state procedures | clean sections are documented, errors are departures, it returns | `CommentsParser` |
| `%keywords`, `%delimiters` | state, remembered strings | seven state procedures, `add_new_string` | the same, and only defined codes are represented | `KeywordDelimiterParser` |
| `%numbers`, `%strings`, `%idents` | state, `acts_`, action name | eight state procedures, `add_action_definition`, call of the expression parser | the same, results stored together, no data of an earlier header | `NumStrIdParser` |
| `%codes`, `%newline_is_lexem` | copies of `codes`, `last_code_val` | `codes_sec`, `newline_is_lexem_sec` | every code is enumerated | `CodesAndNewline` |
| sections of a keyword and a name or text | indices in the collected data | eight small parsers | names keep their roles | `MainParser` |
| SLR parser of expressions (`lr_parser.h`, `expr_lr_tables`, `slr_act_expr_parser`) | stack of states and attributes | shift, reduce, eight error handlers | what it accepts without a message is in the grammar and gives its commands; it ends | `RegexpParser` |
| main parser, `verify`, exit code | collected data, set of used automata | dispatch, verification, fictive delimiters | success means a complete scanner; the program ends | `MainParser`, `Generation` |
| commands (`fuse_commands`, `regexp1_or_regexp2`, `u32string_to_commands`, `match`) | buffers of commands | pure functions | addresses stay inside the buffer, the words stay | `Commands` |
| automata (`ndfa`, `dfa`, `minimal_dfa`, `groupped_dfa_by_regexp`) | states, transitions, actions, the worklist, the partition | construction, determinization, minimization, grouping | the words and the actions are kept, the result is minimal, loops end | `Automata`, `GroupedDFA` |
| categories of characters | kind and set | union, intersection test, inclusion | they mean what they say | `Categories` |
| table of categories (`group_pairs.h`, `create_permutation*`, `permutation_tree_to_permutation`, `category_table_builder`) | segments, tree, traversal | grouping, tree, traversal, search in the generated scanner | every character is found with its categories | `CategoryTable`, `GeneratedTables` |
| attributed prefix tree, jump table of delimiters | layers of a tree, table | `jumps`, generated `delimiter_proc` | transitions lead to children, the longest delimiter is read | `JumpTable`, `GeneratedTables` |
| what a scanner is generated from (`implement_*_automaton`, `id_with_keyw_builder`, `collected_data_to_info`) | `Info`: tests, automata, kind of comments | `implement_automata`, `Current_lexem_proc_builder::build` | every lexeme's automaton can be entered | `Generation` |
| files of a run (`aux_files_generate`, `scaner_class_builder`, `testing_builder`, `move_by_ext*`, `cmdline_processing`) | three directories, exit code | write, move, end | success leaves every file of the run in its place | `Generation` |
| text of the files, UTF-8 conversion, `fmt` | none | formatting | - | not modelled |

### How the components interact

`Main_parser::compile` runs `parse()`, `verify()`, `add_fictive_delimiters()`
and the writers in this order. `parse()` reads a lexeme, selects a section
parser by its code, and gives the lexeme back to that parser. A section parser
loops over its own state procedures and ends by giving back the first lexeme it
cannot use. All of them share the main scanner (one `Location`), the `Scope`, the
prefix trees of identifiers and strings and the `Error_count`. The parser of
regular expressions has a scanner of its own on the same `Location`; it begins
where the main scanner gave back an opening brace. Nobody else reads a table
while a section parser runs.

`collected_data_to_info` takes the collected data to `Info`: each
`implement_*_automaton` adds a test to `start_proc` of the generated scanner and
an automaton. Delimiters become a jump table, the categories of the tests a
permuted table of segments. Then the files are written to the current directory,
`Testing_builder` adds a test program if asked, and all `.cpp` and `.h` files of
the current directory are moved to `src/` and `include/`.

### Hazards

`PROJECT.json` lists them with their lines and the properties that watch them.
The main ones: sibling lists cut by a wrong `previous` (`trie.h`); recovery that
lets a wrong section pass or blames a right one; marks, actions or buffers of
something earlier in something later; a code that gets a number and no place in
the enumeration; a text after which the main loop, a scanner or the parser of
expressions does not end; a reduction in an error handler that takes the wrong
symbols from the stack; lines counted twice or not at all when lexemes are given
back across two scanners; automata and tables numbered by hand; actions lost when
states are merged; verification with sets that are empty; an accepted description
whose generation fails afterwards; files of earlier, broken-off runs.

## 2. Modules

| module | models | remarks |
|---|---|---|
| `Trie` | `Trie<T>::insert`, `add_child`, the readers | one action per loop iteration; `spelled` and `requests` are auxiliary |
| `WordTable` | what users of a prefix tree rely on | abstract specification, implemented by `Trie` |
| `Location` | `Location`, `Scaner::back`, `Error_count` by characters | |
| `MainScaner`, `ExprScaner` | the two scanners | one action per character: an iteration of the loop of `current_lexem` with the procedure of its automaton |
| `Scanners` | both over one `Location`, called and given back in any alternation | defines the lexemes a second time, as a function of the text; `last`, `errorsBefore`, `miscounted` are history |
| `LexemeSource` | scanner and location as the parsers see them | the text is chosen lexeme by lexeme: all texts up to a length |
| `SectionHistory` | - | auxiliary history of one call, read by no action |
| `Scope` | the shared tables and the functions that write them | |
| `CommentsParser`, `KeywordDelimiterParser`, `NumStrIdParser`, `CodesAndNewline` | the section parsers | one action per lexeme: a lexeme read, the state procedure and every table it changes |
| `RegexpParser` | `LR_parser::compile` with the tables and handlers of regular expressions | one action per iteration: a shift, a reduction with its command and attributes, or an error handler; `path` and `complained` are auxiliary |
| `MainParser` | the composition of the parsers, up to the exit code | instantiates the four section parsers; only one parser runs at a time, so they share `running` and `state` |
| `Categories` | `categories.cpp` | |
| `Commands` | commands, the commands of words and lists of words | `Language` is the reference definition of their words |
| `FuseCommands` | the fusion of commands | recursive operators, so kept apart from what `Generation` uses |
| `Automata` | the algorithms from commands to grouped automata, and `match` | pure operators |
| `GroupedDFA` | `grouped_DFA_by_regexp` and matching | stages as actions; so is each turn of the two loops |
| `JumpTable` | `Attributed_char_trie::jumps` and the generated `delimiter_proc` on its table | `numbered` is history |
| `CategoryTable` | the table of categories and the generated `knuth_find` | `permutation_tree_to_permutation` step by step |
| `GeneratedTables` | the two tables in one specification | |
| `TreeProofs` | - | the proofs about `Trie` and about the two generated tables, which are made of trees |
| `Generation` | runs of the program in one directory, from the collected data on | `run`, `faults`, `missed` are history |
| `GenerationProofs` | - | the proofs about the files of a run, its errors and its tests, and about categories |
| `ScopeProofs` | - | lemmas about lexemes, tables and the scope that the next four share |
| `CommentsProofs`, `ReadingProofs`, `NumStrIdProofs`, `MainProofs` | - | the proofs about the section parsers and their composition; `ReadingProofs` has those about `%keywords` and about the scanners |
| `RegexpProofs` | - | the proofs about the stack, the commands and the messages of the expression parser |

Correspondence. A state procedure such as `multilined_end_proc` is a function
from the codes of lexemes to the next state and the errors counted; `procs` is
the table of them, as in the source. A lexeme for which a procedure has no entry
takes the branch the procedure's `default` takes (`Unexpected`, `Return`,
`Abandon`). `Take(n)` is "read, count n errors", `GiveBack(n)` is "read, count n
errors, `back()`"; errors of the lexeme itself (an unclosed string, an unknown
character) are counted each time it is read, as in the code. Uninitialized
fields - `last_code_val` of `Codes_parser`, `newline_is_lexem_`, the set of used
automata, the symbol of a command that is no leaf - start with any value of
`Indeterminate`, `BOOLEAN`, `IndeterminateAutomata`, `AnySymbol`.

In the scanners a text is a sequence of characters, and a character is a string of
length one (`Descriptions` of `Location`, `DescriptionsAssumption`); the jump table of
keywords is given by the keywords it recognizes, spelled as such sequences. The state
`-1` is the empty sequence, any other state of that table the beginning it stands for.
A value read at index -1 is the flag `undefined`. Of the characters 1 to 32, which the
code takes for spaces, `Spaces` has the four that TLA+ can write and a description is
likely to have; the others are in no text that is meant here.

In the section parsers the regular expression behind a header is one lexeme
`Opened_fig_brack`, with index 0 if the expression parser returns and 1 if it does
not; then, as in the code, it goes on asking for lexemes for ever.
`ReturnsOrIsStuck` of `RegexpParser` shows that there is no third outcome, and
which expressions are of which kind. In `RegexpParser` the action table is the pair
of `shift` (where each terminal leads) and `lookahead` (before which terminals the
state's rule is reduced); a pair of state and terminal in neither goes to the
handler of the state, as in `compile()`. Positions in buffers count from 1 instead
of 0.

In `MainParser` the first characters of automata are not computed: `Verify` finds no two
that intersect. `Generation` does compute them, as the code does, from the commands of a
description, and shows that they are none; there a text that is read is one element of
`Descriptions`. A mark of comments is its sequence of characters, the empty one no mark, as
index 0 is to the code; of the scope a description has the identifiers and the strings with
a role (`idsc`, `strsc`), which decide what becomes of the marks. `add_fictive_delimiter`
is so in both modules: in `MainParser` with the tables it writes to, in `Generation` with
the first characters that its delimiters give to the scanner. A file is its name and what
was written into it by which run.

Each property is accompanied by a mutant: a definition marked "Mutant" changes one
definition the way a plausible mistake would (a pointer not advanced, a field
not reset, a guard dropped). No action uses them; they show that the property
depends on the code.

## 3. Runs

| run | question | bound |
|---|---|---|
| `trie` | does any history of insertions keep the lists complete, give equal words and only equal words the same index, read back what was inserted, end every call, and implement `WordTable`? | four insertions of eight words over three characters |
| `comments` | is a section without errors in the documented form, with its own marks; is an error always a departure from it, and which whole sections are blamed? | ten lexemes |
| `keywords` | the same, with the codes and the postaction | ten lexemes |
| `headers` | the same for the headers of `%numbers` and `%strings`, with initial, final and named actions | eight lexemes |
| `descriptions` | do the enumeration and the scope agree and do names keep their roles, in any order of sections; does `Success` mean a complete scanner; are clashes of comment marks the only late errors, and all found? | seven lexemes |
| `whole_parser` | do actions have bodies; does the program end, apart from the named lexemes? | six lexemes |
| `regexp` | does the stack stay a path of the SLR automaton through all handlers; do the commands tile the buffer and form a forest; is what passes without a message in the grammar, with its commands; does the first message come at the first wrong lexeme; does the parser return? | seven lexemes |
| `scanners` | is every lexeme, its value, its end and its errors a function of the text behind the position, in any alternation of the scanners and `back`; is its line right; does every call return? | five calls on texts of up to four characters over two alphabets, and on every beginning of a keyword or class name |
| `automata` | does each stage from commands to the grouped automaton keep the words and the actions, but for the known losses; is the minimal automaton minimal; is matching right; do the loops end? | all expressions of two leaves, and deeper shapes; words of up to four characters |
| `tables` | which transitions of a jump table are right; does `delimiter_proc` read the longest delimiter; does the search find the categories of every character; are the tables ever finished? | up to three delimiters of three characters; categories over 0 .. 10 |
| `generation` | which characters enter which automaton of the generated scanner; does `Success` leave the files of the run in their places; when are errors reported after writing; does every run end? | two runs, one fault |
| `clashes_generated` | the disagreement of section 5, with a counterexample | as `generation` |

Why the bounds are enough. `SourceLength` counts the lexemes after the first.
The longest documented section `%comments` has eight lexemes; nine and the end
of the text let a second section begin after a short one. A postaction with two
representations takes ten. A header with both actions and one definition takes
eight (`%numbers "i" : "f" %action name "body" {`), and two headers with one
action each fit too, which is what `HeaderRight` needs to see stale actions.
`descriptions` needs `%codes id , id`, a name section and `%newline_is_lexem` between
them, and a section `%comments` with its marks, next to a name or a code. `ErrorCap = 1`
saturates the count of errors: nothing in the code asks for more than zero or not.
Identifiers and strings are the indices the code treats specially (`None`,
`Unknown`, `write`, the default names, the fictive codes) and one or two others; a
third ordinary word would not meet any different comparison. Four insertions give
nodes up to three children and walks that go past one, and every way the eight
words share prefixes; the empty word is among them.

The parser of expressions is called at an opening brace, or at the end of the
text, so that its first lexeme is one of these. Six more lexemes hold a union in
parentheses with its brace (`{(d|d)}`), an action on a sequence in parentheses
(`{(dd)$a}`), an action on an operand that has one (`{(d$a)$a}`), and every pair of
a state and a wrong lexeme, with what the recovery makes of the lexemes that follow.
A right text of that length has fewer commands than `MaxCommands = 10`; recovery may
want more, and then the invariants about the buffer say nothing any more. One
character and one postfix operator of each kind suffice: the code copies them and
does nothing else.

The scanners have no counters, only a state and what a lexeme left behind: four
characters let a lexeme of each automaton follow one of each other and be cut off
in every state, and the added texts reach every state of the keyword and class
tables, and complements of sets with classes, hats, brackets and line ends. Five
calls allow to read, give back, read with the other scanner, and to give back and
read again.

The expressions of `automata` contain every command over every two leaves, among
them an overlapping complement, two actions and a class, each under every unary
operation; all ways to put parentheses into four leaves; groups that grow by a third
operand; and identifiers joined with keywords as `u32strings_to_commands` and
`regexp1_or_regexp2` join them. Every repetition has been entered twice in a word of
four characters; minimality is checked with words as long as the automaton has states.

Three words of three characters over two (or two over three) contain a level with
a childless node before, between and behind nodes with children, which is what the
correction is about. Sets of categories over 0 .. 10 give up to six segments, trees of
every shape up to that size, and gaps; the greatest character, 12, is in none of them.

Two runs let a second one find whatever a first one left; one fault - a file that
cannot be written, an abnormal end between any two writes or moves - may fall in
either, and either directory may be obstructed. The descriptions of the first run take
every set of lexeme kinds, expressions with each way to compute first characters, and
marks that are equal, only begin with the same character (`//` and `/*`), are spaces or are
missing; marks stand next to strings and identifiers that have a role, one of them or two;
names clash in each way the file names allow.

`QuietMeansRight` compares the buffer with `Phrases`, which derives the commands from
the grammar by splitting the text, without a stack or a table, and asks that
there is exactly one derivation (`Full` excepts a buffer that met its bound).
`MessagesAreRight` needs only which terminals may follow each other and the balance of parentheses (`Viable`). `MainReadsRight` and
`ExprReadsRight` compare with `MainLexeme` and `ExprLexeme`, which look at the text and
have no automaton. `FusedRight`, `NDFARight`, `MinimalRight` compare with `Language`, a
fold over the commands of an expression.

`ErrorsAreDepartures` and the clean-section properties say together that an
automaton with recovery accepts the documented language up to the tolerated
departures: a documented prefix is not blamed, and an unblamed section is
documented. For `%comments` a next section behind a whole one counts as well: there
`ErrorsAreDepartures` names the one whole section that is blamed. They look only at the first error of a section; after it, recovery
may go any way, and nothing but the return to `parse()` is claimed.

A type invariant, and parts that belong together, are conjuncts of one invariant:
`SectionRight`, `HeaderRight`, `RolesRight`, `StackRight`, `OperandsRight`, `IInv`,
`MainReadsRight`, `NDFARight`, `MatchRight`, `TransitionsRight`, `OnlyMarksAreEntered`.

Fairness. A single thread runs the program, and a loop goes on until it returns,
so weak fairness of the running parser (`WF(Section)`, `WF(Iteration)`), of the loop
of `insert`, of a scanner's call that has begun, of the loops of `GroupedDFA`
(`WF(Build)`) and `GeneratedTables`, of a run that was begun (`WF(Step)` in
`Generation`) and of the whole program (`WF(Main)`) is what the code gives. No fairness
is assumed of the environment: which lexemes come is not constrained, nothing obliges
anybody to call a scanner, to begin a run, to ask for a match, or a file to fail.

Deadlock is checked in every run but four. `trie`, `scanners` and `generation` (with
`clashes_generated`) stop where the bound on insertions, calls or runs stops the model;
`tables` stops when a table is built and read. Elsewhere `Finished` is the program's own
end, or the expression parser that stays at the end of the text.

## 4. Proofs

Every invariant below was checked with TLC, as an invariant of the component's run,
before it was proved.

### Prefix trees

`TreeProofs` proves, for every set of characters, every set of words over it and
every number of insertions (`WordsAssumption`, `BoundAssumption`; nothing else is
assumed):

* `Inductive`: `Spec => []IInv`;
* `ListsCorrect`: sibling lists are complete and have no two equal labels;
* `InsertContract`: `insert` returns equal indices exactly for equal words;
* `FieldsCount`: `Spec => []Counted`, `path_len` and `degree` of every node are right;
* `WordsAreReadBack`: `Spec => []ReadBack`, what was inserted is given back;
* `Implements`: `Spec => Table!Spec`, each step a step of `WordTable` or a stutter.

The argument. `SameIndexIffSameWord` is not inductive: between the iterations of
a walk it says nothing about the children already passed. `IInv` adds

* `ParentsPrecede`: a node is younger than its parent - walks to the root end, and
  the new node, index `size`, is nobody's parent;
* `ListsComplete`: `first_child` and `next` visit exactly the children, in the
  order of their creation - so a walk that reaches the end has seen all;
* `SiblingsDiffer`: no two children of a node have the same label;
* `WalkOK`: the children before `current` do not have the wanted label, and when
  the walk has ended `previous` is the last child - so the link is added at the
  end, and the new label differs from all others;
* `Spelling`: the word of a node is that of its parent and its label, no two nodes
  spell one word, and the node reached so far spells the prefix read so far.

`PushPreserves` is shared by the two ways of adding a node, `TreeUnchanged` by the
actions that only move the cursors; one lemma per action gives the induction step.
`Implements` needs only `IInv`: adding a node is `Learn`, returning is `Answer`,
all else stutters.

`ReadBack` needs more. `Counted` is a second invariant above `IInv`: `path_len` is the
length of the word a node spells and `degree` the number of its children, because
`get_string` and `get_set` take the sizes of their results from these fields. The two are
recursive functions over the path to the root. `FollowParents` does the induction: of two
functions that both follow from their values at the parents, take the least node at which
they differ (`LeastNumber`, from the well-foundedness of `<`); its parent is less, so they
agree there, and so here. One of the two functions is what the code computes, the other is
read off `spelled`. `DegreesAreBounded` shows that the maximum of the degrees, which the
program keeps, is over a finite set.

### The tables of a generated scanner

`TreeProofs` proves, for every alphabet `0 .. LastChar` (`CharAssumption`), every list of
categories with at least one character (`ListsAssumption`), every list of delimiters that are
not empty (`WordsAreNotEmpty`) and every number for the code of an unfinished delimiter
(`AttributeAssumption`), all that the run `tables` checks but its liveness:

* `CategoriesAreRight`: `TablesSpec => []TableRight`;
* `TransitionsAreRight`: `TablesSpec => []TransitionsRight`;
* `DelimitersAreRead`: `TablesSpec => []DelimitersRead`.

`TablesInv` is the inductive invariant of all three. For the categories it is `CategoriesInv`:

* `Grouped`: the segments are ordered, do not meet, cover the categorized characters, and
  the characters of a segment have its categories (`GroupingStep`, one more character);
* `TraversalOK`: each state of the automaton `permutation_tree_to_permutation` has met a
  certain set of nodes - at `Left` what comes before the subtree of the node (`Ahead`), at
  `Right` the left subtree too (`Before`), at `Parent` the whole subtree - and every node was
  met right after what comes before it. Subtrees are defined without recursion: `Way(u)` is
  the least set with `u` and, of each of its nodes, the parent;
* `MetOnce`, `Placed`: of the finished traversal, that each node is there once, and that the
  table has the segments in this order. Hence what is below a left son is less and below
  a right son greater (`Searchable`), and each turn of `knuth_find` keeps the place of the
  character, or that there is none, below the node it goes to (`SearchStep`).

For the delimiters it is `JumpsInv`, of the levels numbered so far, and `ReaderInv`:

* `NodesOK`: nodes numbered, nodes of the present level and roots that are left are different
  beginnings of words; a level has nodes of one length and one subtree, and what was numbered
  of the subtree is shorter;
* `EntriesOK`: the children of a state stand in a row in what is numbered or is the present
  level, and `first_state` is the first of them or, by `v`, later; `v` is zero exactly if no
  node without children was numbered before in the level. This is what the code computes:
  the correction is the number of the children of the nodes before less that of the nodes
  before that have children (`CorrectionCounts`); less all of the nodes before would be right;
* `ReaderInv`: where no transition is lost the state of the reader is the node of what it has
  read. Where no child has the next character no longer part of the text is a beginning of a
  delimiter (`NothingLonger`).

The loops over a sequence are recursive functions; that they solve their equations
(`Iterates`) and what they compute is shown by the least turn for which it fails.

### The section parsers

The automata are tables, and the properties say what a table recognizes. The proofs
hold for every number of lexemes, every set of lexemes with a code and an index
(`LexemeAssumption`, `SourceLengthAssumption`), every cap on the counted errors
(`ErrorCapAssumption`) and any different indices of the predefined identifiers
(`ScopeAssumption`); `RecordingAssumption` turns the history of a call on or off. Where a run reads ten lexemes, a section here
may define any number of keywords or actions. Three modules have the same form. An
inductive invariant says, *as long as no error was found*, what has been read; the
properties speak of the end only and are not inductive. The first theorem of each is the
invariant, `Spec => []SectionInv` or `[]HeaderInv`.

`CommentsProofs` (`SectionInvariant`, `DocumentedSections`: `Spec => []SectionRight`,
`OnlyDeparturesAreErrors`: `Spec => ErrorsAreDepartures`). `SectionInv` is

* `Begun`: the codes read are one of the beginnings that the state stands for - each
  state is reached with and without single-lined comments, with and without `%nested`;
* `MarksRead`: the marks are the strings at their places in what was read.

That an error is a departure is the other direction: a lexeme for which a state has no
clean entry continues none of its beginnings (`EntriesContinue`, `ErrorsDepart`). What is
read and whole belongs to one of the two final states (`WholeIsFinal`), of which
`Multilined_end` counts no errors and `Single_lined_mark` none at the end of the text.

`ReadingProofs` (`SectionInvariant`, `DocumentedSections`,
`OnlyDeparturesAreErrors`). The documented form is a repetition; the proof does not
unfold it but counts. `SectionInv` is

* `ReadSoFar`: the lexeme at place `j` has the code its place modulo 4 asks for, and the
  state is the number of lexemes read modulo 4, after an optional body of an action;
* `StringsKept`: the remembered indices are those of the last strings and of the body;
* `CodesDefined`: every identifier read is in the scope - the scope only grows.

`NumStrIdProofs` (`HeaderInvariant`, `HeadersAreRight`: `Spec => []HeaderRight`,
`OnlyDeparturesAreErrors`, `ResultsComeTogether`: `Spec => ResultsTogether`).
`HeaderInv` is

* `ReadSoFar`: a beginning of one of four forms, as there are initial and final actions
  or not, then definitions of three lexemes (`BeginningIsUnique`: no text has two forms);
* `acts_ = ActsRead(path)`: the actions remembered are those of *this* header, although
  the field stays from one call to the next;
* `ActionsKept`: every definition read entered its action, unless a later one gave it
  another body;
* `ResultsKept`: after the expression, the stored actions are those of the header.

Its errors need an exception, a name that already has another role, because the parser
asks the scope as well as its table.

`MainProofs` is about the composition, also for any names and automata
(`MainParserAssumption`): `MainInvariant` (`Spec => []MainInv`), `RolesStayRight`
(`Spec => []RolesRight`), `ActionsKeepBodies` (`Spec => []ActionsHaveBodies`),
`SuccessMeansComplete` (`Spec => []SuccessIsComplete`), `ClashesAreFound`
(`Spec => ClashesFound`). `MainInv` is

* `Typed`: the types, and that a running parser is in a state of its own automaton -
  the parsers share the variable `state`, so every table has to be closed;
* `Roles`: `CodesIn` (identifiers of codes, their values and the enumeration are one
  numbering; the next value is new), `NamesIn` (given names are in the scope with their
  own kind), `BodiesIn` (every action has a string entered as its body). They depend on
  each other: a new code, action or name must not be an identifier of another kind;
* `Phases`: what `verified`, `refused` and `generated` know of the errors, and that
  without errors all delimiters of comments got their codes (`Complete`).

`Roles` is carried over a step by what the step does to the scope, one lemma for each of
the four ways to write it; the composition has one lemma per parser for the types.
`SuccessIsComplete` rests on `FictiveDelimiters`: three calls of
`add_fictive_delimiter`, the later not undoing what the earlier entered.

### The expression parser

`RegexpProofs` holds for every text, every number of lexemes, and every positive number
of commands (`LexemeAssumption`, `TerminalAssumption`: a lexeme has a terminal;
`MaxCommandsAssumption`); the grammar and its tables are those of the code. It proves
that no text, right or wrong, makes the parser take a wrong range from its stack or its
buffer:

* `StackInvariant` and `StackIsSound`: `Spec => []StackInv`, `Spec => []StackRight`;
* `OperandsInvariant` and `OperandsAreRight`: `Spec => []OperandsInv`,
  `Spec => []OperandsRight`.

`StackInv` is the types and `StackIsPath`: each state on the stack is entered from the
one below by its symbol (`EnteredFrom`, `ShiftEnters`). It follows from the tables alone
that, at a reduction by a rule, the rule's right-hand side is on top (`Handles`): for each
state that reduces, the states that can be one, two and three places below are enumerated
backwards (`Below1`). So `HandleOnTop` holds in the error handlers too, where a reduction
is not chosen by a lexeme - which is where it was in doubt.

`OperandsInv` adds, unless commands were lost to the bound (`Full`):

* `Tiled`: the ranges of the operands on the stack are the buffer, side by side and
  without gaps. It is stated by "some operand ends just before" and not by the maximum of a
  set, as `OperandsTile` is, so that a step can be followed;
* `Forest`: each command but the roots is an argument of exactly one other, later, command,
  and the roots are the ends of the operands.

A reduction replaces the operands of the rule by one with their commands and perhaps one
more (`TiledReplaced`, `TiledExtended`, `ForestGrows`, `ForestStays`); `RuleOperands` and
`HandlesOnTop` give the operands of each rule. `TiledIsTile` and `ForestIsForest` go
back to the properties of the runs.

Of messages it proves that the first one is right:

* `QuietInvariant`: `Spec => []QuietInv`;
* `FirstMessageIsRight`: `Spec => MessagesAreRight`.

As long as nothing was printed, what was read is the beginning of a phrase, and `QuietInv`
says what the state on top knows of it: which terminals may have been read last
(`ReadLast`), which may come next (`Awaited`; a reduction has looked ahead, a shift has
not), and that the parentheses open in the text are the states 9 on the stack, less the
one that a closing parenthesis on top will close. A terminal more keeps the text the
beginning of a phrase exactly if it follows the last one and the depth allows it
(`ViableExtended`). `ShiftLeads` and `ReductionLeads` compare this with the tables, state by
state. An SLR table reduces on whatever may follow a symbol anywhere, so a `)` that closes
nothing may be looked ahead for and reduced on; the number of brackets shows that it is met
in state 3, with nothing open, and a closing one that is due in state 15, with something
open. `NothingElseContinues` is the converse: where the table has no entry, the next lexeme
continues nothing, so that a handler is called for real errors only.

And it proves that the result of a text without messages is the one the grammar gives it:

* `PhrasesAreUnique`: the grammar is unambiguous - no part of a text has two
  derivations (`Derivations`) as the same symbol;
* `PhraseInvariant`: `Spec => []PhraseInv`;
* `QuietTextsAreRight`: `Spec => []QuietMeansRight`.

`PhraseInv` is the classical invariant of a shift-reduce parser, with the commands: the
items of the stack stand, from the bottom, for what was read (`Stands`), and the commands
of an operand - moved so that its first is number 1 (`Segment`) - are among those that the
grammar derives from its piece of the text, whatever text follows (`IsPhrase`). A reduction
joins the pieces of its right-hand side; what it appends or marks is what the rule of the
grammar says because the operands are tiled (`OperandsInv`) and `Moved` numbers compose
(`MovedTwice`): one lemma per rule (`LiftMeans`, `LeafMeans`, `ApplyMeans`, `ActMeans`,
`ConcatMeans`, `OrMeans`, `BracketMeans`, `WholeMeans`), and one that the operands below
keep their commands (`GeneratedKeeps`). `Derivations` is a function recursive over
the parts of a text; that it solves its equation is shown by the least part for which it
would not (`DerivationsFollow`), and so is uniqueness: of the least part with two
derivations, ordered by length and symbol (`Rank`), the depth of parentheses tells the rule
and the place where it is split (`PhrasesHaveShape`, `ShapesDiffer`), so that both
derivations are made of the same smaller parts. At the end S is the only operand, with all of the text and of the buffer
(`WholeOnTop`).

### Categories and files

`GenerationProofs` proves what the operations on categories mean, for every set of
characters, by cases of the two kinds:

* `PlusIsUnion`: the sum has the characters of either;
* `IntersectIsRight`: the test is right unless both categories are complements;
* `ComplementsThatShareNothing`: of two complements it asks whether the *excluded* sets
  meet, and that answer is wrong in two cases exactly: a common character is missed where
  these sets are disjoint and leave some character out, and one is invented where they
  overlap and leave none - so the exception of `IntersectIsRight` is needed;
* `SubcategoryOfSetIsRight`: inclusion of a set in any category is decided right.

It proves, for all descriptions, names of generated files with the
extensions `h` and `cpp` (`AuxFilesAssumption`), files of the user, and numbers of runs
and faults:

* `FilesInvariant`: `Spec => []FilesInv`;
* `SuccessLeavesAllOutputs`: `Spec => SuccessMeansComplete`.

`SuccessMeansComplete` speaks of one step, the last of a run; what makes it true was done
in the stages before. `FilesInv` follows an output through them:

* `StagesInOrder`: what is still to be written belongs to this run, and no `.cpp` file is
  in the current directory once the `.h` files are moved;
* `EveryOutputIsSomewhere`: while files are written, an output is still to be written or in
  the current directory as this run wrote it; while they are moved, it is there or in its
  target. A file of its name that is still in the current directory is this run's, so
  that moving it cannot put an older one in its place.

The second part holds of a run that missed no file and whose outputs have different names;
the proof needs the names where an output is written over a file (`NamesTellApart`). One
lemma per action gives the induction step. At the step to `Success` the current directory
has no file of either extension, and every output has one of the two (`NamesAreMoved`): it
is in its target.

It proves what becomes of the first characters of expressions, for every description
(`DescriptionsAssumption`: operands stand before their operations, as the expression parser
leaves them, and a section `%numbers` or `%strings` has its expression - without one the
code looks before the beginning of a vector, which `Crash` of `MainParser` models):

* `GeneratedInvariant`: `Spec => []GeneratedInv`;
* `OnlyMarksLeaveStart`: `Spec => []OnlyMarksAreEntered`;
* `ErrorsAreExplained`: `Spec => ErrorsExplained`.

`NoFirstChars` shows that the first characters of any expression are none, by the least
command of the buffer that has some; `UnionOfEmpties`, for an operation with many operands,
by the least set of operands whose union is not empty. So each stage of `implement_automata`
adds tests of no character, but for that of delimiters (one lemma per stage). `GeneratedInv`
keeps this from generation to the end of the run, with what makes late errors: the marks
clash (`MarksClash`). Neither is read off the code: `FictiveDelimiters` follows the three
calls of `add_fictive_delimiter` and shows that the delimiters begin with the first
characters of those marks that had no role before, and that errors are counted exactly if
some mark has a role or a twin, or its code is an identifier already. That a test program is written only without any is a part of it, as
`ErrorsExplained` speaks of the last step of a run and generation is many steps before.
With these, all three properties of the run over descriptions, but for liveness, are proved.

### Scanners

The second part of `ReadingProofs` is about the scanners, for texts of any length over any
characters, and any number of calls in any order (`DescriptionsAssumption`;
`KeywordAssumption` and `ClassAssumption`, that keywords and the names of classes are
strings of letters, which TLC evaluates and the provers, for whom a string has no
letters, cannot see):

* `ScannersInvariant`: `ScannersSpec => []ScannersInv`;
* `MainLexemesAreRight`: `ScannersSpec => []MainReadsRight`;
* `ExprLexemesAreRight`: `ScannersSpec => []ExprReadsRight`;
* `LinesOfLexemesAreRight`: `ScannersSpec => []LinesRight`.

The properties speak of a scanner that has returned; `MainLexeme` and `ExprLexeme` define a
lexeme in one stroke, by the shortest or the longest piece of the text. The invariant says,
for every automaton, what it has read between the beginning of a lexeme and `pos`:

* `MainRead`, `AuxRead`: only spaces in the start automaton, only letters and digits of an
  identifier, a beginning of a keyword or of the name of a class that is the piece of the
  text read so far, an odd number of quotation marks in a string's body, none of which
  closes it. The next character then either makes that piece longer or shows that it was
  the longest one;
* `InComplement`: within `[^ ... ^]`, what was gathered and what the rest of the text has
  make up the set, the end and the errors that the text gives from the first member on.
  `Members` is a recursive function over the text; `MembersAre` shows that it fulfils its
  equation at every place, by the least place where it would not (`LeastNumber`);
* `LinesInv`: the line is one more than the line ends before `pos`, as long as none was
  passed twice or uncounted (`miscounted`). Lines add up (`LineEndsAdd`), so a step has to
  account only for what lies between the two positions.

One lemma for every procedure gives what its step does (`StringGoes`, `ClassGoes`, ...), one
for each scanner that its steps keep the invariant (`MainReadsKeeps`, `ExprReadsKeeps`), and
one for each call and each `back()`. That what was read does not depend on earlier lexemes
is where an automaton takes over: `GoMain` and `GoAux` set all that the automaton will read.

### Only model-checked

* All liveness: the prover does not reason about fairness and enabledness. With it the
  second half of what is said of the section parsers, that they return, and of the
  expression parser, that it returns or is stuck.
* Commands and automata (`GroupedDFA`): `FuseCommands` and `Automata` have recursive operators
  over commands and automata, which the prover does not take, and what is right there is
  equality with the language of an expression (`Language`) in every stage.

## 5. Where the code and its documentation differ

With a counterexample, under `findings`:

* `clashes_generated`: `intersection_msgs` (`src/verify_collected_data.cpp:20`) has a
  message for each pair of lexeme kinds that begin with the same character. The case
  analysis of `command2category` (`src/first_chars.cpp:14`) is commented out, so that all
  sets of first characters of expressions are empty, no clash is found, and a scanner is
  generated. By `OnlyMarksAreEntered` the same sets are the tests of `start_proc`: no
  character enters the automata of identifiers, strings or numbers.

Stated as exceptions by the properties that hold:

* the automaton in `include/comments_parser.h:76` makes state E (`Single_lined_mark`) final,
  as I (`Multilined_end`) is: `%comments %single_lined "//"` is a whole section. But
  `single_lined_mark_proc` (`src/comments_parser.cpp:307`) counts an error if another section
  follows, so that such a section can only be the last thing of a text
  (`ErrorsAreDepartures` of `CommentsParser`);
* a lexeme between two sections that no section begins with (an identifier, a comma, a
  string, a colon, a brace, `%action`) is reported, given back and met again: the program
  does not end (`Stray` in `EndsOrIsStuck`);
* the code of `Newline` enters `idsc` and not the enumeration, and its number comes from a
  copy that may not have been initialized (`RolesRight`); the set of used automata is not
  initialized; a default name replaces whatever role its identifier had;
* at a closing parenthesis that closes nothing, or a closing brace within parentheses, the
  handlers of the expression parser insert `|` and a character, reduce, and meet the same
  lexeme in the same state again: `compile()` does not return (`ReturnsOrIsStuck`);
* `back()` sets the line to that of the lexeme but the position before the spaces and line
  ends in front of it, which are counted again; line ends within strings are not counted;
  giving back at the end of the text takes an old line (`miscounted` in `LinesRight`);
* a lone `%` at the end of the text reads the table of keywords at -1 (`MainReadsRight`);
* `u32string_to_commands` writes a word as the *range* of its letters, `fuse_concat` takes
  the ends of the range for two operands: of a keyword of more than two letters only the
  first and the last one stay (`LongRange` in `FusedRight`); an operation that is the right
  operand of the same one may put a command that is no leaf into a range (`RightNested`);
* the minimization merges states that lead to the same groups with different actions
  (`MergedDisagree` in `ActionsRight`); the last character of a string is not looked at
  if it has no transition (`MatchRight`);
* in a jump table the first child of a node is numbered one too high for every node without
  children before it in its level: the delimiters `ab` and `acd` lose the transition to `d`
  (`TransitionsRight`), against the comment that `src/scaner_class_builder.cpp:83` generates;
* with a mark of multilined comments the scanner is generated as one without comments, and
  without one as one for all comments; the single mark is taken from the begin mark
  (`src/collected_data_to_info.cpp:102`, `OnlyMarksAreEntered`);
* a clash of the marks of comments - one given twice, one that is the body of an action, one
  whose code is an identifier of the text - is found after the scanner has been generated
  (`ErrorsExplained`), and a mark that is the body of an action does not enter the scanner
  (`OnlyMarksAreEntered`); two outputs with one name overwrite each other (`NamesClash`), and
  `Success` is reported when a file could not be written (`missed` in `SuccessMeansComplete`);
  the user's own `.cpp` and `.h` files in the current directory are moved with the rest, and
  so is what an erroneous or broken-off run left there.

Noted, modelled as the code has them: a header that is broken off is dropped without
an error; in an expression a second action or an opening brace is printed and not counted,
as is a repeated keyword in a header or a missing text of `%header_additions`,
`%impl_additions` or `%lexem_info_name`; a section `%keywords` that stops between two lexemes
of a representation is not reported; the lines that would collect the representations of
keywords and delimiters are commented out (`src/keyword_delimiter_parser.cpp:72`), so that
`kw_repres` is always empty and `del_repres` only has marks of comments; the test for numbers
enters the automaton of strings (`Numbers` in `Generation`); a section `%numbers` or `%strings` without its
expression makes `first_chars` look before the beginning of an empty vector (`Crash`); a file
that cannot be opened is closed through its null pointer (`src/file_contents.cpp:19`,
`NoText`).

Slips in the generated text, which is not modelled: `unknown_final_proc` is declared and
gets the text of `unknown_proc` (`src/implement_unknown_automaton.cpp:42`); final procedures of
identifiers are named `string_final_proc`; `build_repres` returns an empty text; the
enumeration of categories is computed and an empty text returned
(`src/category_table_builder.cpp:141`); the generated `get_categories_set` lacks a semicolon
(`:114`); the generated table of procedures has `::::` for `::`
(`src/scaner_class_builder.cpp:180`).

## 6. Not modelled

* The text of the generated files (`automata_repres*`, `list_to_columns`,
  `generate_scaner_class`, the format strings) beyond the tests of `start_proc`,
  `delimiter_proc`, `knuth_find` and the names of files: formatting without state.
* UTF-8 conversion, printing, the `fmt` library. The wording of messages.
* The gluing of identifiers and keywords in `id_with_keyw_builder`: nothing is ever put into
  `kw_repres`, so that the code takes one of its branches only; the commands it would be
  made from are part of `automata`.
* `--help`, `--version` and missing arguments, which change no state.
* Memory limits and the width of `size_t`: an index would need 2^64 nodes. Sets of categories
  are sets and not numbers of 64 bits.
* Several processes in one directory: nothing in the program provides for it.

## 7. Plan

1. Done: prefix trees; the section parsers; their composition; the parser of expressions;
   both scanners; commands, automata and matching; categories; jump tables and the table of
   categories; generation and the files of runs.
2. Proved: prefix trees, with the refinement of `WordTable` and what is read back; every
   section parser with its documented form, both ways; roles, bodies, completeness and
   clashes in the composition; the stack, the operands, the first message and the result of
   the expression parser; the lexemes and lines of both scanners; the table of categories
   and the table of delimiters with its reader; categories; the tests, the errors and the
   files of a run. Every safety invariant of the runs but the five of `GroupedDFA`.
3. Open in the model: `NumStrIdParser` with `RegexpParser` in the place of its one-lexeme
   expression, and `Scanners` as a refinement of `LexemeSource`.
