# Verification project for the contextual stochastic edit trainer

The repository trains *contextual stochastic edit distance*: a weighted
finite-state transducer whose states are contexts (some symbols to the left of
the edit point in the upper word, some to the right, some of the lower word
already written) and whose arcs are edits with features. Python scripts build
the machine and its features, a C++ program trains the feature weights by EM
and evaluates the result. This directory holds TLA+ models of these parts,
TLC configurations that check them, and TLAPS proofs about the core.

## 1. The system

| Part | Source | State it keeps | Operations |
|---|---|---|---|
| Machine topology | `python_src/context_edit.py` 8-81, loops of `main` | a context: `ulc`, `urc`, `llc` | ABS, INS, SUB, DEL, FINAL arcs |
| Machine builder | `python_src/context_edit.py` `main` | `all_lookup`, `bold_lookup`, `non_bold_lookup`, `arc_map`, the machine | number contexts, add arcs, write `arc_to_action` |
| Feature extraction | `python_src/featurize.py` | `features_seen`, `feature_counter` | one line in, one line out |
| `FeatureReader` | `src/data-io.cpp` | `features`, `number_features` | read the feature file |
| Arc numbering | `src/wfst-train.cpp` `map_to_feature_arcs` | an arc id inside a weight | store, read back |
| Trainer | `src/wfst-train-local-fast.cpp` | the arc weights of `*fst`, `weights`, `observed_counts`, `expected_counts` | `train`, `value2`, `gradient2`, `update_arc_weights`, `calculate_observed_counts`, `calculate_expected_counts` |
| Minimiser | `lib/dlib-18.5/dlib/optimization` | `x`, `f_value`, `g`, iteration counters | `find_min`, `line_search`, stop strategy |
| Evaluator | `src/evaluator.h` | edit distance machines, test data | `log_loss`, `one_best_edit`, `expected_edit_distance`, decodes |
| Aligner | `src/sandbox.cpp` `aligner` | a queue, two strings | one step per arc |
| Data loading | `src/csv_parser.cpp`, `src/sandbox.cpp`, `string_to_logfst` | the open file, `data_string`, the chains | `get_value`, reverse, make chains |
| Log analysis, batch scripts | `python_src/analyze.py`, `*.sh` | none | text and command lines |

How they interact. `context_edit.py` writes the machine and `arc_to_action`;
`featurize.py` reads the latter and writes one line of feature numbers per
line; `FeatureReader` stores these by position; the trainer and the evaluator
number arcs again by iterating over the machine. Only order connects the
three numberings. `train` composes every exemplar with `*fst` (E-step), then
lets `find_min` call `value2` and `gradient2`, both of which overwrite the arc
weights of that same `*fst`, and finally writes the weights `find_min` settled
on. The evaluator reads the arc weights that are left.

What is hard here. The program is sequential: nothing is concurrent, nothing is
persisted that must survive a crash, there are no messages. What can go wrong is
(a) long sequences of legal edits that leave a context untrue, (b) several
numberings of the same arcs that drift apart, (c) weights and counts that exist
in several places and are stale in one of them, (d) loops that must end whatever
real numbers they meet, (e) indices at the end of an array or a file. The list
of hazards with their lines is in `PROJECT.json`.

What makes each part correct, and the properties that say so.

* Machine topology: after any sequence of edits the context says truly what
  surrounds the edit point (`RightWindow`, `LeftWindows`), a path stops only when
  the word has been read (`FinalReadsAll`) and does stop (`ReachesFinal`); paths
  are edit sequences (`ImplementsEditProcess`).
* Machine builder: every target of an arc has a number, whatever the iteration
  order (`NoKeyError`); every arc has a line with its own action, and the lines are
  in the order of the arcs (`ArcToActionCorrect`); edits and reads never leave the
  same state (`EditsDoNotCompete`); no state is a dead end (`Coaccessible`); an
  exemplar has one path for every way of editing (`OnePathPerEditScript`).
* E-step: every exemplar has a lattice (`LatticeNotEmpty`); each arc of a lattice is
  credited to the arc of the machine it was composed from, although that is read off
  another lattice (`CreditedToItsArc`); the count of an arc is
  the expected number of times the paths of the exemplars take it
  (`CountsArePathCounts`), and the counts of the arcs of an edit say how often that
  edit occurs (`CountsOfActions`).
* Feature extraction, `FeatureReader`, arc numbering: the three numberings of the
  arcs agree (`FeaturesOfTheArc`, `FullContextIsOwn`).
* Trainer and minimiser: what the arcs hold, what the counts were made of and what
  point a gradient belongs to stay in step (`ArcsRealiseWeights`, `OneEStep`,
  `GradientOfOnePoint`), and `train` returns (`Terminates`). Normalised weights
  are distributions (`Normalised`), expected counts distribute observed ones
  (`CountsConserved`); the arrays they are added up in do not have room for the
  documented `symbol_bound` (`SymbolBoundSuffices`, violated).
* Evaluator: `log_loss` is the likelihood of the test data (`LogLossIsLikelihood`)
  under a distribution over lower words (`ConditionalDistribution`); the edit machine
  measures Levenshtein distance (`EditsAreLevenshtein`). Neither of the two scores
  built on it is the distance to the one best that its comment promises
  (`EditDistanceToTheOneBest`, `ExpectedEditIsToTheOneBest`, violated).
* Aligner: its queue is what the machine has yet to edit (`QueueIsRightWindow`),
  its strings spell both words (`IsAlignment`).
* Data loading: a chain spells the row it came from (`SpelledForward`); a legal
  file loads (`LegalFileLoads`), but the end of a file is not always noticed
  (`RowsBeyondTheFileAreErrors`, violated).

## 2. The modules

* `ContextEdit` has no variables. It defines the window helpers (`Add`,
  `AddReverse`, `Bump`, `Bump2`), the filters on contexts (`IsContext`), bold
  contexts, the conditions of the arcs (`CanRead`, `CanAbsorb`, `HasFinalArc`)
  and their targets. `Transducer` and `MachineBuilder` are both built on it.
* `EditProcess` is the abstract specification: a word is rewritten from left to
  right by edits that read or write at most one symbol each, and the process
  stops only when the word has been read.
* `Transducer` is a path through the lattice of one exemplar: upper tape, machine
  state, position in the lower word; one action per kind of arc. It implements
  `EditProcess` (`Edits == INSTANCE EditProcess WITH i <- Read, ...`), where
  ABS steps stutter. `Aligner` extends it by what `aligner()` does on each arc.
* `MachineBuilder` is `main` of `context_edit.py`, one action per pass of a loop.
  The iteration order of Python's sets and dictionaries is arbitrary: the
  initial state chooses the order of the symbols, each pass any pending context.
* `FeaturePipeline` extends `MachineBuilder` by `featurize.py` and `FeatureReader`
  and defines the numbers under which the C++ side looks an arc up. A step of it is
  a line of `arc_to_action` (`FeaturizeLine`), a line of the feature file
  (`ReadLine`) or the end of that file (`CloseFile`).
* `Composition` has no variables either. It is what the program uses of OpenFST:
  weighted automata, their composition (`Compose`, with `Connect`), and forward and
  backward sums. A composition numbers its states in the order in which it finds
  them, and its filter keeps paths that differ only in the order of epsilons from
  counting twice. A log weight is the exact fraction whose negative logarithm it is.
* `ArcCounting` extends `FeaturePipeline` and `Composition` by `add_training_data` and
  `calculate_observed_counts`, so that the machine the builder has written is the
  one the exemplars are composed with. Each exemplar is composed twice, with the
  machine whose weights are arc numbers and with the one whose weights are scores;
  `CountLatticeState` walks both side by side, as the code does.
* `PathCounts` extends `ArcCounting` by the reference its counts are compared with:
  `Paths` enumerates the paths of the machine over a pair of words and knows nothing of
  compositions, sums or numbers. It is a module of its own because it is recursive,
  and the prover cannot use a module with recursive operators.
* `LogEvaluator` extends `PathCounts` by `log_loss` and `expected_edit_distance`,
  called after training on other words and with other weights; one action per
  composition. It multiplies numbers where the code adds their negative logarithms.
* `EMTrainer` is `train` with `find_min` inside it. A weight vector is a point of
  a finite set; the model tracks at which point the arcs, `tmp_weights`, the
  function value and the gradient are, and of what each count was made.
* `LocalNormalization` is the arithmetic of `update_arc_weights`,
  `calculate_expected_counts` and `logadd`, over the numbers whose logarithms
  the code works with. Each pass of each inner loop is a step, so that the loops'
  own counters (`arc_id`, `tmp_arc_id`), which find an arc's features and counts, can
  run away from the iterators.
* `DataLoading` is the path of a row from the file to a pair of chains.
* `Evaluator` is the edit machine and `one_best_edit`, over shortest distances.
* `ContextEdit_proofs`, `Transducer_proofs` (with those of `Aligner`),
  `FeaturePipeline_proofs` (with those of `MachineBuilder`), `ArcCounting_proofs` (with
  those of `Composition`), `EMTrainer_proofs`, `LocalNormalization_proofs`,
  `DataLoading_proofs` and `Evaluator_proofs` hold the theorems. Each extends the
  module it is about; those of a module that is built on another extend the proofs of
  that one.
* `MC*` modules and their `.cfg` files instantiate these for TLC.

Correspondence. Variables carry the names of the program where it has one
(`arc_map` is `arcMap`), definitions the names of functions, and `PROJECT.json`
maps each definition to its lines. Operators whose comment begins with "Mutant
of" are plausible wrong versions of the definition below them; they are not used
by any specification, and show that each property notices a mistake.

## 3. What the runs check

| Run | Module and cfg | Shows |
|---|---|---|
| `paths` | `MCAligner` | for windows 1, 2, 1: contexts stay legal; `RightWindow`, `LeftWindows` say what the tape and the output say; `FinalReadsAll`; every path ends in state 0 (`ReachesFinal`); paths are edit sequences (`ImplementsEditProcess`); the aligner's queue is the right window and its strings align the words |
| `builder_121` | `MCMachineBuilder`, `121` | no `KeyError`; every arc has a line with its own action; no state mixes epsilon and reading arcs; state 0 can be reached from everywhere |
| `arc_counting` | `MCArcCounting` | builder, features, E-step and scores in a row: an arc is multiplied with and credited to its own features; the full-context feature belongs to one arc; exemplars have lattices, with one path per way of editing; the two lattices of an exemplar agree arc by arc; the counts of the E-step are those of the paths, under the right arc; `log_loss` is the likelihood of a distribution |
| `expected_edit` | `MCArcCounting`, `Expected` | violation: `expected_edit_distance` is not 0 when the one best is the gold word |
| `trainer` | `MCEMTrainer` | between iterations the arcs realise the weights `find_min` returned; counts are those of one E-step; gradients are of one point; `train` returns |
| `trainer_gradient` | `MCEMTrainer`, `Gradient` | violation: `gradient2` is the gradient of `value2` only where the M-step started |
| `normalisation` | `MCLocalNormalization` | arc weights are distributions per state and label; expected counts add up to the observed ones |
| `normalisation_bound` | `MCLocalNormalization`, `Bound` | violation: with `symbol_bound` the highest label id, an array is indexed beyond its end |
| `loading` | `MCDataLoading` | rows become chains that spell them forward; rows that are there load |
| `loading_rows` | `MCDataLoading`, `Rows` | violation: the row after a terminated last line is accepted |
| `edit_distance` | `MCEvaluator` | the edit machine measures Levenshtein distance |
| `edit_distance_one_best` | `MCEvaluator`, `OneBest` | violation: `one_best_edit` compares with the one-best backwards |

Bounds and why they are enough.

* Topology: the run uses `UlcMax = 1, UrcMax = 2, LlcMax = 1`, where every window
  is in use and the right one has a first and a later symbol. The experiments'
  020, 110 and 111 have fewer or shorter windows; the theorems cover them. Words
  have up to four letters over two symbols, twice the longest window, and the
  lower alphabet overlaps with the upper one without being equal.
* `builder_121` has one letter per alphabet: every window over a letter and the
  boundary occurs, in every iteration order.
* `arc_counting` has windows 1, 1, 1 and one letter per alphabet, so that the upper
  word has a letter and the boundary to read and the lower one a letter or nothing
  to write; templates compare fields for equality only. The exemplars are all pairs
  of an upper word of one to three letters and a lower word of one or two, taken
  two at a time; three letters let an arc occur twice on one path and once on
  another. Test data are the same pairs with upper words of at most two letters,
  independent of the training data. Scores are all 1, or 1 to 3 depending on the
  place of the arc, so that swapped arcs show. `MaxStates` and `MaxArcs` only bound
  the table of scores. The weight of an edit, exp(-1) in the code, is 1/2.
* `expected_edit` has one exemplar with words of one letter, and scores that give one
  arc of each state ten times the weight of the others. What the one best is then needs
  no search: the property speaks of gold words on a path with more than half of the
  probability. What the function returns instead is the log loss plus a number that only
  depends on the gold word: the paths have already been composed with it when their
  distance is taken, and the log semiring adds up all rewritings of the word into itself.
* `trainer` has three weight vectors (the current one, the one tried, another),
  two exemplars, and bounds 3 for the outer, inner and line search loops, which
  are limits of the code (20, 5 and dlib's 100) made small. An inner limit of 0 means
  no limit to dlib; the experiments pass 5, and `BoundAssumption` leaves 0 out. `Debug` is on: debug
  mode leaves the arcs at any point and so contains the other mode.
* `normalisation` has machines with a state whose two groups of arcs interleave,
  with two states that share labels, and with a state without arcs; factors and
  counts are 0, 1 or 2, which suffice to tell sums of different arcs apart. `E`,
  the number whose logarithm is 1.0, is no natural number and so no sum of these
  (`SentinelAssumption`); that a sum in the program is not exactly e is a property of
  doubles. Labels are 0 and 1 and `SymbolBound` is 2, so that the arrays have room
  (`AddArc` needs it, and the run would stop in a deadlock without);
  `normalisation_bound` has the same machines and `SymbolBound` 1, the highest label,
  which is the value the code's comment asks for. `main` passes 100.
* `loading` takes all files of up to three lines out of seven kinds, with and
  without a final line end, asked for up to four rows. `loading_rows` is about files
  with a final line end; its trace takes column 1 before column 2, which C++ leaves open
  (in the other order `get_value` exits, as an empty line has no second column).
* `edit_distance` takes pairs out of five gold words and ten best paths, with
  epsilons at the start and in the middle, repeated letters, and words that differ in
  length; two exemplars show that distances are added up.

Stopping. The runs with `CHECK_DEADLOCK FALSE` model programs that end: a path
that has reached state 0, a script that has exited, a function that has returned.

Fairness. `Transducer` and `Aligner` assume weak fairness of the next-state
relation: the property is about complete paths, which composition enumerates, and
not about a scheduler. `EMTrainer` assumes the same because `train` runs on its
one thread until it returns. No fairness on single actions is needed: `Continue`
is bounded by the iteration limit and `TrialValue` by the line search's.

Undefined behaviour (an index beyond a vector, an iterator beyond a string, the
front of an empty queue, the first element of an empty vector) ends a behaviour
in a state of its own that the properties exclude.

## 4. What is proved

**Paths** (`Transducer_proofs`), for all alphabets, words and topologies that
satisfy the assumptions of `ContextEdit` and `Transducer`:

* `TypeCorrect`, `RightWindowCorrect`, `LeftWindowsCorrect`,
  `FinalReadsAllCorrect`: `Spec => []Inv` for the four invariants.
* `Refinement`: `Spec => ImplementsEditProcess`.

The assumptions are that the boundary symbol and `<EPS>` are in no alphabet, that
state 0 is not a context, that the left windows hold at most one symbol and the
right one at least one (`TopologyAssumption`), and that a string carries as many
boundary symbols as the right window is long. The topology assumption is needed:
`bump` and `bump2` replace the most recent symbol, so a longer left window forgets
the wrong one (the builder ends in a `KeyError` for 2, 1, 0), and with a longer
lower window a FINAL arc competes with ABS arcs (0, 1, 2). The experiments'
topologies satisfy it.

None of the invariants is inductive alone: `RightWindow` survives an edit only
because SUB and DEL never read a boundary symbol of a legal context,
`LeftWindows` only because what leaves the right window is what the tape has
there, and FINAL is taken with the tape absorbed only because a window full of
boundary symbols stands at its end. The inductive invariant `IInv` is the
conjunction of the four. `ContextEdit_proofs` has the lemmas about the helpers (a
slice of a short enough sequence is the sequence; `AddReverse` appends; `Bump2`
drops the first symbol; a window of letters and then boundaries stays one).
`Transducer_proofs` has one lemma per action, under it one step per conjunct.
Refinement follows from the same lemmas: each action maps to the edit of its name
or leaves `Read`, `j` and `done` alone.

**Aligner** (in `Transducer_proofs`), under the same assumptions: `QueueCorrect`,
`AlignmentCorrect`. The inductive invariant `AInv` is `IInv`, the types of the aligner's
variables (`AlignTypeOK`) and these two: the queue can be popped on SUB and DEL because it is the right
window and the right window of such a state is not empty. That the strings spell
the words needs two lemmas about removing blanks: appending a blank changes
nothing (`SpellsBlank`), appending a letter appends it (`SpellsLetter`).

**Builder** (in `FeaturePipeline_proofs`), for all finite alphabets, all iteration
orders and all supported topologies: `BuilderTypeCorrect`, `LookupsSucceed`,
`EditsApart`, `ArcToActionTold`. The inductive invariant `BInv` goes with the
stages of `main`:

* `StageInv`: what is pending and what is done in each loop are contexts of the kind
  the loop is over, and nothing is pending of a loop that is over;
* `TableInv`: the contexts that are numbered are those the first loop is done with,
  each with a state of its own, and there are no other states; with the closure of
  the contexts under the helpers this gives `NoKeyError`;
* `ArcsInv`: arcs end in states, read nothing exactly when they leave a bold
  context, and a context whose loop has not come yet has at most its FINAL arc;
* `MapInv`: `arc_map` has an entry for every arc, with the edit it was added for;
* `LinesInv`, `OrderInv`: a line has the action of its arc, and the lines written so
  far are the smallest in the order of source and place.

`StateZeroReachable` says that from every state of the finished machine arcs lead to
state 0 (`Coaccessible`). A second invariant, `CompleteInv`, says that what the loops
should have added is there: an arc to 0 that neither reads nor writes for every
context at which the word ends, all edges of `EdgesOf` for every context the loops
have visited. `NoTrap` is the reason why this suffices: reading boundary symbols until
the right window is full, then deleting its letters, makes twice the number of letters
plus the room left in the window smaller with every arc, and ends where FINAL is
possible. Hence no set of states other than the empty one is closed under the arcs
(`NoClosedSet`). `Within[d]`, the states at most `d` arcs from 0, is a recursive
function; that it exists, and that it grows with `d` until nothing is left, is shown
by way of a smallest counterexample, which the well-foundedness of the natural numbers
gives.

**Feature pipeline** (`FeaturePipeline_proofs`), under the assumptions of the builder:
`FeaturesTypeCorrect`, `ArcsHaveTheirFeatures`, `EditsHaveTheirOwnFeature`. The
inductive invariant `FeatInv` adds to `BInv`: which edit each arc of a context is
(`EditInv`), that the lines are in strictly ascending order (`LinesApart`), that
`features_seen` numbers its features without a gap or a repetition (`IsTable`), that
the lines printed so far have the numbers the table gives to the features of their
arcs (`PrintedInv`), and that what has been read is what was printed (`ReadInv`). The
three numberings agree because the lines, once the machine is finished, are the arcs
in the order of state and place, and the number C++ gives an arc is the number of arcs
before it in that order. A feature of the full context belongs to one arc because the
numbered contexts are different from each other and the table is injective.

**E-step** (`ArcCounting_proofs`), for any number of exemplars, all finite words over
all finite alphabets, all scores and all supported topologies: `CountsCreditTheirArcs`
(`CreditedToItsArc`), `ExemplarsHavePaths` (`LatticeNotEmpty`) and `CountsTypeCorrect`
(`CountTypeOK`). Beyond the assumptions of the builder there is `ExemplarsAssumption`:
an upper word is letters followed by as many boundary symbols as the right window
holds, a lower word is letters. Nothing is assumed of `Scores`. The proof has three
parts.

* *Weights do not matter to shape.* `Alike` automata differ in their weights alone.
  What `Matches`, `Good`, `Moves`, `Reached` and `PlaceIn` return depends on labels and
  targets only, so compositions of alike automata are alike (`ComposeAlike`), state by
  state and arc by arc, and state n of both comes from the same state of the machine
  (`LatticesAlike`, with `Place` and `ArcAt` for where a state and an arc come from).
  The weight of an arc of a lattice is the weight of the machine's arc multiplied with
  `One` (`LatticeArcs`), so that the number in it arrives unchanged; by
  `FeaturePipeline_proofs` it is the number of the arc's line. `ArcsCredited` says all
  this of one exemplar (`Credits`). These are facts about sequences built step by step
  (`Found`, `Extended`, `InOrder`), shown by counting up to their length, which again
  rests on a smallest counterexample (`CountingUp`).
* *The lattices stand still.* `CreditedToItsArc` is not inductive: it is silent between
  exemplars. `CountInv` adds to the invariant of the feature pipeline that once the
  machine is loaded it stays (`LoadedStill`), that `lattices` are the compositions of
  this very machine with its arc numbers and `log` that with the scores (`LatticeInv`),
  and that the initial state of the machine is that of the empty context (`StartInv`).
  What `arc_id` has counted is the number of arcs of the lattice's states so far
  (`ArcsBefore`).
* *There is always a path.* A context is `Live` at a place of an upper and a lower word
  if its right window ends there. From a live context an arc goes on to another one
  (`AbsorbsOn`, `InsertsOn`, `DeletesOn`): ABS while the window has room, INS while there
  is something to write, DEL while there is a letter in the window. Each makes `Togo`,
  twice what is unread plus what is unwritten plus the length of the window, smaller,
  and when none is left FINAL is possible and both words are at their end
  (`EndsThere`). By `CompleteInv` of the builder these arcs are in the machine, and a
  walk to the end through an automaton puts its places among the good states of both
  compositions (`WalkBefore`, `WalkAfter`), so the lattice has its first state
  (`WalkGivesLattice`). The invariant is `PathInv`: `CountInv`, `CompleteInv`, and that
  the phase is never `"Undefined"`.

**Trainer** (`EMTrainer_proofs`), for all sets of weight vectors, data sizes and
iteration limits: `TypeCorrect`, `ArcsRealiseWeightsCorrect`, `OneEStepCorrect`,
`GradientOfOnePointCorrect`. The inductive invariant adds `Progress` to the four
properties: the limits that the loop counters are known to respect at each place,
and that during the E-step all counts so far have the point at which the arcs
still are.

**Normalisation** (`LocalNormalization_proofs`), for all machines, feature maps,
weights and counts that satisfy `MachineAssumption` (labels are natural numbers) and
`ValueAssumption` (scores are positive, as an exponential is, and counts are not
negative), and for a sentinel that no sum equals: `LoopsTypeCorrect`,
`WeightsNormalised`, `ExpectedCountsConserved`. The inductive invariant `NInv`:
the counters equal the number of arcs passed (`PositionInv`); a total is the sum over
the arcs passed of its state and label (`TotalInv`); an arc the second loop of
`update_arc_weights` has passed weighs its score divided by the whole sum (`ProbInv`),
and so does every arc once the function has returned (`NormalInv`); the same for
expected counts (`ExpectedInv`).
The lemmas on sums (`SumAdd`, `SumScaled`, ...) are shown for all finite sets by way
of a smallest counterexample under strict inclusion. That labels are within the arrays is
not proved: it is false for the documented `symbol_bound` (`normalisation_bound`), and in
the constructor's array, which is `num_arcs` long whatever the labels are, it depends
on the machine.

**Data loading** (`DataLoading_proofs`), for all files over all sets of characters:
`LoadingTypeCorrect`, `SpelledForwardCorrect`, `LegalFilesLoad`. The inductive
invariant `LInv` says how many rows each loop has dealt with (`LoopInv`), what of a row
of two columns is in `data_string_train` and in the chains before and after `main`
reverses it (`ColumnsInv`), and `LegalFileLoads`. The lemmas say where the first and
the last comma of a line are and that reversing twice changes nothing.

**Evaluator** (`Evaluator_proofs`), for all alphabets, words and best paths:
`EvaluatorTypeCorrect`, and `EditsMeasureLevenshtein`, whose hypothesis is that every
output symbol is an input symbol. The constructor makes its deletions out of the input
symbols although what is deleted is a letter of a gold word, over the output symbols:
of a letter that only the output table has, the machine can neither delete nor
substitute anything, and the distance is infinite. The invariant `TypeInv` says which
arcs each loop of the constructor finds, `SumInv` that `editDist` is the sum over the
exemplars that have been scored. The argument is that of the classical algorithm, for
a definition of the distance that does not mention it: `Levenshtein` is the cost of a
cheapest monotone matching of letters with letters. A matching of the first m letters
with the first n labels leaves over the last letter, the last label, or matches the two
(`MatchingSplit`), and each of these costs what the arc of the machine costs
(`LeaveLeft`, `LeaveRight`, `MatchLast`, `EditCosts`), a label 0 nothing; so the
distance of a state is the cost of a cheapest matching if it is so of the states before
it (`CheapestStep`). That the recursive function of `Distance` exists and that every
state has this property are shown by way of a smallest counterexample.
`SizeAssumption` makes `Infinity` larger than any two words are long together.

The inductive invariants were model-checked as invariants of the runs' instances
before they were proved.

Only model-checked: the liveness properties (`ReachesFinal`, `Terminates`), which are
out of the prover's reach; and the properties that compare sums over paths with an
enumeration of the paths (`OnePathPerEditScript`, `CountsArePathCounts`,
`CountsOfActions`, `LogLossIsLikelihood`, `ConditionalDistribution`): the enumerations are recursive operators, and that a sum
from state to state equals a sum over paths is an induction over the lattice. What the
proofs say of the E-step is that it looks at the right arcs; that it adds up the right
fractions is checked on the instance of `arc_counting`.

## 5. What is not modelled

* Real numbers. `ArcCounting` and `LocalNormalization` use exact numbers in place
  of doubles that hold logarithms, so rounding is left out, that of an arc number
  through `exp` and `log` too. The value of the likelihood and the components of
  the gradient are not computed. (The gradient of the regulariser lacks the factor
  2 of the derivative of `value2`'s term; this is listed as a hazard.)
* `one_best` and the alignment decodes: their callers in `sandbox.cpp` are commented
  out. (They would print the stored arc number, which is 1 more than that of
  `arc_to_action`.)
* The member `weights` after `train`, which `train` leaves as the constructor set it
  although its comment says it updates the weights: nothing reads it.
* `WeightReader`, `DataReader`, `logsub` and the dot products, which nothing
  calls; `analyze.py`, which extracts numbers from logs; the batch scripts.
* The vendored code. All but about 3000 of the repository's lines are dlib and
  gtest, of which the program uses `find_min` with its line search and stop
  strategy. Their control is in `EMTrainer`; the choice of the search direction is
  arithmetic on reals and stands in the model as the choice of any point.
* Text: symbols are values, so symbols that are separators of the file formats
  (`,` `-` `0` `9`) are excluded, and so are words with symbols outside the
  alphabets, which have no lattice.

## 6. Plan

Done: every module of section 2, with the proofs of section 4.

What could follow, in this order: that a lattice has one path for every way of editing,
with `Paths` as a recursive function; the derivative of the regulariser on small
integers; words outside the alphabets, which reach `calculate_observed_counts` with an
empty lattice.
