# A TLA+ model of precept

precept is a header-only C++20 library of small types that carry a fact about a value
("this span has at least N elements", "these two spans share no storage") from the place where
it was validated to the places that rely on it. This directory models the library, the example
programs that show how it is used, and the checker of its knowledge bundle; it says what they
promise; TLC checks the promises on small instances and TLAPS proves the central ones for all.

Paths such as `include/precept/set_once.hpp` are paths of the repository.

- [The system](#the-system): components, state, operations, interactions, hard behaviours
- [Modules](#modules): what models what, and how
- [Runs](#runs): what is checked, and the bounds
- [Proofs](#proofs): what is proved, from what, and how
- [Findings](#findings): where code and documentation disagree
- [Not modelled](#not-modelled) and [Plan](#plan)

## The system

| component | source | state it keeps | operations |
|---|---|---|---|
| `at_least_span`, `non_empty_span` | `include/precept/span/at_least_span.hpp`, `non_empty_span.hpp` | a view, with minimum N in its type | construction from fixed extent, `try_from`, weakening, `subspan`, `prefix`, `rest`, `as_span`, `front`, `back` |
| `block_span` | `include/precept/span/block_span.hpp` | a view, with block size N in its type; iterators of their own | construction, `try_from`, qualification, `size`, `operator[]`, iterator arithmetic and comparison |
| `checked_span` | `include/precept/span/checked_span.hpp` | none: the fact goes into `std::span`'s extent | one function |
| `non_overlapping_spans` | `include/precept/non_overlapping.hpp` | two views | `checked_non_overlapping`, accessors |
| buffer pipelines | `examples/non_overlapping_buffers.cpp` | memory shared by roles | `copy_chunk`, `process_in_stages`, `processing_buffers` and its phases |
| `set_once` | `include/precept/set_once.hpp` | a slot, unset or holding a T | `try_set`, `try_emplace`, `has_value`, `value`, copy and move construction |
| `never_decrease` | `include/precept/never_decrease.hpp`, `examples/never_decrease_transitions.cpp` | a value | `try_update`, `value`, copy and move construction; the policies beside it: `accept_revision`, `observe_high_water`, `set_local_progress` |
| `same_size_pair` | `include/precept/same_size.hpp`, `examples/same_size_relations.cpp` | two views | `checked_same_size` and five operations over equally long spans |
| `aligned_ptr` | `include/precept/aligned_ptr.hpp` | a pointer, alignment in its type | `try_from`, weakening, `get` |
| `nonzero`, `index_below`, `narrow_exact` | `include/precept/*.hpp`, `examples/nonzero_scaling.cpp` | a number | validation, `value`; `decimate` |
| boundary examples | `examples/packet_parsing.cpp`, `narrow_exact_wire_fields.cpp`, `index_below_fixed_tables.cpp`, `non_empty_processing.cpp`, `fixed_block_processing.cpp`, `set_once_configuration.cpp`, `nonzero_scaling.cpp` | what was validated | a boundary for each carrier, and the consumers that check nothing: `parse_packet`, `encode`, `field_offset`, `summarize`, ... |
| knowledge checker | `tools/check_knowledge.py` | the report of a run; the fence a scan is in, the frontmatter it has passed | the checks of concepts, ADRs, indexes, logs, links; `split_frontmatter`, `without_code_fences`; exit status |
| build, package, CI, compile-time tests | `CMakeLists.txt`, `tests/`, ... | none | |

How the components meet:

- `checked_span` and `prefix` put a fact into the extent of a `std::span`, and the constructors
  of `at_least_span` and `block_span` from fixed-extent spans believe the extent without
  looking at the size. All three are therefore in one module, chained in every order.
- `non_overlapping_spans` and `same_size_pair` are validated by one function and consumed by
  others, several calls later. The consumers are modelled with the loops in which an error
  would show.
- All carriers of views borrow: the owner of the elements goes on living, growing and moving.
- `split_frontmatter` and `without_code_fences` decide what the other checks of the knowledge
  checker see as headings, bullets, dates and links. The links are looked for in the whole text,
  the rest in the body, each with a scan of its own.
- The library has no threads, I/O or persistence of its own. The non-atomic behaviours are those
  of callbacks (constructors of T inside `set_once`), exceptions, calls in unforeseen
  orders, and loops over storage that another view may share.

What is hard to test in it, component by component (the complete list with source lines is
"hazards" in `PROJECT.json`):

- *Carriers of views.* A chain of weakenings, subspans and conversions must never reach a fact
  that is false, a wider view, or mutable access to const elements; boundaries such as
  `Offset == N`, an empty `rest()` or an empty `block_span` must lose no element; what was
  validated may go stale when the owner moves.
- *Overlap.* The relation is symmetric and each scan is one-sided; three stages read the input
  after earlier ones have written the output.
- *set_once.* The flag is tested before T's constructor runs, and that constructor may throw,
  or call other objects, or this one; copies and moves happen at any time.
- *never_decrease.* Reports come late, twice and out of order, and are narrowed on the way; a
  revision must not be taken twice.
- *Boundaries.* What is validated once is used without a check, far away: bytes are shifted out of
  a number, a prefix is cut off a packet, widths are summed up to an index.
- *Equal sizes.* Several spans are indexed by one counter, long after the sizes were compared.
- *Single values.* Arguments are converted at the call, before anything looks at them; addresses
  are rounded up, and strides added, next to the top of their types.
- *The checker.* Early returns, exceptions and a scanner with state decide about the exit
  status that a change is judged by.

## Modules

Every module states its properties in a last section. `MC...` modules hold what only TLC needs.
`Mutant_x`, defined right before `x`, is `x` with a plausible fault; nothing uses it. It documents,
and lets anyone check, which fault each property would catch: replace the body of `x` by
`Mutant_x` and the property fails.

`Examples` extends three models of programs that share nothing, and `KnowledgeProofs` extends two
models, so that these have names of their own for what every model has: `Init`, `Next`, `Spec`, `TypeOK` and
`vars` are `ConsumersInit`, ... in `Consumers`, `IteratorInit`, ... in `BlockIterator` and
`FencesInit`, ... in `CodeFences`.

### SpanCarriers

`at_least_span`, `block_span` and `checked_span`, used by a client that owns a vector
(`owner`), borrows it through a `std::span` variable (`span`) and keeps carriers in variables
(`carrier`). One action is one call; template arguments are parameters of the action; a
requires-clause is a guard, so that a call that does not compile is not enabled.

| code | model |
|---|---|
| `at_least_span(std::span<U, Extent>)`, `try_from`, converting constructor | `AtLeastFromFixed`, `AtLeastTryFrom` (`too_short`), `AtLeastWeaken` |
| `subspan<Offset>()` for Offset < N and = N | `AtLeastSubspan`, `AtLeastSubspanAll` |
| `prefix`, `rest`, `front`, `back`, `as_span` | `TakePrefix`, `TakeRest`, `front`, `back`, `AsSpan` |
| `checked_span<N>` | `CheckedSpan` |
| `block_span` constructors, `try_from`, conversion, `size`, `operator[]` | `BlockDefault`, `BlockFromFixed`, `BlockTryFrom` (`partial`), `BlockQualify`, `block_count`, `block` |
| `std::vector`, `std::span`, qualification conversions (external) | `Resize`, `Reallocate`, `Borrow`, `Assign`, `qualification_compatible` |

`from` (the span that was lent) and `end` (where the validated view ended) are history fields.
An element is an address; its contents are left out, since no operation reads them.

### BlockIterator

The iterator of `block_span` as a value `[base, index]`, with the block_span it came from
assigned other blocks meanwhile (the range is a borrowed range), and the range-for loop of
`checksum_blocks` in `examples/fixed_block_processing.cpp` one iteration at a time. Moves that
are undefined for a random-access iterator (before the first block, past the end) are not
actions. `TakeBegin`, `TakeEnd` are calls of `begin()` and `end()`, `PlusAssign`, `MinusAssign`, `Increment`,
`Decrement` and the postfix forms the movements; `Enter` and `SumBlock` are the loop.

### ByteRanges, NonOverlapping, BufferPipelines

`NonOverlapping` runs `checked_non_overlapping` one address comparison at a time:
`Call` is the entry with the test for empty ranges, `ScanFirst` and `ScanSecond` are the two calls of
`contains_element_address`, `Return` builds the carrier. The standard's `std::addressof`
comparison is a comparison of addresses. `ByteRanges` has the relation itself (`overlap`) and the
decision with each scan taken as one membership test; `NonOverlappingProofs!TestDecidesRelation`
shows the two equivalent, which allows `BufferPipelines` to take the call as one step.

`BufferPipelines` runs the three operations of `examples/non_overlapping_buffers.cpp`, each a
validation (`accepted`) and a sequence of loops (`program`), loop iteration by loop iteration
over one memory. Bytes are symbolic: since the loops only copy, store constants and xor, a byte is
a sum over GF(2) of initial bytes and the constant 1, and is represented by the set of its
summands. One symbolic memory stands for every content; a property about equal bytes
is a property about equal sums.

### SetOnce, OneWaySlot

`SetOnce` has any number of objects. `try_emplace` is two or three steps: the test of
`has_value()`, which returns false or pushes a frame for T's constructor, and
`ConstructorReturns` or `ConstructorThrows`, which pops it. While a frame is on the stack the
constructor may do what a client may do: call other objects, make, copy, move and destroy them.
`try_set` with its two overloads is `try_set_copy` and `try_set_move`; `arg` says which of
the client's variables has been moved from. The constant `Reentrant` says whether a constructor of
T may also call the object that it is being built in; the documentation does not speak of it (see
[Findings](#findings)). `std::optional::emplace` is external and is modelled by what
`try_emplace` relies on.

`OneWaySlot` is the promise: a slot goes from unset to set at most once in a life, and
only a move out of it changes what a set slot holds. `RefinesOneWaySlot` says that SetOnce, with
its frames, arguments and history hidden, implements it.

### NeverDecrease, HighWater

A sender's cumulative count is reported over paths that keep every report and deliver any of them
at any time (the primary and the replay path of the example); `Deliver` converts a report to T at
the call, which wraps, and runs the object's `update`. T is any integral type: it has `Modulus` values
from `Lowest` on, with a sign or without. An object is a `never_decrease`
(`try_update`) or one of the plain variables that the example updates by a rule of their own, as
`policy` says: `set_local_progress`, `accept_revision`, which refuses an equal number too, and
`observe_high_water`, which answers nothing. `told` (the reports as they were sent, before
the conversion) and `answer` are history. `ValueIsGreatest` speaks of the values that the reports convert to,
`ValueWasMeant` of the counts that were meant: as long as every report fits T the object has fallen behind
none of them, and as long as none is below T's values it is ahead of none, so that a conversion may make a
count that is too large a regression and never an advance. `HighWater` is
`std::max` over what was seen; `RefinesHighWater` says that under every policy the value moves like
that, and that the policies differ in the answer only.

### SameSize

`checked_same_size` and the operations of `examples/same_size_relations.cpp`: a validation
(`valid`, which asks the pair that `carried` gives the carrying operations whether it is there), then loops (`program`) that run up to `bound` and index the spans in `others` by the
same `index`. Numbers are not computed; `done` records for each element which stages have worked on
it, in which order. `job_results` also compares ids (`mismatch`).

### Consumers, Examples

`Consumers` is the other example programs, seen as their subject: a boundary validates something
raw once (`ReceivePacket`, `MakeHeader`, `Index`, ...; `carrier` is what it returned, `raw` is
history), and consumers then use the carrier, in any order and any number of times, without a
check of their own (`ParsePacket`, `ProcessPacket`, `Encode`, `DecodeField`, `ReportReadings`,
`ChecksumBlocks`, `ConfiguredWorkers`, `Plan`). Operators have the names of the C++ functions. Bytes have `Base`
values instead of 256. The loops are recursive functions, a value for each iteration: `running`
is the sum of `checksum_blocks` and `field_offset`, `compared` the range of `summarize`. Where C++ has
none of the values of an optional, the model has `None`; before a boundary is called and before a
consumer answers, `raw` is `Nothing` and `answer` is `NoAnswer`. `ResultsRight` compares the answers with what came in, by definitions
that do not follow the code: the encoded bytes spell the number, the offset of a
field is the first of its bytes in the record laid out byte by byte (`laid_out`).

`Examples` puts `SameSize`, `Consumers` and `BlockIterator` side by side: a step of one leaves the
variables of the others alone. As they share nothing, it runs one after the other.

### ValueCarriers

`narrow_exact`, `index_below`, `nonzero` and `aligned_ptr`, used by a client with one variable
(`raw`, a number of some type or a pointer) and `std::optional` variables (`carrier`).

| code | model |
|---|---|
| `narrow_exact<T>`, `std::in_range` | `narrow_exact`, `in_range`; a result replaces the client's number, `std::nullopt` leaves it |
| `index_below<N>::try_from`, `nonzero<T>::try_from` | `IndexTryFrom`, `NonzeroTryFrom`, with `convert` for the conversion of the argument |
| `aligned_ptr::try_from`, converting constructor, `get` | `AlignedTryFrom` (`align`), `Weaken` (`weakens`), `Get` |
| `decimate`, `decimated_length` in `examples/nonzero_scaling.cpp` | `Enter`, `Iterate` (`more`, `advance`), `Leave`, `decimated_length` |

A type is its least and greatest value, and everything that C++ computes in it wraps: `Size` stands
for `std::size_t`, and an address is one of its values. `std::align` (external) is modelled for
the call that `try_from` makes, where the space is exactly the object. `decimate` is
synchronous: the client does nothing else before it returns. `meant` and `from` are
history: the mathematical value of a number when it entered, and its type at the call. `Exact`
has the conditions under which the value that is checked is the one that was meant: a number no
wider than the parameter, and for `index_below` a bound that an array can have; beyond them a
wider number is checked as another one, as everywhere in C++.

### CheckKnowledge, CodeFences

`CheckKnowledge` is a run of `tools/check_knowledge.py`: `Refuse` (exit status 2),
`CheckRoot`, `CheckDocument` for each document in the order of the sorted `rglob`, `Raise` for an
exception that nothing catches (`raises`: `read_text` of a file that is not UTF-8, `exists` of a link target
that is too long for a file name, `yaml.safe_load` of an impossible date), `Finish`. `ExitIsVerdict` covers every way to
end: 2 is for the environment alone, a report is written exactly when no document raises, and 0 is for a
written report on a conforming bundle. What an exception then does to the exit status is
`WarningsNeverFail` (see [Findings](#findings)). A document is a record of what the checks can tell
apart in it; `check_concept`, `check_adr`, `check_metadata`, `check_index`, `check_okf_version`,
`check_log` and `check_links` are the functions of the same names, with their early returns,
and yield the set of rules that a document breaks. What YAML, the file system and the regular
expressions say about a document is a field of it.

`CodeFences` reads a document line by line, and every state is a document that ends there.
`kind` and `body` are what `split_frontmatter` would return: `Open` and `Close` are the delimiters, and
a frontmatter that is never closed leaves the whole text as the body. `links` and `structure` are the
two scans of `without_code_fences` (`fence` and `kept` are the variables of the function); the
second begins anew when a frontmatter is closed. A byte-order mark (`bom`) is removed before the second
only. Beside them runs the reading of Markdown (`block`, `outside`) as history, to compare with: a marker
that is indented by four columns or more is no fence (`indented`), backticks with a backtick in the text after
them open none (`info`), and a block ends at a marker of its character that is as long and has no text after it
(`Begins`, `Ends`). `misread` records that the body has shown a marker that fences for one of the two readings
only, and `skewed` that one of the scans has met a marker that the other one has not. Markdown's
containers are left out (a fence in a block quote or a list item is seen by neither reading, or is indented
text to one of them), and so are HTML blocks; lines are those of `splitlines`.

## Runs

All runs that are expected to pass are exhaustive. "expect violation" runs belong to [Findings](#findings).

| run | what it shows | bounds |
|---|---|---|
| `span_carriers` | facts, views and constness stay right in every chain of calls; blocks, and prefix with rest, are a partition; a carrier reaches a dead element only when the span that was lent is dead itself | one slot, template arguments up to 3, a vector of up to 4 elements that moves between two overlapping allocations |
| `non_overlapping` | the decision is exact, calls return | four addresses, spans of up to 3 bytes |
| `buffer_pipelines` | validated operations behave as if they read all their input first; rejections are right | six bytes, spans of up to 3 |
| `set_once` | one construction per life, failures leave the slot unset, arguments are moved by constructions only, refinement of `OneWaySlot` | 3 objects, 3 values, constructions nested to depth 3 |
| `never_decrease` | under every policy the value is the greatest of what the reports convert to, a conversion makes up no advance, answers stay true, no revision is taken twice, refinement of `HighWater` | 2 objects of any policies, T = -2 .. 1, counts from -4 to 2, three of them reported |
| `examples` | no index out of bounds, every element in every stage in order, the verdict; what consumers compute without a check is true of what came in; positions denote the blocks they were obtained for, and their order, equality, distance and arithmetic agree (`PositionsConsistent`); a loop over blocks sees each element once | 2 ids, up to 3 elements; bytes of one bit, datagrams of up to 5, minima 3 and 4, four fields; blocks of 2, up to 3 in a view, two positions, views that overlap |
| `value_carriers` | facts are true of the values given out, and decided about the values that were meant; a strided loop reads what it should and fills what was planned | one slot, 8 addresses, types of 2 to 4 bits, alignments 1 to 8, N up to 5, spans of up to 4 |
| `check_knowledge` | a report is written unless a document raises, its exit status is the verdict on the bundle, ADRs are always checked, log order | every kind of document beside a conforming root index, and all pairs of few kinds |
| `code_fences` | the scanner keeps what Markdown puts outside code blocks if every marker fences for both or for neither, wherever the body begins; the two scans agree about the body | markers of length 3 and 4, indented or not, with nothing, a text or a backtick behind them, 8 lines, with and without frontmatter and byte-order mark |
| `set_once_reentrant`, `code_fences_nested`, `check_knowledge_raise` | expect violation | the same or smaller |

Why the bounds are enough for the interesting cases:

- *SpanCarriers.* No property relates two carriers, and a call reads one and writes one, so that one slot
  already sees every chain of calls. Four elements with N up to 3 have views below, at and above every
  minimum, one and several blocks, and a partial block; two allocations that overlap let an
  address be alive in one and dead in the other. The proofs hold for all values.
- *NonOverlapping.* Starts at four adjacent addresses and sizes 0 to 3 have separate, touching, partly
  overlapping, nested, equal and empty ranges, in both orders.
- *BufferPipelines.* Six bytes hold three separate buffers of two; three-byte buffers make the
  counts of the phases differ, as they do when `min` matters.
- *SetOnce.* Depth 3 has a construction in a construction in a construction, and a third object to
  copy to or move from meanwhile.
- *NeverDecrease.* T is -2 .. 1, and counts from -4 to 2 lie two below its values, on each of them and above:
  conversions change numbers in both directions and across the sign. Three reports, each delivered any number of
  times, are one that fits, one that is converted, and one to come after or before them.
- *ValueCarriers.* No property relates two carriers. Types one bit narrower, equal and one bit wider than
  `std::size_t`, signed and unsigned, have every kind of conversion; alignment 8 leaves one
  aligned address, so that rounding up wraps from all others; spans take up to half of the
  addresses, as the largest object does, and steps up to all of them.
- *CheckKnowledge.* Findings about one document do not depend on another, so that full variety is
  needed for single documents and pairs only for what the run carries along: the root
  index, the count, the exit status, an exception in the first or second document. Logs have up to
  three headings over three dates and none: an undated one between two dated ones.
- *CodeFences.* Three lines are a frontmatter with a marker in it; five more open, nest, close and
  reopen a block with text between.
- *Examples.* With bytes of one bit, lengths up to 5 and sequence numbers from -2 to 17 take two and
  four bytes, every bit of them, and go past both ends; datagrams lie below, at and above each
  minimum; indices reach past both tables.

Four more properties that the modules state are proved for all constants and have no run of their
own: `ExtentIsSize` (SpanCarriers; a wrong extent also shows as a false carrier fact),
`CarrierDisjoint` (NonOverlapping; it follows from `DecisionExact`), `LinearWork` (NonOverlapping) and `NoRegression` (NeverDecrease).

Deadlock is checked in every run but those of `CodeFences`, where a document of `MaxLines` lines
ends.

*Fairness.* One specification assumes any: a thread inside `checked_non_overlapping` takes its next
step eventually (`WF_vars(InCall)`), as a running thread does that waits for nobody. The client is not
assumed to do anything.

## Proofs

The modules `*Proofs` are checked by TLAPS, for every value of the constants that satisfies the
named assumption of the modules they extend: `ConstantsAssumption`, `IteratorAssumption`,
`FencesAssumption` or `ConsumersAssumption`. They say that sizes and counts are naturals and values integers, that a block has an
element and a byte two values, that headers and minima of `packet_parsing` are in the order that the code has
them in, and that markers such as `Dynamic` or `None` are not values; nothing bounds a
size. Every invariant, action property and refinement that a passing run checks is stated by a theorem.

| module | theorems | inductive invariant |
|---|---|---|
| `SpanCarriersProofs` | `TypeCorrect`, `ExtentTrusted`, `FactsAreTrue`, `ProvenanceKept`, `NeverTruncates`, `AccessIsSafe`, `PartitionHolds` | `IInv`: types, and for the span and each carrier its extent, fact, provenance and end |
| `NonOverlappingProofs` | `TestDecidesRelation`, `TypeCorrect`, `DecisionIsExact`, `CarrierIsDisjoint`, `WorkIsLinear` | `IInv`: adds `Progress`, what the scans have ruled out so far |
| `BufferPipelinesProofs` | `TypeCorrect`, `OperationsAreAtomic`, `RejectionsAreRight` | `IInv`: adds `Progress`, that memory is what the loops that are over and the first `index` iterations of the current one make of it |
| `SetOnceProofs` | `TypeCorrect`, `AtMostOnce`, `FailuresLeaveUnset`, `ImplementsOneWaySlot`; `MovesAreByConstruction` | `IInv`: adds `SetBecauseInstalled`, that a slot is set exactly when a T was put into it, and `Framed`, that targets of the frames are alive, unset and distinct; `CallsOK`, types, for the last one |
| `NeverDecreaseProofs` | `ValueIsTheGreatest`, `ValuesWereMeant`, `AnswersStayTrue`, `NeverRegresses`, `ImplementsHighWater` | `IInv`: `Types` with `ValueIsGreatest` and `AnswerStaysTrue` |
| `ValueCarriersProofs` | `TypeCorrect`, `FactsAreTrue`, `DecisionsAreExact`, `DecimatesRightly` | `IInv`: `RawInv` for the client's value, `Carried` for each carrier, `LoopInv` for `decimate` |
| `ExamplesProofs` (SameSize) | `TypeCorrect`, `IndicesAreInBounds`, `VerdictsAreRight` | `IInv`: types and `SameSizeInv`, with `Followed`, which stages each element has seen |
| `ExamplesProofs` (Consumers) | `ResultsAreRight` | `ConsumersInv`: `Validated`, that the carrier is what its boundary returns for what came in, and that an answer is right |
| `ExamplesProofs` (BlockIterator) | `IteratorTypeCorrect`, `PositionsAreConsistent`, `EachElementIsSummedOnce` | `IteratorInv`: types, `CursorsOnRange`, `LoopOnRange` |
| `KnowledgeProofs` (CheckKnowledge) | `TypeCorrect`, `ExitIsTheVerdict`, `AdrsAreChecked`, `LogOrderIsReported` | `IInv`: types, `Collected`, that the findings are the verdicts on the documents so far, `Counted`, `Passed`, that none of these raised, and `Exit`, where a run that has ended stands |
| `KnowledgeProofs` (CodeFences) | `FencesTypeCorrect`, `ReadingsAreEqual`, `ReadersAreEqual` | `FencesIInv`: types, `ReadersAgree`, and `Aligned`, that the scanner's fence is the block's character unless a marker was misread |

- *SpanCarriers.* No fact is inductive alone: a carrier built from a fixed extent is right only
  because the extent is, and the extent of a `prefix()` only because the carrier is. Hence one
  invariant over both. `AccessSafe` and `Partition` follow from it without induction: from
  `size >= N` the reach of a carrier is inside its view, from provenance the view is inside what
  was lent; `WholeBlocks`, `BlocksApart` and `BlocksCover` are the arithmetic of blocks.
- *NonOverlapping.* `Progress` says that no element before `position` has the address that is looked for,
  and, in the second scan, that the first one has missed altogether. At the end `MissedAll`
  turns that into disjointness: if two non-empty ranges share a byte, the first byte of one
  lies in the other (`StartsInside`).
- *BufferPipelines.* `Effect` is a loop as one assignment, each byte computed from the memory before
  the loop. One more iteration is one more byte of it (`IterateIsEffect`) only if what the loop reads
  has not been written by the loop itself: `Separate`, which `accepted` gives for every loop of every
  program (`ProgramSeparate`). What is left is to compose the effects of up to three loops byte by
  byte (`CopyChunkIsAtomic`, `StagesAreAtomic`, `PhasesAreAtomic`).
- *SetOnce.* The theorems before the semicolon have the hypothesis `~Reentrant`. Under it, the targets
  of the frames are distinct, so that a slot found unset is still unset when its construction
  ends, whatever ran in between. Without it they are false, as the violation run shows.
  `MovesAreByConstruction` holds for every T: only the return of the innermost frame moves.
- *NeverDecrease.* `UpdateMoves` is what the four policies have in common: the value becomes the greater
  of the two, and an answer says whether it was taken. `StepOfValues` maps each step to a step of `HighWater` or a stutter: a rejected
  report is a maximum that changes nothing. `ValuesWereMeant` follows from `ValueIsGreatest` by what a conversion
  does: it keeps the values of T, and takes no number above them to a larger one (`ConvertKeeps`, `ConvertLowers`).
- *ValueCarriers.* `RawInv` says that the client's number is the one that was meant, so that what a
  validation decides about it (`IndexResult`, `NonzeroResult`, `AlignedResult`) it decides about that one;
  these rest on what a conversion does in, below and above a type's values (`ConvertKeeps`,
  `ConvertNegative`, `ConvertPast`) and on rounding up in a range whose size is a multiple
  (`RoundUp`). `LoopInv` adds `index = written * step` while the loop runs: as an object has at most
  half of the addresses, an index inside it is at least `step` unless it is the first, and one more
  step does not wrap (`Stride`).
- *SameSize.* A bound comes from the pair or from the first span and an index goes into the other spans;
  that `valid` was true of the call, and that the pair is of the spans of the call, stays true until
  the operation ends. `VerdictRight` needs `Followed`: elements before `index` have seen one stage more
  than those after it, so that a stage that ends has worked on all of them.
- *Consumers.* `Validated` is all that a consumer may rely on, and each consumer's answer follows
  from it alone (`ParsePacketRight`, `EncodeRight`, ...); a boundary forgets the answer. The work is in
  the loops. That a recursive function is what it says is itself a theorem here: `LoopExists`
  builds the run of a loop iteration by iteration, `LoopIs` says that the function that is
  chosen has the first value and the steps, and everything else about loops is an induction over
  iterations in the form "0 is in S, and with n - 1 also n, so that all are" (`Reaches`, from the well-foundedness
  of the naturals). So the checksums of blocks add up to the checksum of the whole
  (`ChecksumsAddUp`), the range is of readings and around all of them (`SummaryIs`), the sum
  of widths is the length of the record laid out so far and a field starts there (`OffsetIs`, `FieldStarts`), and
  taking a number apart into bytes and spelling it out again gives the number back (`TwoBytes`, `FourBytes`).
- *BlockIterator.* A position stays between begin and end of the range that it was obtained from, whose
  size is a multiple of N. Everything else is arithmetic of `base + index * N`: positions with
  one base are ordered like their addresses because N is not zero, and a block that begins before the end ends
  before it (`BlockBounds`). `LoopOnRange` says that the elements of the blocks before the position have been summed up.
- *CheckKnowledge.* `Collected` makes the findings a function of the bundle and of the next document, and
  the exit status is then decided document by document: the check of one tells it an error exactly when it does
  not conform (`ConceptRules`, `IndexRules`, `LogRules`, together `VerdictIs`), whatever its early returns leave unread. `check_log` compares each dated heading with the one before it:
  `NeighboursDecide` shows that this finds any two that are out of order: of the pairs that are, one with the
  fewest headings between has no dated one there. A run that ends without a report stands at a document that raises, and one
  that ends with it has passed them all (`WrittenIfNoneRaises`).
- *CodeFences.* The scanner remembers a character and Markdown a character and a length. As long as
  `misread` is false, every marker outside a block opens one for both and a marker of the block's character always
  closes it, so that both are inside or outside together. `ReadersAgree` is inductive by itself: closing a frontmatter puts every line that was
  kept before the body, and from there on both scans make the same moves.

Only model-checked: the liveness property `Returns` (NonOverlapping), as liveness under fairness is
out of the prover's reach; `LinearWork` bounds its steps from above for spans of every size.

## Findings

1. **A constructor of T that calls its own `set_once`** (`include/precept/set_once.hpp:85`).
   `try_emplace` tests the flag and then runs the constructor; a nested call on the same object
   passes the same test. Both calls construct a T in one storage and both return true
   (run `set_once_reentrant`), where the header says that the slot "can transition from unset to
   set at most once". No document excludes such a T.
   When the outer construction throws afterwards, the exception propagates and the slot is set,
   where line 81 says "If construction throws, the exception propagates and the slot remains
   unset" (`FailureLeavesUnset` fails under the same constants).
2. **Code blocks that show code fences** (`tools/check_knowledge.py:135`). The scanner compares
   the first three characters of a marker only. A four-backtick block that shows a
   three-backtick one, or an open block that shows a fence with an info string, is closed by
   what it shows, and part of the example is read as structure (run `code_fences_nested`), where
   line 125 says "Drop fenced code blocks so examples are not read as document structure". Lines 129 to 132
   take markers for opening fences that open none in Markdown (indented by four columns or more, or backticks
   with a backtick behind them): the document from there on is dropped as an example, and the next opening
   fence ends that, so that its example is kept.
3. **A warning that fails the check** (`tools/check_knowledge.py:184` and `:153`). `Path.exists()` raises
   OSError for a link target that is too long for a file name (up to Python 3.13), and `yaml.safe_load()`
   raises ValueError, which is no YAMLError, for a date like 2026-02-30. Nothing catches either: the process
   prints a traceback, writes no report, loses what it had found in other documents, and exits with 1 for a
   bundle without any error (run `check_knowledge_raise`). Line 14 says that "broken links never fail the
   check", and line 19 that 1 is the status "if any error was reported". A document that is not UTF-8 raises
   too (line 396); no text promises anything for it, and `WarningsNeverFail` leaves it out.

Two observations that contradict no document. `check_links` scans the text and the other checks its body: a line of the
frontmatter that begins with a code fence (in a block scalar, say), or a byte-order mark before a
fence in the first line, makes the two take each other's examples for text from there on (`skewed`). And the comment on `decimate` (`examples/nonzero_scaling.cpp`, line 34) says that a zero
step would never terminate; the loop also ends when the output is full.

## Not modelled

- In `check_knowledge.py`: the regular expressions and YAML. They are pure functions of text; the
  models take what they say about a line or a document as given.
- `aligned_buffer_processing`: its calls of `try_from` and `get` are actions of ValueCarriers, and
  what it adds is a sum of floats.
- Build files, header listing, install package, CI: file lists and compiler invocations.
- The compile-time tests: concepts and deleted functions belong to C++'s type system. The models
  take a requires-clause as a guard and have no action for a deleted function.
- Threads: no type of the library is shared between threads by its own means, and `set_once`
  and `never_decrease` are documented as not thread-safe.

## Plan

Written, in this order: SpanCarriers (the core: the facts all of the span family carries) and its
proofs; ByteRanges, NonOverlapping and its proofs, and BufferPipelines on top of them; SetOnce with
the abstract OneWaySlot; NeverDecrease with the abstract HighWater; CodeFences;
CheckKnowledge; BlockIterator; SameSize; ValueCarriers; the policies of NeverDecrease and the
frontmatter of CodeFences, with their proofs; Consumers, and Examples that composes it with SameSize and BlockIterator.

Then the proofs of BufferPipelines, SameSize, BlockIterator, CheckKnowledge and Consumers.

To come: a step count that would bound the loops of BufferPipelines from above (as `LinearWork` does for
`checked_non_overlapping`), and containers in the Markdown reading of CodeFences.
