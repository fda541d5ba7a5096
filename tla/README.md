# A verification project for gguf-sentinel

gguf-sentinel audits GGUF model files: it parses the container (header, key/value table, tensor
table), runs 17 rules over the result, and turns the findings of a batch of files into an exit code
that gates a CI job. This directory holds TLA+ models of that pipeline, the TLC runs that check them
on small instances and the TLAPS proofs of what holds for every instance. Paths below are relative to
`src/sentinel/` (`tests/` and `README.md` with a line number: to `src/`); the definitions of each
module are tied to source lines in `PROJECT.json` under `map`.

## 1. Inventory of the system

| part | state it keeps | operations | talks to |
| --- | --- | --- | --- |
| `reader.py` byte cursor | buffer length, position | `read_exact` and its scalar and string callers; raises `Eof`, `OverAlloc`, `BadString` | called by the parser |
| `parser.py` container parser | header fields, kv entries and their first-match index, alignment, tensor infos, recorded findings | `parse_gguf`: about twenty reads in a fixed grammar, each with its checks; `tensor_bytes` | reader; returns `ParsedModel` or raises `SentinelError` |
| `registry.py` type table | constant | `typeinfo`, `row_bytes` | rules, parser, generator |
| `keys.py` key registry | constant | `resolve`, `try_resolve` | rules |
| `rules.py` rules | the list of findings | 17 rules in the order of `RULES`; `analyze` runs, deduplicates and sorts | `ParsedModel`, bytes of the file |
| `findings.py`, `report.py` | severity registry | `make`, `exit_code_for`, renderers | rules, command line |
| `cli.py` command line | loop index, accumulated exit code | `scan_file`, `_cmd_scan`, `main`; `explain`, `generate`, `types` print tables | everything, and the file system |
| `generate.py` writer | none | `_tensor_layout`, `build_model`, `mutate` (corruption classes) | tests, fuzzer |
| `fuzz.py` harness | counters of outcomes | a loop over subprocesses with a timeout | writer, `scan_bytes` in a child |
| `tools/`, `tools/vendor`, `tests/` | | build-time derivation, vendored upstream, tests | |

The program is sequential; what makes it hard is elsewhere:

* **The parser** trusts numbers it has just read. Counts and lengths drive loops, budgets are taken
  before or after the bytes of the number itself, three `try` blocks with different clauses surround
  reads that raise three exceptions, and offsets recorded on the way are quoted by every finding.
* **The rules** each see the model from one side and abstain separately. Whether their silence means
  anything is a property of all of them together. A rule that raises loses everything found before.
* **The end of `analyze`** drops findings that repeat a key and sorts the rest; each renderer sorts
  them again with a key of its own. A field missing from the key, or two orders that differ, lose or
  misnumber verdicts.
* **The scan loop** looks at a path three times while other processes own the disk, handles one
  exception class of several, and folds the files' codes with `max`.
* **The writer** computes where a tensor is and appends its bytes in two separate ways, and every
  corruption class has to survive the parser's own checks to reach the rule it is meant for.
* **The fuzz driver** runs beside a child process that may answer, crash, die, hang, or answer just as
  the driver gives up on it.

What makes each part correct:

| part | properties |
| --- | --- |
| cursor and parser | every file ends in a result or a coded error; the error points at the damage; no file that holds what it claims is refused; recorded offsets are those of the bytes; first key wins; alignment as declared; no unscreened number reaches the rules; termination; records are taken one by one and a file is delivered whole or not at all |
| layout rules | overlaps are found by comparing neighbours only; an audit without errors means that every tensor can be read; a file packed as the writer packs it has no finding |
| shape rules | block numbering is exact; orientation does not matter; silence means that the attention geometry fits together; the writer's fixtures are silent exactly when their spec is consistent |
| tokenizer rules | silence means that arrays, vocabulary, ids and template markers agree |
| deduplication and sort | no code, place or severity is lost; nothing is reported twice; what is printed is what was returned |
| scan loop | exit 0 means every path was audited and passes; exit 3 means fatal; 2 and 1 tell mild failures from broken files; verdicts are those of files the path held; termination |
| writer | what is written parses, its offsets point at its bytes, and it has no finding; every corruption class is detected in every model it is applied to |
| fuzz driver | a booked status is the scanner's doing with the payload of that round; offenders are archived; exit 0 means that every payload was scanned to the end; termination however children behave |

The hazards behind these properties are listed with their lines in `PROJECT.json`.

## 2. Modules

| module | models | state and actions |
| --- | --- | --- |
| `GgufFormat` | value types, scalar widths, power of two, `_align_up` | operators only |
| `Reader` | `reader.py` | `len`, `pos`, `raised`; `Advance`, `Refuse`, `AdvanceOverBadText` are the three ways in which a read ends |
| `GgufParser` | `parse_gguf` | one action per read with the checks up to the next read; `ReadFails` leaves the exception in `raised`, `Handle` is the `except` clause around it |
| `RecordStream` | what a parser of such tables promises | abstract specification: announce, take one record and pay for it, deliver whole or refuse |
| `TensorAudit` | the six layout rules, `tensor_bytes`, `row_bytes` | `doc`, `rule`, `found`; one action per rule |
| `ShapeAudit` | the eight hyperparameter and shape rules with their helpers | `doc`, `rule`, `found`; one action per rule; `Raise` ends the audit |
| `SyntheticModel` | `ModelSpec`, `_tensor_layout`, the architecture keys of `build_model` | operators over `ShapeAudit` |
| `Analyze` | the three tokenizer rules, deduplication and sort of `analyze`, the sort of the renderers, the tokenizer section of `build_model` | `doc`, `findings`, one step per marker of the template, one per finding in the deduplication |
| `ModelWriter` | the tensor table and data of `build_model`, `mutate`, what `parse_gguf` makes of the result | `layout` to `file` tensor by tensor (`WriteTensor`, `CloseFile`), `Damage`, then `Refuse` or `Deliver` (of a `ParsedModel`) into the actions of `TensorAudit` |
| `ScanCli` | `scan_file`, `scan_bytes`, `_cmd_scan`, `exit_code_for`, the handlers of `main` | the disk, the loop, the exception in flight, the reports; `Change` is the environment |
| `Fuzz` | `scan_child` with its child script, `fuzz` and its archive, the exit code | driver and child as two processes; `TimeOut` may come before or after `ChildEnds` |
| `Numbers` | | lemmas: smallest and largest elements, recursion on the natural numbers, rounding up, powers of two |
| `GgufParserProofs`, `TensorAuditProofs`, `ShapeAuditProofs`, `AnalyzeProofs`, `ModelWriterProofs`, `ScanCliProofs`, `FuzzProofs` | | theorems |
| `MC*` | | instances for TLC |

`GgufParser` extends `Reader` and `GgufFormat`, and implements `RecordStream`. `TensorAudit` and
`ShapeAudit` take what `parse_gguf` returns; their documents are constants because a rule never
changes one. `SyntheticModel` composes the writer with the shape rules, `ModelWriter` composes it
with damage, parser and layout rules, and `Analyze` holds its tokenizer section. `Analyze` takes the
findings of parser and earlier rules as any list. `ScanCli` and `Fuzz` see a file as the class of its
content: what parser and rules make of it is what the other modules are about.

Modelling decisions a reader should know:

* *Bytes.* The parser meets every byte of a file at most once, so a read returns any value of its
  field and the file is never written out. Field widths are the real ones; the sign bit 2^63, the
  ceiling of 50,000,000 and the chunk limit are constants that the runs scale down. A string is a
  member of `Texts` with a length in bytes.
* *Errors.* `E_HUGE_ALLOC` and the alignment warning are recorded before they are raised or
  ignored, as in the code; findings recorded by a parse that then raises are lost with it.
* *Arithmetic.* Python's integers do not overflow, neither do these.
* *Findings* are a code and what it names (a tensor, a key, or 0 for the file); wording, expected
  and actual values are left out. In the rule modules two findings with the same code and place
  are one; `Analyze` keeps the whole list with offsets and a told-apart `actual`, because there the
  repetition is the subject.
* *Names* enter `ShapeAudit` as the canonical suffixes they end with and the number behind `blk.`.
  `attention.rot_ndims` is not an official suffix, so `try_resolve` returns None and the exemption
  for odd heads never applies; the branch at rules.py:310-317 cannot be reached after a successful
  `_dumbbell` (equal leading dims would have to differ), and `allow_square` adds nothing to it.
* *`set(range(declared))`* raises above the constant `RangeLimit`; the machine decides the number.
* *Tokenizers.* A text is told apart by what the rules ask of it: whether it starts with `<|`, and
  which `<|...|>` markers a template uses, in order. The id keys are the six names the rule has.
* *Written files.* In `ModelWriter` a file is its size and the fields a mutation can change; weights
  are not written out. Where a tensor's data is (`dataAt`), where its record says it is (`infos`) and
  where the record itself ends (`recordEnds`) are kept apart. The parser is there by what it refuses (`Refusals`) and delivers, since the
  fields are known; its reads one by one are in `GgufParser`. `dirtyPadding` follows from records
  that a lowered count leaves in the padding. The class `flip` is left out: it changes any byte and
  has no detector. Its instance has `ALIGN` 8, a junk floor of 16, a sample floor of 24 and a key/value
  section of 3 pairs in 40 bytes, so that three tensors are enough for every case; widths and block
  sizes are real.
* *Fuzzing.* The scanner's treatment of a payload is any function of the payload (returns, refuses,
  raises with a message of one or more lines, dies, hangs). A payload that does not fit in one process
  argument (base64, 131,072 bytes with its end mark) makes the spawn fail.
* *Environment of a scan.* `Change` replaces what one path names by any other state; reading a file
  is one step. `held` is a history variable that no step of the program reads: for each path taken, the
  states it went through from the start of its scan to its report. Renderers and a failing standard
  output are not modelled.

Operators with a comment "Mutation:" are the faulty variants that `PROJECT.json` pairs with each
property; no other definition uses them.

## 3. Runs

| run | checks | instance and why it is enough |
| --- | --- | --- |
| `parser_tables` | `TypeOK`, `RecordsTile`, `FirstMatchWins`, `AlignmentHonoured`, `OnlyScreenedNumbers`, refinement `StreamSpec` | up to two pairs and two tensors in files of seven sizes: duplicate keys, the alignment key first, second, twice and of every type, arrays of none to two items of strings and numbers, dims and offsets with the sign bit. Two records are the least that has a "previous" and a "first" |
| `parser_damage` | `NoRawException`, `FaultIsLocated`, `RejectionsAreJustified`, `Terminates` | every file size from 0 to 72, so a cut at every byte of a header, a pair and a tensor, with counts at 0, at the ceiling, above it and at the sign bit, and lengths at 0, above the chunk limit (in files that hold so many bytes and in files that do not) and at the sign bit |
| `tensor_layout` | `TypeOK`, `OverlapsReported`, `CleanLayoutIsReadable`, `PackedLayoutIsClean`, `WriterTypeOK`, `StrongClassesAreCaught`, `LostTensorsAreReported`, `AlignedFixturesAreSound` | all tables of up to three tensors over six shapes (three sizes, a broken row, an empty tensor, an unknown type) and four offsets, in data sections of four sizes; three tensors are the least for a pair that overlaps without being neighbours in the table. Beside them (the run's specification is `WriterSpec`) all files of up to two tensors of eight kinds, and some of three, under every corruption class, every cut included |
| `shape_audit` | `TypeOK`, `BlocksAreContiguous`, `OrientationIgnored`, `SilentModelSplits`, `SilentExactlyOnConsistentSpecs` | fixtures of 251 specs; one fixture with every two hyperparameters replaced by ten values, every tensor reshaped in four ways, every subset of three blocks under every declared count, foreign architectures, upstream names |
| `scan_batch` | `TypeOK`, `ZeroMeansAllPass`, `ThreeMeansFatal`, `TwoMasksOne`, `VerdictsAreOfTheDisk`, `Terminates` | two paths in every state (absent, directory, small or big file of five contents), command lines of one or two paths that may repeat one, all flags, one change at any moment. Two paths are the least for one code to hide another, one change for a file to differ between two of its three looks |
| `report` | `TypeOK`, `NothingIsLost`, `EachOnce`, `PrintedAsReturned`, `SilentTokenizerLoads`, `FixturesAreSilent` | the writer's section with vocabularies of 0 to 7 around its five special tokens; one part of a small section varied at a time (arrays absent, empty, short and long; ids of every kind from -1 to beyond the last token; templates of up to three markers), before them seven lists of up to three findings that repeat each other in whole or in part |
| `fuzz` | `TypeOK`, `VerdictsAreTheirOwn`, `OffendersAreArchived`, `ZeroProvesClean`, `Terminates` | three rounds over four payloads of real sizes, one kind of which is too long for an argument; two payloads of each kind share a name in the archive; every pair of outcomes of the scanner. Three rounds are enough for an offender to be replaced in the archive with a third round in between |
| `audit_raises` | `AuditNeverRaises`, violated | a one-dimensional `token_embd.weight` raises IndexError, against fuzz.py:7-9 |
| `every_matrix` | `EveryCanonicalMatrixFits`, violated | a misshapen `blk.1.attn_qkv.weight` is not reported, against rules.py:273 |
| `fuzz_scanned` | `EveryPayloadIsScanned`, violated | the default model (116,960 bytes) is longer in base64 than one argument may be, so the round is booked as `spawn_error` without a scan, against README.md:88 |
| `writer_gaps` | `FixturesAreClean`, violated | behind a tensor whose size is no multiple of the alignment the data follows without the gap its record assumes, against generate.py:150 and tests/test_roundtrip.py:1-2 |
| `missing_file` | `SentinelErrorsAreRendered`, violated | `E_NOT_A_FILE` is not registered, so the handler itself raises, against findings.py:40 |

*Fairness.* `Terminates` of parser and scan loop is checked under weak fairness of the program's own
step: `parse_gguf` and `_cmd_scan` are single calls on one thread, which runs until it returns or
raises. Nothing is assumed of `Change`. `Terminates` of `Fuzz` assumes the same of the driver only
(`WF_vars(Drive)`, where the expiry of `subprocess.run`'s timeout is a step of the driver); a child
need never take a step. The rule modules state no liveness: their loop is over a constant tuple. No
run switches the deadlock check off; a finished program stutters through `Done` or `Ended`.

*Bounds.* `MaxChanges` bounds the environment in `ScanCli` (the proofs do not need it small);
`Iterations` is the fuzzer's own parameter; `Sizes`, `Counts` and the other sets of `GgufParser` and
`ModelWriter` are the field values of an instance; the rule modules have no counters.

## 4. What is proved

All theorems are for every value of the constants under the named assumptions of the modules. Most of
them (`MaxChunkAssumption`, `ParserAssumption`, `AuditAssumption`, `ShapeAssumption`,
`AnalyzeAssumption`, `ScanAssumption`, `FuzzAssumption`) say no more than that numbers are natural
numbers, sets are sets of the right things, a scalar fits a chunk, and codes have an order. The
writer's are about values that are fixed in the code:

* `SpecAssumption`, `NameAssumption`: `general` and `tokenizer` are prefixes of keys and not
  architectures; a name the writer gives a tensor (generate.py:115-132) ends with the suffixes its
  text ends with.
* `WriterAssumption`: the alignment is a power of two, a fixture has no more tensors and pairs than the
  parser takes, and a pair is at least 13 bytes long.
* `MutationAssumption`: what `mutate` writes is wrong by itself: counts above the ceiling, versions,
  alignments and types that do not exist (generate.py:289-325).
* `ScaleAssumption`: what `mutate` writes is out of scale for the fixture: offsets of 10^11 and rows of
  10^12 lie behind its data, 1,200,000 bytes of junk exceed the allowance and the padding. It is
  stated with the longest tensor of a layout, so that it bounds the fixtures and not their shape; the
  default fixture is below it by five orders of magnitude, junk excepted, for which it means
  fewer than about 4,700 tensors. A file of 10^12 bytes would hide a wrong offset: the assumption is
  needed.

Every safety invariant the runs check, and the refinement, is the consequence of a theorem. Each
inductive invariant is `TypeOK` with what is named below; the first lemmas of a module say that it
holds initially and that each action keeps it, the theorems follow from it.

* **`GgufParserProofs`: `TypeCorrect`, `ReaderExceptionsAreCaught`, `FirstEntryWins`,
  `TensorsAreScreened`.** `TypeOK` alone is not inductive: that a handler exists for the exception in
  flight depends on where the parser is when a read fails. `Control` says that only a string read can
  leave `BadString`, that it is inside the kv or the tensor section, that the unguarded read of the
  magic cannot fail because four bytes were counted before it, and which locals are filled in.
  `Indexed` ties `kv_map` to the table while both grow, `Screened` carries the checks of a tensor's
  numbers from the locals, where they are made, to the table, where the rules read them.
* **The same: `RecordsAreCounted`, `ParserImplementsStream`, `RefusalsAreJustified`,
  `FaultsAreLocated`.** `Counting` adds how many records are in the tables at each point and how far
  (`Behind`) the cursor has at least come in the current one; from it every step is a step of
  `RecordStream` or a stutter, and each record costs at least its smallest encoding (13 bytes a pair,
  32 a tensor). The same bound makes refusals sound: `Damage` says of an exception in flight that the
  bytes it asks for are missing, or there and more than a chunk, and where, and that the locals quoted later lie in the record under
  construction; `Grounded` says of a verdict what both properties need.
* **The same: `AlignmentIsHonoured`.** `Resolved` says that nothing is recorded before the tensor table
  and what the alignment is from then on. The property speaks of 2^k, the code tests `n & (n - 1)`:
  `PowersOfTwo` (in `Numbers`) says that these are the same numbers.
* **The same: `RecordsAreTiled`.** `Tiled` says of the stored records that each begins where the one
  before it ends (`Stored`), of the cursor between two records that it is at the end of the last
  (`Between`), and inside a record, for every read, how far behind its start it is (`Place`).
  An array of strings is the hard case: its bytes are a recursive function of the items, and one more
  item adds its own bytes (`StringsBytesGrow`), because two functions with the same recursion agree,
  the smallest place where they differ being refuted by the place before it.
* **`TensorAuditProofs`: `TypeCorrect`, `OverlapsAreReported`, `CleanLayoutsAreReadable`,
  `PackedLayoutsAreClean`.** The invariant `Settled` says of each rule that has run that its defect is
  absent or its code reported (for overlaps, both ways). The core is `NeighboursSuffice`: if in offset
  order a later tensor q starts before the end of p, then the one right behind p starts no later than
  q, hence inside p. No induction over the table is needed. That a packed file is clean is the other
  direction, for all six rules: in a packed table offsets grow, so the order of the sort is that of
  the table, and the data of the last tensor is the last.
* **`ShapeAuditProofs`: `TypeCorrect`, `BlocksAreCounted`, `OrientationDoesNotMatter`,
  `SilenceSplits`, `SilenceDecidesSpecs`.** `Numbered`, `Shaped` and `Tiled` say what the block rule,
  the shape rule and the head rules have established once they have run without a finding. For the
  blocks: a declared count n and a set of numbers whose largest is n - 1 and which misses nothing below
  n are `0..n-1`; a model without a numbered block is outside the comparison, as in the code. For `SilenceSplits` the separate checks have to be multiplied out: no single rule
  states it. For the fixtures of `SyntheticModel`, `Decided` goes through the rules one by one, both
  ways: a consistent spec gets past each of them in silence, and one that got past them is consistent.
  It needs the tensor that each suffix finds in a table of any number of blocks.
* **`AnalyzeProofs`: `TypeCorrect`, `NothingLost`, `NothingTwice`, `PrintedInOrder`, `SilenceLoads`,
  `FixturesOfAnySize`, `FixturesSilent`.** `Kept` says that the deduplicated list holds the first
  finding of every key met so far, once and in order; `Placed` that the sorted list is a permutation of
  it in order; `Unread` and `Silent` what the tokenizer rules that have run without a finding have
  established. The core is `PlaceIsABijection`: counting how many findings are ahead of each gives
  every finding a place of its own, so the sort loses and repeats nothing. `Judged` is the converse of
  `Silent`: sections without a flaw are not reported, miscounted ones are; the written section is one or
  the other, for every vocabulary size (the run checks eight of them).
* **`ModelWriterProofs`: `WriterTypeCorrect`, `StrongClassesCaught`, `LostTensorsReported`,
  `AlignedFixturesSound`, `WrittenFilesAreAudited`.** The invariant `WInv` says for each stage what the
  file can be. While it is written: where each record ends and says its data is (`Listed`), and how far
  the position in the records and the length of the data have come apart (`Placed`: by less than one
  alignment a tensor, and not at all when all sizes are aligned). Afterwards (`Lived`): which damage of
  the written file it is, which of the parser's checks it meets, and what the document looks like that
  gets past them; `Audited` is the invariant of `TensorAuditProofs` on that document. The theorems
  then go class by class: no earlier check of the parser answers with another code, and no rule that
  should see the damage abstains. The aligned fixtures are packed in the sense of
  `PackedLayoutIsClean`, which does the rest.
* **`ScanCliProofs`: `TypeCorrect`, `GateHolds`, `FatalIsNotMasked`, `TwoHidesOne`,
  `VerdictsAreFaithful`.** The invariant says that exactly the paths behind the loop have been reported
  on (`Progress`), that the accumulated code answers for all of them (`Gate`, and `Ladder` for 1 and 2)
  and how a run ends (`Ending`); `Looked` adds what the three looks at a path have established, each of
  something the path held by then, however often it changes in between. A directory has a size: a path
  whose files are all above `MAX_FILE` can still be audited if it was a directory when its size was
  taken, which is why `Small` asks for a state that is not too big and not for a small file. One
  change is too few for that, the proof needs it.
* **`FuzzProofs`: `TypeCorrect`, `VerdictsHold`, `ArchiveHolds`, `ZeroHolds`.** The child lives only
  while its own round waits (part of `TypeOK`), so what is collected is the answer to this round's
  payload, and a late answer has nowhere to go. `Round` ties the status in hand to the payload in
  hand, `Archived` says which offenders have a file at each point of a round, `Ending` what an exit
  code stands for.

`Numbers` stands in for induction over the naturals (whose library theorem takes an operator, which the
installed provers cannot instantiate): the order of the naturals is well-founded, so a smallest
counterexample exists and is refuted by its predecessor, and functions recursive on the naturals exist.

Only model-checked: the liveness properties `Terminates` of parser, scan loop and fuzzer (fairness is
out of the prover's reach), and the violations, which are single behaviours.

## 5. Disagreements between code and documentation

Five are shown by runs (section 3). Others, met while modelling:

* Files of version 1 and 2 are parsed, where the repository's README.md:161 says that they report
  `E_VERSION`; `GgufParser` has the guard of the code, and `parser_tables` delivers such files.
* `blk.0.attn_output.weight`, its upstream name, ends with `output.weight` and is judged as the
  output matrix, against rules.py:33 ("checks fire only when present").
* The exit codes of a batch are folded with `max` over a ladder on which 2 is milder than 1: a
  warn-only file turns the 1 of a broken one into 2, against report.py:6 and README.md:81.
  `TwoMasksOne` states what the code does.
* report.py:8 gives 3 to "the tool could not parse the file at all (SentinelError)"; such a file exits 1
  unless `--fatal-fatal` is set, as README.md:81-82 and cli.py:197 say. `ThreeMeansFatal` follows the
  code.
* Under `--fail-on info` a file without findings exits 2, since rank 0 reaches threshold 0; a
  warn-only file under the default exits 0, where README.md:82 says 2 (report.py:48-52).
* A tensor count set too low on a table that ends on the alignment leaves no dirty padding: the file
  is audited clean, with table records read as weights (rules.py:426-430, README.md:47).
  `LostTensorsAreReported` states exactly when that happens.
* rules.py:19 promises that a missing hyperparameter abstains; `r_q4k_even_hidden` fires when a head
  count is absent, because None is not 0 (rules.py:232).
* The id keys of `r_special_ids` are typed by hand (rules.py:529): `unk_token_id`, `sep_token_id`,
  `pad_token_id`, where the derived registry has `unknown_token_id`, `seperator_token_id` and
  `padding_token_id`. The writer writes the first of these, which the rule never reads.
* `fuzz --seed` is documented to reproduce (README.md:88-90), but the archived seed is the seed of
  the mutation: the name holds neither the extra flip nor the base model, so an archived file can be
  replaced by another of its name, and the seed alone does not rebuild it.
* `parse_gguf` is documented to return recovered findings; those recorded before a raise
  (`E_HUGE_ALLOC` at parser.py:115 and 121) are lost with it.
* `max_alloc` of the reader is stored and never enforced (reader.py:67).
* Two unregistered template tokens share a dedup key, so one finding is dropped (rules.py:622).

## 6. Not modelled

The renderers' layout and `explain`, `types` and `generate` (formatting of tables); `replay` of the fuzzer
(one `scan_child` whose status is printed); `mutate`'s class `flip` (any byte, no detector); the bytes
of weights, of which the rules ask two facts (padding all zero, data nearly constant): the first is
derived in `ModelWriter`, both are inputs of `TensorAudit`; the contents of the derived key and type
tables, and `keys.py`, which looks up in them without state; `tools/` (build-time text processing that
runs once over vendored sources); memory use.

## 7. Plan

Done: cursor, parser and refinement; layout, shape and tokenizer rules; the end of `analyze`; the scan
loop; the writer with damage and re-parse; the fuzz driver; a theorem for every safety invariant that a
run checks. Left, in order of worth:

1. Action properties with proofs: what a step may never undo (a record taken, a finding made, an exit
   code made worse, a file archived).
2. The writer of `ModelWriter` and the fixtures of `SyntheticModel` and `Analyze` put together: the
   default fixture has no finding of any of the 17 rules.
3. A composition of `ScanCli` with `Analyze` in place of the classes of content.
