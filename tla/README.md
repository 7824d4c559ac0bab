# Verification of duckdb-dbn

`duckdb-dbn` is a DuckDB extension that reads Databento Binary Encoding (DBN) files,
plain or Zstandard compressed, as SQL tables. This directory holds TLA+ models of its
own logic (`src/src/dbn_native_decoder.{hpp,cpp}` and `src/src/dbn_extension.cpp`), TLC
configurations that check them on small instances, and TLAPS proofs about them.

Line numbers below refer to those two files: "decoder" is `dbn_native_decoder.cpp`, "header"
is `dbn_native_decoder.hpp`, "extension" is `dbn_extension.cpp`. `PROJECT.json` names, for
every definition, the lines it stands for.

## The system

A query such as `SELECT ... FROM read_dbn('day*.dbn.zst', symbols := true) WHERE symbol = 'ESH4'`
passes through four layers, each of which keeps state between calls.

| Component | State it keeps | Operations | Talks to |
|---|---|---|---|
| **Inputs** (decoder 45-146) | file handle; for zstd the compressed block, its cursor, the decompressor, "end seen" | `OpenInput` (sniffs the magic), `Read` (may answer short only at the end), `ReadExact` | the file system, libzstd |
| **Record reader**, `DbnFileReader` (decoder 148-325) | list of remaining paths, current input, metadata of the current and of the first file, block buffer with two cursors | constructor, `OpenAndParseFile`, `AdvanceToNextFile`, `EnsureBytes`, `NextRecordView`, `NextRecordRaw` | pulls from one input; pulled by the scans |
| **Symbol tracking** (header 107-145, decoder 327-361) | `symbol_pool_` (strings that never move), `live_symbols_` (id to string) | `ObserveSymbolMapping`, `CurrentSymbol`, `NextAs` | fed by the reader, read by the scans |
| **Filter pushdown** (extension 70-428) | `DbnHeaderFilter` (ranges and IN-lists), the body filter expression built on the first chunk | `BuildHeaderFilter`, `IngestFilter`, `TightenIntRange`, `TightenTsEventRange`, `Matches`, `BuildBodyFilterExpr`, `EvalBodyFilterExpr` | DuckDB's `TableFilterSet` |
| **Chunked scan** (extension 447-502, 4347-4413) | output chunk, `sym_scratch` (one pointer for each row), reader, filters | the inner scan of each schema, `ScanWithBodyFilter`, `FillSymbolColumn`, `NoteSymbol` | called by DuckDB's `PhysicalTableScan`, pulls from `NextAs` |
| **Table functions** (extension 504-4522) | bind data: paths, layout, symbol column, dispatched scan | one bind and one scan per schema, `ReadDbnBind`, `LookupSchemaHandler`, `ExpandPaths`, `LoadInternal` | opens the first file at bind, opens all again at initialisation |
| **dbn_metadata** (extension 4112-4173) | one row, emitted or not | bind, init, scan | the reader's metadata |
| **Replacement scan** (extension 4318-4329) | none | rewrites `FROM 'x.dbn'` to `read_dbn('x.dbn')` | DuckDB's binder |
| **dbn_records** (extension 4181-4308, 4488-4514) | reader, header filter, cached body filter | scan over `NextRecordRaw`, and its own copy of the wrapper's loop | called by DuckDB, pulls from the reader |
| **Cells** (in every scan; `dbn_emit_helpers.hpp`) | the vectors of the chunk and their NULL marks | typed write of one field to one slot: `EmitPx`, `EmitTsOpt`, `EmitChar1`, `EmitCstr`, `SetInvalid` | the records' structs, DuckDB's vectors |

One query is single-threaded (extension 471-477: "these scans declare no parallel state"), so
there are no data races to model. What makes the code hard is something else:

* **A buffer under a zero-copy view.** `NextRecordView` decodes a header, then asks for more bytes,
  which may compact or reallocate the very buffer the header lies in.
* **Input in pieces of three sizes.** A compressed file is read in blocks, decompressed by a library that may
  keep its output back, and asked for in pieces of yet another size; a piece that is short means the end.
* **Ends that look alike.** "No more bytes" may be the end of a file (go on with the next), of the
  last file, a truncated header, a truncated body, or a damaged compressed input.
* **State of another file.** `metadata_` belongs to the current file, `first_metadata_` to the
  first; the buffer, the symbols and the bound columns outlive a file.
* **Pointers handed out now and read later.** Rows snapshot pointers to symbols; later mappings of
  the same chunk must not change what they point to.
* **A protocol with a trap.** An empty chunk means "finished" to DuckDB, so a body filter that
  rejects a whole chunk must not return it.
* **Vectors used again.** A value written to a slot leaves the NULL mark of the chunk before, and NULL leaves
  its value; three loops write the columns of definitions, one for each version, and each must write all of them.
* **Two filters for one predicate.** DuckDB removes a pushed filter from the plan. Every filter is
  applied either on the header or on the body; one that falls between is applied nowhere.
* **Tables that must agree.** Twenty schemas appear in the binds, in the dispatch of `read_dbn`, in
  the registration, in the header layouts and in the struct chosen for each DBN version.
* **Files that change between bind and initialisation.** `read_dbn` chooses the scan from a file it
  then closes and opens again.

What makes each component correct: the *inputs* hand over the capture's bytes in order and are short only at
its end; the *reader* delivers the records of the files byte for byte and
in order, then an end that stays, or an exception, and never loops for ever; *symbols* are those in
force where the row stands; *filters* select the rows the predicate selects; the *scan* delivers
every wanted row once and ends only at the end; each *cell* is its record's field, and NULL exactly where that is
undefined or missing; the *table functions* decode each record with the
struct it was written in.

## Modules

| Module | What it is |
|---|---|
| `DbnFile` | what the reader needs to know of a file: bytes named `<<file, offset>>`, the checks of `OpenInput` and `OpenAndParseFile`, record and trailer lengths; the assumptions on the constants |
| `ByteSource` | the abstract contract of `IDbnInput`: the bytes in order, a short answer at the end, or an exception |
| `DbnInput` | `FileInput::Read` and `ZstdInput::Read` around a decompressor; implements `ByteSource` |
| `DbnInputProofs` | its invariant and its refinement, proved |
| `RecordStream` | the abstract contract of the reader, without a buffer |
| `DbnReader` | `DbnFileReader` with its buffer, cursors, metadata and loops; implements `RecordStream` |
| `DbnReaderProofs` | the reader's invariants, and its steps as steps of `RecordStream`, proved |
| `FilterPushdown` | building the header and the body filter from a `TableFilterSet`, and the rows they let through |
| `FilterPushdownProofs` | that it never loses a row, never leaves the type, and is exact where it is supported, proved |
| `ScanInput` | the record streams and queries a scan is given, shared by the next two |
| `ScanResult` | the abstract contract of a scan: the wanted rows, in order, with the right symbols |
| `DbnScan` | the inner scan, `NextAs`, symbol tracking and `ScanWithBodyFilter`; implements `ScanResult` |
| `DbnScanProofs` | the scan's invariants, and its refinement, proved |
| `RecordsScan` | `dbn_records`: its scan and its wrapper; implements `ScanResult` |
| `RecordsScanProofs` | its invariants, and its refinement, proved |
| `Readers` | binds, scans, layouts, dispatch and registration of all schemas, as data |
| `TableScan` | the life of a query over `Readers`: bind, replaced files, initialisation, scan, next file |
| `TableScanProofs` | that each row fits its struct, filters their columns and projections their arrays, and that every record of the schema is delivered, proved |
| `Columns` | over `Readers`: the type of every column and what the loop of each version writes into it, as data |
| `Cells` | the vector of one column, written and delivered chunk after chunk |
| `CellsProofs` | that every loop writes the columns as declared, and that cells are then right at any size of chunk, proved |
| `MetadataRow` | `dbn_metadata`: the block's layout by version, the checks and the one row |
| `MetadataRowProofs` | that the row shows the block in each version's layout, proved |
| `MC*` | the finite instances TLC checks |

The modules compose by contract: `DbnInput` implements `ByteSource`, whose answers (short only at the end, or an
exception) are what `Refill` of `DbnReader` takes from an input; `DbnReader` implements `RecordStream`, whose answers are the
streams (`ScanInput`) that `DbnScan` and `RecordsScan` consume; the verdicts of `Matches` and of the body expression in
`FilterPushdown` are the `header` and `body` fields of the records of `DbnScan`; `TableScan` takes the
reader as an atomic source of records and looks at what comes before the first one.

### DbnInput

`file` gives, for each number of compressed bytes, how many bytes they decode to (`decoded`), where frames end
(`ends`), and up to where the file is sound. `fpos` is the place of `f_`; `zinPos, zinSize` and `zoutPos` are the cursors of
`zin_` and `zout`; `asked` and `answer` the argument and the result of `Read`. A call of `ZSTD_decompressStream` is a number of
steps: it takes a byte of input (`DecodeByte`), moves decoded bytes to the caller's buffer (`Flush`), rejects a damaged block,
and returns when it can neither take nor give. At the end of a frame whose output does not fit it puts the last byte of
input back (`held`), so that it will be called again. `FillInBuf` and `EndOfInput` are the two outcomes of `f_.read`.

### DbnReader

`files, next, cur, inputOpen, inPos` are the paths, `remaining_paths_`, the path last taken, `input_`
and the bytes it has delivered; `metadata, firstMeta, firstOpened` and `buf, bufSize, bufPos, bufLen`
are the fields of the same names; `hdrBytes, view, out` are the locals and the result of a call, `pc`
the place inside it. `EnsureBytes(n)` is two actions: the entry (enough bytes already, or compaction and
`resize`) and one turn of the read loop (`Refill`). The bytes of `buf` are named by file and offset, so
that a lost, repeated or shifted byte is a different value; `resize` writes `ZeroByte`. A damaged compressed
input throws as soon as more is asked for than it can deliver. After an exception the query is
over and nothing the exception left half done (an `input_` already replaced) can be seen, so a throwing
open leaves the reader's fields alone.

### FilterPushdown

One action per turn of the loop over the `TableFilterSet`, one per call of `IngestFilter` (`work` is the
recursion's stack), one that sets `any_active`, and one that builds the body expression. A filter carries
its meaning, the set `sat` of values it accepts, next to the shape the code looks at. `must` is what the
scan alone has to enforce: DuckDB evaluates what stands behind an `OPTIONAL_FILTER` again, and nothing else.
`ts_event` ignores IN-lists, the integer columns unite them (extension 256-284), ranges saturate at the
limits of the type, all as in the code. The types are small ranges with a lowest and a highest value.

### DbnScan

One action per record that `NextAs` takes and per step of `ScanWithBodyFilter`. `pool` and `live` are
`symbol_pool_` and `live_symbols_`; a pointer is an index into `pool`, so "the string behind it changed"
can be said. `rows` names the record each slot of the chunk was written from: the cells themselves are
in `Cells`. `data` survives `out.Reset()`, the validity mask does not. `ContinueLoop` is the `continue` of the
wrapper, and `GetChunk` a call by DuckDB.

### RecordsScan

The same for `dbn_records`, whose wrapper is a lambda in `LoadInternal` (extension 4488-4514). There are no symbols and
no sizes to check, so a record is kept or rejected; `built` is `body_filter_built`.

### Columns and Cells

`Columns` gives each column its DuckDB type, from the bind, and for each version what the loop of the scan does with its
id: the C++ type it writes through, and whether it writes the value, the value or NULL for a sentinel, a character, a text up to
a bound, or NULL. An id that no case of the switch names is missing from the function. The structs are there as the
fields a version lacks and the lengths of the character arrays. `Cells` chooses a table, a version and a column, and runs the
scan for it: `data` holds, for each slot, the record whose value was last written there and the number of characters,
`null` the marks of the validity mask. `EmitRow` is a turn of the loop, `SkipRecord` one that `NextAs` or the header filter ends early;
`ReturnChunk` lets the body filter keep any nonempty part of the rows, `ContinueLoop` none. That the text of a column's
field, and not that of another, is written is not modelled: a column and its field are one name.

### MetadataRow

A byte of the block is named by the writer's field and its place in it, and `Fixed` lays the fields out by version. `Read` is
`ReadLE` or one of the copies: it gives the field's value if the bytes are exactly that field's, and `Garbage` otherwise. `OpenFails`
lists the checks in the order of the code, `EmitRow` is the scan's only row.

### Readers and TableScan

`Readers` lists every bind's columns in order, the header layout, the capacity of the scan's pointer arrays and the struct its scan picks
for each version, and both dispatch tables. `TableScan` binds (through `read_dbn` or a schema's own
function), lets another process replace files, opens the files again, and reads record types and sizes
with them. `dbn_records` takes one path, any record type and any size.

## Runs

| Run | Question | Instance | Distinct states |
|---|---|---|---|
| `InputWhole` | Does every `Read` hand over the next bytes, and all it was asked for unless the capture ends? | a plain file of 5 bytes, compressed ones of up to 4 in blocks that decode to up to 3 each, sound, damaged or empty, in one frame or several; `in_buf_` of 2 bytes, requests of 1, 2 and 4 | 90 000 |
| `InputTruncated` | Does a short answer mean the end if the file is cut off inside a frame? It does not: see Findings. | the same, cut off | |
| `DbnReader` | Does the buffer hold what it should, whatever the lengths of records and where blocks end? Does the reader tell the ends apart, and keep to the first file's metadata? | one file, up to 4 records of lengths 1 to 5 (1 is shorter than a header of 2, 5 longer than the maximum of 4), cut off after 0 to 2 more bytes, with or without `ts_out`, damaged or not; pairs and triples of whole, empty, truncated, damaged, unreadable and inconsistent files; block of 4 bytes | 163 000 |
| `FilterPushdown` | Is a row of the result ever dropped, and is the row set right where the code can keep that promise? | every comparison, IN-list, AND, OR, optional filter on each header column, over domains of 2 and 3 values, three layouts, two kinds of projection, filters on two columns at once | 32 000 |
| `FilterBoundary` | Is the row set right at the limits of the type? It is not: see Findings. | comparisons, boundary constants included | |
| `FilterUnsupported` | Is it right for `<>`? It is not: see Findings. | comparisons, `<>` included | |
| `DbnScan` | Has every row the symbol in force where it stands? Is every wanted row delivered once, and does the scan end only at the end? | streams of up to 5 rows and mappings over two ids and two symbols, of up to 4 rows the filters judge, of up to 3 with odd records; ending cleanly or not; five kinds of query; chunk of 2 rows | 214 000 |
| `RecordsScan` | Does the copy of the wrapper do the same? | streams of up to 5 rows that both filters, one or none let pass, with and without filters | 17 900 |
| `Cells` | Is each delivered cell its own record's field, and NULL exactly where it should be? Is every column written in every version, with its type? | every column of the 15 kinds of scan in versions 1 to 3, up to 3 records with every content, chunk of 2 rows | 679 000 |
| `CellsTimestamps` | Are undefined timestamps NULL? Those of symbol mappings are not: see Findings. | symbol mappings | |
| `MetadataRow` | Does the row show the block, once, or the query fail? | every schema and none, versions 1 to 3, frames of 40, 100 and 110 bytes, files cut off in the prelude, in the frame or not at all | 12 300 |
| `TableScan` | Do binds, layouts, dispatch and structs of all schemas agree? What if a file is replaced between bind, initialisation and the next file? | every schema, every version, each function; pairs of captures of three schemas; one replacement | 3 430 000 |

Why these bounds are enough. The reader's behaviour depends on how `n`, the unconsumed bytes, the
block and the rest of the file compare: a block of 4 bytes against records of 2 to 4, with and
without trailer, produces every order of them, a header cut in two by a block, a body cut, an exact fit, a
record and trailer larger than the block (which makes the buffer grow), and two refills for one record.
An `in_buf_` of 2 bytes is smaller and larger than what requests of 1, 2 and 4 bytes need, so that one call
spans blocks, one block spans calls, and output is held back across either. The chunk holds 2 rows, so chunks
that are full, partly filled, emptied by the filter, and the boundary inside a run of wanted rows all
occur within 4 records. For symbols, 5 records allow bind, row, rebind, row, row: a rebinding between two
rows of one chunk, and one across chunks. Three records over a chunk of two rows write a slot twice, with
every pair of contents. `Tighten` compares a constant with the current bounds and the
limits: three values give below, equal and above. One replacement reaches every pair "bound to one,
opened another". What grows without bound in the code (files, records, columns) is bounded by the
instances' constants `MaxRecords`, `MaxLength`, `MaxMapped`, `MaxFiltered`, `MaxOdd`, `MaxSize`, `PlainSize`, `MaxReplacements`; no guard of the component modules is, but for
`MaxReplacements` in `ReplaceFile`.

Properties:

* `DbnInput`: `ImplementsByteSource` (refinement, fairness included); `ShortMeansEnd` is the header's claim, violated by
  files cut off inside a frame.
* `DbnReader`: `BufferHoldsInputTail` (unread bytes are exactly the last ones delivered),
  `ViewIsOneRecord` (the view is one whole contiguous record), `MetadataOfEveryFile`, `EndIsFinal`, `DamageIsNear` (an error of the
  decompressor, noticed a block early, withholds no more than one buffer of what precedes the damage),
  `CallReturns` (every call returns or throws), `CallAdvances` (each of its steps takes a path, delivers bytes or comes nearer to
  the end of the call), `ImplementsRecordStream` (refinement, fairness included).
* `FilterPushdown`: `NoRowLost`, `SupportedRowSet`; `RowSetMatchesPredicate` is the test suite's claim, violated.
* `DbnScan`: `SnapshotIsCurrent`, `PoolIsStable`, `ChunkInOrder`, `DeliveredIsWanted`, `EmptyOnlyAtEnd`,
  `ChunkReturns`, `ChunkAdvances` (each step of a chunk leaves fewer to come, retries included), `ImplementsScanResult`.
* `RecordsScan`: `ChunkInOrder`, `ChunkReturns`, `ChunkAdvances`, `ImplementsScanResult`. Here and in `DbnScan` `delivered` is a set:
  `ImplementsScanResult` says which records were delivered, `ChunkInOrder` that they come in order and none twice.
* `Cells`: `CellsAsPromised` (every delivered cell against its record), `WrittenAsDeclared` (no version's loop forgets a column or
  writes it in another way or through another type than the bind and the struct ask for); `UndefinedTimestampIsNull` is the claim of test and manual, violated.
* `MetadataRow`: `RowIsTheBlock`, `SchemaIsTold`, `Answers`.
* `TableScan`: `LayoutNamesHeader`, `SlotsFit`, `RowsFitTheirStruct`, `ConformingCaptureIsRead`,
  `EveryRecordOfTheSchema`.

Each property of a passing run has a mutant in `PROJECT.json`: a definition next to the one it replaces,
marked "a slip" in the module, with which TLC finds the property violated.

### Fairness

`DbnInput`, `DbnReader`, `DbnScan` and `RecordsScan` assume weak fairness of the steps *inside* a call: a call runs on one thread, takes
no lock, waits for nobody, and so is continued until it returns or throws. No fairness is assumed of the
calls (`Read`, `NextRecord`, `GetChunk`): a query with a `LIMIT` stops asking. The decompressor returns from a call after
finitely many steps, since each takes input or gives output. `MetadataRow` assumes besides that DuckDB asks again until a
chunk is empty: `Answers` is about such a query. `FilterPushdown`, `Cells` and `TableScan` have only safety properties and assume none.

### Findings

* `FilterBoundary`: `> max` and `< min` on a header column leave the range as it is (extension 152-171)
  because the bound cannot be stepped over, and nobody evaluates the filter again; every row is delivered where
  none should be. The test `src/test/sql/filter_pushdown.test` states that the row set is that of the predicate.
* `FilterUnsupported`: a comparison without a case, such as `<>`, is "silently" left for DuckDB to evaluate
  again (comment at extension 176), but the comment at 375 says, rightly, that DuckDB does not, and the
  body filter skips header columns.

* `InputTruncated`: a `.zst` file that ends inside a frame ends without an error: `ZstdInput::Read` gives what it has
  (decoder 93-98) and does not look at what the decompressor said last. "A value < n indicates EOF" (header 68-69) then holds of the
  file and not of the capture; if the cut happens to lie at the end of a record, rows are missing silently.
* `CellsTimestamps`: `start_ts` and `end_ts` of symbol mappings do not go through `EmitTsOpt` (extension 3847-3851, 3891-3896),
  so an undefined one is delivered as one nanosecond before 1970. `src/test/sql/undefined_sentinels.test` and
  `src/MAINTAINING.md` (134-137) say that they become NULL.

Two more deviations are known to the passing properties, which name them as exceptions. `raw_symbol`,
`leg_raw_symbol` and `asset` are emitted with a bound (64, 64, 11) that is not the length of their array (71 or 22, 71, 11 or 7;
extension 2814, 3001, 3070, 3085, 3305, 3320): `OddlyBounded` in `Cells`. `SchemaToCstr` (extension 3616) has no case for tcbbo,
whose files `dbn_metadata` reports as "unknown": `Unnamed` in `MetadataRow`.

Whether DuckDB's optimizer pushes either filter in a given query is not modelled; the model says what the
extension does with one that it gets.

## Proofs

`DbnInputProofs` proves about `DbnInput`, for every set of files, size of `in_buf_` and set of requests:

* `TypeCorrect`: `TypeOK`, the order of all cursors.
* `Implements`: the safety part of `ImplementsByteSource`, if no file is cut off inside a frame (`AllWhole`). This premise is
  needed: `InputTruncated` is the counterexample without it.

`InputAssumption` says what a file is: more input decodes to no less, and a leading part of it is sound. The inductive
invariant adds where the bytes are: the caller's buffer holds the last ones flushed, in order (`DstInv`); the decompressor has
taken what `Read` gave it, but for a byte it put back (`FedInv`, `HeldInv`); and between its calls, output is outstanding at the end of
a frame only with such a byte (`FrameInv`, which needs `TakenInv` inside a call). The last part is what makes a short answer the end.

`DbnReaderProofs` proves about `DbnReader`, for every list of files, record length, trailer, metadata and
block size:

* `TypeCorrect`, `BufferCorrect`, `ViewCorrect`, `MetadataCorrect`: `Spec => []P` for its invariants.

The assumptions are those of `DbnFile`: `SizesAssumption` (lengths are naturals, header and block not zero, a record may be as long as its header) and
`InputsAssumption` (every list has a file, every file is well formed).

`BufferHoldsInputTail` alone is not inductive: that the second `EnsureBytes` does not change which record is in
front needs the place of the cursors at each step of the call. `IInv` adds, for each `pc`, what is known there:
nothing is buffered before the first file is open (`OpeningInv`); while records are served the current file
is open, agrees with the first, and the buffer holds no more than was delivered (`ServingInv`); after a compaction
`bufPos` is 0 (`FillInv`); "not enough bytes" is concluded only of an intact input that has delivered everything
(`DrainedInv`); the header in front is the one decoded (`DecodedInv`). The proof has one lemma for each action, and
under the two buffer operations one for what they do to the buffer (`EnsureBytesBuffer`, `RefillBuffer`), shared
by the header's and the body's calls. `ViewIsOneRecord` follows from `DecodedInv` and `BufferHoldsInputTail` at `ReturnView`.

From the same `IInv`:

* `ReaderServesTheStream`: `Spec => Stream!Init /\ [][Stream!Next]_(Stream!vars)`. Each action is a step of `RecordStream`
  (a call starts, a record is served, an end or an exception is reported) or leaves its variables as they are (a refill, a
  header decoded, a file passed over). This is `ImplementsRecordStream` without its fairness.
* `EndStays`: `EndIsFinal`. Its extra invariant `EndInv` says what holds of a call made after the end: no input is open,
  nothing is buffered, and the call is at one of the few places that lead to nullptr again.
* `DamageNoticedNear`: `DamageIsNear`. `SizeInv` bounds `read_buf_` by a block or the longest record with its trailer, and a refill fails
  only when the room behind the unconsumed bytes reaches the damage.

`DbnScanProofs` proves about `DbnScan`, for every stream, query, id, symbol and chunk size, all of its safety
properties: `ScanTypeCorrect`, `SnapshotCorrect`, `ChunkOrderCorrect`, `DeliveredCorrect`, `EmptyEndCorrect`, `PoolCorrect`, and
`ScanImplementsResult`, the whole of `ImplementsScanResult` (`ScanResult` states no fairness). The assumptions are `StreamsAssumption` (what a
record is), `QueriesAssumption` (a projected symbol column was asked for; a filter on it reads it; both hold by what
`BuildBodyFilterExpr` puts together) and `VectorSizeAssumption`. Its inductive invariant adds to the properties:

* `LiveInv`: `live_symbols_` and the pool behind it are the bindings in force just before the next record. This is
  what makes the snapshot of the next row right; `SnapshotIsCurrent` says it only of rows already written.
* `ChunkInv`: the slots hold accepted records read since the last delivery, and every wanted one of them.
  `DeliveredIsWanted` speaks of delivered rows, so without this nothing is known of those on their way.
* `ScannedInv`, `ResetInv`, `FilledInv`: the inner scan returned for a full chunk or a clean end, so that `count = 0` means
  the end; a chunk is filled into a mask without old NULLs; the filled column shows the snapshots, so that the body
  filter judges the right symbol.
* `IdleInv`, `FinishedInv`: a delivered chunk covers everything read.

Each lemma on a record rests on `BindingsStep`: reading one more record adds it to the bindings of its id if it is a
mapping, and changes those of no other.

`FilterPushdownProofs` proves about `FilterPushdown`, for every integer type (any `Lowest`, `Highest`), set of filters, nesting
and projection:

* `RangesCorrect`: `TypeOK`, which is what keeps `tv + 1` and `tv - 1` from wrapping around;
* `NoRowLostCorrect`: `NoRowLost`, under `LimitsAssumption`, `FiltersAssumption` and `PushdownsAssumption` (`sat` is the meaning of a
  comparison or IN-list, a conjunction implies its children, `must` is what of it DuckDB leaves to the scan, values and filters
  have their column's type, and DuckDB puts no two filters on one column: a `TableFilterSet` is a map);
* `SupportedRowSetCorrect`: `SupportedRowSet`, under the same assumptions: where every filter has a shape the code knows, the
  result is no larger than what the scan alone has to enforce allows.

The invariant of the first two says that every row of the result passes every call of `IngestFilter` still to run (`WorkInv`, by
membership of the pending calls in a set, so that putting children first keeps it) and every range as it stands, active
or not (`PassInv`): a range that is not active yet has to be right when a later comparison activates it.

`SupportedRowSet` is the other direction and needs to know that nothing is forgotten. Its invariant `SInv` says that the calls waiting all
come from the entry visited last (`CurrentInv`); that every comparison of a visited entry that the code knows is waiting or has
narrowed the range of its field to the values it holds of (`SettledInv`; ranges only narrow, `TightenNarrows`); that an IN-list
on its own is waiting or is exactly its field's list (`InsInv`, which is where two filters on one column would break the code: lists
are united); and that once the header filter is built nothing waits and it is used if any field of it is (`BuiltInv`).

`RecordsScanProofs` proves about `RecordsScan`, for every stream, query and chunk size, `RecordsTypeCorrect`, `RecordsOrderCorrect` (`ChunkInOrder`),
`RecordsDelivered` (which records were delivered) and `RecordsImplementResult` (the whole of `ImplementsScanResult`), from `StreamsAssumption`, `RowsAssumption` (every record is a
row, no symbol is asked for) and `VectorSizeAssumption`. The invariant is that of `DbnScan` without its symbols: the chunk holds what
was accepted since the last delivery (`ChunkInv`), the inner scan returns for a full chunk or a clean end (`ScannedInv`), and a
delivered chunk covers everything read (`CoveredInv`).

`TableScanProofs` proves about `TableScan`, for any files, replaced any number of times (no proof uses `MaxReplacements`):

* `LayoutCorrect`, `SlotsCorrect`, `RowsCorrect`, `ConformingCorrect`, `EveryRecordDelivered`: all of its properties.

The assumptions are `ContentsAssumption` (what a capture is) and `FunctionsAssumption` (only registered functions are called). First come facts
about the tables of `Readers`: each reader's columns begin as its layout says and fit its arrays (`ReadersGood`), each handler's
struct is the size of its record type in each version (`HandlersFit`), and the two dispatch tables, by schema and by registered
name, give such handlers only (`LookedUp`, `RegisteredHandlers`). The invariant then carries them through a query: a bind keeps a
good reader (`BoundInv`), the scan decodes the file opened last in the version it was opened with, whatever bind saw (`OpenInv`), and
so each row fills its struct (`RowsInv`).

`EveryRecordDelivered` is about a query that finished, over files nobody replaced. `EveryRecordOfTheSchema` states it over positions
(each row's record is of the schema; each such record has a row; rows are in file order), so that no list of wanted rows has to be
computed by a recursion. Its invariant `DeliveryInv` says that while nothing was replaced the files read are the first ones on disk
(`FilesInv`), that the reader's record type is the schema's (`TypeInv`), that rows are of records already passed and in their order
(`OrderInv`), that each passed record of the type has a row (`CompleteInv`), and that a scan is over only behind the last record of the
last file (`FinishedInv`).

`CellsProofs` proves about `Cells`, for chunks of any size and files of any length:

* `CellsTypeCorrect`: `TypeOK`;
* `TablesCorrect`: `WrittenAsDeclared`, for each of the 307 columns of the 15 scans in each of the three versions;
* `CellsCorrect`: `CellsAsPromised`.

The one assumption besides the bounds is `ScansAssumption`, that the scans are those of `ColumnsOf`. `TablesCorrect` is a fact about
the tables of `Columns`: `Right` is what `WrittenAsDeclared` asks of one column, and `Fits` says it of all cases of a switch. One rule for
each kind of writer says when its cases fit (`ValueFits`, `PxFits`, `CharFits`, `CstrFits`, `TsOptFits`, `NullFits`), `CasesFit` puts
the parts of a switch together, and `HasCases` counts them, so that no id is without a case. Then follows one lemma for each table, with the
names and types of the columns each part writes, and the versions put apart where the loops are.

The invariant says that the marks of a chunk belong to its rows (`RowsInv`: with an old mark beyond them, the next value written
there would be NULL) and that the cells on their way are right already (`PromisedInv`). `EmitsPromised` is the heart: what each
kind of writer leaves in a slot, given what `EmitsFor` asks of it, is the record's cell. `CellsCorrect` then needs `TablesCorrect` at each
step.

`MetadataRowProofs` proves about `MetadataRow`, for every set of files:

* `TypeCorrect`, `RowCorrect`, `SchemaCorrect`: `TypeOK`, `RowIsTheBlock`, `SchemaIsTold`.

`FilesAssumption` says what a file is: a version that exists, lengths that are naturals, and a value for each field the version has.
The lemmas compute where the writer put each field (`FixedLayout`) and that the offsets of the code find it there, whole and
nothing else (`ReadField`, `MetadataIsBlock`): `stype_in` and `stype_out` are eight bytes further on in the first version than in the others, and
`symbol_cstr_len` is not there at all. The invariant says that a row is that of the block of the file (`RowInv`).

Of liveness, what the code has to do with it is proved: that a loop cannot turn without progress, and that the progress is
bounded. `CallsAdvance` (`DbnReaderProofs`) is `CallAdvances` with its bounds: a step inside a call takes the next of finitely many
paths, or delivers some of the bytes the file still has, or lowers `StepsAhead`, and never undoes what an earlier one gained.
`ChunksAdvance` (`DbnScanProofs`) and `RecordsChunkAdvances` (`RecordsScanProofs`) are `ChunkAdvances`: `StepsAhead` counts the
records to read, the chunk to judge and the place in the loop, falls with each step and stays a natural number. The argument of `DbnScan` needs
`HasRowsInv`: a chunk that reaches the filter holds rows, so that scanning again costs more than it brings back.

Only model-checked: that such steps are always enabled and so, under the fairness above, are taken to the end (`CallReturns`,
`ChunkReturns`), `Answers`, and the fairness part of `ImplementsRecordStream` and `ImplementsByteSource`. The
prover has no ENABLED. A turn that changes nothing at all is a stuttering step, which an action property cannot see; `CallReturns` does. The properties of the runs that expect a violation do not hold. Every
other property of a run is stated by a theorem.

## Not modelled

* The replacement scan (extension 4318-4329): it rewrites a table name that ends in `.dbn` to a call, without state.
* Which member of the struct a cell shows, the scaling of prices and the texts of the value enums: conversions of one value,
  compared with golden files by the test suite. The sentinels, the lengths and the NULLs are modelled.
* The symbol mappings behind the fixed part of the metadata block, which the code does not read.
* Version 0, which no check rejects and no document describes; the models start at version 1.
* How much of a damaged block the decompressor delivers before its error: in `DbnInput` any, in `DbnReader` all that is intact
  unless more is asked for; `ByteSource` allows the error as soon as what is asked for reaches the damage.
* The growth of `symbol_pool_`: the code keeps the strings on purpose and states no bound.
* Fixture generators, comparison tools, release scripts, and the members of vendored headers no property uses.

## Plan

Done: reader, filters, scan, table functions, inputs, cells, `dbn_metadata`, `dbn_records`; the proofs of all their invariants,
action properties and refinements.

What is left, in order of worth:

1. Symbols over several files, with the boundary in the stream, should the code come to reset them there.
