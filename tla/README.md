# A verification of gloq in TLA+

gloq is a set of handlers for Go's `log/slog`: pretty and JSON output, sampling,
fan-out, a package-level logger with `Fatal`, HTTP access logging, and a recorder
for tests. This directory has TLA+ modules that model its parts, TLC
configurations that check them on small instances, and proofs that TLAPS checks
for instances of every size. `PROJECT.json` lists the runs, the source lines each
definition stands for, the hazards, the disagreements found, and the theorems.

- [The system](#the-system)
- [The modules](#the-modules)
- [What the runs show](#what-the-runs-show)
- [Disagreements between code and documentation](#disagreements-between-code-and-documentation)
- [What is proved](#what-is-proved)
- [What is not modelled](#what-is-not-modelled)
- [Plan](#plan)

## The system

| part | source | state it keeps | operations |
|---|---|---|---|
| line handlers | `pretty.go`, `json.go` | a pool of line buffers, one mutex per `NewHandler` call shared by all handlers derived from it | `Handle`, `Enabled` |
| derived handlers | `pretty.go`, `json.go` | slices for groups, rendered attributes, bound errors and stacks, shared between parent and child | `WithAttrs`, `WithGroup` |
| encoders | `json.go`, `pretty.go`, `attrs.go` | the text so far, whether a comma is due, the open groups | encoding of attributes, through `ReplaceAttr` |
| sampling | `sample.go` | 4096 atomic 64-bit words: tick number and count | `Handle` |
| fan-out | `fanout.go` | a list of handlers | `Enabled`, `Handle`, `WithAttrs`, `WithGroup` |
| package logger | `logger.go` | the default logger, slog's default, the list of `OnFatal` hooks and its lock | `SetDefault`, the logging functions, `OnFatal`, `Fatal` |
| options, levels, presets | `gloq.go`, `level.go`, `preset.go` | a configuration while `NewHandler` runs | options, `ParseLevel` |
| errors and traces | `errors.go`, `trace.go` | a global cache of source locations | walking causes, capturing stacks |
| terminal output | `color.go`, `escape.go` | none | deciding on color, escaping text |
| gloqhttp | `gloqhttp/gloqhttp.go` | per request: an ID, the noted status and size | the middleware, the response recorder, `RequestID`, `ContextAttrs` |
| gloqtest | `gloqtest/gloqtest.go`, `testing.go` | a locked list of records; a list of steps per recorder | `Handle`, `WithAttrs`, `Find`, assertions |
| gloqotel | `gloqotel/gloqotel.go` | none | attributes of a span |

They are composed by wrapping: a `slog.Logger` hands a record to a handler, which
may be a sampler around a fan-out around line handlers. The line handlers call
back into user code (`LogValue`, `ReplaceAttr`, context extractors, `Error`
methods), which may log again, and into the writer. The middleware wraps user code
and is wrapped by net/http. `Fatal` runs user code, the hooks, before it exits.

Hard to get right, and to test:

- **Concurrency.** Handlers are shared by all goroutines: the compare-and-swap
  loop of the sampler, the pool and the mutex of the line handlers, derived
  handlers on shared arrays, two defaults that are set in two steps.
- **Re-entrance.** Callbacks log through the handler that called them; hooks call
  `OnFatal` and `Fatal`.
- **Failure.** Callbacks, writers, hooks and HTTP handlers panic; handlers abort
  or end their goroutine; writers take part of what they are given.
- **Order.** Records are counted after the tick they belong to; response writers
  are called in any order; loggers are derived through any sequence of `With` and
  `WithGroup`, with groups that may turn out empty.
- **Limits.** Tick numbers wrap, counts fill up, and records may be older than
  the handler.

What makes each part correct: a sampled window passes on exactly its quota; lines
come out whole, unmixed, and with nothing of other records in them, and no call
waits for ever; handlers are values; all handlers render the same attributes in
the same groups; hooks have run when the program exits; a request is logged once
if its level is enabled, truthfully, and panics pass through; the last valid level option counts; a fan-out
accounts for each of its enabled handlers. `PROJECT.json` lists the hazards one by one,
with the properties that cover them.

## The modules

| module | models | extends or instantiates |
|---|---|---|
| `TickLimiter` | what sampling promises: counting in one atomic step, the documented rule | |
| `Sampler` | `Sample`, `sampleHandler.Handle`, `sampleCount`: every load and swap is a step | `TickLimiter` (refinement) |
| `SamplerAudit` | the sampler with a ledger of what was counted and passed on | `Sampler` |
| `Loops` | what a loop that filters a list makes of it | |
| `LineHandler` | `Handle` of the pretty and JSON handlers: pool, callbacks, panics, mutex, writer | `Loops` |
| `HandlerValues` | what `With` and `WithGroup` promise: handlers are immutable values | |
| `DerivedHandlers` | `WithAttrs`, `WithGroup`, `clone` on Go slices | `HandlerValues` (refinement) |
| `PackageLogger` | `SetDefault`, the logging functions, `OnFatal`, `Fatal` with hooks | |
| `HttpAccess` | `Middleware`, `logRequest`, `responseRecorder` | |
| `AttrTree` | the rules for attributes that slog asks of handlers, as a reference | |
| `Presets` | the keys and severities of each preset | `Levels` |
| `JsonEncoder`, `PrettyEncoder`, `RecordTree` | how each handler carries attributes along and renders them, built-in ones included | `AttrTree`, `Presets`, `Levels` |
| `Renderings` | a fan-out of the three handlers, through any history of derivations | the five above |
| `Lookups` | how attributes are looked up in recorded records: `Find`, `Value`, `Map` | `Renderings` |
| `WrittenText` | quoting and escaping, in pretty lines that grow by an attribute at a time and in JSON strings, and a reader of them | |
| `TraceStack` | `captureTraceStack` | |
| `ErrorValues` | errors as programs make them; `errorCauses`, `errorMessage`, `errorStack`, `isNilError` | |
| `ErrorDetails` | `appendJSONError`, `appendPrettyError` and what they call | `ErrorValues` |
| `RecordStore` | the store of `gloqtest.Recorder`: `add`, `Reset`, the search and the dump of an assertion | |
| `Recorder` | the recorder with the errors it records: `Find`, `Count`, `AssertLogged`, `Reset` | `ErrorDetails`, `RecordStore` |
| `Levels` | levels, their names, `ParseLevel` | |
| `HandlerSetup` | `NewHandler`, `NewTestLogger`, `WithLevel`, `WithLevelFromEnv` | `Levels` |
| `Fanout` | `Fanout`: `Enabled` and `Handle` around handlers made by `HandlerSetup`, with `testWriter.Write` | `HandlerSetup`, `Loops` |
| `SamplerProofs`, `LineProofs`, `DerivedHandlersProofs`, `PackageLoggerProofs`, `HttpAccessProofs`, `FanoutProofs`, `RenderingsProofs` | theorems | their modules; `LineProofs` those of `LineHandler`, `WrittenText` and `TraceStack`, `RenderingsProofs` those of `Renderings` and `RecordStore` |
| `LoopsProofs` | lemmas about loops, `Appended` among them, and about sequences of sequences put together, by induction | `Loops` |

The `MC*` modules give constants their values for TLC. Operators whose comment
begins with "As X, but" are deliberate mistakes: variants of X with a plausible
bug, each of which breaks the property `PROJECT.json` names for it. They are
used nowhere else.

### Sampler

`pc[p]` is the place of goroutine `p` in `Handle`, `rec`, `tick` and `old` are its
locals. `Handle` is the code up to the call of `sampleCount` (FATAL records skip
it), `Load` is `counter.Load()` with the early return of a full counter, `Cas` is
the swap with its retry. A counter word is a record `[tick, n]`, since both halves
are loaded and swapped together; `TickMod` and `CountMax` stand for 2^32 and
2^32 - 1, `Uint32` cuts ticks down, and adding to a full count would carry into the
tick (`PlusOne`). Division rounds towards zero, as Go's does. Time is a clock that
moves on at any moment; records carry the time, an earlier one, or none. The hash
is an arbitrary map from keys to counters. The ledger of `SamplerAudit` is kept by the
interval that a record's time lies in (`Interval`), not by the tick that the code
computes for it: a division that rounded records from before the handler was created
into the wrong tick would show in it.

### LineHandler

One call of `Handle` per record. `Plain`, `EnterCallback` and `LeaveCallback`
append one attribute; between the latter two other records can be logged by the
callback (their `parent` is the interrupted call) and by other goroutines. A
panicking callback unwinds to the deferred `free`; a panic of a nested call may
unwind its parents as well or be recovered on the way. `EndLine` adds the newline
and the error details, `Lock`, `WriteSome`, `WriteEnds` and `Unlock` are the write
under the mutex, with a writer that takes text bit by bit and may fail or panic
at any point. `Free` puts the line back unless it is too large. The error methods
called for the details are taken to be one step with `EndLine`: gloq recovers
their panics, but that they might log is not modelled. The JSON handler's pooled state
has more fields than its text (`sep`, `groups`, `trackGroups`); what is in them while
a line is built is in `JsonEncoder`, and that they are reset with the text is taken from
`free`. A writer that logs to its own handler would wait for itself; the code leaves that
to the writer, and so does the model.

### DerivedHandlers

A slice is `[arr, len, cap]` on a heap of arrays; `GoAppend` is Go's `append`,
which overwrites cells past `len` while there is capacity. `Clip` is the full
slice expression of `clone`. Calls of `WithAttrs` are split into a step for each
attribute, so that derivations from one parent interleave. `prefix` stands for
everything `WithAttrs` renders into.

### PackageLogger

A goroutine has a `call` it is in and a stack of `frames`, one for each
`exitFatal` it is running hooks in. At the points "idle" and "hook" it is in user
code and may call anything. Hooks panic (`HookEnds`, `HandlePanics`) or end their
goroutine (`HookGoexits`). `known` in a frame is a ghost: the hooks there were when
`Fatal` was called. `exit` ends everything.

### HttpAccess

One request. `rec` is the `responseRecorder`, `wire` the writer below it, modelled
from net/http: the first final status counts, bodies are refused for 204 and 304,
invalid statuses panic, hijacked connections take nothing, and flushing and
hijacking may not be supported. The wrapped handler makes up to `MaxCalls` calls
in any order and returns, panics, aborts or calls `Goexit`. `active` is what is
unwinding the middleware. `misled` is a ghost: some call made the recorder
differ from the writer below on whether a status was sent. A setup says which levels the
logger is enabled for, and it is enabled for them throughout the request; `LogRequest`
logs if the level of the record is one of them, and not otherwise. So `OneRecord` can ask
for the record as well as against a second one. Request IDs are left out:
the middleware chooses one, and it is copied from there into the header, the context
and the record.

In its run this module stands beside `DerivedHandlers`, with which it has nothing to do:
in each behavior one of the two is at work, and the other stays as it began.

### Renderings

Attributes are trees; `AttrTree!Tree` is the reference: what must be left of the
attributes of a logger's history and of a record. `JsonEncoder` works on tokens
and follows `json.go` down to commas, the encoded prefix, pending groups
(`nOpen`) and the cutting off of empty groups. `PrettyEncoder` produces items with
their groups, `RecordTree` wraps steps around attributes from the inside out.
`Renderings` derives all three by the same steps, as `fanoutHandler` does. A
`ReplaceAttr` function is the set of what it removes, by groups and key.

The stack of a TRACE record is the last attribute that `Line` of `JsonEncoder` appends, in
the groups of the logger (`StackOf`), and keeps these from being cut off. Here it is one
leaf, which a record has if it has a PC; which calls it holds is in `TraceStack`, where a
record handled by another goroutine has none. Pretty lines have stacks below the line,
and recorders have none.

`Attrs` are the attributes that a program logs, with all that is in their groups, and
`Nesting` a number for each that is larger than those of what its group holds: groups
are nested to any depth, but none is within itself. Functions over trees
(`KeptOf`, `AppendAttr`, `AppendResolved`) are recursive functions on `Attrs`, as are
loops on the numbers of their turns, so that theorems can be proved about them.

A record has what is built in: time, level, source, message. `AppendBuiltins` follows
the two paths of `json.go`, directly and through `ReplaceAttr` functions, which see
slog's keys and not those of the preset. The fields of a source are written like the
attributes of a group, but with no group open, so a function sees "file" at the top
level. Built-in attributes come before all others and depend on no derivation, so
`Renderings` varies them, the record and the options for new handlers only; loggers
are derived under the default options, with sets of removals that leave all or nothing
of what is built in (`MayDerive` and `WithBuiltins` name these bounds).

`Lookups!FoundByAttrs` is about recorded records. The path of `Value` is taken apart here; in
the code it is cut at dots, so that an attribute whose own key has a dot in it cannot
be looked up.

### WrittenText and TraceStack

Characters are classes, of which each text is a sequence; an escape is two characters.
`message` and `items` are what a line is about, and `LogItem` adds an attribute.
`TextsIn` is a reader that knows nothing but separators, quotes and escapes; what it
finds in the texts made of the items must be the items.

Stacks are sequences of program counters; that of an inlined caller is on no stack
and must be found by its frame. `logging` is the call that logs: the functions that
call each other, how deep the library is below them, what program counter the record
has, and whether the handler runs in the same goroutine. `Grow` is a turn of the
loop that doubles the buffer, `Capture` the rest of `captureTraceStack`.

### Errors and Recorder

`errs` are the errors of a program, made by `New`, `Wrap`, `Join`, or as types of its
own (`Custom`): with methods that panic, nil pointers in an interface, nil causes, and
causes set later, so that errors wrap themselves. `AppendJSONError` and
`AppendPrettyError` are the two walks of the code. The first unwraps where it goes,
the second has causes collected and counts its depth from them; the model keeps the
two apart. Lines are an indentation, a label and a text. `ShownOf` is what both are to
show, and `Readings` what a reader can put together again from messages whose ends
were cut off.

`RecordStore` has the store alone. `Lock` and `Store` are two steps, as
`append` reads the slice and then assigns it; `Search` and `Dump` each copy the store
under the mutex. What an assertion looks for is the set `hits` of the records it would
find; `Recorder` says which those are, by the error of the assertion and the records'
errors, and uses the store once the errors are made. The two are apart because
errors are trees, walked by recursion, and the store is not. `Is` is `errors.Is`, which
compares errors for the recorder: two nil pointers of one type are equal (`Same`), and it
neither recovers from panics nor stops at a depth. `InUse` keeps errors that it cannot
walk out of the recorder, which does nothing about them. As it has no limit of depth and
the handlers have, an assertion finds what handlers show and also what they leave out
below their limit; `CausesAreFound` states both. The chain of four errors (`Chain`) is
longer than that limit in the run. At the limit of depth the handlers
cut the end of a message although the cause that says it is not shown;
`MessagesCanBeRead` leaves out errors nested that deeply.

### HandlerSetup and Fanout

A behavior begins with the program making its handlers. `ApplyOption` is one turn of
the loop over options in `NewHandler`, `config` the part of its `config` that has to
do with levels; `NewHandler` ends it and writes the report of an invalid level.
`Levels` is the vocabulary: texts are a name and an offset. Once all handlers are
made, goroutines log through a fan-out of them (nil handlers included in `Given`).
`call[g]` holds the place in the two loops: `AskEnabled` is a turn of the loop in
`Enabled`, `Check` and `Deliver` are one of the loop in `Handle`. Between any two of
these `SetLevel` may change the level that handlers share, and `EndTest` may end
the test that the test logger writes to. `Handle` of a member is one step here;
`LineHandler` has its inside. The cell behind a record's attributes, which copies
made without `Clone` would share, is `spare`, and `AddAttrs` is slog's. `always`
and `ever` are ghosts: which handlers were enabled throughout the call, and at
some time during it. The output writer that Go 1.25 offers tests is taken to do
what `Log` does: to write before the test is over, and to panic after.

## What the runs show

| run | bounds | result |
|---|---|---|
| `sampler_audit` | 2 goroutines, 3 keys, 2 counters, 5 records up to 1 old, ticks modulo 2, counts up to 3, clock 0..2 | refines `TickLimiter`; its loops end; each window passes on its quota; so does each tick counted in order |
| `sampler_tick_boundary` | as above, ticks not wrapping | violated: a tick passes on more than its quota |
| `line` | 3 records nested or concurrent, one of them huge, 2 attributes, 1 with detail, 3 lines | lines whole and unmixed, pool safe, mutex held only to write |
| `line_live` | 2 records, 1 attribute, 2 lines | every call returns |
| `derived` | 2 goroutines, 3 handlers, 3 arrays with up to 1 cell to spare; apart from that, a request with 4 calls, 6 statuses, writes of 0 and 2 bytes, 16 setups | refines `HandlerValues`; a request has one record if its level is enabled, true status and size, endings passed on |
| `package` | 2 goroutines, 2 hooks, Fatal nested twice | hooks run before exit, none under the lock; Fatal ends the program |
| `package_defaults` | 2 goroutines, 3 loggers | violated: the two defaults differ for good |
| `http_empty_source` | 2 calls | violated: the status logged is not the one sent |
| `renderings` | up to 4 derivations of 9 kinds, 6 lists of attributes for the record, 7 sets of removals (for 5 of them up to 3 derivations); for new handlers 12 records, 3 presets, 64 sets of removals, and 23 levels with 3 sets. Besides, messages of up to 2 of 14 classes of characters, up to 2 attributes with a group, a key and a value of a character each, or a longer key or value; and stacks of up to 6 calls of 2 functions, with up to 3 of the library on top, in a buffer of 2 | all three handlers render what the rules say, built-in attributes included; texts can be read back, and forge nothing; traces begin at the caller |
| `errors` | 3 errors, or a chain of 4, depth 2; then 2 records, 1 `Reset`, 2 errors or the chain | both handlers show the same causes; a recorder keeps every record once and finds it by its causes |
| `fanout` | lists of up to 3 of 30 options, 3 handlers, 2 goroutines, 2 records | the last valid level counts, an invalid value after it is reported; every enabled handler gets the record |
| `fanout_invalid_levels` | lists of up to 2 options | violated: an invalid value is not reported if a valid level follows |

**Bounds.** Two goroutines suffice for every two-party race of the code: counters,
locks and slices are each used by goroutines that do not distinguish between the
others. Tick numbers modulo 2 and counts up to 3 make wrapping and saturation
happen within a few records, and `Backdate` makes ticks negative. Three records
allow two nested calls and a concurrent one, or a chain of three. Three handlers
give two children of one parent and a grandchild; arrays with a spare cell are
where unclipped appends collide. Two nested Fatals give a frame below a frame. Four
calls on a response writer put any call between any two others, with a status
before and a body after. Three derivations give a group with attributes in a group
with attributes, those of the record; a fourth, for no removals and for all in groups, adds
attributes or a group anywhere among them. Three errors are a cause of a cause, two causes of one error, and a cycle, which
goes beyond a limit of 2; a chain of four goes beyond it and can be recorded as well. Two attributes of any characters are one that
may be taken for the beginning of the other. The buffer of `TraceStack` begins with 2
frames and grows up to three times. Three options are a valid level between two invalid ones, and the
reverse; the levels written are those from one below TRACE to one above FATAL.
Only handlers with the levels in `UsedLevels`, and without a report, are used
further (`InUse`), as their number of combinations is what limits this run; a
level that is fixed and one that changes are what `Enabled` can meet. The
theorems below hold without these bounds.

**Fairness.** `SamplerAudit!FairAuditSpec` and `LineHandler!FairSpec` assume that goroutines
within `Handle` are scheduled, and that callbacks and writers return or panic; no
goroutine is obliged to log. Weak fairness of `Lock` is enough, as each call takes
the mutex once and calls are finite. In `PackageLogger!FairSpec` steps inside of
the package are weakly fair, and a hook ends if it can do so again and again
(strong fairness of `HookEnds`): a hook that returns from each function it calls
must not call functions for ever. `LockFree` is about all goroutines together: a
single one can lose every race, and the code promises it nothing. As the run has
a bound on records, it says there that the loops of the calls under way come to an end.

**Deadlock** is not checked: a program may stop logging, all records may have been
handled, a request ends. That nothing waits for ever is what the liveness
properties say.

## Disagreements between code and documentation

- A goroutine that has computed its tick and is then delayed past a tick boundary
  resets the counter to its old tick, and the next record resets it again. Each
  reset opens a fresh window, so a tick can write more than its quota
  (`PerTickLimit`). The promise holds for records counted in the order of their
  ticks (`ExactWhenInOrder`).
- `SetDefault` stores gloq's default and slog's in two steps. Two concurrent calls
  can leave them different (`DefaultsAgree`).
- The access record's status is not that of the response (`StatusIsSent`) when
  `ReadFrom` was given an empty source or `Flush` a writer that cannot flush before
  the handler sent a status, or when the handler sent 101 with `WriteHeader`, which
  the recorder takes for informational. The run shows the first of these. In all
  other cases it is (`TrueUnlessMisled`, checked for every order of calls).
- "An invalid value is reported" (`WithLevelFromEnv`, and the repository's README) is
  true only of the last level option that asks for anything: a valid level that comes
  later discards the report, a second invalid value replaces it
  (`EveryInvalidIsReported`). At most one is reported, and the last one is if no other
  level follows (`InvalidIsReported`).

## What is proved

All theorems hold for arbitrary values of the constants, within the named
assumptions of the modules (`SamplerAssumption`, `LineAssumption`, ...). These say
what kind of thing each constant is; that attributes have the kinds slog has, with
finite groups (`AttrAssumption`), and that the names in the tables of the code are strings
(`LiteralAssumption`, which the provers are not told, and TLC evaluates). In
`HandlerSetup` and `Fanout` they also say this:
options hold what their functions can hold (`OptionsAssumption`: a variable's
text is a level as gloq or slog writes it, or names none), and a fan-out is not given
the same handler twice (`FanoutAssumption`; it would have the record twice). That
None is not a call (`CallAssumption`, `StoreAssumption`) keeps model values apart.

Every proof has one inductive invariant, a conjunction of named parts, and a lemma
for each action that disturbs it.

- **Sampler.** `SamplerTypeCorrect`: words stay within their halves, for records of
  any age. `WindowQuotaHolds`: a window that has counted n records has passed on
  exactly the quota of n. The inductive invariant adds `SwapHasRoom`: the word a
  goroutine is about to swap in was computed from a word that was not full for its
  tick, which is what keeps `PlusOne` from carrying; the swap succeeds only on that
  very word, so the window moves from n to n + 1 and the ledger with it
  (`SwapKeepsQuota`), and `QuotaGrows` counts the admitted numbers.
  `ExactWhenInOrderHolds`: as long as a counter has counted its records in tick
  order, met no two ticks that are the same modulo 2^32, and was never full, each
  tick has passed on its quota. `ExactInv` says of such a counter that its word holds
  the latest tick it has counted and how often, and that nothing later has been
  counted (`InOrder`), so a swap that opens a window opens it for a tick with
  nothing counted yet. Ticks stay in the range of the ledger because later moments
  lie in later intervals (`IntervalMonotone`), and the ticks of the code are these
  intervals, before the handler was created as well, where Go's division needs a
  correction (`TickIsFloor`, `TickIsInterval`).
  `SamplerImplementsLimiter`: the loop refines the atomic limiter; a successful
  swap, or the load of a full counter, is its one step (`AdmitsIsChosen` relates
  the code's remainder to the documented rule).
- **LineHandler.** `Framed` is inductive: types, every active call has a line, and a
  call with a parent is active only while its parent is in a callback. On it rest
  `LineTypeCorrect`, `LockedOnlyToWriteHolds` and `PoolSafeHolds`. The argument for
  the pool: a step changes only its own call's line (`OwnLineOnly`), `Get` takes a
  line nobody has, and `free` empties a line before it is shared again, in calls
  that unwind as well. `WholeLinesHolds` adds what the lines hold and where they come
  out: the line of a call is what `Handle` has appended so far (`Formatted`), the writer
  has taken a beginning of it (`Counted`), and the pieces of each record stand together
  in the output from some `start` on, at its end while its call is writing (`Placed`).
  The mutex enters in `WritingAlone`: nothing is written between two pieces of a line.
- **DerivedHandlers.** `HandlersTypeCorrect`: every slice lies within its array.
  `HandlersImplementValues`: for any number of handlers and any room that `append`
  leaves, the handlers refine immutable values. The invariant says who may write
  where: the capacity a call has beyond its length is in an array of its own, so
  an append writes only cells that no handler and no other call shows.
- **PackageLogger.** `IInv` joins the types, the fit of points and calls (`Shape`),
  the lock (`HooksRunUnlocked`) and `Copies`: the copy in each frame is a beginning
  of the list, at least as long as those of the frames around it, and begins
  with the hooks known when its Fatal was called. Whoever exits has run the whole
  innermost copy (`Finished`), and so all hooks of all frames
  (`AllKnownRan`). Hence `PackageTypeCorrect`, `HooksRunUnlockedHolds` and
  `HooksBeforeExitHolds`.
- **HttpAccess.** All five invariants, for any number of calls on the response writer,
  in any order: `TypeCorrect`, `LoggedOnce`, `PassedOn`, `StatusIsTrue`, `SizeIsTrue`.
  `Progress` relates the place in the middleware to how the handler ended,
  what unwinds, and whether the record has been written: of the two calls of
  `logRequest` the deferred one is made only if the other was not reached, and one of
  them is made for every handler that returns or panics. `Agrees`
  relates the recorder to the writer below it, and `Faithful` the access record to the
  recorder.
- **HandlerSetup and Fanout.** `LastLevelCounts`, and `InvalidReported`, which is about
  steps: while options are applied, `config.levelErr` is set exactly when the last
  option that asked for a level was invalid, and then to its value (`ErrorIsPending`); so a
  new handler reports that value, and no other. `TypeCorrect`,
  `OwnCopies` and `AllAccounted` are about calls: `CallsStand` says of a call in either
  loop that the handlers before its place (`Passed`) have the record or an error or a
  test that is over, those behind it have nothing of it yet, and that the ghosts `always` and `ever` bound
  what `Enabled` was told. `SetLevel` and `EndTest` may come anywhere, and the other
  goroutines' calls are about other records.
- **RecordStore.** `StoreTypeCorrect`, `StoredOnceHolds` and
  `FailureListsSearchedHolds`. `Current` is the point: what `append` has looked at is
  still the store when its result is assigned, since `Reset` and other calls wait for the mutex.
  `Searching` keeps that, between the search and the dump of an assertion, the store
  only grows, unless `Reset` has removed what was searched.
- **WrittenText.** `WhatIsLoggedCanBeRead`: for texts of any length, any number of
  attributes and any groups. Reading composes (`ReadAllConcat`): what a reader makes of
  a line is what it makes of the end after the beginning. Hence `Shows`: a reader
  between two texts that comes upon a separator, a text as it was written and another
  separator, has read that text. A quoted one is undone escape by escape, and
  a plain one has nothing in it that ends it. `ListRead` puts the attributes of a line
  together, by induction. That nothing is forged rests on `EscapedKeepsOut`: no escape
  brings back a character that had to be escaped.
- **TraceStack.** `TracesStartAtTheirCaller`, for stacks of any depth, any number of
  frames of the library, and any first size of the buffer. A buffer that is not full
  holds the whole stack, and no frame of the library is the caller's, so the first
  match is where the caller's part begins (`FramesOfStack`), although callers may
  call themselves.
- **Renderings.** `RecordsTellAll`, `PrettyLinesTellAll` and `JsonLinesTellAll`: a
  record, a pretty line and a JSON line tell exactly what the rules of `AttrTree` keep,
  for attributes nested to any depth, any history of `With` and `WithGroup`, any
  record, preset and set of removals. All three have the same argument. *One attribute*:
  by induction over attributes (`AttrInduction`, by a least `Nesting`), what the
  handler appends for it is what the rules keep (`AppendResolvedIs`, `AppendAttrIs`,
  `AttrsAdd`). *One list*: loops are unrolled by `SeqInduction`. *One logger*: what is
  bound and what is logged later end up in one another's groups, so that an equation between the
  state of a handler and that of its logger would not be inductive. The invariants say
  instead that what a handler has, put around anything that may still come, is what the
  rules put around it (`RecorderInv`, `PrettyInv`, `JsonInv`); a derivation is then an
  instance of it, as the innermost step goes around members first (`WrappedAppend`).
  For JSON, what a call writes depends on the state it finds: `Adds(s, m)` says that
  it has written the members `m` with a comma before each that needs one, knows when a
  comma is due next, and has left the text alone if `m` is empty. Commas work because no
  text of a member ends with an opening brace (`Ended`). A group is opened before it is
  known whether it has members; `CutOpened` and `ClosedGroup` are its two ends.
  `TextAround` is the invariant for text: whatever is written in all groups, pending
  ones included, becomes, once those that are open are closed, what the rules put
  around it, and nothing but the prefix is left if it is empty. What is built in goes
  before: `BuiltinsWritten` for both paths of the code, `SourceIs` for the two ways a source is
  written, `LevelShown` for the tables of levels.
- **Loops.** `AppendedStep` and `AppendedAre`: what a filtering loop adds in one
  turn, and that in the end it has exactly the kept elements, none of them twice that
  was not given twice. The induction is by a least counterexample among the turns
  (`UpTo`). The same induction gives `Recursion` (a loop's function is its recursive
  definition), `SeqInduction`, and the lemmas about `FlattenSeq` and `Flat` that the
  proofs about texts rest on.

Only model-checked: the liveness properties (`LockFree`, `EveryCallReturns`,
`FatalExits`), which the prover does not cover; and four properties about lookups and
causes, `FoundByAttrs`, `CausesAreShown`, `MessagesCanBeRead` and `CausesAreFound`. These
rest on recursive operators, which the prover cannot reason about: lookups recurse over
what is wanted and what is there at once, and errors may be within themselves, so that
there is no number like `Nesting` for them.

## What is not modelled

Colors, padding, time formats, source paths and the layout of traces; numbers, times
and the values that encoding/json marshals; the text of stacks and the types of
errors. `ReplaceAttr` functions that rewrite attributes, into groups for example.
`responseRecorder.Unwrap`, with which a handler gets past the recorder, HEAD requests,
and request IDs with `ContextAttrs`, one value that is copied. The hash of the sampler.
Options other than those for levels and presets, which only set a field. `describeError`, which only tests use. The
cache of `sourceFor`: a single `LoadOrStore`. gloqotel formats the span of a context.
Two handlers created separately for one writer have separate mutexes; nothing is
promised of them. `PROJECT.json` lists every part with what is left out of it.

## Plan

Done, in this order: the sampler, the line handler, derived handlers, the package
logger, HTTP access, the renderings, setup and fan-out; then errors and the recorder,
lookups, built-in attributes and presets, texts, and traces; then the proofs above.
Next:

1. `ReplaceAttr` functions that rewrite attributes.
2. Samplers inside and around a fan-out: which records are counted.
3. Colors and formats in `HandlerSetup`.
