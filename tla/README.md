# A verification project for pdlgen (cdproto-gen)

`cdproto-gen` retrieves the protocol definition files (PDL) of Chromium and V8,
combines them, and generates the Go package `cdproto` with one package per
domain. This directory holds TLA+ models of the program, the TLC runs that
check them on small instances, and TLAPS proofs of some of their properties for
all instances. File names such as `main.go:430` are below `src/`.

## 1. The system

| Component | State | Operations | Modelled in |
|---|---|---|---|
| Protocol cache, `util/cache.go` | files below `-cache`, shared by all invocations | `Get` | `Cache`, `CachePromise`, `Pages` |
| PDL parser, `pdl/pdl.go`, `pdl/dep.go` | a document, four pointers into it, the pending description | `Parse`, line by line | `PDLParse`, `PDLFiles` |
| Combination and writer, `pdl/pdl.go` | documents | `Combine`, `Bytes`, `CombineBytes` | `PDLBytes`, `PDLFiles` |
| Cleanup, `main.go:188-221, 345-377` | the domains | `cleanupTypes` | `Lists`, `Fixup`, `Generate` |
| Fixup, `fixup/fixup.go` | the domains | `FixDomains` | `Lists`, `Fixup`, `Generate` |
| Generator, `gen/`, `gen/gotpl/` | file buffers | shared types, root package, one domain | `Reading`, `Generate` |
| Output pipeline, `main.go:239-531` | the output directory, the tasks of an errgroup | clean, `write`, `goimports`, `easyjson`, `gofmt` | `Output` |
| Version selection, `util/util.go`, `util/semver.go` | none (pages of the cache) | `GetLatestVersion`, `GetRefs`, `GetDepVersion`, `CompareSemver` | `Semver`, `Sources` |
| Bulk retrieval, `grab.go` | two counters, files in `pdl/combined` | its `run` | `Grab`, `Retrieval` |
| Choice and loading, `main.go:85-187, 290-343` | the versions, the protocol, `pdl/combined` | first half of `run`, `loadProtoDefs` | `Protocol`, `Retrieval` |
| Differences, `diff/` | none (files in `pdl/combined`) | `WalkAndCompare` | `Protocol`, `Retrieval` |
| Generated node locks, `gen/gotpl/extra.qtpl` | an `RWMutex` per DOM node | `xpath`, `Dump`, `Attribute` | `RWMutex`, `NodeLock` |
| Wording and comments, `gen/genutil` | none | formatting | not modelled |
| HAR definition, `pdl/har.go`, `pdl/gen.go` | a constant; a one-off scraper | none | not modelled: one more file for the parser |
| `gen/gotpl/*.qtpl.go` | | generated from the templates | not modelled: the templates are |

One invocation runs these in a line: versions -> `Get` three or more times ->
`Parse` each file -> `Combine` -> `Bytes` to `pdl/combined` -> cleanup -> fixup
-> generator -> output pipeline. They hand over values; what is shared between
*invocations* is the disk: the cache, the directory of combined files, from which
a file can be given back with `-pdl`, and the output directory. `grab.go` is a
second program over the same cache and the same `pdl/combined`. Within an
invocation there is concurrency only in the output pipeline, where each stage is
an errgroup. The generated code has some of its own: each DOM node has a lock.

What is hard, and the properties that answer it:

* the cache is read, truncated and written by several processes without a
  lock, and a process may die between any two system calls. How old may a page
  be that a caller gets, and can it be half a page?
* versions are chosen from pages of different ages, on which the newest tags may
  or may not be. Is a version found, is it the newest, and does a combined file
  hold what its name says, whoever has written it?
* `grab.go` decides with two counters, one of which is reset late, what it
  writes and what it passes over.
* the parser owns each line through pointers that an earlier line has set and
  that nobody resets, and a description lives one line longer than its comment.
  Does every grammatical file parse, into what it says?
* `Bytes` and `Parse` were written independently and must be inverse.
* the cleanup, the fixup and the generator each rename, move, add and remove
  types. Do references still find what they meant, in a package that may be
  imported?
* the pipeline truncates and rewrites the same files three times, tasks fail
  while others run, and the next run inherits whatever is left. What is in the
  directory when a run says "done."?
* the generated methods of a node take read locks up and down the tree while a
  client takes write locks, and a waiting writer keeps new readers out. What may
  race, and what may wait for ever?

`PROJECT.json` lists every hazard at its line with the properties that would
catch it, or the reason why there is none.

## 2. The modules

### Cache

One action per step of `Get` that another process can observe: `Call`
(`MkdirAll`), `Stat`, `Read`, `Retrieve`, `Decode`, `Truncate` and `Write` (the
two system calls of `ioutil.WriteFile`). `Proc` is any set of invocations, each
of which calls `Get` again and again for entries in `Uses[p]`. A page is known by
the time the server produced it, so its age can be compared with the TTL. The
environment lets time pass (`Tick`), kills a process (`Crash`, which may leave a
part of a write), lets a request fail, and answers with an error page, since the
status code is not looked at. `Latency` bounds one call: the code sets no
timeout, and without a bound no promise about the age of a page can be made.
Left out: the path, the URL, and the log.

### Pages, CachePromise

`CachePromise` is `Get` as its callers see it: one step that hands out a page of
`Pages!MayGet`, of an age within the TTL and two latencies, perhaps empty or torn
or an error page where these are possible. `Cache` implements it
(`Cache!KeepsPromise`): `Answered` maps a call to the page it returns, in the step
that returns it, and everything before that step is a stutter. What is built on
`Get` uses the same `MayGet`, so that nothing assumes of a page more than
`Cache` shows.

### Semver, Sources, Grab, Protocol, Retrieval

`Semver` is the order of versions of `util/semver.go`. A tag is the sequence of its
numbers. The fourth is a prerelease of the first three, so that a version of three
numbers comes after all of four that begin with them.

`Sources` holds what the two programs share: the tags of Chromium and V8, each with
the time at which it appears; the pages about them; `GetLatestVersion`, `GetRefs`,
`GetDepVersion` as the *sets* of results that pages of any allowed age and kind
may give (`LatestVersions`, `Refs`, ...); and `pdl/combined`, which is written as in
the code, opened and then filled. A page cut short yields some of its lines, or none.

`Grab` is `run` of `grab.go`, one action per call or step of its loop, with the
counters `majorCount` and `minorCount`. `Protocol` is `run` of `main.go` up to the
cleanup: it chooses the versions, loads the files or the one given with `-pdl`,
writes the combined file, lists the directory and compares with the next older
file that differs (`WalkAndCompare`). `Retrieval` runs invocations of both side by
side. `Sessions` are the command lines; an invocation may fail at every call of
`Get`, those in `Faulty` may be killed between any two steps, and all may be begun
again on what is left.

Left out: the parsing of HTML and JSON beyond whether it succeeds, the widths of
columns, the colours, and what the external diff prints.

### RWMutex, NodeLock

`RWMutex` is `sync.RWMutex`: the number of readers that are in, the readers that
wait, and the writer that has announced itself, from which moment on no reader is
let in. `NodeLock` is a tree of nodes with such locks. A reader is a stack of calls
of `Attribute`, `xpath` and `Dump`, each at one of the places between which it
locks, unlocks or calls; `Blocked` readers are in the queue of a mutex. A writer is a
client that locks one node at a time to change it. What the nodes hold is left out,
except that `xpath` may end its climb at any node (`Stop`).

### PDLParse, PDLBytes, PDLFiles

`PDLParse` is `Parse`: one action per kind of line (`ReadDomain`, `ReadItem`,
`ReadMember`, ...), whose guards are the tests of the loop in their order. The Go
pointers `domain`, `item`, `subitems` and `enumliterals` are paths into the
document, `<<>>` for nil. `ReadNil` is the panic on a nil pointer and
`ReadUnknown` the error. A section line that is repeated begins its list anew, and
what Go's `enumliterals` still points to may be a member of the list that was
dropped: it is then `Detached`, and literals go to something outside the document.
Regular expressions are abstracted: a line is a record with the class of the
expression that matches it and its groups; texts are atoms.

`PDLBytes` is `Combine` and `Bytes`: an operator that gives the *set* of
sequences of lines that may be written. It is a set because the comparisons
handed to `sort.Slice` for types, commands and events look at the same element
twice, so that any order may come out.

`PDLFiles` puts them together: an environment writes definition files line by
line, `Parse` reads each, `CombineBytes` writes the combined file, and `Parse`
reads that. Next to it stands a second reading of a file, `Meaning`, which has no
state: each line belongs to the nearest line above that can own it.

### Lists, Fixup, Reading, Generate

`Fixup` holds the cleanup and `FixDomains` as operators on a domain. A name is
the sequence of its words, which is what prefixes are taken off. `Changed`,
`Added` and `ChangedEvent` are the first switch, `Converted` and `AddEnumValues` the
extraction of enums, `Unstuttered` the last pass. `Lists` has the loops that
filter a slice and change each of its elements, as functions of the indices, which
can be proved about. `EnumName` puts the words of an item and of its member together,
and leaves them as they are; `snaker.ForceCamelIdentifier` (`fixup/fixup.go:536`) also
changes capitals. So in the code the enum of a member `type` of `Foo` joins a type that the
protocol calls `FooType`, whose `RawName` is compared exactly (line 452); in the model it
does so if the words are the same, `Type` and `Type`, and stays apart if one is `type`.

`Generate` is the run through them: `CleanDomain` and `FixDomain` for one domain
each, `GenerateSharedTypes`, `GenerateRootPackage`, and `GenerateDomain`. Of a
generated file it keeps the declarations, and of each the Go types its members use,
made by `ResolveRef` and `ResolveType` (`Use`). Left out: extra Go code, JSON tags,
the names of enum values, the bodies of the generated functions, and type names that
differ only in case.

`Reading` is what the properties compare the result with: what the *given* protocol
says to a reader who knows nothing of the order in which the tool works. It says
which types there are (`TypesThere`), which are shared (`SharedThere`), what a
member refers to (`Named`, `Meaning`), and which values a type has (`ValuesOf`). For
`modifiers`, which `FixDomains` promises to make an `Input.Modifier` (`fixup.go:17`),
`Named` is what is promised. What the tool looks up instead, the `Modifier` of the
member's own domain, is `LookedUp`; the two differ for no other member.
`WellFormed` are the protocols the tool is made for.

### Output

The directory as a map from paths to what they hold, and the run as a machine
over it: `Run`, `Clean` (one entry of `filepath.Walk`), `Cleaned`, `Open` and
`Write` for each task, `TaskError`, `NextStage`, `StageError`, and `Crash`. A
task opens its file, which truncates it, and writes it later; tasks interleave
freely. What goimports, easyjson and go/format do to a file is a change of its
`form`. A task reads (`Reads`) its own file at gofmt, and at easyjson every Go file in
the directory of the package (`GoFilesIn`; `main.go:442`), also those that earlier
runs or the user have left there. A task fails where a file is in the place of one of its
directories or a directory in the place of its file (`Openable`), where it has nothing to
read (`Producible`), and it may fail at a file that is torn, the user's, or stale
(`Rejectable`, `MayFail`). The walk may fail at any entry, and may have removed a part of it
(`CleanError`). A run may end in any way, and another one, with the same or another
protocol, may begin on what is left.

## 3. The runs

| Run | Shows | Instance |
|---|---|---|
| `cache_shared` | `ServedFresh`: a whole page is at most TTL + 2 latencies old. `ZeroTTLForcesRetrieval`, `PrivateServedWhole`, `ErrorsNotCached`; `KeepsPromise`: `Cache` implements `CachePromise` | two invocations, two entries of which one is shared and one base64; one invocation has `-ttl=0` and may be killed; 4 units of time, TTL and latency 1 |
| `cache_interrupted` | **violation** of `ServedWhole` | one invocation that may be killed |
| `retrieval` | `NamedForContents`, `CountsBounded`, `OnlyNewestPassedOver`, `ComparedWithOlder`, `TagsFoundInTime`, `ChosenAnew`, `GrabEnds` | seven command lines of one `grab.go`, which may be killed, and one `main.go`; five tags of Chromium and four of V8 |
| `grab_majors` | **violation** of `MajorsGrabbed` | one command line of `grab.go` |
| `pdl_files` | `GrammaticalAccepted`, `ParsedAsWritten` (at every line, document = meaning), `CombinedAccepted`, `RoundTrip`, `CombinedVersionCovers`, `DomainsSorted` | all grammatical files over six samples of lines, up to 5 to 7 lines, in one or two files |
| `pdl_any_order` | `PanicsOnOrphans`: `Parse` panics exactly on lines that nothing above can own; `TypeOK`: each pointer is nil or leads to what it is used as, and only members declared as enums have literals | all sequences of up to 5 lines of 16 kinds, and of up to 7 of 6 kinds with which sections are repeated |
| `pdl_enum_array` | **violation** of `RoundTrip` | members declared `array of enum` |
| `generate_files` | `PanicsOnDangling`, `Compiles`, `DeclaredOnce`, `RefersAsWritten`, `SharedImportsNothing`, `EnumsWhole` | eight domains with 22 items, of which any one or two are absent or deprecated; and all of them with a `modifiers` in Page, where there is a `Page.Modifier` or not |
| `gen_modifiers` | **violation** of `ModifiersOfInput` | the eight domains with a `modifiers` in Page |
| `output_runs` | `Published`, `StageInputs` (what easyjson and gofmt read), `Untouched`, `Terminates` | two protocols, one with a package more; plain, with `-no-clean`, and with `-debug -no-clean`; failing walks and tasks, and kills; two initial trees with files of the user, in one of them a file in the place of a package |
| `node_locks` | `OnlySiblingsRace`, `DeadlocksNeedXPath`, `CallsReturn`, `WritersEnter`; `TypeOK` says that each mutex counts the locks of the calls | a root with two children, two readers that call any method, two writers |
| `node_xpath` | **violation** of `XPathReturns` | one node, one reader, one writer |

Bounds, and why they are enough:

* `cache_shared`: an entry can be written, expire and be written again within
  `MaxTime = 4`, the bound on the clock, while the other process is at any of its
  steps. The bound on the age is met with equality, so a smaller promise fails.
* `retrieval`: three majors, of which the middle one has three versions, one of
  them with three numbers, and the last (66) is one that is not retrieved. Two
  counters of 1 to 3 meet their limits at the first, a middle and the last version
  of a major: `CountsBounded` fails without its "one more". Two tags of V8 have one
  revision, one of them a word. Chromium 80 and its V8 appear at time 1; `grab.go` has
  a TTL of 1, `main.go` of 0, and the clock ends at `MaxTime = 2`: pages from before
  and after are both allowed at time 1, and at time 2 only the later ones. `Latency`
  is 0: a call is one step here, and the theorems of section 5 are for any.
  The command lines pair the two programs where they meet: on the same combined
  file, and where one reads with `-pdl` what the other is writing.
* `pdl_files`: every kind of line follows every kind it may follow. A sample is
  a vocabulary whose lines interact (`Structure`: pointers; `Written`: what
  `Bytes` prints; `Comments`: descriptions; `Versions`, `Copyrights`, `Domains`:
  combination of two files). Longer files repeat these neighbourhoods, and the proofs in
  section 5 cover all lengths.
* `pdl_any_order`: five lines are a domain, an item, a section, and two more that go
  through what these have set, or do not. What a pointer still leads to after its section
  line is repeated takes seven: a domain, a command, `parameters`, an enum, `parameters`
  again, a member in its place, and a literal.
* `generate_files`: the eight domains are those that `FixDomains` treats
  specially, and two more that refer to them; the items have one representative
  per case of the code. Two missing items are one that is missing and one whose
  absence changes how the first is looked up.
* `output_runs`: one package below the root is enough for two stages to meet in a
  directory; the second protocol lacks that package, so that its directory is
  stale for the other. The root has an `easyjson.go` in both, which outlives the
  cleaning, whole or torn.
* `node_locks`: xpath goes up one step and Dump down one, to the first and to a
  later child; two readers and two writers are the least that wait for each other
  in opposite directions.

Deadlock is checked for `Cache`, `Retrieval` and `Output`, where some invocation can
always begin again or time has run out with calls that can still be made. The runs
of `PDLFiles` and `Generate` end with their file or their protocol, and readers and
writers of `NodeLock` do deadlock, which `DeadlocksNeedXPath` is about: these say
`CHECK_DEADLOCK FALSE`.

Fairness is assumed for the liveness properties only:

* `Terminates`: `WF_vars(Work)`, the weak fairness of all steps of a run that has
  begun. It is what the Go scheduler gives to runnable goroutines, provided that
  file operations and the tools return. Nothing says that a new run is begun, or that
  a process is not killed.
* `GrabEnds`: `WF_vars(GoesOn(g))` for each invocation of `grab.go`, for its own steps
  after the first. A call of `Get` that never returns is excluded; one that fails, or
  hands out anything, is not.
* `CallsReturn`, `WritersEnter`: `WF_vars(Continue(r))` for each reader in a call, and
  `WF_vars(Finish(w))` for each writer, which takes a lock that is free and gives
  it back. Nobody has to call a method or to ask for a lock. No strong fairness is
  needed, as `RWMutex` hands the lock to the readers that have waited.

Each property of a passing run is paired in `PROJECT.json` with a faulty variant
of a modelled definition (a dropped guard, a missing reset, a swapped order),
found just above the definition, which breaks the property under the same
configuration.

## 4. Where the code and what is said of it differ

With a run that shows it:

1. **A cut cache file is served** (`cache_interrupted`). The file is written in
   place (`util/cache.go:63`) and any file that is young enough is returned
   without a look at it (line 31). An invocation killed while it writes makes the
   next ones read an empty or a cut file until the TTL ends.
2. **`array of enum` becomes `enum`** (`pdl_enum_array`). `pdl/pdl.go:377`
   replaces the whole type expression, so the combined file, read again, holds a
   scalar.
3. **XPath methods may never return** (`node_xpath`). `xpath` calls
   `AttributeValue` with the node's read lock held (`extra.qtpl:119`), which takes it
   again; a writer that asks in between stops both. `extra.qtpl:179` says that
   `FullXPath` returns the full XPath.
4. **A major may be counted and have no file** (`grab_majors`). `-major-count` is the
   "major count" (`grab.go:25`). `minorCount` is reset only after the first version
   of the next major has been tested with it (line 156), so that this version is
   passed over, and if the major is the last one, nothing else of it is written.
5. **`modifiers` outside Input** (`gen_modifiers`). `fixup/fixup.go:17` promises
   `Input.Modifier` for every property of that name; lines 403-413 write the reference
   `Modifier` without a domain, which `ResolveRef` takes for one of the member's own
   domain. Outside Input the tool panics, or takes another type of that name.

Seen in the code, without a run of their own:

* an `easyjson.go` that a killed run has left torn fails all later runs, until somebody
  removes it: easyjson parses the whole directory of a package (`main.go:442`), and the
  cleaning keeps the file because `-go-wl` names it by default (`main.go:62`). The model
  has these runs (`Rejectable`); `Published` is about runs that end without an error;
* renamings are undone: `fixup/fixup.go:27` documents `Input.GestureSourceType` ->
  `GestureType`, and the pass in lines 356-367 makes the name again from `RawName`
  (in `Fixup`, `Unstuttered` comes after `Changed`);
* a type's redirect is written with an indentation of two (`pdl/pdl.go:440`), where
  the expression in line 48 wants four, so `Parse` rejects it (no sample
  of `pdl_files` that is written has one, and `Writable` in section 5 excludes them);
* a type declared as a bare `array` is written as `array of array` (`pdl/pdl.go:429-438`;
  no sample has one, and `Faithful` in section 5 excludes them);
* items are not sorted: the comparisons in `pdl/pdl.go:424`, `455` and `471` compare
  element `i` with itself (`Bytes` is a set of results for that reason);
* arrays of enum get no type, though `fixup/fixup.go:15` promises separate types for
  all enums: line 387 drops their literals;
* whitelisted files go with the directory of a stale package: `-go-wl` lists files
  to ignore (`main.go:62`), `os.RemoveAll` (line 259) does not (`Untouched` is
  about the root);
* the comment at `grab.go:94` says less than 66, the test `< 67`;
* a version of three numbers sorts after those of four that begin with it
  (`ThreeNumbersLast` below);
* `GetRefs` panics on a page without a line break (`util/util.go:75`), in the model one
  of the ways to fail;
* an empty or torn page of tags yields an older version and no error
  (`util/util.go:29-53`): `ChosenAnew` is claimed for a TTL of zero only.

## 5. What is proved

TLAPS proves, for any constants that satisfy the named assumptions:

| Theorem | Says |
|---|---|
| `CacheProofs!TypeCorrect` | `Spec => []TypeOK` |
| `CacheProofs!PagesServedFresh` | `Spec => []ServedFresh` |
| `CacheProofs!ErrorsNeverCached` | `Spec => []ErrorsNotCached` |
| `CacheProofs!PagesServedWhole` | `Spec => []PrivateServedWhole` |
| `CacheProofs!ZeroTTLRetrieves` | `Spec => []ZeroTTLForcesRetrieval` |
| `CacheProofs!GetKeepsPromise` | `Spec => KeepsPromise`: `Cache` implements `CachePromise` |
| `RetrievalProofs!VersionsOrdered` | `CompareSemver` is a strict total order of versions |
| `RetrievalProofs!FilesOrdered` | `FileOlder` is one of the names of combined files |
| `RetrievalProofs!FourNumbersLexicographic` | versions of four numbers are ordered number by number |
| `RetrievalProofs!ThreeNumbersLast` | one of three numbers comes after those of four that begin with it |
| `RetrievalProofs!TypeCorrect` | `Spec => []TypeOK` |
| `RetrievalProofs!NamesMatch` | `Spec => []NamedForContents` |
| `RetrievalProofs!ComparesWithOlder` | `Spec => []ComparedWithOlder` |
| `RetrievalProofs!TagsAreFound` | `Spec => TagsFoundInTime` |
| `RetrievalProofs!ChoosesAnew` | `Spec => ChosenAnew` |
| `RetrievalProofs!NewestPassedOver` | `Spec => []OnlyNewestPassedOver` |
| `RetrievalProofs!CountsAreBounded` | `Spec => []CountsBounded` |
| `NodeLockProofs!TypeCorrect` | `Spec => []TypeOK`: each mutex counts the locks of the calls |
| `NodeLockProofs!RacesAtSiblings` | `Spec => []OnlySiblingsRace` |
| `NodeLockProofs!CirclesNeedXPath` | `Spec => []DeadlocksNeedXPath` |
| `PDLProofs!ParseAccepts` | `Spec => []GrammaticalAccepted` |
| `PDLProofs!OrphansPanic` | `Spec => []PanicsOnOrphans` |
| `PDLProofs!PointersValid` | `Spec => []TypeOK` |
| `PDLProofs!DomainsInOrder` | `Spec => []DomainsSorted` |
| `PDLProofs!VersionsCovered` | `Spec => []CombinedVersionCovers` |
| `PDLProofs!CombinedIsAccepted` | `Spec => [](Writable => CombinedAccepted)` |
| `MeaningProofs!ParseIsMeaning` | `Spec => []ParsedAsWritten` |
| `MeaningProofs!CombinedReadsBack` | `Spec => [](Ordered /\ Faithful => RoundTrip)` |
| `GenerateProofs!FixedDomain` | the items of a fixed domain are the given ones, changed one by one, its types the given ones, the added ones, and one for each enum |
| `GenerateProofs!TypesAre` | the types of all fixed domains are exactly those of `TypesThere`, shared exactly those of `SharedThere` |
| `GenerateProofs!ValuesAre` | a type made of enums has the values of `ValuesOf`, each once |
| `GenerateProofs!InvHolds` | `Spec => []Inv`, the invariant below |
| `GenerateProofs!TypeCorrect` | `Spec => []TypeOK` |
| `GenerateProofs!PanicsWhenDangling` | `Spec => []PanicsOnDangling` |
| `GenerateProofs!UsesCompile` | `Spec => []Compiles` |
| `GenerateProofs!TypesDeclaredOnce` | `Spec => []DeclaredOnce` |
| `GenerateProofs!ReferencesKept` | `Spec => []RefersAsWritten` |
| `GenerateProofs!SharedImportsNothingElse` | `Spec => []SharedImportsNothing` |
| `GenerateProofs!EnumsAreWhole` | `Spec => []EnumsWhole` |
| `OutputProofs!TypeCorrect` | `Spec => []TypeOK` |
| `OutputProofs!UsersFilesUntouched` | `Spec => Untouched` |
| `OutputProofs!StagesReadFinished` | `Spec => []StageInputs` |
| `OutputProofs!PublishedAlways` | `Spec => []Published` |

The cache theorems assume `CacheConstants`: there is an entry, TTLs, the latency
and the bound on the clock are natural numbers, and `Uses`, `Decoded` and
`Faulty` are about entries and invocations. The number of invocations and
entries is arbitrary, finite or not.

* *ServedFresh* is not inductive: what a call returns was stored by another one.
  `FreshInv` adds that a call in flight is not older than the latency (`InTime`),
  that what a file or a buffer holds was produced at most a latency before it was
  written or will be (`StoredFresh`, `BufferFresh`), and that a call about to read
  has tested, at most a latency ago, a file that is there (`ReadInTime`). The file
  may be replaced between the test and the read, but only by a younger one.
* *ErrorsNotCached* needs that a buffer past the decoding of a base64 entry is no
  error page (`DecodedInv`).
* *PrivateServedWhole* needs that a private entry's file is whole except between
  its own truncation and write (`WholeInv`), which no other process disturbs.
* *ZeroTTLForcesRetrieval* needs that such a call never gets to `Read`, and that
  its buffer was produced since the call (`OffInv`).
* *KeepsPromise* maps a call to the page it has returned, if it has. The steps before
  are stutters; the two that return a page are steps of `CachePromise`, because
  `FreshInv`, `DecodedInv` and `OffInv` bound the age and the kind of what they
  return by `MayGet`.

`PDLProofs` and `MeaningProofs` assume `FilesConstants`: names of domains are ordered like numbers, and
the numbers of versions are naturals; and `ParseConstants`: an empty comment says to use
nothing instead (`redirectCommentRE`, `pdl/pdl.go:49`). Otherwise the samples may hold any
lines, and any number of them:

* *GrammaticalAccepted* needs the link between the grammar and the pointers
  (`PointersSet`): a class of line that may come next finds set what it goes
  through. It says nothing about how deep the pointers lead, which *TypeOK* does.
* *PanicsOnOrphans* needs `PointersKept`: a pointer is set exactly when a line that
  sets it has been read. What such a line sets is nowhere reset to nil before the end
  of the file, not even by a new domain. The other half is about the sequence of lines
  alone: the last line above that can own one exists as soon as there is any
  (`LastOfSome`, from the well-foundedness of the naturals).
* *TypeOK*: a pointer is an index into each of the lists it goes through
  (`PointersIn`). A line appends to one list of the document or replaces an element in
  its place (`OneItemMore`, `SameLengths`), so that the other pointers still lead to
  something. This
  is `ParserShape`, the first part of the inductive invariant `FilesInv` of the three
  theorems that follow. A second invariant on top of it, `EnumsInv`, says where literals go
  (`EnumsKept`): `enumliterals` leads to an item, to a member declared as an enum, or to
  nothing in the document any more, so that only such members have literals. The section
  line is the step to watch: it drops a list, and what `enumliterals` led to may be in it.
* *DomainsSorted*: the lines left of the combined file begin their domains in the order
  of their names (`DomainsBegin`), none before one that has been read (`DomainsBefore`).
  For a file that has just been written this is a fact about `Bytes` (`BytesLines`),
  which is followed through all its nested lists.
* *CombinedVersionCovers*: `NewerVersion` gives the one of two versions that is not
  older, and `Combine` goes on from there (`CombinedShape`, by induction). `Bytes` writes
  one line for the version and one for each number and no others (`VersionAt`), so that
  the document has as much of it as has been read (`VersionRead`).
* *CombinedAccepted* is proved for combined files of documents that are `Writable`: no
  member is a bare array (`Bytes` panics), and no type has a redirect or is a reference
  (the line that `Bytes` writes is none that `Parse` knows: section 4). All that
  `pdl_files` combines is. The invariant is `Served`: each line left of
  the combined file is known, and each pointer it goes through is set already or will be
  by a line before it.
* *ParsedAsWritten*: `Meaning` looks upwards from each line for the one it belongs to,
  `Parse` follows pointers. `WrittenInv` links the two: what the next line would look up
  to is what the pointers lead to, for each class of line that may come next
  (`WrittenHere`). A further line then changes the meaning of the lines above in one place
  at most: a list gets one more element, or its last element another value (`EachMore`,
  `EachLast`). The lemmas carry this from the literals through members, items and domains
  up to the document, where it is what the line's branch of `Parse` assigns. `WrittenInv`
  takes `FilesInv` and the invariant of *GrammaticalAccepted* along and is inductive with
  them; TLC finds it true of all states of `pdl_files`.
* *RoundTrip* is about the end of the combined file. What holds on the way there is
  `LeftToRead`: what the parser knows (`State`) and the lines that are left give, together,
  the combined document, but for the order of its lists. `Then` is a step of the parser as a
  function of what it knows (`ThenIsRead`), and `ThenAll` what it comes to when some lines are
  read; so a step of `ReadCombined` leaves `LeftToRead` as it is, and what is to be shown is
  that it holds of the lines that `Bytes` chooses. This takes two things. The lines of a
  document give it back, part by part, if each part is what its own lines say (`ReadDocument`
  and the lemmas before it, literal by literal, up to the document). And what `Meaning` makes of a file
  is like that (`DocMeant`): descriptions neither begin nor end with an empty comment, the type
  that is written for a type expression is read as the same one, the parts of an item are those that items of
  its class have (`KindsRead`, which the grammar keeps; `Bytes` writes no other). Both hold in any
  order `Bytes` may write the lists in, as sorting them leaves their bags alone
  (`PermutedBag`). What the parser rejects or the writer panics on is no
  exception to *RoundTrip*: as long as the parser goes on, an unknown line that was written is
  still to come (`LeftUnknown`). Two things are read back as something
  else, and `Faithful` excludes them, and only them: a member that is an array and has literals
  (section 4, with a run that shows it), and a type that is a bare `array`. TLC finds
  `LeftToRead` true of all states of `pdl_files`, all of which are `Faithful`.

The output theorems assume `OutputConstants` and `OutputPaths`: the files of a
protocol are among the paths, every package has a file, paths are nonempty
sequences of names, the directory holds at first only what its user has put there,
no generated file or package but `easyjson.go` has a name at the root that
`-go-wl` matches or that is hidden, and no generated file is in the place of a
directory of another. The last two hold for the names the generator makes (names of
domains and targets). `easyjson.go` is whitelisted, as it is by default; otherwise
`-go-wl` is a list of globs the user chooses: with one that matches a package, nothing
below is claimed. The numbers of protocols, packages and files are arbitrary.

* *Untouched* needs only the types: a path of the user's at the root is no output
  and above none (`OutputsApart`), and the walk keeps it and all directories above
  it (`CleanKeeps`), which is where the test of the path's own first character counts.
* *StageInputs* is about a stage that has begun, and holds because of what the
  stages before have done. `StagesInv` says for each stage what its tasks have done:
  a task that has its file open holds what the stage makes of it, one that is done
  has written it (`Doing`), and the files of earlier stages are as those left them.
  `StageDone` is the barrier: when `eg.Wait` returns without an error, every task
  is done. So all files that goimports has written are whole when easyjson starts, and
  gofmt reads nothing that this run has not written in full. What else easyjson parses is
  what `KeptInv` (below) lets be in the directory of a package: `easyjson.go`, of any run and
  in any state, or another file the cleaning spares. It may be torn, which is why such a run may fail (section 4).
* *Published* takes `StagesInv` for the files of the run and `KeptInv` for the
  others. From the cleaning on, a file is one that the rules allow, or still to be
  visited, or pending: it is in the place of a directory of the run, which the rule
  for directories keeps, and no file below it can be opened. When the first stage
  ends without an error nothing is pending any more. With `-no-clean` nothing
  is claimed of other files, and after an error or a kill nothing at all.

The theorems about versions hold of all sequences of three or four naturals: a
prerelease of the library is a number there, as in all tags that `verRE` lets
through. `FilesOrdered` is what `sort.Slice` asks of a comparison.

Those about the retrieval assume `SourceConstants`, `GrabConstants` and
`ProtocolConstants`, which give types to the tags, the times, the TTLs and the
command lines. The tags may be infinitely many, and so may the invocations.

* *NamedForContents* rests on `CombinedNamed` (a full file has its versions in its
  name), on `GrabFilled` (what `grab.go` has loaded is of the versions it will write
  under) and on `ProtocolFilled` (the same of `main.go`, by stage).
* *ComparedWithOlder*: when `main.go` lists the directory its own file is there
  (`ProtocolCompares`), and no file is removed meanwhile (`CombinedGrows`), so that
  the walk begins at this file and not at the newest.
* *TagsFoundInTime* is a property of single steps: both pages asked for are younger
  than the tag, by the bound that `MayGet` gives.
* *ChosenAnew* needs that with a TTL of zero what is loaded is whole at each stage
  (`ProtocolWhole`).
* *OnlyNewestPassedOver* and *CountsBounded* need that the versions come newest first,
  so that no file is written twice (`GrabOrdered`). `GrabPasses`: a counter that is full
  stays full until the major is over, and what was passed over before that is the
  newest of its major. `GrabMajors`: every major with a file has been counted but the
  one at hand. `GrabFiles`: the first file of a later major has been counted for the
  major before, which is the "one more" of `CountsBounded`.

Those about the generator assume `FixupWords` and `GenerateConstants`: the words that
`FixDomains` writes are words, and the protocols that may be given are `WellFormed`.
Their number, the number of domains, of items and of values, the names, the list of
shared types and the map of enum names are arbitrary. `WellFormed` says of a protocol
what the parser or the authors of the protocol see to:

* every item is in the list of its kind and has its domain's name (`pdl/pdl.go` makes it
  so), a member has a type or a reference and not both, only types are arrays, only
  commands return something, and only objects have members;
* domains have names of their own, none that of a package or file the tool makes, and
  the types of a domain have names of their own, also with those that `FixDomains` adds
  (all but one of the definitions would be lost in any generator of the protocol);
* two members whose enums become one type agree on whether that type is shared. They
  do when the list of `pdl/dep.go` names both or none; with one of them, the order of
  the items would decide;
* the short name of a shared type is that of no other type in a domain that has
  shared types. `ResolveRef` looks such a type up by the short name alone, so the list
  in `pdl/dep.go` must be made this way;
* no array type has items of an array type. `GoTypeDef` would go into them
  (`gen/gotpl/util.go:218-220`), which would have to be a recursion in `Generate`.

The parts of the proof:

* `SequenceLemmas` is about `Lists`: what is at an index of a list that was picked,
  flattened, or made element by element. The induction over the length goes through a
  least counterexample (`Numbers`), as the library's induction theorems cannot be used.
* The first half of `GenerateProofs` shows what one domain becomes. The types after `n` enums are the given
  ones followed by new ones with distinct names, each with the values of the enums
  so far (`WithEnums`). `FixedDomain`, `TypesAre` and `ValuesAre` then equate
  what is in the fixed domains with what `Reading` says of the given ones.
* The invariant `Inv` of `Generate` is `StepsInv` (where the loops are), `DomainsInv`
  (the domains are those of the given ones that are live, cleaned, up to the loop's place
  fixed), `FilesInv` (each file that is written holds the declarations of its
  domain, and none else is) and `PanicsInv` (no reference that was to be resolved for
  what is written failed to, and if the run has panicked there is one that does).
  It is inductive as it stands, and TLC finds it true of all states of `generate_files`.
* *PanicsOnDangling* then says that `ResolveRef`, which searches the changed domains,
  finds something exactly if `Targets` is not empty, for the references of the protocol
  (`Dangling`) and for those the tool writes itself (`InVain`): the session id of
  `Target`, and the members that `FixDomains` rewrites. *RefersAsWritten* leaves out
  `modifiers` outside Input, which do not get what they are promised (finding 5).
  *Compiles* and *RefersAsWritten* follow what it finds to its declaration, which is
  where `GoPackage` says; *DeclaredOnce* counts the declarations, which needs that no file is written twice and that fixing gives no two
  types of a domain one raw name.

Those about the locks assume `MutexConstants` (there are finitely many readers, and
nobody is both reader and writer) and `TreeConstants` (the nodes form a tree: they have
heights that grow from child to parent). The size and shape of the tree and the
number of threads are arbitrary.

* `LockInv` is inductive. `Shape` says where the calls on a stack can be: all but the
  innermost are past their `RLock` and hold their own node only, the callers are
  `xpath` or `Dump`, and below a `Dump` there are only `Dump`s of lower nodes.
  `WaitsAtTop`: a blocked reader is in the queue of what its innermost call has asked
  for, behind a writer. `WritersInv`: a writer has one mutex, with no reader in it
  when the writer is inside. `Counted`: the number in a mutex is that of the locks on
  the stacks; the steps add or remove one pair of a reader and a depth, and `Unlock`
  as many as readers have waited (`SumTaken`, `SumReleased`, `SumJoined`).
* *OnlySiblingsRace*: who reads its own node or, among the siblings, the parent, holds
  the lock, so that the mutex is not at 0 and no writer is inside.
* *DeadlocksNeedXPath*: among threads in a circle without `xpath`, take the lowest node
  that one of the readers waits for. Its writer waits for a reader that holds it; that
  reader waits too, for a node its innermost `Dump` has asked for, which is lower.

Every invariant of a passing run is the subject of a theorem. Only model-checked are

* the liveness properties (`Terminates`, `GrabEnds`, `CallsReturn`, `WritersEnter`): they
  rest on fairness, so on ENABLED, which the prover does not handle;
* the violations of section 4, which are behaviours that TLC exhibits.

## 6. Not modelled

* `pdl/har.go` is a constant, a definition in the syntax of PDL, and `pdl/gen.go` the
  program that has made it: it has one step, and no state.
* `gen/genutil`: the wording and wrapping of comments, the capitals of initialisms.
  Names are model values; where two could clash, `DeclaredOnce` and `Compiles` are
  about which are declared.
* `gen/gotpl/*.qtpl.go` is compiled from the templates, which are the source here. The
  bodies of generated methods (`Do`, `MarshalJSON`, ...), JSON tags, and the names of
  enum values beyond whether there is one for each are left out.
* The columns and colours of `diff`, and the program it starts to show the differences.
* The parsing of HTML, JSON and DEPS beyond whether it succeeds and which tags or
  revisions it yields; HTTP beyond what a call may hand out.
* Command lines beyond the flags that the modules name, and logging.
