# MKSim in TLA+

MKSim imports a directory of documents into an encrypted index (an SSE2 lookup
table from words to documents and, for every document, a homomorphically
encrypted vector of term frequencies) and answers queries of several keywords
with a similarity score for every document found. This directory holds TLA+
models of the program in `src/src/*.cpp`, their TLC runs, and TLAPS proofs.

## 1. The system

### Components

| Component | State | Operations | Hard parts | What makes it correct |
|---|---|---|---|---|
| **ThreadPool, Thread** | free list, thread list, per thread a run flag and a mailbox `m_pTask_` | `Init`, `CheckOut`, `SetTask`, `CheckIn`, `GetNumFree` (the engines' barrier), `Kill` | the mailbox and the length of the free list are accessed without a lock; clear and check-in are two steps; timed waits | no task lost, doubled or overwritten; the barrier means that everything ran; main never gets stuck |
| **Mutex, MutexHandler** | lock and condition variable | `Wait` (always timed), `Signal` | lost signals, wake-up of the wrong thread | is part of the above |
| **Queue, EventQueue** | list, counter, capacity | `Enqueue`, `Dequeue`, `Run`, `Kill` | unlocked look at the counter; wait without a second look; producers and consumer share one condition variable; capacity limit | FIFO, bounded, nothing lost; every event handled |
| **IndexBuildEngine, ReadContentTask, EncryptTFIndexTask** | dictionary, document indexes, SSE2 index, files | `Startup`: read, sleep, save dictionary, term frequencies, encrypt, SSE2 index, save | three kinds of threads; dictionary and indexes shared without a lock; ten seconds of sleep in place of a synchronisation; files written one by one | every document once; files agree with each other; failure only without words |
| **EventHandler** | the event in hand | read-content and similarity events | runs beside main and the workers | see both engines |
| **SearchEngine, SimilarityMeasureTask, DecryptSimilarityMeasureTask, SimilarityMeasureResults** | query, hits, results, score files | `SearchIndex`: look up, measure, decrypt, print | waits for the pool but not for the queue; late events of earlier queries; a score file is read and rewritten at the same time | results of this query, with its scores, each once |
| **SSE2Index, SSE2SearchQuery, SSE2SearchResults** | table of keys | `AddEntry`, `GetDocumentCollectionSize`, lookups | a key is a word and a counter written after each other; `emplace` keeps the first entry | exactly the documents with a word |
| **Dictionary, DocumentIndex, TFIndex, TF, SearchQuery** | sets and vectors | add, set, read | positions in vectors are positions in a dictionary | a TF vector and a query vector are about the same words |
| **HEManager** | keys, context | `EncryptArray`, `CalculateSimilarity`, `DecryptArray` | cutting into ciphertexts, padding, modulus | the score is the scalar product |
| **FileManager** | the output directory | read and write of dictionary, TF vectors, scores, SSE2 index | files opened for writing and not complete; archives that throw; files of several imports and of processes with other keys beside each other | what a search reads belongs together |
| **main** (`SimSearch.cpp`) | the objects above | start, menu or fixed sequence of queries, shutdown | many exits; imports that return false; the queue is killed and not joined | see the pool, the output directory and the log |
| **Log, Config** | the open file and its name, the level; the settings | `SetFileName`, `SetLevel`, `Load`, `GetValue` | a file that cannot be opened after one that could; command line and configuration both name a file | the log goes to the file that was asked for |
| LTCManager, StatsTracker, MutexRW, Test, vendored HElib, NTL, libtomcrypt | | | | not modelled, see section 7 |

### How they interact

Main is the only thread that runs an engine. An engine cuts a batch into tasks,
checks threads out of the pool and puts a task into the mailbox of each, then
polls until all threads are free. Tasks that read documents or measure
similarities enqueue *events* and have to wait while the queue is full. The one
thread of the event queue hands events to the handler, which changes the
dictionary, the list of document indexes or the list of results, the same
objects main uses. Main waits for the pool and never for the queue: in
`Startup` it sleeps ten seconds after the barrier, in `SearchIndex` it goes on
at once. That is the source of most of the hazards in `PROJECT.json`.

## 2. Modules

| Module | What it is | Code |
|---|---|---|
| `Mutex` | what a signal does to the waiting threads | `Mutex.cpp` |
| `TaskDispatch` | abstract specification: what the engines may expect of the pool | |
| `ThreadPool` | the pool, its threads and the engine that uses it | `ThreadPool.cpp`, `Thread.cpp` |
| `EventChannel` | abstract specification: a bounded FIFO channel | |
| `EventQueue` | queue, producers, consumer | `Queue.cpp`, `EventQueue.cpp` |
| `Slicing` | the two loops that cut a batch into tasks | both engines, four times |
| `Batch` | the plan of a batch in closed form, what is left of a batch and what the tasks still have to do, used by the engine modules | |
| `IndexBuild` | one import: main, workers, handler, disk | `IndexBuildEngine.cpp`, tasks, `EventHandler.cpp` |
| `SearchService` | abstract specification: what a search promises, with neither threads nor files | |
| `Search` | several queries: main, workers, handler, score files | `SearchEngine.cpp`, tasks, `EventHandler.cpp` |
| `SSE2Lookup` | keys of the SSE2 index | `IndexBuildEngine.cpp`, `SearchEngine.cpp`, `SSE2Index.cpp` |
| `HEArray` | cutting, padding, product, sum | `HEManager.cpp` |
| `Store` | the output directory over several imports, searches and processes | `SimSearch.cpp`, `FileManager.cpp`, `HEManager.cpp`, the engines |
| `Launch` | command line, log, settings, threads, menu, exits | `SimSearch.cpp`, `Log.cpp`, `Config.cpp` |
| `ThreadPoolProofs`, `EventQueueProofs`, `SlicingProofs`, `IndexBuildProofs`, `SearchProofs` | TLAPS proofs about the module of that name | |
| `ProgramProofs` | TLAPS proofs about `Store` and `Launch`, the program as a whole | |
| `QueryProofs` | TLAPS proofs about `SSE2Lookup` and `HEArray`, the two computations behind an answer | |
| `BatchProofs` | lemmas on slices of a batch and on tasks in execution, for `IndexBuildProofs` and `SearchProofs` | |
| `MCIndexBuild`, `MCSSE2Lookup`, `MCStore` | values for TLC that a `.cfg` cannot write; the other modules are checked as they are | |

How they fit together: `IndexBuild` and `Search` do not repeat the pool, the
queue and the loops. They use what the lower modules show: a task runs once
beside main and the barrier passes only when all have run (`TaskDispatch`); the
queue is a FIFO channel that blocks its senders when it is full
(`EventChannel`); the k-th task of a batch has the items of `Batch`
(`Layout` in `Slicing`). Each of these three is a theorem. A fourth says what
comes out at the other end: `Search` implements `SearchService`, where a query is
asked, its list is cleared, what was found is sent and arrives, the answers that
are there are taken, scored and shown. The mapping is at the end of `Search`: the
documents to be sent and the answers to be scored are what remains of the batch,
not handed over or in a task (`Remaining`); underway is what is queued or in the
hand of the handler (`Coming`); the answers are the results of all engines, of
which the service sees those of the query or all, as the engines are one each or
shared. Tasks, workers, the writing of files and who holds an event are invisible
there. That main does not wait for the queue is visible: `Take` may come while
something is underway, and `Break` is what becomes of it when an archive is read
that is being written, which the service allows only between an answer of an
earlier query and a later one for the same document. `Store` is the layer
above: its import is `IndexBuild` as far as its files go (with the settled and
the unsettled outcome), its search is `Search` as far as it reads files, and
both may end with the process at any step. `Launch` is the frame: its import
and its search only come back or end the process.

Conventions in all of them:

- A critical section (the life of a `MutexHandler`) is one action. Whatever is
  read outside the lock is one machine word with a single write per section, so
  a reader sees it as before or after the section. A wait releases its lock and
  joins the waiting threads in one action, and returns in another, after a
  signal or, always possible, through its timeout or spuriously.
- An access to shared data outside a lock is an action of its own: the look at
  the counter in `Dequeue`, the poll of `GetNumFree`, the copy of the mailbox,
  the assignment to it.
- Definitions that begin with the comment "Fault:" are not part of any
  specification. Each is a small mistake in the definition below it; replacing
  that definition by it must break a property, which shows that the property
  depends on the code.
- Variables called history record what happened and guard nothing.

### State and actions

`ThreadPool`: `free` is `m_oFree_`, `mailbox` is `m_pTask_`, `running` is
`m_bRun_` of a thread, `wpc` is the place in `Thread::Run`, `mpc` the place of
main in `Init`, `CheckOut`, an engine's batch or `Kill`. Tasks are numbers in
the order of their creation.

`EventQueue`: `queue` and `current` are `m_oQueue` and `m_iCurrent`; a producer
is in `Enqueue` or in its `Wait`; the consumer passes through *test*, *read*
(the unlocked look), *dequeue* (pop under the lock), *handle*, or *lock* and
*wait*.

`IndexBuild`: `pc` follows `Startup`; `busy` holds what is left to do of every
task in execution; `hEvent` is the event in the handler's hand, which has two
visible steps (`AddWords`, `AddTFIndex`); `cursor` is the position of main's
loop over the dictionary; `disk` holds the files. A word is a number, a
document its set of words with counts, a TF vector a sequence of words with
values, so that a value at the wrong position is seen. Writing a
file is two steps for the two index files (opened, complete). A write that
fails makes the archive throw, nobody catches that, and the process ends: what
a run leaves on disk after that or after a crash is what some state has on disk,
which is why `CommitOrder` is an invariant and there is no crash action.

`Search`: `results` has a list for every engine (one per query in interactive
mode, one for all otherwise), `file` says for which query the scores in a
document's `.simresult` file are, or that it is being written. Workers that
decrypt a file being written end the process, as the archive throws.

`SSE2Lookup`: words are sequences of characters, of which those below `Base`
are digits; `Decimal` is `lexical_cast`; the HMAC is taken to be injective. A
query is typed, or drawn as in the non-interactive mode, where a position that
is one past the end of the vector crashes or reads as any words. The walk of
`MakeSSE2Index` over the words is a step for each; that over the documents of a
word is one operator: the value of `ctr` when the walk comes to a document is
the number of documents with the word before it (`Counter`).

`HEArray`: a ciphertext is the sequence of its slots. `pos` counts the values
that `EncryptArray` has cut off, and later the values of the decrypted array that
are in the score.

`Store`: `dictFile`, `sse2File` and `tfFile` are the files; each is missing,
torn (opened and not finished), a mixture of two writers, or whole, and then
knows by which import and with whose keys it was written. `process` counts the
starts of the program; `Ends` is a crash, an exception and leaving the menu
alike, possible at every step, and keeps the files only. `pc` is the place of
main in `Startup` or `SearchIndex`; `built` is the menu after an import that has
returned true. `entered` and `indexed` are the dictionary and the list of
indexes, known by their documents; `settled` is that of `IndexBuild`. The name
of a vector file is the stem of the document, and two documents may share it.

`Launch`: `file`, `filename` and `open` are the log (`file_`, `filename_` and
what `fopen` has given it); `place` follows main from the options to its return,
and `Gone` is every way to leave the process. A setting gets its value where
main reads it, so that all contents of the configuration are covered. The pool
and the queue are no state here, only places that main passes.

## 3. Runs

| Run | Instance | Shows |
|---|---|---|
| `pool` | 3 workers, 4 tasks, fair | `TaskConservation`, `BarrierComplete`, `NoOverwrite`, refinement of `TaskDispatch`, `EveryTaskRuns`, `MainReturns` |
| `queue` | 3 producers with 2 events, capacity 2, fair | `Conservation`, `DequeueFindsEvent`, refinement of `EventChannel`, `EveryEventHandled`, `EnqueueReturns` |
| `slices` | batches up to 30, pools up to 9 | `Disjoint`, `Covered`, `Layout` |
| `index` | up to 4 documents, 2 workers, capacity 1, 2 words, fair | `TypeOK`, `ReadOnce`, `CommitOrder`, `FailsOnlyWithoutWords`, `MainOwnsIndex`, `StartupReturns`, `EveryDocumentIndexed` |
| `index_sleep` | up to 2 documents | violated: `LetItFinishCompletely` |
| `search` | 3 documents, 2 queries, 2 workers, capacity 2, both modes, fair | `TypeOK`, `ResultsAccounted`, `FreshScores`, `OwnResults`, `ExactResults`, `MainOwnsResults`, refinement of `SearchService`, `SearchReturns`, `EventsArrive` |
| `search_clear` | 2 documents, 2 queries | violated: `ClearPreviousResults` |
| `lookup` | 3 documents, 3 words, 3 names, 2 digits, typed and drawn queries | `TypeOK`, `NoFalseHits`, `NoMisses` |
| `random_words` | 2 documents, 2 names | violated: `PicksFromDictionary` |
| `scores` | vectors up to length 5, 2 slots, prime 3 | `HETypeOK`, `ScoreIsProduct`, `DifferentSizes` |
| `store` | 3 documents with 2 names, 2 imports, 2 processes, 2 workers | `PairVouches`, `PairInMenu`, `SearchRight` |
| `launch` | 3 log files, one of which cannot be opened, 2 levels | `LogRight` |

The type invariants of `ThreadPool`, `EventQueue`, `Slicing`, `Store` and
`Launch` are theorems (`TypeCorrect`, `LaunchTypeCorrect`) and not part of a run.

Why these bounds are enough to see the interesting cases: four tasks on three
workers make CheckOut wait and give a worker a second task; three producers
with a queue of two fill it with somebody else waiting beside the consumer;
four documents on two workers give bulks of
two, three a bulk and a rest, one or two fewer than or as many as workers; a
queue of one blocks workers at once; two queries are the least for late events,
and three documents leave two of them pending. In `lookup` numbers are written
with two digits instead of ten, so the third document already has a number of
two digits and keys clash with two digits and three documents as they do with
ten digits and eleven documents in the program. In `scores` five values and two
slots give full ciphertexts, a rest, and vectors shorter than a ciphertext, and
with values up to 2 the product 4 exceeds the prime 3. In `store` a second
import is the least that can be cut short over a first, a second process the
least that has other keys, and two of the three documents have one name. In
`launch` any number of options may come in any order, so nothing is bounded
there but the names.

Symmetry is used for file names in `lookup` and `random_words` only, which
nothing orders there and where no liveness is checked. Runs end in `Terminated`,
`Returned`, `Ended` or `Done`, which keep the last state, so deadlock is checked
everywhere.

Conditions that properties carry, and why they are not empty:

- `settled` (index) says that queue and handler were idle when the ten seconds
  were over, `drained` (search) that they were idle at every barrier of a
  measurement so far. Runs have states with and without; the two violation runs
  show what happens without. What threads do to one another's containers in the
  states without (iterating over a `std::set` or `std::vector` that grows) is
  undefined in C++; the models go on with a plausible value, and claim nothing
  there beyond `ReadOnce`, `ResultsAccounted` and the liveness properties.
- `sound` (store) says that the import had settled and that its documents have
  different names. The `store` run has imports that are and that are not; two
  documents of one name leave one vector for both, or a mixture that may not
  read as an archive.
- `Plain` (lookup) says that no other word of the dictionary with a number
  reads like a word of the query with one.

## 4. Disagreements between code and comments

With a run that shows them:

- `IndexBuildEngine.cpp:108` "Let it finish completely": the sleep does not
  look at the queue. In the counterexample, one document has been read and
  enqueued, the barrier passes, the time is over, and the dictionary is saved,
  or found empty, while its event is pending.
- `SearchEngine.cpp:537` "Clear previous results": an event that was pending
  when the previous query ended arrives after the clearing in the same list,
  and its document is printed for the new query.
- `config_sample.conf:41` "pics the N random words from document dictionary":
  `boost::uniform_int` includes its upper bound, which is the size of the vector
  (`SearchEngine.cpp:828`), so a position drawn can be one past its end.

Met while modelling, with no run of their own:

- `SimSearch.cpp:99` and `:147` say of a log file that cannot be opened "Unable
  to set file '%s' as output file, using stderr", and `:111` of an unknown level
  "using stderr" as well; the log goes to stdout (`Log.cpp:52`, `:127`), or, with
  an unknown level or an empty name, stays where it is.
- `config_sample.conf:5-7` says that the log file can be "excluded for no
  logging"; with no log file in the configuration nor on the command line the
  messages go to stdout. As code and documents differ in both cases, `LogRight`
  says of a log whose file cannot be had only that it has no file open and no
  name of one, and nothing of the stream it writes to.
- The log level of the command line is said to override the configuration
  (`config_sample.conf:10-12`); `SetupLogging` takes the configuration's level
  whenever there is one (`Launch`: `SetupLogging` gives `level` any value).
- The number of random words in the configuration (`simsearch_word_random_number`)
  is not used; three queries of fixed lengths are made. The options `-g`, `-u`
  and the configuration file name of the usage text are not those of the code.
- A blank value in the configuration makes `Config::Trim` write behind a null
  pointer; an empty line in the menu repeats the last command, and so does the
  end of the input, without end; `return false` from main is the exit status 0.
- The term frequency is the size of the dictionary divided by the count of the
  word, so a word that occurs more often has a smaller value, and 0 when it
  occurs more often than there are words (the third text of `MCIndexBuild`).
- `LTCManager.cpp:215` formats each byte of an HMAC into two characters with
  room for one digit and the terminator: half of the hash, 128 bits, is left.

## 5. Fairness

Weak fairness of main, of each worker (of the workers together in the engine
modules) and of the consumer: they are threads of one process with no
priorities, and critical sections are short. In `EventQueue` the timeouts of
`Wait` are fair as well, and must be: without them an event that is enqueued
between the consumer's look and its wait could stay for ever, which is the
mutant of `EveryEventHandled`. In `ThreadPool` the timeout of `CheckOut` is not
fair: the signals alone are enough. Nothing makes main import, search, or leave
its menu, and liveness properties do not ask for that.

## 6. Proofs

All for any number of threads, producers, events, tasks, documents and queries
and any capacity, under the assumptions named in the modules
(`ThreadsAssumption` and the like: finite sets, numbers that are natural, a pool
of at least one thread, special values that are not threads). TLC evaluates the
assumptions in every run of the modules.

**`ThreadPoolProofs`**: `TypeCorrect`, `Conservation`, `Barrier`,
`MailboxDiscipline`, and `Refinement` (the pool implements `TaskDispatch`).
`BarrierComplete` is not inductive: that the free list is as long as the pool
has threads means that every thread is free only because the list has no
duplicates (`FreeInv`); that a free thread has no task left needs the empty
mailbox of the threads on the list and that none of them is about to clear it
(the order of `SetTask(NULL)` and `CheckIn` in `Thread::Run`); that *every* task
has run then needs that a task dispatched and not executed is in some mailbox,
and in one only (`TaskInv`). `IInv` is the conjunction, with where each thread
may be in every phase of main. The lemmas are about lists without duplicates:
push, pop, and that such a list of all threads has them all (with
`FiniteSetTheorems`).

**`EventQueueProofs`**: `TypeCorrect`, `NothingLost`, `PopIsSafe`, and
`Refinement` (the queue implements `EventChannel`). The invariant adds to
`Conservation` that a consumer between its look and its pop finds the counter
still above zero, since it is the only one to decrease it, and that it has an
event in hand exactly while it handles one.

**`SlicingProofs`**: `TypeCorrect`, `SlicesDisjoint`, `SlicesCover`,
`LoopsFollowPlan`. The invariant says which items have been handed over at a
loop index, and how many tasks have been made. It needs a little arithmetic of
quotient and rest.

**`BatchProofs`** holds no theorem about a specification but the lemmas that the
next two share: the slices of a batch follow one another, are not empty and end
with the batch; `Left` is what has not been handed over; the tasks in execution
are `Apart` (no item in two of them, none twice in one); a task handed over or
an item finished moves exactly that item.

**`IndexBuildProofs`**: `TypeCorrect`, `DocumentsReadOnce`, `FilesAgree`
(`CommitOrder`), `FailureMeansNoWords`, `IndexStaysPut`. None of these is
inductive. `Flow` follows a document: it is still in the batch (not handed over,
or with a worker), queued, in the hand of the handler, or indexed, and at no
time two of these; this gives `ReadOnce`. `Work` says the same of the items of
the batch, and that there is no task outside a batch, which is what the barriers
add. `Dictionary` says that the dictionary has all words of what is indexed (the
handler adds the words before it appends the document) and no others. `Settled`
is the heart of `CommitOrder`: if nothing was pending when the sleep ended
nothing ever is again, since only the tasks of the first batch make events, so
the dictionary saved is the dictionary used. `Vectors` is the loop invariant of
`CalcTermFrequency`: every vector has the words behind the cursor, in order, with
their values; that the cursor meets every word needs that a non-empty set of
numbers has a least element (`LeastNumber`, by `WellFoundedInduction`).
`Encrypted` says that each vector remains to be encrypted or is on disk.
`SSE2Entries` is the loop invariant of `MakeSSE2Index`; that the counters of a
word are exactly 0 to one less than the number of its documents is a bijection
proved with `FiniteSetTheorems` (`CounterNumbers`, `CounterOnto`). A history
variable is part of it only where the properties name it (`settled`).

**`SearchProofs`**: `TypeCorrect`, `NoResultLost`, `ScoresAreFresh`,
`ResultsAreOwn`, `ResultsAreExact`, `ResultsStayPut`, and `Refinement` (the
search implements `SearchService`). The invariant follows the documents found: `Account` (a document remains to be measured or has an event,
and not both), `Unique` (no event twice, anywhere), and `Order`: the queue, the
hand and the results keep the events in the order of the queries. `FreshScores`
rests on `Order`: an event that could still rewrite the file of a result of this
query would have to be of this query and of the same document, and there is only
one. `Files` says that the file is ahead of the list, `Scores` that a result
of the query is decrypted or remains to be. `Drained` is what an empty queue at
every barrier adds. The refinement has a lemma for every action. It needs one more
invariant, `Follows`: a file is never behind a result of its document, nor ahead
of the query, so that a score is of the query of the result or of a later one.
`Unique` says that the keys of answers tell them apart, so that what remains of
the batch to be decrypted, which are positions in a vector, is the set of answers
without a score; `Order` that an event comes after those of earlier queries, and
that the event whose file cannot be read is of a later query than the result.

**`ProgramProofs`**, about `Store`: `TypeCorrect`, `DictionaryAndIndexVouch`, `MenuFindsPair`,
`SearchIsRight`. `PairVouches` needs the order in which an import writes:
`OlderIndex` (the SSE2 index on disk is older than the import under way, so no
pair is formed before it is done), `NewDictionary` and `NewVectors` (what the
import has written so far is its own, for all documents not left), and
`Numbered` (nothing on disk is of an import to come; keys are of this process
exactly for imports begun in it). `PairKept` is `PairInMenu` in the form that
survives an import which fails before it writes; `SearchReads` and
`MeasuredRight` carry what a search has read.

About `Launch`: `LaunchTypeCorrect`, `LogGoesWhereAsked`. `LogRight` needs only
that the configuration has not been read while options are; the steps use what
follows from it, that the log writes to the one file it has open, if it has one
(`FileOpen`).

**`QueryProofs`**, about `SSE2Lookup`: `LookupTypeCorrect`, `HitsAreWanted`
(`NoFalseHits`), `WantedAreHit` (`NoMisses`), for any words, documents, file
names and base of the digits. `Decimal` is defined by recursion, and what it
computes has to be proved first. The theorems of the library about recursion and
induction have operators as parameters, which the provers cannot instantiate;
`NaturalInduction` says the same of a *set* of numbers, from `LeastNumber`, and
`RecursiveFunction` says that a function whose values are made of earlier ones,
as given by *functions*, exists: it is put together from beginnings of every
length, of which any two agree. From these, `DecimalIs` (the definition holds),
`DecimalInjective` (different numbers are written differently: the last digit and
the quotient tell a number), and `KeyInjective` (the key of a word tells its
number). `CounterNumbers` says that the documents of a word have different
numbers below their count. The invariant, `LookupInv`, says of the walk of
`MakeSSE2Index` that every entry is one of a word it has passed
(`EntriesRight`), and that a word which cannot be misread has all of its entries
although `emplace` drops others (`EntriesComplete`). `HitsAreWanted` then is: an
entry under a key of the query is of a word that reads like a word of the query,
so of that word itself, as the number of a search is less than the number of
names, which is at most that of documents (`NamesInIndex`). For `WantedAreHit`
the numbers tried must reach every document of the word: those documents have
entries, so with different file names there are as many names in the table as
there are documents with the word, at least.

About `HEArray`: `HETypeCorrect`, `ScoreIsScalarProduct` (`ScoreIsProduct`),
`DifferentSizesTold` (`DifferentSizes`), for vectors of any length, any number of
slots and any modulus. `HEInv` says that the ciphertexts made so far are the
`Piece`s of the vector (`EncryptedSoFar`, `BothEncrypted`), that the scores are
the products of pieces in pairs (`ScoresRight`), and of the sum (`Summed`,
`Reduced`) that it is the scalar product of the values added so far less a
multiple of P, which is none if no product reaches P. The position in the
decrypted array leads back to slot and ciphertext by division with rest
(`DivisionWithRest`, `DecryptedIs`), and values behind the end of either vector
are zero times something. That vectors of one length fill the same number of
ciphertexts, and vectors that differ by NSlots or more do not, is the bound in
`IsEncrypted`.

Only model-checked, because the prover cannot do it: liveness under fairness
(`EveryTaskRuns`, `MainReturns`, `EveryEventHandled`, `EnqueueReturns`,
`StartupReturns`, `EveryDocumentIndexed`, `SearchReturns`, `EventsArrive`). Every
invariant that a passing run checks, and all three refinements, are theorems.

## 7. Not modelled

- LTCManager: one HMAC with a key that is a constant of the program, by calls
  of libtomcrypt. It is taken to be injective and the same in every process.
- MutexRW: nothing that runs uses it. StatsTracker: time stamps that are
  printed. Test.cpp: a trial of HElib, a program of its own.
- HElib, NTL and libtomcrypt are vendored, and are all but a few percent of the
  lines in the repository (some 10,000 of 230,000 are MKSim's own, half of them
  headers, comments and log messages). Contexts, noise and the choice of
  parameters belong to them; a ciphertext here is its plaintext and its key.
- The text of the configuration file (comments, blanks, lines that are too long)
  and the wording of the log.
- Tokenising of text: a document is the words that are left of it.
- The sorting of the results, which is commented out (`SearchEngine.cpp:691`)
  although `README:22` speaks of a ranked search.
- Functions that nothing calls: `CreateDocumentIndexes`, `MakeWordDictionary`,
  `EncryptTermFrequency` and `GenRandomSearchQuery` of the index build engine,
  `WriteContentToFile`, `SignalAll`, `Queue::Run`.

Hazards with no property, and why:

- A pool of size 0, for which every batch divides by zero (`SimSearch.cpp:261`).
  No line of the program promises anything about it. `Launch` lets an import or
  a search end the process; the other modules have a thread at least.
- The end of the process while the thread of the queue runs
  (`SimSearch.cpp:524`). What that thread does with objects that are gone is
  undefined, and nothing keeps it from happening.
- Words that read like others with a number (`IndexBuildEngine.cpp:682`). A query
  for them does get wrong documents or misses some, and nothing prevents it.
  `NoFalseHits` and `NoMisses` say that words which cannot be misread, the
  `Plain` ones, do not suffer from it.

## 8. Plan

The order was: what everything else rests on first. Done: the pool and the
queue with their abstract specifications and proofs, the batches with proofs,
the index build and the search with proofs, the search with its abstract specification, the keys and the vectors with proofs, the
output directory over imports and processes with proofs, main and the log with
proofs.
Left, in this order:

1. An abstract specification of an import, as `SearchService` is one of a search,
   and the proof that `IndexBuild` implements it.
2. `IndexBuild` and `Search` over a channel in place of their own queue: a
   refinement that says that their queue is an `EventChannel`, and their tasks
   those of a `TaskDispatch`.
3. The shutdown in detail: which objects of the handler are still in use when
   main returns.
4. Reading of the configuration line by line.
