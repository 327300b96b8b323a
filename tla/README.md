# Verification of the Acorn runtime of GDSL

GDSL is a toolkit for building languages; the program it builds (`src/main.cpp`)
is the Acorn language: a tokenizer, parser, type resolver, compiler and
interpreter over one storage model, in the headers of `src/mixos-acorn/`.
Everything Acorn keeps (nodes, names, contexts, types, scopes, the running
program's data) lives in *columns*, reached through *Ptrs* that carry an index
and a generation; units (threads) share columns under a lock in each column.
This directory holds TLA+ models of that storage model and its users, and of the
stages of the compiler that build trees and blocks, the TLC runs that check them on small
instances, and TLAPS proofs of what they promise for every instance.

Section 1 is the inventory, section 2 the plan, sections 3 to 6 describe the
models, the runs, the assumptions and the proofs, section 7 what is left out, and
section 8 the places where the code and what it says of itself differ.

Paths below are relative to `src/`; `Type`, `Core`, `Nodenet`, `Compiler`,
`Script` and `Workshop` stand for `mixos-acorn/util/Acorn-Type.hpp`,
`mixos-acorn/Acorn-Core.hpp`, and so on.

## 1. Inventory

What the program is built from: `main.cpp` includes only
`mixos-acorn/Acorn-Script.hpp`, with `ACORN_DEBUG` set to 1, so the debug checks
of the storage layer are part of the program. `modules/` is the predecessor of
Acorn and `mixos-acorn-backup/` an older copy; neither is compiled.

| Component | State | Operations | Hard behaviour | What makes it correct |
|---|---|---|---|---|
| Column pools and tickets (Core, Type, Nodenet) | columns of a subunit, their 16-bit generations, stack of free indices; Ptrs in fields, children, scopes, contexts | `create_column`, `recycle_column`, `nuke_subunit`, `get_ticket`, `Unit::recycle_column`, `recycle`, `recycle_value`, `recycle_node` | stale and copied Ptrs, generations that wrap, an error in the middle | no column has two owners; the generation test is exact; nothing leaks |
| Pass contexts and node lifetimes (Nodenet, Compiler, Script) | `unit_ctx`, context columns, source columns, node names | five pass kinds, sub processes, `process_node`, `tokenize`, `compile_literal`, `make_context`, `duplicate_col` | nesting, Ptrs that own and Ptrs that borrow the same column | each context and source column has one owner that recycles it once |
| Column lock (Type) | one atomic byte `live` | `try_lock`, `try_read` (once, timed, forever), `unlock` | interleaving of single atomic accesses, give-up after a time, a full count | readers or one writer; a waiting writer gets in |
| Keyed rows (Type) | Robin Hood table `QCellCol`, rows of a `Col` | `qput`, `put`, `getOrPut`, `addcell`, `grow`, `removeAt`, `remove`, copy | collisions across the end of the array, displacement during growth, reindexing after removal | a key finds its row, a removed key finds nothing |
| Subunit cache (Core) | file, columns in memory, lock | `load_subunit` (two forms, reload), `acquire_subunit`, `read_acquire_subunit`, `save_subunit`, `bounce_subunit` | a test before the lock, load then lock, bounce between | no write is lost, nothing changes under a scope |
| Snapshots (Core) | pools with their labels, free stacks, generations and bytes; the cells that name them; the file | `snapshot_col`, `load_snapshot_col`, `getOrPutPool`, save, bounce, load, reload | the process ends between truncation and the last byte; columns are replaced by a load while cells are added to | unloading does not show; what was saved survives; a stale Ptr stays stale |
| Units and registry (Core, Workshop, Script) | `units`, `units_mutex`, thread-local `current_unit`, `ERROR_FLAG` | `make_unit`, `get_ticket_from_unit`, Ptr resolution, sleep and wake | lookup and creation in two critical sections, a mutex held over a resolution that may take it | a unit is made once, resolution ends |
| Call frames and loop control (Compiler, Script, Workshop) | depth of each function's scope, rows and `sidx` of its variables, state of each pass | `descend_call_scope`, `ascend_call_scope`, `ascend_all_values`, `call_func`, return, break, continue, if, while, for, repeat, iter | who ascends on which exit; arguments evaluated in the caller's rows | every descent is ascended once, code reads the rows of its activation |
| Tokenizer and parser (Compiler, Script, Nodenet) | text; the list of tokens, trees and their scopes; the passes in progress, the index and the left neighbour of each | tokenizer handlers; stage a: default handler with binding powers, identifiers, closing parens and brackets; stage s: braces, if, else, `=>`, passes over children; stage t: else, separators | handlers take nodes from four lists and move the index of the pass that is running over one of them; they wait for other handlers and start passes | the trees read as the program was written, by binding power; a block is what its braces are around; an else has its if; the stages end |
| Scope distribution, overloads (Compiler) | trees, value and type tables | compile-time rewriting | recursion over shared nodes | each use meets its declaration |
| Unit threads, task queue (`ext/g_lib/core/thread.hpp`) | running/paused flags, task queue, mutexes, condition variables | `simulationLoop`, `start`, `pause`, `end`, `queueTask`, `queueAndWait`, `flushTasks` | waiting for a thread that has ended or for oneself | every task runs once |
| Object pool (`ext/g_lib/core/typePool.hpp`) | id stack with an atomic top | `get_next`, `return_id` | read, advance and write as separate steps | an id is handed out once; not instantiated by Acorn |
| Containers, utilities, debugger, driver | - | - | sequential or terminal I/O | reached by tests |

How they interact. Every other component obtains and releases its columns
through the pools, so the discipline of Ptrs is the contract between the storage
layer and everything above it. Passes call handlers, handlers start passes: the
context of the inner one is made from the outer one's (`make_context`) and is
linked by a `parent` Ptr. The lock, the keyed rows and the subunit cache are
layers over one column: `acquire` and `read_acquire` take the column's lock and
run a scope, the rows are found through its table, and load, save and bounce
replace its content as a whole. Units are threads; each has an `ERROR_FLAG`
of its own, which the storage operations test first.

## 2. Plan

The order the modules were written in, each resting on the ones before:

1. `PoolOps`, `ColumnPool` with its abstract specification `ColumnAllocator`; proofs in
   `ColumnPoolProofs`.
2. `PassStack`, which composes two pools of `PoolOps` with the stack of activities; proofs in
   `PassStackProofs`.
3. `ColLock` with its abstract specification `RWLock`; proofs in `ColLockProofs`.
4. `CellTable`; proofs in `CellTableProofs`.
5. `SubunitCache`, on top of `RWLock`; proofs in `SubunitCacheProofs`.
6. `CallFrames`; proofs in `CallFramesProofs`.
7. `SubunitContent` (again on `PoolOps`), `Snapshots` with its abstract specification
   `SubunitStore`; proofs in `SnapshotsProofs`.
8. `Assembling` (stage a), and `Scoping`, which extends it with stages s and t; proofs
   about both in `ScopingProofs`.

What could follow: `for`, whose head stage t takes apart, on top of `Scoping`.
Section 7 says what is not planned, and why.

## 3. Modules and how they correspond to the code

`PROJECT.json` maps each definition to its lines. In all modules an action is
one call that runs to its end without another thread taking part, except in
`ColLock` (one atomic access per action), `CellTable` (one call of `scan_for_slot`, which
calls itself), `SubunitCache` (a call is cut where
another thread can get in) and `Snapshots` (a save is cut where the process may end).

**PoolOps** - the state of one pool (`made`, `free`, `gen`), `Create`
(`create_column`: pop the free stack or extend), `RecycleCol` (`recycle_column`:
refuse what is free, bump the generation, push), `NukePool`, the Ptr record
with its `owning` bit, and the generation arithmetic modulo `GenMod` (2^16 in
the code).

**ColumnPool** - the pool and all Ptrs outstanding. `own[cl]` are exclusive
tickets, released with `Unit::recycle_column`, which tests neither generation
nor owner; `shared` are copied Ptrs, released through `recycle_node` and
`recycle_value`, which test the generation. `err` is `ERROR_FLAG`: while it is
set `recycle_column` does nothing, and `get_ticket` goes wrong. It takes a column from the free
stack, or pushes one and is told index 0 (`ErrorIndex`: `add_idx` looks at the error after it has
pushed), and gives away a Ptr on that index with generation 0, in three of its forms an owning one
(`GetTicketUnderError`); where the pool has to be resolved first, the dummy pool `col2_ref` takes
the column and the Ptr names column 0 of the real one (`GetTicketFromDummy`). Such Ptrs are not
tickets: `strays` is the set of columns they name, `RecycleStray` what their holders do to them,
`orphans` the columns pushed whose index nobody got. `life` is a history variable: how
often a column was recycled, unbounded, against which the wrapping generation
is judged. **ColumnAllocator** is what this should look like from outside:
identities, a place in one of its uses, that are never used twice; a place that was given
away under an error is at the mercy of who has it (`Ended`, `ReleaseStray`), and no other place
is. The refinement maps a ticket to the pair of column and life.

**PassStack** - the pools "Contexts" and "Names" and the stack of activities in
progress. Starting one makes a context (root or derived, the `make_from`
duplication included) and decides whether its source Ptr owns or borrows; ending
it recycles what that kind of activity recycles in the code, which differs
between kinds. Nodes take and return columns of "Names" in between, which is how
a column recycled too early gets a second owner. `lost` is a history variable:
columns whose last owning Ptr was overwritten, at three known places.

**ColLock** - `try_lock`, `try_read` and `unlock` with a step for each load,
exchange, subtraction and store of the byte; the local copy a loop works on is
`cur`, the call's form is `mode`. `WBit` is 128 in the code. **RWLock** is the
abstract lock; the refinement takes as readers and writers the threads that
are between acquisition and release.

**CellTable** - the slot array (`cap`, `size`, slots that are free or hold a key
and the index of its row), the rows, and the operations that change both. A call of
`scan_for_slot` is one step: the cell takes a free slot (`Fill`), takes that of a cell nearer
to its home, which is then put again (`Displace`), or the table grows first (`Grow`), which puts
all cells of the old storage in slot order before it (`PassOver` for its free slots). `pending`
is what the recursion still has to put; the operations of the column wait until it is
empty. The loops over slots are sets of the places where they stop, of which the first is taken.
Removal with back shift and the shift of all indices above a removed row are operators. `Word`
is 2^32, where the product in `load_factor` wraps.
`rowOf` and `strays` are history: the row a key was put for, and keys whose row
had a second key when it was removed.

**SubunitCache** - `file` and `mem` as sets of items, the abstract lock, and for
each thread where it is in `load_subunit`, a scope, `save_subunit` or
`bounce_subunit`. The lock is an `INSTANCE` of `RWLock`, which `ColLock`
implements. A save is two steps, since opening the stream truncates the file.
`kept` is history: what nobody has discarded by a reload.

**CallFrames** - `loc` of each function's scope, the row (`sidx`) each variable is
at and the length of its column, and the stack of passes and calls in progress.
`Descend` and `Ascend` are `descend_call_scope` and `ascend_call_scope`;
`call_func` is cut where other code runs: `StartCall` (descend), `StartArgument`
and `EndArgument` around the evaluation of each argument, `EnterBody`, `EndBody`.
A descent moves only the variables whose column is in the stack pool
(`Stackable`), while the detour around the argument of a recursive call moves all
of them; rows are 32-bit numbers (`RowMod`).
A frame keeps the state its pass was given by return (1), break (2) or continue
(3); each `End...` action does with it what that construct's handler does: hand
it on, consume it or drop it. The program is not fixed: any construct may come
next that the language's lexical rules allow there. `Constructs` admits the legal
constructs that are known to upset rows or loops (section 8, items 3 and 7); it is
empty in the passing run.

**SubunitContent**, **SubunitStore**, **Snapshots** - a subunit as the sequence of its
pools, each with its label, its `PoolOps` state and what its columns store.
`Snapshots` has the two representations of it, in memory (`pools`) and in the file,
with `WritePools` and `ReadPools` between them, and the cells (`keys`) by which
`getOrPutPool` finds a pool, which a load adds to and a bounce does not clear.
`OpenFile` truncates, `WriteFile` writes, `Clear` destroys the columns; `Crash` may
come between any two steps, `Restart` is `load_subunit(path)` in a new process.
`held` are Ptrs that scripts keep over all of this. `SubunitStore` is the promise:
one content, which work changes, and what of it is saved. The refinement takes as
the content what is in memory, or in the file when nothing is in memory
(`Stands`), so that bounce and load map to stutters. `broken` records the two
steps outside the promise: a reload that takes pools away, and a save of a subunit that
is not loaded.

**Assembling** - stage a: the list of roots the pass goes over (`result`), its
`index`, the node on its `left`, and for each node its kind and children. Nodes are named by
their place in the source; `copy` in the handler of a closing paren is kept
track of by `token`. The default handler is three actions, for its three
outcomes (`TakeLeft`, `InsertIntoLeft`, `MakeUnary`), each with the common end that
takes the node to the right; the others are identifiers (`Juxtapose`), closing
brackets (`CloseBracket`) and parens (`CloseParen`, and `MakeLambda` for the parens
after a list of captures); one without an opening is `UnmatchedClosing`. `Powers` are the binding powers as registered.

**Scoping** extends it with what comes next, in one behaviour per program: `stage` says
where the compiler is, `passes` is the stack of passes in progress. In stage s handlers
start a pass over the children of their node (`PassChildren`), and those of `if`,
`else` and `=>` process the node to their right before they wrap it (`HoldNode`, the
handler of that node, `Wrap`); so a pass has the nodes whose handlers wait for it
(`held`). An opening brace becomes the last child of what stands before it (`TakeBrace`,
`HoldBrace`), a closing one finds it there and turns it into a scope of that node
(`CloseBrace`), of the node passed over when nothing has taken it, or is
`Unmatched`; right after a holder it ends the run (`HoldClosing`). `inScope` is where each node looks its names up. In stage t a resolving pass goes
over the nodes with scopes of its list, then over the others (`PassAgain`), then over
the scopes inside (`PassScopes`); `Join` is the handler of `else`, `Drop` that of separators. A
stage that ends in an error is `failed`. The trees after stage s and the scopes of if and
else after stage t are those of the built program, in each of the 378 programs
with balanced blocks; so is which of them fail.

## 4. Runs

Distinct states are those of TLC on this configuration. Deadlock is checked in all
of them but `parsing`, which comes to an end.

| Run | Shows | Instance | States |
|---|---|---|---|
| `column_pool` | a column never has two owners unless it was given away under an error, the generation test is exact, nothing leaks but under an error, refinement of the allocator | 2 clients, 3 columns, generations modulo 3, 3 recycles per column, 2 copies outstanding, 1 column given away under an error | 302,304 |
| `pass_stack` | contexts and sources have one owner, borrowed sources stay, only the three known losses | depth 3, 2 nodes, 4 columns per pool, travel passes nested | 112,349 |
| `nested_direct_pass` | a nested direct pass recycles a source it borrows (violation) | as above, direct passes nested too | - |
| `column_lock` | exclusion, refinement of `RWLock`, entry of a waiting writer, the writer bit left behind by timed writers only and cleared otherwise | 3 threads, room for 2 readers, all forms | 19,939 |
| `cell_table` | lookups are exact, order and count kept | 5 keys, 4 of which collide, 1 row without key, growth from 4 to 8 slots | 705,513 |
| `subunit_cache` | no write lost, no load over content, scopes stable | 3 threads, one bounces, 3 items | 87,930 |
| `subunit_acquire_window` | a bounce between load and lock (violation) | 2 threads | - |
| `call_frames` | descents matched, code and arguments in their own rows, break and continue end a loop or lock scope and no function, a body runs once per index | 2 functions with 2 and 1 variables, one of the three not in the stack pool, 5 frames, 2 runs of a loop, no excluded constructs | 1,333,582 |
| `call_frames_recursion` | a recursive call reads its argument before the first row (violation) | the same with no variable in the stack pool, as the tokenizer leaves them | - |
| `snapshots` | unloading and loading do not show, saved work survives, stale Ptrs stay stale | 2 labels, 2 columns per pool, generations modulo 2, 1 recycle per process, 2 Ptrs | 332,735 |
| `snapshot_reload` | a reload leaves a cell that points past the last pool (violation) | the same | - |
| `parsing` | trees read as written, keep to parens, statements and blocks, by binding power; every node is in its innermost scope, every else with its if; the stages end | all programs of up to 4 operands, of up to 3 with parens, calls, indices, prefixes, pairs of statements with declarations and lambdas; 7 binary operators (== binds as - does); 378 programs with blocks, and some whose parens, brackets or braces do not match | 130,489 |

Why the bounds are enough. With generations modulo 3 and three recycles a column
returns to generation 0 while tickets of its later lives are outstanding, which is the
only effect of the width. One stray column is enough: it is column 0 or one from the
free stack, and what is claimed is that the others do not notice. Three columns let the free stack hold two entries
while a third is used, so order and duplicates matter. Depth 3 gives an outer, a
middle and an inner activity: the middle one both borrows and lends. A byte with
room for two readers is full with a third thread waiting. Four keys
in slots 3 and 0 of a table of four make probes run across the end of the
array, and the fourth makes the table grow. Two threads in `load_subunit` race
for the lock while the third empties the subunit. Five frames hold the root, a call,
two blocks or loops inside it and a second call of the same function, which is
where a return passes through constructs of two activations; two functions let the
second call be indirect. Two labels let a reload take away one pool and leave the
other; two columns let a free stack differ from the columns made. The handlers of stage a
look at the current node, the tree before it (its root, its last child, its right edge)
and the node after it, so three operators show each of them every neighbour it can
meet, and a fourth operand that what it did is not undone. Blocks stand two in a row, inside
one another up to two deep, in arguments, in bodies without braces and in chains of up to three
elses, so that a closing brace meets a tree, a scope and nothing before it, a pass
is over a list that another one's handler holds, and an else has joined ifs to go down.

`MCPassStack` identifies states that differ only in the generations columns have
reached (VIEW): operations and invariants compare the generation of a Ptr with
that of its column and use nothing else of it. Symmetry is used over clients in
`column_pool` and over the interchangeable items in `subunit_cache`; neither of
these runs checks a liveness property.

Every bound is a CONSTANT or named in the guard that uses it: `MaxCols`,
`MaxLife`, `MaxShared`, `MaxStrays`, `MaxHeld` (pools), `MaxDepth`, `MaxLost` (passes), the sets of
keys and rows (table), of threads and items, of labels, `MaxFrames`, `MaxTimes`
(calls), `Programs` (parsing).

## 5. Assumptions

On the code's users:

- *Clients of the pool* release an exclusive ticket once and keep copies apart
  from exclusive tickets; which of the two recycles a caller uses follows from
  that. `PassStack` examines code that has to honour it, and finds where it does not.
- *FreshEnough*: no Ptr is kept while its column is recycled 65536 times. Without
  it the generation test lets such a Ptr pass; the code has no defence.
- *Users of the lock* unlock what they acquired, once; the creator of a column,
  which starts with `live = 1`, unlocks it, as `load_subunit(path)` does.
  `clear_lock` and `clear_all_locks` are not used on a held lock.
- *Users of the table* put a key after `hasKey` said no.
- *Users of a subunit* save within a scope and write within a scope of acquire;
  for the properties of `subunit_cache` they look for content before they write
  (`Careful`), and one thread bounces, when it sees content. Both are needed:
  the run `subunit_acquire_window` shows what happens without the first, and
  `bounce_subunit` writes an empty file when it is called twice.
- *Scripts that unload a subunit* have its lock, load it before they work on it
  and drop their Ptrs into it when a reload discards what they did. A column
  they discard starts again at its saved generation, so a Ptr made after the last
  save may match a column it does not mean. Columns of a subunit store no Ptrs to
  other subunits: `adopt_ptrs` would turn those with a cache level of 3 to this one.
- *Programs* keep the lexical rules (break and continue in a loop or in the scope of a lock
  method, which they end as they would a loop, so that a loop around the scope goes on; return in a
  function, an argument mentions variables of the callee only in a recursive call)
  and, in `call_frames`, avoid the constructs of `Constructs`. An error, a call deeper
  than 500 among them, ends the program.
- *Source texts* are lists of tokens of any kind, in any order. `ByBindingPower` is stated for
  those with balanced parens, brackets and braces and of these for
  statements in which the powers do not rise twice (section 8, item 6), `ReadsAsWritten`,
  `BoundariesHold` and `ElseJoinsBlock` for balanced programs whose blocks have a head, are in no
  statement held without braces, do not end in a holder, and hold more than separators
  (`Regular`; items 10, 12 and 13); the others run too, and `StagesEnd` says that only they can
  fail. `TypeOK` and `InnermostScope` are about all of them. What is assumed of binding powers
  is that separators, names and what handlers make have none (`PowersAssumption`).

Fairness is stated in two modules. In `ColLock` each thread in a call of `try_lock`,
`try_read` or `unlock` continues, and holders eventually unlock; nobody has to call.
The code's threads are preemptively scheduled and the loops contain no wait but
the spinning itself; that scopes end is the users' part. Weak fairness per
thread is enough, because a waiting writer holds the bit, after which no reader gets in and
the readers inside only leave. In `Scoping` the one thread that compiles
continues (weak fairness of `ParseNext`); that the stages end is not obvious because handlers
move the index of a pass back, and start passes. No fairness is needed, or assumed, elsewhere.

## 6. Proofs

Proved with TLAPS for all values of the constants under the named ASSUMEs of the
modules (which TLC evaluates in the runs):

| Module | Theorems |
|---|---|
| `ColumnPoolProofs` | `Invariance`, `TypeCorrect`, `FreeStackSafe`, `StaleDetection`, `Ownership`, `LeakFreedom`, `Refinement`: the pool implements `ColumnAllocator` |
| `CellTableProofs` | `Invariance`, `TypeCorrect`, `RobinHoodOrder`, `LookupExact` |
| `PassStackProofs` | `ContextInvariance`, `Invariance`, `TypeCorrect`, `ContextsApart`, `NamesSafe`, `BorrowsSafe`, `LossesKnown` |
| `ColLockProofs` | `Invariance`, `TypeCorrect`, `Exclusion`, `TimeoutsOnly`, `Refinement`: the byte implements `RWLock` |
| `SubunitCacheProofs` | `Invariance`, `TypeCorrect`, `ContentSafe`, `LoadSafe`, `ScopeSafe` |
| `SnapshotsProofs` | `TypeCorrect`, `StaysStale`, `Implements`: memory and file together implement `SubunitStore` |
| `ScopingProofs` | `Invariance`, `TypeCorrect`, `InnermostScopes`: for all programs and binding powers |
| `CallFramesProofs` | `Invariance`, `TypeCorrect`, `CallsMatch`, `BodiesReadTheirRows`, `ArgumentsReadRows`, `JumpsContained`, `RunsCounted` |

The lemmas about the operations of a pool stand at the head of the three modules that cite
them. That a set of naturals has a least member the library states with an operator parameter
only; `LeastMember` derives it for sets from the minima of well-founded relations.

*Pool.* The properties speak of generations, which wrap, so none of them is
inductive. `IInv` speaks of lives: the generation of a column is the generation a
ticket was issued with plus the recycles since, wrapping at most once
(`TicketGenerations`); a ticket of the current life names a column in use, and an
exclusive ticket is the only one of its column in that life (`TicketLives`); a
column in use has such a ticket, or is an orphan or a stray (`UsedReachable`).
What is said of exclusive tickets is said of columns that are not strays: `strays` only grows, a
column that is given away under an error loses its protection and no other column depended on it
(`RecycleStrayKeeps`, `RecycleStrayRefines`). Where age
stays below `GenMod`, equal generations mean equal lives, and the properties
follow. The lemmas on the free stack (pop, push, no duplicates) are
stated once. The refinement maps each action to the allocator's, or a stutter.

*Passes.* `IInv` adds to the properties that both free stacks are sound, which kinds of
activity own the source they run on (`SourceFits`), and that whoever borrows a source runs
inside the activity that owns it (`BorrowedFromBelow`): since activities end from the innermost
out, a source then outlives its borrowers. The proof has two halves. That of the contexts
needs no hypothesis (`ContextInvariance`). That of the sources and names needs
`OnlyGuardedNest`: the passes that handlers start inside another one are those whose exit asks
who owns the source. This is not a convenience: the run `nested_direct_pass` is what happens
without it (section 8, item 1).

*Keyed rows.* The properties of a run are about tables at rest; between them lie chains of
displacements of any length and, inside a grow, one for each cell. `IInv` is kept by each call
of `scan_for_slot`: the table is in Robin Hood order, counted exactly and has no key twice
(`TableInv`); no key is both in the table and in `pending`, or twice in it (`OnePlace`); a cell in
either place names the row its key was put for, unless a removal left it behind (`CellsLive`), and
every key with a row has a cell in one of them (`KeysHeld`). So a grow that is half done has lost
nothing. The order is what makes lookups exact: no slot between a key's home and its cell is
free (`NoGap`), so the scan that looks for the key reaches the cell. A put
keeps the order because its scan passes only cells that are at least as far from their
home as the new cell would be there (`SlotForExact`), a removal because it moves the run behind the cell, up to a cell at
home, by one (`VacateShifts`). That a put finds a slot follows from the exact count
and the load factor.
The theorems are stated under `FewKeys`: no key is empty, since a copy drops those and keeps their
count (section 8, item 9), and a hundred times the number of keys fits in a word: from 42,949,673
keys on, `size * 100` wraps in 32 bits, so that in a table of 2^26 slots the load factor
is 63 at most and the table never grows again.

*Lock.* Exclusion does not follow from itself because it is the byte, not the set
of threads, that is tested. `IInv` says that the byte is the number of
readers, plus `WBit` if a thread has set the bit or left it behind
(`CountExact`); that the count stays below the bit (`ReadersFit`); that one
thread at most holds the bit; and that a value about to be exchanged is one that
may be added to (`CasGuarded`). A bit left behind by a timed writer is allowed
for: it costs progress, not exclusion. `TimeoutsOnly` is the action property that it comes to
be there by nothing but a timed `try_lock` that gives up; it needs `CountExact`
on both sides of a step.

*Cache.* `IInv` ties the lock to the steps of the operations (who is where
exactly determines who holds it), says that until the creator unlocks nobody gets past
the load, that the file is empty only while a thread is writing it from
content that is there, that a thread that bounces still finds the content it
saw, and that what is kept is all in memory or, if memory is empty, all in the
file. Every clause is used: the second test of `load_subunit` gives `LoadSafe`, the
write lock of bounce gives the clause on its steps, and a single janitor is what
keeps the content between its call and its lock. These theorems are
stated under `Discipline`, which is the pair of assumptions named in section 5.

*Snapshots.* The refinement needs that what is read is what was written
(`RoundTrip`: `ReadPools(WritePools(c)) = c`), which holds because columns that were
never made have no generation and no bytes (`Blank`). To follow the content through
the steps, the invariant also says that without a process nothing is in memory
(`AtRest`), where the file may be torn and that a bounce clears just what it has
written (`FileInv`), and that as long as the promise is not broken the cells, in
memory and in the file, are those of the pools, of which the file has the first
ones (`KeyInv`): so `getOrPutPool` finds a pool by its label and by no other.

`StaysStale` needs a second invariant. A Ptr survives the columns it is about being
destroyed and read back, so `Tracked` is stated of the columns that stand, in memory or else in
the file: the generation of the column is that of the Ptr and one more for each recycling since,
modulo `GenMod`, and there were fewer than `GenMod`. Only recycling bumps; bounce and load
bring back what was written (`RoundTrip` again); a reload that discards work takes the Ptrs with it,
which is the assumption on scripts in section 5.

*Calls.* None of the properties is inductive by itself: what a step reads depends on frames
below the top that may be any distance away. `IInv` says what the stack can look like
(`Shape`), where a state in progress can still be (`JumpHasExit`, `ContinueGoes`, `ReturnInBody`),
that the calls of one function have the rows 1, 2, 3 from the outermost on (`RowsByRank`), that
a call whose argument mentions its variables is the innermost of its function and was made from
the activation before it (`AscendedCalls`), and from these where each variable is (`Positions`): in
the row of the innermost activation, or one below while such an argument is evaluated. The theorems
have the hypotheses that each of them needs and no more, as constraints on `Constructs`:
`JumpsContained` none (what a jump may not end is a function: section 8, item 15); `RunsCounted` that no iter is continued (`ContinueOutsideIter`); `CallsMatch`
and `TypeCorrect` that returns reach the body of their function (`ReturnsReachBody`); the two about
rows also that nothing returns from a `for` and that no call inside an argument takes that detour
a second time (`RowsUndisturbed`). Section 8, item 7 has what happens in programs with the constructs
they exclude. Frames are records of different kinds on one unbounded stack; facts about pushing,
popping and replacing the top are stated once and each handler is shown to be one of these.

*Parsing.* The compiler keeps its trees as lists of children and of scopes, and its handlers move
nodes from one list to another while passes over those lists are in progress. `ParseInv` says
three things of every state. The lists are a forest (`TreesInv`): each node is in one list, once,
and no node is below itself. Every node is placed (`Placement`): what is in the list of a scope has
that scope as its `in_scope`, what is in any other list has the `in_scope` of the node that has the
list, and scopes are in lists of scopes only. The stack of passes fits the lists
(`ScopingPasses`, `TypingPasses`): each pass but the first is over a child or a scope of the node
the one before it is at, and the holders of a pass stand side by side before its place.
None of the three can be kept without the others. A move makes a cycle if a node goes below itself,
which the stack excludes: the handlers look for the node that is to have the others among the
nodes to the left in the same list, and go down from there, and below two different nodes of a list
there is nothing in common (`SiblingsApart`). A handler changes lists that other passes wait
to go on with, unless these are further up; the forest has no way up from below (`LastOver`).
A closing brace may find an opening that has moved since it was taken, and what is between
them is placed in the new scope with all that is below it, the inner scopes excepted, which the
placement says are where they were.

Where a handler puts nodes is computed by recursive functions: down the right edge (`OnEdge`),
through scopes (`Opening`), along a chain of `if`s (`ChainEnd`), over a tree (`Tree`). That
these have a value at all is proved first (`Recursion`), from minima in sets of nodes, since a forest
has a node in every set with nothing of it below; that they end below where they began is an
induction over a set of nodes, which no operator parameter is needed for (`TreeInduction`).
From all of this `TypeCorrect` and `InnermostScopes` follow for every program, unbalanced ones among
them, and every assignment of binding powers. What stays with TLC are the properties that compare
the trees with the text of the program, below.

Model-checked only: `PendingWriterEnters`, `BitClears` and `StagesEnd` (liveness); and
of the parser `ReadsAsWritten`, `BoundariesHold`, `ByBindingPower` and `ElseJoinsBlock`, which compare
the sequence of tokens with what recursive functions read off the trees: their proof would
be an induction over the program.

## 7. Not modelled

- Contents of columns, and the recursion of `recycle_node` over children and
  fields: each recycle it performs is a step of the pool.
- References into moved storage (an `int&` into a context column while a handler
  grows the pool): below the level of the models.
- The other fields that `make_context` duplicates (children, root, node, left), and
  the order in which handlers visit nodes.
- Key bytes and the hash function; `getCellByHash`, which compares hashes only; keys of
  size 0 (section 8, item 9).
- `clear_lock`, `unit_sleep` and `unit_wake`, which store into the lock byte whoever
  holds it; missing files, and a second cache of one file in another unit, whose lock
  is another one: last writer wins, there is nothing to check.
- In the snapshot format: layouts of heterogeneous rows, `write_col` and `read_col`,
  `adopt_ptrs`, and the bytes of a field.
- *Units and their registry.* Their hazards are accesses to memory that another thread is
  writing (a unit is in the list before its constructor has run; one byte is lock
  and flag at once), below the steps of these models. `get_ticket_from_unit`, the one
  function that holds `units_mutex` over a resolution that takes it, has no caller.
- *Scope distribution and overload resolution.* They work on trees by overloads, layouts
  and labels that scripts register while they run: a faithful model would be a
  second compiler.
- *The tokenizer* (characters to tokens). Of the stages after a: what `return` and `for` do
  with the nodes after them, stage n, all handlers of stage t but `else` and separators, and
  everything after it. Programs have no lambda inside a condition and no third else.
- *Task queue* of the thread library: Acorn starts threads and never queues a task.
  *Object pool*: not instantiated. *Containers, debugger, driver*: sequential
  helpers or terminal I/O. *Earlier framework* and *backup copy*: not compiled.
- Parameters that alias with `&`, iter bodies given as a function, and states of
  magnitude 4 and more, which the loops handle and nothing produces.

## 8. Where the code and what it says differ

With a run:

1. **A nested pass recycles its outer pass's source** (`nested_direct_pass`).
   `standard_direct_pass`, `standard_resolving_pass` and the two backwards
   passes recycle `ctx.source()` on exit without asking who owns it;
   `standard_travel_pass` asks (`if(is_owning(ctx.source())) {`, Nodenet 2149).
   A context made from a live one borrows its source, so the outer pass's column
   is recycled under it.
2. **`acquire_subunit` may hand out an empty subunit**
   (`subunit_acquire_window`). It loads, then locks (Core 1958, 1959); a bounce
   in between empties the subunit, and callers read its content at once
   (`archive/graveyard.txt` 2344, 2345).
3. **The argument of a recursive call is read out of bounds**
   (`call_frames_recursion`). A descent adds a row only to variables in the stack
   pool (Compiler 2189), the detour around an argument takes one row from every
   variable (2219). The variables of a tokenized program are not in the stack pool, so
   their row is 0 - 1: the built program stops with index 4294967295 out of bounds.
4. **A reload leaves cells behind** (`snapshot_reload`). `load_snapshot_col` replaces columns
   and adds to cells; after a reload the cell of a pool that was not saved points
   past the last pool, which `getOrPutPool` then indexes.

Without a run, from the same models with other constants or from running the program:

5. A timed writer that gives up leaves the writer bit: Type 1061 returns false without
   clearing it, later callers "Wait for other writters to finish" (1070), and there are
   none. `OnlyTimeoutsLeaveBit` and `BitClears` say that nothing else does this.
6. An operator looks one operator back only, so where binding powers rise twice in a statement it
   takes the whole second operand: `q = a+b*c` becomes `(= q (* (+ a b) c))`, and
   `int q = 2+3*4` prints 20. This is the exception in `ByBindingPower`.
7. Constructs that `call_frames` excludes, each of which violates one of its
   properties when it is added to `Constructs`: a return in the scope of a lock method
   ascends twice, as the method drops the result (`returnInScope`, `FramesMatch`); a
   return in a `=>` body inside a function never ascends (`returnInIter`,
   `FramesMatch`); `for` executes its increment before it looks at the state, after
   a return in the rows of the caller (`returnInFor`, `BodyRows`); `continue` in
   a `=>` loop skips the increment (`continueInIter`, `OncePerIndex`); a
   call of the same function inside the argument of a recursive call sets all variables to
   absolute rows, after which the outer detour moves them by `+= 1` (`selfArgs`,
   `ArgumentRows`).
8. Cells double with every bounce and load, as bounce does not clear them; a second bounce in
   a row writes an empty file; a file that is cut short is read forever, because
   `read_raw` (`ext/g_lib/util/util.hpp` 166) does not report its end and the loop waits for
   `SnapField::End` (`hung` in `Snapshots`).
9. A copied column loses its empty key. A key of size 0 occupies a slot but is
   copied as a free one (Type 418, 640), while `size` is copied as it is, against
   "Size = the count of occupied slots" (629). `CellTable` has no empty key.
10. Braces. `if(a) if(b) {...}` is reported as an unmatched closing brace: the
   search for the opening goes down the condition of the outer `if` and never meets the
   inner statement (Compiler 1370-1383). A block after `;` becomes the scope of the
   `;` and is not executed: `print(1); { print(5); } print(6);` prints 1 and 6. A block
   at the start of the program or of a block becomes a scope of the root, and the index of
   the pass then skips the next node: `{ a; } if(b) { c; }` leaves the `if` without its
   block. These are the exceptions in `Regular`.
11. Else without braces. In `if(a) x; else if(b) y; else z;` the last else is lost, though
   "To chain else ifs" (Script 2207) is what its handler is for: after the first else has
   left the list the pass takes the `;` before it as the left of the next node, and the
   last else finds no `if` there. With a = b = false the built program does nothing. `if(a) if(b) x;
   else y;` gives the else to the first `if`. `ElseJoinsBlock` says that an else
   after a block always finds its `if`. A third else on one `if` never ends: an `if`
   with two scopes and no chain is the condition of the loop in which its place is
   looked for.
12. A list of separators only, `if(a) { ; }`, is an error: when the last one is taken `discard`
   leaves the index at 0 (Compiler 3108), and the pass reads the node there.
13. A holder that is the last thing in a block loses the block: in `x { if(b) }` the handler of
   `if` takes the closing brace for the node to its right and processes it (Script 2163-2173); the
   handler of the brace (Compiler 1361-1405) makes a scope of `x` around the `if` and sets the index
   to `x`, which `ctx.result().take(ctx.index()+1)` (Script 2181) then takes into the scope of the
   `if`: `x` is below itself and in no list a pass comes to. The model stops at this point
   (`HoldClosing`).
14. A column under an error. With `ERROR_FLAG` set and the free stack empty, `add_idx` pushes a column
   and answers 0 (Type 1119), `create_column` sets the element size and tag of column 0 (Core 81-84), and
   three forms of `get_ticket` (Core 779-790, 960-965, 967-979) return an owning Ptr on it, whoever owns
   column 0. A ticket whose pool is resolved under an error is column 0 of the real pool too, while its
   column is made in a dummy (Core 242). When the error has been reset its holder recycles that column
   under the owner. `ColumnPool` does the same (`strays`); its properties except the columns
   given away and say that no other is affected.
15. A break in an `acquire` or other lock scope inside a loop ends the scope and is dropped (Script 242,
   257), so the loop goes on, which a reader of the script would not expect. `CallFrames` does
   the same: `JumpsStayInFunction` counts lock scopes among what a jump may end.
