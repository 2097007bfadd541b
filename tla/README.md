# A verification of libaem in TLA+

libaem is a single-threaded C library: an event loop over `poll(2)`, streams with
back-pressure, sockets on top of both, a mark and sweep collector, registries,
loadable modules, string buffers and slices, and a regular expression engine. Nothing in
it runs in parallel, but almost all of it calls its users back in the middle of an
operation, and the users call it again: that is where its difficulty lies. The modules
here are state machines whose steps are the pieces of code between two such points.

## How to run it

    tlc -config AemPoll_loop.cfg MCAemPoll.tla       # a run: X.cfg with its MC module
    tlapm AemPollProofs.tla                          # the proofs of a component

`PROJECT.json` lists the runs, the mutants that show that each property can fail, and
for every definition the lines of C that it models.

## Inventory

| Component | State | Operations | What is hard | What makes it correct |
|---|---|---|---|---|
| `poll.c` | parallel arrays `fds`, `evts`; each event's own slot `i` | init, add, del, mod, wait, process, hup_all | callbacks move slots under the scan | arrays and events agree; each report delivered once or dropped with its event; the scan ends |
| `gc.c`, `iter_gen.h` | list of objects, list of roots, generation counters | register, ref, unref, root register and deregister, run, mark, dtor, report | destructors mutate the heap during a run; the counter wraps | frees exactly what is unreachable, destructors first; no dangling pointer |
| `stream.c` | stream with two ends, provide/consume count, flags, buffer | connect, detach (either end), begin/end pairs, flow, propagate | any operation may call back and be re-entered | ends and stream agree; freed once, by the last to leave, after every frame that uses it |
| `pmcrcu.c` | list of deferred frees | call_rcu, barrier | callbacks that enqueue; one head enqueued twice | each object freed once, outside every callback |
| `streams.c` | a sink, a source and a close callback | consume, provide, close | runs inside two streams at once | moves data, passes FIN on, closes once |
| `net.c` | socket, rx and tx ends, read and write open | accept, receive, send, hang-up, close | half-closed connections; close from inside on_rx and on_tx | closed once, when both directions are down; descriptors never leak |
| `test/server.c` | a connection: socket and transducer | new, setup, free, main loop | two close callbacks for one object | one free per connection |
| `registry.c`, `stack.c`, `memory.c` | array of items, lowest free id | register, rename, deregister, remove, look up by id and name, destroy | ids are reused; callbacks remove items while the registry is destroyed; the array shrinks under the loop | a partial map from ids; ids and items agree |
| `module.c` | a module's state, handle and definition | resolve, open, register, unload | failure half-way, out of each of five steps; every way out unloads twice | undone completely when loading fails; handles balanced |
| `test/module.c` | the ring of registered modules | load, look up, unload, read a configuration | `reg()` and `dereg()` load and unload others; the singleton check walks the ring | the ring has the registered modules, all of them mapped; reg and dereg are paired |
| `linked_list.h` | doubly linked rings | insert, remove, filter | removal and insertion during a walk | the ring stays a ring |
| `stringbuf.c` | buffer, length, capacity, ownership | grow, shrink, append, pop | storage modes; capacity arithmetic | within capacity, terminated |
| `stringslice.c`, `utf8.c`, `translate.c`, `pathutil.c` | none | parsers, coders, path resolution | boundaries, overflow | agree with their reference definitions |
| `regex.c`, `nfa-compile.c`, `nfa.c` | program, initial threads, captures; per run: two queues of threads, three bitmaps | add a regex or a string, optimize, copy, run | threads that meet, loops over nothing, patterns that fail half-way, programs extended after they were optimized | the longest match of any pattern, captures that fit it, an end to every run |
| `log.c`, `serial.*.c`, `unix.c`, `ansi-term.c` | none to speak of | input and output | nothing for a model checker | not modelled |
| `aem.h`, `enum.h`, `compiler.h`, `debugbreak.h`, `order32.h` | none | macros | | not modelled |

Interactions: `net.c` registers its sockets with `poll.c`, whose callbacks drive the `rx`
and `tx` ends of streams; a transducer of `streams.c` joins two streams; closing unlinks
all of them from inside a callback, so everything that is freed goes through `pmcrcu.c`,
which the main loop drains between two rounds of the event loop. `registry.c` is a
`stack.c` with ids. `module.c` keeps nothing but the module it is called for: it uses neither the registry nor
reference counts, and it is the program, here `test/module.c`, that keeps its modules in a ring of `linked_list.h`, in
which their own check functions look around. `gc.c` uses the lists and `iter_gen.h`.
`test/server.c` cuts what it receives into lines with `stringslice.c`.

## Modules

* **AemPollAbs** — the event loop as its users see it: who is registered, what is
  reported and not yet delivered, whose callback runs.
* **AemPoll** — `poll.c`. `Add`, `Del`, `Mod` are `aem_poll_add`, `_del`, `_mod`, callable
  between rounds and from callbacks; `Wait` and `WaitFails` are `aem_poll_wait`; `HupAll` is
  `aem_poll_hup_all`; `Process`, `SkipSlot`, `Dispatch`, `Return`, `EndPass` are `aem_poll_process`
  cut at its callback. `evt->revents` is not a variable: the loop assigns it and only the
  callback reads it. Running it instantiates AemPollAbs with a refinement mapping.
* **AemGc** — `gc.c` and `iter_gen.h`. `Register`, `Ref`, `Unref`, `RootRegister`,
  `RootDeregister` are the interface; `Link` and `Unlink` are the program's own pointers. `Run`
  and `Dtor` begin a collection, which goes through `refs`, `roots`, `dtor`, `callback` and
  `free`; `Mark` is one call of `aem_gc_mark`, and the pending calls are a set because their
  order does not matter to what is marked. A root points to one object, and dead objects
  are not touched by destructors of others.
* **AemStream** — `stream.c` and the queue of `pmcrcu.c`. The C stack is a variable: a frame
  for each callback that is running, with the ends it holds between `_begin` and `_end`, and,
  for a consume call that `aem_stream_source_detach` made, the source whose detach goes on when
  it returns. A failing `aem_assert` sets `failed` and stops the program, and so does
  the NULL that `aem_stream_connect` follows when its ends are connected to each other already (`AlreadyJoined`). Buffers and the FULL
  flag are left out, so whether `aem_stream_propagate_down` wakes the sink is nondeterministic.
  What callers owe the code are guards: detach and connect only when no pair is open on
  the stream (`stream.h:57`, and the last assertion of connect), provide only while nothing is being
  consumed, and no nesting deeper than `MaxDepth`.
* **AemServer** — the connections of `test/server.c`, composed from `net.c`, `streams.c`, what of
  `stream.c` is about data (the buffer, FULL, FIN, the state), and `pmcrcu.c` for connections. The event
  loop is what AemPollAbs describes, which AemPoll implements: `Deregister` may lose the report of the one event that takes
  over a slot. A connection is three records, `sock`, `up` and `down`. Its functions call each other
  through five files; `calls` is what the C stack still has to do for the connection `on`, and an
  action is the code of one function up to its next call: `OnRx`, `OnRxEnd`, `OnTx` (with `SendsAll`,
  `SendsPart`, `SendFails`), `TrConsume`, `TrProvide`, `TrClose`, `SockClose`, `Closed`, and so on.
  `OnAccept`, `Accept`, `OnConn`, `Poll`, `Return`, `Finish`, `HupAll`, `NextRound`, `Barrier` are the main
  loop. Lines are counted, not spelled out. Peers and the kernel's buffers are external: a peer
  sends, ends its side, reads and resets at any point, also between two calls of one callback. `Env` says
  which of this is allowed: "quiet" peers may have sent nothing, or part of a line, when they are accepted;
  "slow" ones let the server's send buffer fill; "reset" and "signal" are what they say. `TrCloses` is whether the owner of the
  transducer sets its close callback, as `test/server.c` does.
* **AemNfa** — the engine of `nfa.c`. `Call`, `Start`, `Swap`, `Take`, `EndOfChar` are the loops of `aem_nfa_run`; `Refuse`
  and the `Step` actions, one per instruction, are `aem_nfa_thread_step`. `AddNext` and `AddCurr` are
  `aem_nfa_thread_add` with its bitmaps. `Replace` is what happens to a program between two runs, as far as the engine can tell:
  it becomes another one that is `WellFormed`.
* **AemNfaCompile** — `nfa-compile.c` and the optimizer, as recursive operators from trees to programs. `Compile` also says what is left
  behind by a part that failed, since an alternation drops the errors of its alternatives.
* **AemRegex** — the parser of `regex.c`, and the program around the engine: `Add` is `aem_nfa_add` with either compile
  function, `OptimizeNfa` and `Dup` are `aem_nfa_optimize` and `aem_nfa_dup`, and `Step` is a step of the engine. Each pattern
  comes with an expression of what it means; `Ends` is the reference semantics of those, a few lines that have nothing in common with
  threads or programs.
* **AemSlots** — a stack as a sequence in which empty slots hold Null, and how its array grows: what `AemRegistry` uses of `stack.c` and `memory.c`.
* **AemStack** — `stack.c` itself: two stacks with the cells of their arrays, which exchange elements. Each action is a call; beside what the code
  does to the cells it says in `want`, a sequence, what the call is for. `AssignEmpty` and `RemoveAtIndex` do to the cells what AemSlots says of sequences.
* **AemRegistryAbs** — a registry as its users see it: a map from items to ids, where a newcomer gets the least id that is free.
* **AemRegistry** — `registry.c`: `Register`, `Deregister`, `SetName`, `RemoveId`, `Get` are the interface. `calls` has the items whose
  dtor callbacks run; in one, everything may be called again, and `Destructed` is its end. `Close`, `CloseNext`, `Closed` are
  `aem_registry_dtor`, cut at its loop; `Reopen` initialises it again. It instantiates AemRegistryAbs.
* **AemStringbuf** — `stringbuf.c`: one buffer, on the heap, lent by its owner, or fixed, each operation with allocations that fail or not.
  `full` is what it would hold if memory were endless. `Unsafe` names the calls that do not cope with a failed allocation (see the observations).
* **AemSlice**, **AemUtf8**, **AemTranslate**, **AemPath** — the functions of `stringslice.c`, `utf8.c`, `translate.c`, `pathutil.c`, as operators on texts.
  **AemText** types every short text, one character at a time, and states what they return against a reference definition.
* **AemReader** — `aem_stringslice_match_line_multi`, the only one of these functions that has a state, as `process_data` of `test/server.c` uses it: `Feed` and
  `Fin` are the stream, which gives a text in pieces, and `Take` is a call. AemText runs it as one of its kinds of text.
* **AemList** — the rings of `linked_list.h`, whose macros are operators on a record of pointers.
* **AemModule** — `module.c` with the program around it, `test/module.c`. `frames` is what the C stack still has to do: `Load`, `Open`,
  `RegisterModule`, `RegReturns`, `LinkIn` are `module_load` cut at its calls, `Fail` its way out; `UnloadNamed`, `Unload`, `DeregReturns`, `CloseHandle`,
  `Dispose`, `Free` are `module_unload`, `aem_module_unload` and `aem_module_dtor`; `Configure`, `Line`, `Configured` are `modules_load`. Every callback may load and unload any file, its own included. `within` is history: the modules
  of its own file from whose `reg()` a singleton was opened. dlopen and dlclose are external: they count handles, and dlclose may fail. Which file a name leads to is computed by AemPath.
* **AemPollProofs, AemGcProofs, AemStreamProofs, AemServerProofs, AemNfaProofs, AemRegistryProofs, AemModuleProofs, AemStringbufProofs** — the theorems; AemRegistryProofs has those about AemStack as well, AemStringbufProofs those about AemReader.
* **MCAemPoll, MCAemStream, MCAemServer, MCAemRegex, MCAemParts** — values and symmetry for TLC. MCAemParts puts the parts that share no state
  into one run: a behaviour chooses one of them at its start. In MCAemServer a behaviour chooses whether it follows one connection, whose peer
  does all that `Env` allows, or two whose peers do less (`InScope`).

## Runs

| Run | Bounds | What it shows |
|---|---|---|
| `AemPoll_loop` | 3 events, 1 descriptor, arrays from 1 slot, shrink at a third | types, arrays that agree and fit (ArraysHold), no stale report; the loop implements AemPollAbs, and rounds end |
| `AemPoll_hup` | callbacks touch only their own event | finding: hup_all misses an event |
| `AemGc_collect` | 3 objects, 1 root, 1 pointer and 1 reference each, 2 generations | the collector is exact (VisitsExact), safe (NoDangling) and ordered (FreesInOrder); collections end |
| `AemStream_safety` | 2 sources, 2 sinks, 3 streams, 3 nested callbacks | links and frees (LinksHold, FramesLive), counts and assertions (CountsHold, which names the one call that fails), FIN |
| `AemServer_safety` | 1 connection, 2 lines, slow, reset, signal; or 2 connections, 1 line, peers that read at once, 1 reset, signal; no close callback | assertions hold and streams are idle between callbacks (CallsEnd); freed once, with nothing left behind (FreedOnce); backpressure loses no wakeup, and a peer that ends and goes on reading gets rid of its connection (Attended, Answered, EofFrees); whole replies |
| `AemServer_double` | 1 connection, 1 line | finding: a connection is freed twice |
| `AemServer_quiet` | the same, quiet | finding: a consume that is never ended |
| `AemServer_deaf` | 2 lines, slow | finding: an open connection waits for nothing |
| `AemRegex_match` | 18 programs of 1 to 3 patterns, all texts of 3 characters from a, b and newline, and of 4 from a and b | the longest match with captures that fit (AnswersRight), queues without duplicates and no malformed program (RunsCleanly), an end to every run |
| `AemRegex_add` | the same | finding: a pattern is refused with a match number |
| `AemParts_hold` | registry: 3 items, 4 names, 2 nested callbacks; stacks of at most 3 and 2; a buffer of at most 4 characters; texts of 2 to 7 characters; 3 modules of 5 files, 2 nested callbacks, 2 configurations | registry: slots and names (RegistryHolds, NamesFind), and AemRegistryAbs; StacksHold; BufferHolds; lines (LinesAsSplit), slices, numbers and paths (ParsersExact), encodings (CodersUndone); modules: the ring (RingKept), handles and callbacks (HandlesHeld), SingletonUnique, StopsAtError |
| `AemParts_number` | the texts of AemParts_hold | finding: a number too large is read as another (OverflowRefused) |

Why these bounds are enough. Two events already swap in the arrays of `poll.c`; the third
makes the moved event differ from the one handled and from the one that moves it, and `MinAlloc`
1 with `ShrinkFactor` 3 makes three events cross every threshold that eight slots and a factor
of eight have. Three objects are a cycle with a tail, and with two generations the counter
wraps at every second run (what depends on more pointers is proved, and does not rest on this bound). Two streams joined by a transducer need two sources and two
sinks; the third stream lets one wait in the queue while the ends are connected again; three
nested callbacks are a detach whose sink provides to a sink that detaches in turn. Connections
share nothing but the poller and the queue of deferred frees, so what happens inside one needs one, with two lines so that a
send and a receive can each stop in the middle; two are needed for a slot that moves, a queue with
a tail, and a block that is allocated again while the other is being freed. Beside another connection a peer therefore has one line on its
way and reads at once, and only one of the two is reset. The patterns use every kind of node
that the parser makes and every kind of instruction; they are chosen for loops over nothing, alternatives that meet again, bounds of repetitions at
their edges, two patterns that match the same text, patterns that fail after they have emitted instructions, and braces that begin no count or one of two digits. Four characters
go around each of their loops more than once.

The parts. Three items reuse an id below and above one that stays, and leave empty slots both inside and at the end of the stack; with two nested callbacks the
loop of `aem_registry_dtor` runs into an item that another callback has taken away. `Slack` is 1 where `memory.c` has 8, so that an array of two or three cells passes each branch
of its growth; insertion, transfer and removal then meet an array that is exactly full. Lent buffers of 1 and 3 bytes hold nothing but a terminator, and less
than what is written. Numbers have 6 bits for `unsigned long` and 5 for `int`, so that two digits already overflow; each alphabet has a character of every kind that
the code tells apart, and the lengths (5 for numbers, 2 changes of bits and thereby every run of ones for runes, 4 for encodings, 7 for paths) are those of the longest form: a signed number
with its base, an escape by number, `a/../..`. Five characters in pieces of one and two have a CRLF cut in each place, with calls on an empty buffer in between.
Three modules are one that is loaded from a callback of another while a third is in the ring; there is one file for each way in which loading ends: loaded, refused by `reg()`, no symbol,
a singleton whose `reg()` may load it again, and one without `reg()` that refuses to be unloaded. A
second handle of a file is where dlclose may start to fail without ending the library's life. Two callbacks deep, a module is unloaded by one that it loads itself. Flags, brackets and escapes stand for their kinds: characters are
ASCII, and of the classes with names there is `lower`.

The runs of AemServer that pass leave out what the findings would break everywhere: three of the findings stop the
program or wedge a connection within a few steps, and behind them nothing could be seen. So no passing run has quiet peers,
and where connections are freed the close callback is not set, as `streams.h` allows an owner to do.

Fairness. Only steps of calls that are under way are fair: the loop of `aem_poll_process` and
the phases of `aem_gc_run` are straight code that goes on once called, and a callback
returns because the program is single-threaded and callbacks may not block. Neither calls of
the users nor reports of `poll(2)` are assumed to happen. For AemServer every step of the program is
fair, which is what one thread with callbacks that do not block does, except accepting; so is poll(2) when it has something
to report. Of the peers only reading is assumed, never that they send or end. A run of an nfa is straight code: its steps are fair, calling it is not.

Deadlock is checked (in `AemParts_hold` too, where running out of blocks for modules is an action of its own: malloc fails, and an assertion ends the program) except for the collector, whose program may run out of objects and
then simply stops, in the runs in which a failing assertion, or the NULL in `aem_stream_connect`, stops the program,
and for the server, which is over when its last descriptor is closed.

## Findings

1. `aem_poll_hup_all` (`poll.c:388`) does not reach every handler: each deregistration moves the last
   event into the slot just handled and clears its report (`AemPoll_hup`, HupReachesAll).
2. A connection closed by its socket is freed a second time out of its own rcu callback, because the transducer's close
   callback is still set (`AemServer_double`, FreedOnce; `streams.c:100`).
3. `aem_stream_consume_begin` does not fail on a buffer that was never allocated, so `aem_net_on_tx` and the transducer
   leave the stream in a consume for good (`AemServer_quiet`, StreamsIdle; `net.c:360`).
4. A stale FULL flag makes an open connection give up both POLLIN and POLLOUT (`AemServer_deaf`, NeverDeaf;
   `net.c:462`).
5. `aem_nfa_add_regex` returns 0, a match number, for patterns that are not parsed to their end, such as `a)` and `a{2`
   (`AemRegex_add`, NegativeOnFailure; `nfa-compile.c:498` against `regex.h:18`).
6. The overflow test of the number parser is made before the digit is added, so in bases that are not powers of two a number
   too large may wrap and be accepted, as "18446744073709551616" is, as 0 (`AemParts_number`, OverflowRefused; `stringslice.c:351`).

Findings 2 to 4 were also seen in the server built from this tree, 4 with a `send` and a `poll` that
imitate a full send buffer, and 5 and 6 in the library.

These observations have no run of their own. Where a constant is named, the model does it too, and with it the property named fails:

* `aem_stream_connect` overwrites the end of a third party when only one of its arguments is attached: with `Rewire = TRUE`,
  CountsHold of AemStream fails.
* `aem_stream_connect` on two ends that are connected to each other already ("Already connected to each other") asserts the state of a
  stream through a pointer that is still NULL (`stream.c:106`) and crashes; with `AEM_SKIP_ASSERTS` the compiler may drop the read (`log.h:127`), and NULL is returned. The
  model stops there too; CountsHold allows this one call and no other to stop it.
* A consume callback that detaches the source which is telling it of FIN makes the stream be freed twice: with
  `Reentrant = TRUE`, CountsHold fails.
* After the peer has ended its side, POLLOUT no longer reaches `aem_net_on_tx` (`net.c:407`), so the rest of a reply is never sent;
  POLLHUP does not make such a connection deregister either (against `poll.h:31`), and it is leaked.
* The Graphviz report of the collector shows objects created after the last collection (against `gc.h:105`), because
  `aem_iter_gen_init` gives them the current generation.
* Of regular expressions, as the library was seen to behave too: an error inside an alternation is dropped, and `a+?|b` is added with a FORK that
  leads to instruction 0 of the program; the complement of ranges that overlap is wrong, so `[^a-cb]` matches c; `\W` is `\w`; a `{`
  followed by neither number nor comma is dropped and what follows is read as it stands, so `a{}` is `a}`; bytes outside ASCII are never matched by a character; the optimizer changes which of two patterns
  wins when both match the same text; a copy numbers its next pattern from 0 again (`nfa.c:86`, against `regex.h:16`); and the clean-up which
  "should never happen" (`nfa.c:1175`) does, for a negated class at the end of the text. The model
  behaves the same way, and the patterns of the run avoid what would break LongestMatch.
* **Registry.** An item registered by a callback of `aem_registry_dtor` under an id that the loop has passed keeps pointing to a registry that is gone (`LateRegister = TRUE`, AbsSpec). The name of a
  registered item may change under it, which no check sees; registering an item that is in another registry returns its id there; and the call that deregisters in `aem_registrable_dtor` is inside
  `aem_assert`.
* **Stack.** `aem_stack_push`, `_pushn` and `_insert` ignore that reserving has failed.
* **String buffers.** Four calls do not cope with a failed allocation: `vprintf` on a buffer without storage adds -1 to its length, `assign` sets a length beyond what a fixed or bad buffer has,
  `fd_read` and `file_read` write without looking at `bad`, and `pop_front` forgets it (`Unsafe`, one by one: BufferHolds). `pad` reserves the new length on top of the old one; `aem_stringbuf_free` leaks a buffer
  that is bad; `putint` recurses with number and base exchanged (`stringbuf.c:215`), which nothing calls.
* **Slices.** "-0" is refused as an overflow (`stringslice.c:393`), which NumbersExact leaves open. The comparison stops at a NUL and puts a text after those that
  continue it. `match_line_multi` takes an LF off the slice without returning a line, against `stringslice.h:128`.
* **UTF-8.** Overlong encodings are accepted, against `utf8.c:39`; bytes that are not UTF-8 do not come back from escaping (`translate.c:49`).
* **Paths.** For a subpath like `a/.`, `a/b/..` or only the extension, an extension is put behind a directory and rc is 0, against `pathutil.c:86`; `trailing_slash` is not initialised for an empty subpath; `aem_dirname("/")` is ".", where
  `test/pathutil.c` compares with dirname(3).
* **Modules.** A singleton that is loaded again from its own `reg()` is not noticed, since it joins the ring only afterwards, nor is one that is loaded inside that call once the first of the two has joined (against `module.h:30`). The run does it, and SingletonUnique says
  that this is the only way to have two. A dlclose that fails in `module_unload` leaves a module that is allocated and out of
  the ring, which nobody finds again (Dispose). A module whose registration failed stays LOADED after it has been unloaded and its definition is NULL; and `aem_module_unload_check` returns -1 where `module.h:74` says otherwise.
* **Log and terminal**, read only: in `log.c` the case of 'S' is not reachable and the description of GOOD is missing, the module of `AEM_LOG_MULTI_BUF_MOD_IMPL` is ignored, and nested `AEM_LOG_MULTI` share a buffer; `aem_ansi_len`
  does not end on bytes that are not UTF-8.

## What is proved

TLAPS proves the following for every value of the constants (under the assumptions named in the
modules: disjoint sets, a shrink factor above two, at least two generations).

* **AemPoll**: TypeOK, ArraysHold (SlotsMatch and ArraysFit), NothingStale. The inductive invariant adds
  *ScannedClean*: every slot behind the scan position is clear, the running event's own
  excepted. NothingStale is not inductive alone, since it speaks only of the end of a round;
  ScannedClean is what each step of the scan hands to the next, and it survives the
  callbacks because a moved slot is cleared. From the same invariant, AemPoll implements AemPollAbs (*PromiseKept*): the pending reports are the slots that the scan has not passed, and the one
  report that a deregistration may lose is that of the event it moves into the gap.
* **AemGc**: TypeOK, NoDangling, VisitsExact (MarkingExact and IdsUnique) and the action property FreesInOrder (DestructedThenFreed at every step, and
  FreesOnlyDead). The invariant adds, per phase, that what is hit is closed under the
  pointers up to the calls that are still to be made, and that everything hit is reachable; exactness at
  the end of the marking is the two together with no calls left.
* **AemStream**, for users that keep the two rules which `Rewire` and `Reentrant` break (the first two observations): TypeOK,
  LinksHold (LinksAgree and FreedByTheLast), FramesLive, FinDelivered. The invariant adds that no source is
  being detached twice and that the sink of a stream whose source is being detached has heard of it.
  CountsHold (the state of a stream counts the pairs that are open, and nothing but connecting ends that are connected to each other stops the program) needs a second invariant on top, *Counted*: an assertion speaks about the moment
  when a consume call returns, so each frame of the C stack remembers what was closed when its call was made, and whatever is open on that stream
  now was opened at or above that frame (*Undisturbed*).
* **AemServer**, for any number of connections and lines: FreedOnce (without the close callback, with every peer), and CallsEnd, Attended, WholeReply and TypeOK (without the
  close callback and without quiet peers). What these leave out are findings 2 and 3, so neither could be had without. What is true of a connection in the middle of a callback
  depends on what is still to run, so the invariants speak of the places in `calls` where a function may stand, and each action is seen as a turn, which takes the first call off
  and puts others in its place. *CInv* is the control: nothing follows the destructor's `free` (EndsLast), the socket is closed first (ClosedFirst), what runs is in memory
  (Running) and so is what is registered. *FreeOnce* adds that of all the calls that end a connection at most one is on the stack, that it is not in the queue then (Leaves), and that nobody
  waits twice. *EndInv* adds why no stream is left open: both have a buffer before anything is consumed from them, or the first lines are just on their way (Begins); the
  transducer loses its sink only when it is about to lose its source (SinkFirst, SourceNext), so it never provides to nobody (FlowsLast, Provides). *AttendInv* says for each combination of flags why the next report wakes the connection,
  or which call on the stack will see to it (Fine): lines to send wait for POLLOUT or for `on_tx` on top of the stack, a full input waits for POLLOUT, an input that has ended is closed by
  `on_rx_end`, and the socket is closed only when both sides are, by when both streams are empty. It holds until a reset or the end of the program brings POLLHUP (Heard), and with it nothing that was received
  goes unanswered (WholeReply): `free` is reached only with the socket closed (Untied).
  TypeOK bounds the buffers, though nothing in a stream limits what is written to it. *BoundInv* finds the limit in the order of the calls (Sized): a stream that still receives (Cut) keeps more than the
  beginning of a line only if it is full or the transducer is about to take the lines, and what the transducer moves is sent or makes the other stream full before it moves any more. That takes two things about the ends of
  the streams (Parted): the sending side is not detached, and FIN not set, while something could still be received, except for a connection that POLLHUP has ended, which the poller lets go (Unplugged).
* **AemNfa**, for any texts and any well-formed programs: RunsCleanly (TypeOK, NeverFatal, QueuedOnce) and the action property LaterIsLonger. The
  invariant relates the queues to the bitmaps: *NextQueue*, that mapNext knows every thread of `next`, and *CurrQueue*, that mapCurr knows the threads
  still to be taken and mapDone the instructions of those taken, the running thread excepted until its first instruction is
  past. A fork adds only what is in neither, so the queue stays free of duplicates although threads are never taken out of it. LaterIsLonger
  follows from *Position*: no match lies ahead of the current character. That the compiler and the optimizer make well-formed programs is
  assumed here and is what NeverFatal checks in the run.
* **AemRegistry**, for any items, names and depth of callbacks, as long as nothing registers while the registry is destroyed (`~LateRegister`): RegistryHolds, NamesFind, and that it implements AemRegistryAbs. The
  invariant adds *Passed*: what the loop of `aem_registry_dtor` has passed is gone, or its callback is still running. It is what makes the registry empty when the loop ends, and the last step of the refinement
  is exactly this; it survives the callbacks because an id is only given back by an item that leaves, and leaving moves nobody. That ids stay below the number of items (*Bounded*) is by counting: below the slot
  that a newcomer gets, every slot has another item (an injection, IdsFewerThanItems).
* **AemModule**, for any modules, files, configurations and depth of callbacks: RingKept, HandlesHeld, SingletonUnique, StopsAtError. None of them is inductive, because a load is cut at its calls into pieces that rely on each other across whatever
  a callback does between them. The invariant *MInv* therefore says which calls may stand on which (*StackShape*: two calls about one module are parts of one operation) and, of each call
  on the C stack, what it may rely on about its module (*FactsHold*: its file is open, it is not in the ring, it has or has not been registered). A callback
  cannot disturb that since the module is in no place where another call could find it. The handles of a file are counted by its modules, and insertion and removal are
  proved to keep a ring of any length a ring. For singletons the invariant counts those that are only on their way into the ring as well: of two that are present, one was opened from the `reg()` of the other (*OneEach*); for `modules_load` it says how far it has read (*LinesRead*).
* **AemStringbuf**, for any text, any lent buffers and any allocations that fail, when no call of `Unsafe` is made: BufferHolds. Every call that writes reserves
  first, so the proof has one lemma for what a reserved buffer is, one for what is added to it, and one for each call. Half of it, BufferFits (the memory), also
  holds when `pop_front` is called on a bad buffer: of the calls of `Unsafe`, that one alone can lose text but never writes outside.
* **AemStack**, for any elements and any sizes: StacksHold. Each array is described cell by cell: a call that shifts or copies is right if every cell has the
  element that its place in the sequence `want` says. An array that grows (Grown) has a cell for everything it was asked for. `aem_stack_pushv` and `aem_stack_index_p` push in a
  loop; what the loop makes is a recursive function of the number of turns, and what is true after each turn is shown for the least turn that breaks it (*LeastOf*, *UpTo*), as induction schemes
  with an operator parameter are out of the provers' reach.
* **AemReader**, for any characters and any text: LinesAsSplit. The invariant (*ReaderInv*) says that between two calls the reader has taken a whole number of lines,
  ended where the text has one of its line ends (AtBoundary), except that the LF of a CRLF may still be to come or to be skipped (BetweenCRLF), or that it has taken everything there is. That a CR can be taken
  at once though the LF may follow in the next read is *LinesOverCRLF*: the line is the same with the LF or without. What `Feed` adds never changes a line before a firm end (*LinesAgree*), and a call takes exactly the next
  one (*NextLine*). Lines are counted up to a position by a recursive function, to which the same induction applies.

The lemmas on sequences, numbers and rings (what lies where after a concatenation, that a set of numbers has a least one, that inserting keeps a ring) are stated once in the module that needs them.

Only model-checked:

* liveness (RoundEnds, RunEnds, Answered, EofFrees, Halts), which is out of the prover's reach;
* AnswersRight, TakesPatterns, ParsersExact and CodersUndone, since AemNfaCompile, AemRegex, AemText and what that uses have operators that are recursive like the trees and texts they work on.

## What is not modelled, and the plan

Still to come: the connecting side of `net.c`, and the filter loop of `linked_list.h` (the singly linked lists) with the free callbacks of `gc.c`, its only user.

Left out of modules that exist: of `stringbuf.c` output, `release`, `free` and `putint`; of `stringslice.c` words, letters, equality and input and output; of
`stack.c` and `registry.c` a malloc that fails (the former then writes past its array, the latter asserts); of `regex.c` numbers beyond those of the run, the other named classes and the numeric escapes;
tracing, disassembly and reports, which change nothing; of `module.c` log scopes and several search paths, which no caller uses.

Out of reach or of no use to a model: `serial.*.c`, `unix.c`, `ansi-term.c` (single system calls and
escape sequences), `log.c` (formatting and output), and the macro headers. Stack exhaustion and undefined overflow of the signed generation counter, which is
taken to wrap, are not modelled.
