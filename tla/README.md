# Lorica: a TLA+ model of the proxy's core

Lorica is a CORBA IIOP firewall proxy written in C++ on ACE and TAO.  Servers
register their object references with it and get *mapped* references back, which
denote the proxy; clients invoke mapped references, and the proxy forwards each
request to the *native* reference behind it, mapping the references inside
arguments, results and exceptions on the way.  This directory holds TLA+ models of
the parts of Lorica that keep state shared between threads, processes or requests,
the TLC runs that check them on small instances, and TLAPS proofs of the results
that hold for every instance.

Source paths below are relative to `src/src/`.

Contents: [1 Inventory](#1-inventory), [2 Modules](#2-modules-and-the-code),
[3 Runs](#3-what-the-runs-check), [4 Proofs](#4-what-is-proved),
[5 Fairness](#5-fairness), [6 Disagreements](#6-where-code-and-text-disagree),
[7 Left out](#7-what-is-not-modelled), [8 Plan](#8-plan).


## 1 Inventory

### 1.1 Parts of the system

| Part | Source | State | Operations |
|---|---|---|---|
| Mapping table | `lorica/RMVByMapped.*` | pages of slots, `high_index_`, `free_stack_`, two locks, `gc_terminated_`, the collector thread | `next_index`, `bind`, `find`, `unbind`, `svc`, destructor |
| Reference map value | `lorica/ReferenceMapValue.*` | native and mapped reference, corbaloc name, agent, security flag, `ref_count_` | `incr_refcount`, `decr_refcount`, `reverse`, the `_var` |
| Proxy mapper | `lorica/ProxyMapper.*` | one table, an in-facing and an out-facing POA, `next_`, `ref_count_` | `already_mapped`, `add_native`, `remove_mapped`, `current_native`, `mapped_for_native`, `take_mapper`, `destroy_chain` |
| Mapper registry | `lorica/MapperRegistry.*` | the chain of mappers, the generic and the null mapper, `mappers_ready_` | `add_proxy_mapper`, `set_generic_mapper`, `add_null_mapper_type`, `init_mappers`, `map_reference`, `remove_reference`, `destroy` |
| Null and generic mapper | `lorica/NullProxyMapper.*`, `lorica/GenericMapper.*` | a list of type ids; a map from type id to evaluator | `evaluator_for` |
| Generic evaluator | `lorica/GenericEvaluator.*`, `lorica/EvaluatorBase.*` | one operation table | `evaluate_request`, `evaluate_reply`, `evaluate_exception`, `has_objref`, `proxify` |
| Operation table | `OCI/OperationTable.*` | a binary tree of operations, each with a chain of argument lists; `must_proxy_` of every argument | `find`, `add_interface`, `prepare_request`, `find_exception` |
| Proxy servant | `OCI/ProxyServant.*`, `lorica/ProxyServant.*` | none between requests | `_dispatch`, `invoke`, `invoke_i` |
| Reply handler | `lorica/ProxyReplyHandler.*` | the pending request's answer channel, its evaluator, operation and POA | `handle_response_i`, `handle_excep_i`, `handle_location_forward_i` |
| ReferenceMapper service | `proxy/ReferenceMapper_i.*` | the ORB's IOR table | `as_server`, `as_secure_server`, `as_client`, their corbaloc forms, `remove_server`, `remove_client` |
| UNIX service loader | `proxy/UNIX_svc_loader.*` | the PID file, its lock | `become_daemon`, `get_lock`, `run_i`, `unlock` |
| Proxy | `proxy/proxy.*` | `this_`, the ORB, the POA managers, the registry, the IOR file, the worker threads | `configure`, `svc`, `shutdown`, `destroy`, signal handling |
| Windows loader | `proxy/Win32_svc_loader.*`, `proxy/ntsvc.*` | `proxy_` of the service | `run_service`, `run_standalone`, `handle_control`, the console handler |
| Configuration | `lorica/ConfigBase.*`, `lorica/FileConfig.*` | `configs_`, `endpoints_`, `orb_args_` | `load`, `get_orb_options`, `get_endpoints`, `parse_string` |
| Evaluator loaders | `lorica/EvaluatorLoader.*`, `lorica/GenericLoader.*` | none | `init` |
| Others | interface repository service, server agent, `main`, debug | see section 7 | |

### 1.2 How they interact

* `Proxy_Threads` ORB threads (1 unless configured) run requests, replies and the
  ReferenceMapper service.  Every table has one more thread, the collector, which
  wakes up periodically, pings each native object and drops the mappings of those
  that are gone.  ORB threads and collector share the table and the values in it.
* A request is dispatched by the servant, which asks the mapper that made the
  reference for the native object, an evaluator for the type, and the operation
  table (which asks the interface repository) for the signature.  It is then sent
  on, and the thread is free.  The answer arrives as a callback on *any* ORB thread,
  which looks the signature up once more.
* The ReferenceMapper service maps a reference through the registry's chain and, for
  a server with a name, binds the name in the IOR table and then stores it in the
  value, so that `remove_server` can undo it.
* `configure` reads the configuration before it makes the ORB, and asks it for the
  endpoints a second time for the POA managers.  `ORB_init` loads evaluator services,
  which register mappers in the registry that `configure` fills and starts later.
* A stop comes as a signal on any thread of the process, as a control on the thread of
  a Windows service, or as a console event on a thread of its own.  It shuts the ORB
  down, whereupon the worker threads end, the loader's thread joins them and destroys
  registry and ORB.
* Proxy processes share files only: the PID file with its lock, and the IOR file.
* At shutdown the ORB threads are joined first, then the registry destroys the
  chain, and with each mapper its table, whose destructor joins the collector.

### 1.3 What is hard, and what would make it right

* **Mapping table.**  Two locks guard overlapping data; the collector drops its lock
  in mid-sweep; the destructor wakes it without the lock.  Right: a value's count is
  the number of its holders; an index is used for one mapping at a time; a mapping
  is collected on the word of its own object; shutdown ends; what is dead goes away.
* **Reference counts.**  Plain `++` and `--`, some of them under no lock.  Right: no
  value is deleted while somebody has it.
* **ReferenceMapper service.**  Several steps per call, between which other calls,
  removals and the collector may run; mapped references are recognised by direction
  and index alone, and indices are reused.  Right: a reference that was given out
  denotes its object until it is removed; names and mappings agree.
* **Registry.**  Depends on the order of calls made by configuration files.  Right:
  the null mapper, which lets everything pass, comes last; each mapper is owned once.
* **Configuration and start.**  Values are put together from several lines and taken apart
  again; an endpoint may wait for a network interface, whose address changes; endpoints
  are used twice.  Right: what the file says is what the ORB and the mappers are given,
  in its order; the POA managers name endpoints the ORB listens at; the start ends.
* **Life cycle.**  Three ways to run and to be stopped, at any moment.  Right: nothing is
  destroyed under a thread that uses it, nothing twice; a stop ends the process.
* **Values.**  Trees of any type, walked by type code, with what was learnt of a signature
  shared by all calls.  Right: every reference is mapped once, and nothing else changes.
* **Loader.**  Processes that start together, fail half-way or are killed.  Right: one
  runs; what was left behind refuses nobody; the files name the one that runs.
* **Requests.**  Signatures entered by one thread and used by another much later; four
  places that choose the side for which references are mapped; answers sent from
  several places.  Right: the signature is the right one and still there; every
  client gets the answers it waits for and no more; references face their receiver.

`PROJECT.json` lists the hazards one by one, each at its line and with the
properties that would notice it going wrong.


## 2 Modules and the code

| Module | Models | Extends / uses |
|---|---|---|
| `RMVByMapped` | the table, its collector, its destructor, the threads that use it | |
| `MappingTable` | what the rest of Lorica relies on the table for, all steps atomic | |
| `RMVByMappedRefinement` | the mapping between the two | `RMVByMapped`, INSTANCE `MappingTable` |
| `ReferenceMapValue` | the count at the grain of loads and stores | |
| `ReferenceMapper` | the service, over an atomic table and the IOR table | |
| `MapperRegistry` | registration, the chain, lookup, destruction | |
| `Configuration` | the file, the ORB's options, the endpoints, the network interfaces | |
| `ProxyStart` | `Proxy::configure` and what it makes of the two | `Configuration`, `MapperRegistry` |
| `ProxyLifeCycle` | loader, pool, stops and destruction in one process | |
| `ServiceLoader` | processes, PID file, lock, IOR file | |
| `OperationTable` | the tree of signatures and `add_interface`, pointer by pointer | |
| `ProxyInvocation` | requests and what comes back | `OperationTable` |
| `ValueEvaluation` | the walk through the values of calls | |
| `MC...` | constants for TLC | the module named |
| `..._proofs` | theorems | the module named (`RMVByMapped_proofs` also the refinement) |
| `SequenceLemmas` | induction over numbers, what folds and `FlattenSeq` compute; used by two of the proofs | |

The models are layered: `ReferenceMapper` uses the table as `MappingTable` promises
it, and takes from `RMVByMapped` that a value lives as long as somebody has it;
`RMVByMapped` in turn takes counts as atomic, and `ReferenceMapValue` says when that
may be assumed.  `ProxyStart` is the part of a process's life before the pool is
activated, with all its data; `ProxyLifeCycle` has that part in a few steps and the rest
in detail; `ServiceLoader` sees several processes from outside.  `ProxyInvocation` follows
requests and their signatures and takes values as a whole; `ValueEvaluation` looks into
the values and takes signatures as found.

**Hazards.**  Some events are possible in the program and break some properties, but
not others.  Such an event is guarded by membership in the constant `Hazards`, so that
a run or a theorem can say whether a property holds *in spite of* the event or only
while it does not strike.  Each module lists its hazards at its head.

**Faulty variants.**  A definition that stands before the one it resembles
(`PushForgotten` before `Push`) is used by nothing.  It is the definition as a
plausible bug would have it, kept to show that some property would notice.

### 2.1 RMVByMapped

State: `slot`, `limit`, `high`, `free` are `pages_`, `num_pages_ * page_size_`,
`high_index_` and `free_stack_`; `rc` and `orig` are the count and native reference of
the value at each address, and an address with `rc = 0` can be allocated again; `gcLock`
and `hiLock` are `gc_control_lock_` and `high_index_lock_` when held across steps.
`pc`, `val`, `idx` are an ORB thread's position, `ReferenceMapValue_var` and index;
`gc` the collector's; `terminated` and `dtor` belong to the destructor; `alive` to the
world.

Grain: one critical section is one step, except that `free_stack_` is popped in
`next_index` under one lock and pushed in `unbind` and `svc` under the other.  There
the step is split in a load (`top`) and a store.  Actions:
`NextIndex`/`NextIndexEnd`/`Bind` (`add_native_unchecked`), `Find`, `Unbind`/`UnbindEnd`,
`Release` (a var's destructor), `Gc...` (the statements of `svc`), `Dtor...`, `Die`.

Hazards: `overlap` (a pop and a push overlap), `reuse` (an address the collector still
compares with is allocated again), `spurious` (a condition wait returns by itself).

### 2.2 MappingTable and the refinement

`used` and `map` with `Reserve`, `Enter`, `Drop`, `Return`, `Close`.  Under the
refinement mapping an index is reserved from the end of `next_index` until it is on
the free stack, and `map` is the native reference of the value in the slot.

### 2.3 ReferenceMapValue

`New`, `BindLoad`/`BindStore`, `FindLoad`/`FindStore`, `Unbind`, `DropLoad`/`DropStore`
and the collector's `ReapLoad`/`ReapStore`: every `++` and `--` is a load into `reg` and
a store, with or without `lock` as in the code.  `life` records that a value has
deleted itself.

### 2.4 ReferenceMapper

`slot`, `high`, `free` are the table, `obj` the fields of the values, `ior` the IOR
table, `th` what each thread is doing.  `owner` and `grants` are history: for which
native a mapped reference was given out, and to how many who have not removed it.
A mapped reference is a record of direction and index, which is what its object
key holds.  `MapNew`, `MapAgain`, `MapReverse` and `MapReverseMiss` are the cases of
`add_native`; `BindName` and `Return` the rest of `as_server_i`; `Remove` and
`RemoveEnd` the two halves of `remove_server` (`remove_client` is the first alone); `Reap`
is the collector.

Hazards: `share` (a mapped reference is mapped again the same way, so that two callers
have it), `stale` (a caller uses a reference after removing it), `reap` (the collector
takes a mapping).

### 2.5 MapperRegistry, Configuration and ProxyStart

`mappers` is the chain from `mappers_` over `next_`; `generic`, `null`, `ready`,
`typeIds` as in the code; `pending` holds the `decr_refcount` calls a running operation
has yet to make, so that the state between two of them is visible.
`remove_proxy_mapper` has no caller and is left out.

`Configuration` has a file as a sequence of lines and a line as the sequence of words that
single blanks separate, so that two blanks have the word `Blank` between them: that is
what `find(' ')` sees.  `load` applies `Read` to one line after another, and `Selected` is
a loop that copies what passes a test.  `FileAssumption` says what files are considered:
the tokens the code asks for are among those that are hashed, addresses follow the address
tokens and texts the others.  An address is a record of what `parse_string` takes apart.
`nics` is the address of each network interface and changes at any time; `Parse`,
`ParseRetries` and `ParseFails` are the ways `parse_string` goes on, `todo` the addresses
`init_endpoints` has yet to come to, `uuids` a counter that makes every random alias a
different one.  The hazard `overrun` is the read of `hostname_[1]` after a failed lookup
has emptied it.

`ProxyStart` has one action for each part of `configure` between two points where
something else may happen, `Throw` for its exceptions, `LoadEvaluator` for services, and
`DestroyProxy` with `Release` for the end.  An endpoint that cannot be parsed ends in the
stage `crashed`: `get_orb_options` returns a null pointer and `configure` uses it.

### 2.6 ServiceLoader

A process is at one of the stages of `run_i`; `fd` and `out` are the inodes it has open
as `lock_fd_` and `output_file`; `path` is the inode the PID file's path names; `locked`
the owner of each inode's `fcntl` lock.  POSIX drops a process's locks on an inode when
it closes *any* descriptor of it; `Closed` says so and `FclosePid` uses it.  `End` is
what the kernel does at exit.  `Gone` stands for the pid of a process that has ended,
so that a pid is never mistaken for that of a later process.  Two variables are history:
`alone[p]`, no other process has lived since p was started; and `harmed`, the processes
that a failing call ended or that were killed since they were started.  `LockRefused` is
the `fcntl` that meets another's lock; one that fails for another reason is `GiveUp`.

Hazards: `overlap` (processes live at the same time), `crash`, `fail` (a call fails).

### 2.7 OperationTable and ProxyInvocation

`nodes` are the operations in memory by identity, with left and right links and the
chain of entries (`set`); `job` is where a thread is in `add_interface`.  The guards in
`find` and `add_interface` are temporaries and release their lock at once, so a
pointer is read in one step (`FindOrAdd`, `SeekTail`) and stored in another
(`StoreNode`, `AppendEntry`), and threads may overlap in between.  The tree goes right when
`strcmp` returns exactly 1; `ones` is the set of pairs of names for which the C library
at hand does that, chosen at the start.  A signature is represented by the interface
that defines it, and a chain is searched for the first entry of an interface (`Lookup`).

`ProxyInvocation` adds the requests: `stage` of each, `work` of each thread, `back` (what
the target answered), `answers` (how often the client was answered) and `handed` (the
references passed on, for whom and facing which way).  `Dispatch...`, `Evaluate`, `Throw`,
`FindSignature`, `Add`, `Added`, `Forward` follow `_dispatch` to `sendc`; `Handle...` the
reply handler's methods, on any idle thread.  A null pointer that is used sets `crashed`
to what it was to be: a signature that is missing, the result's type code in the
signature of an operation declared oneway (`Oneways`), for which the client may wait all
the same (`ReplyFails`), or the exception object for a system exception that is not
one of CORBA's own (`HandleNonstandard`).

### 2.8 ProxyLifeCycle

`mode` is one of the three ways to run; `main` where the loader's thread is, `pool` what
each thread does, `sweep` what the collector does (one stands for those of all tables),
`req` for each stop where it is and on which thread.  An upcall waits for the interface
repository (`asking`), for the table's lock (`locking`) or for nothing; that a thread
which waits for a reply may serve another request meanwhile is left out.  The collector
has the lock but for its waits and pings, and a table's destructor waits for it. `orb` is
the ORB's state and `orb_`, `this_`, `proxy_` whether the pointers of these names are
set.  A thread that runs a signal handler does nothing else (`Interrupted`).  `shutdown`
waits for upcalls (`Returns`), and crashes when its ORB is destroyed before they have
ended; CORBA raises `BAD_INV_ORDER` for a shutdown in an upcall, a second one, and a `run`
after it, and as nobody catches it on these paths the process is taken to crash.
`req[s].timely` is history: the stop was the first, all threads served when it came, and
it came neither on one in an upcall nor on a collector with the lock (`Timely`).

### 2.9 ValueEvaluation

A value is a tree with a type code at each node.  `has_objref` and `proxify` are the
code's recursive functions, `must` the flags `must_proxy_` of all signatures, `call` the
calls in progress, of which `asked`, `passed`, `answer` and `filled` remember what came in
and what went out.  One turn of the loop in `proxify_params` is a step, so that calls
overlap within it.  Mapping a reference twice gives the native reference back, so that
one mapped twice is noticed.  `waits` is whether the request expects a response: the code
decides by it whether there is a reply to evaluate, and by the signature whether there is a
result type.  A `nil` `DynSequence` or type code that is used sets `crashed`.


## 3 What the runs check

Ten runs pass and two show a disagreement between code and text.

**Table_quiet** — two ORB threads, collector and destructor; three addresses, two
natives, pages of two slots, three indices; spurious wakeups.  Two threads and the
collector give every pair of actors; three indices of two-slot pages make the
table grow once and leave a slot at the end that is never used; three addresses
let two mappings and a new one coexist.  `TypeOK`; `CountsExact`: a value's count is the
number of slots and threads that have it; `IndexPartition`: every index below
`high_index_` is bound, free or in one thread's hands, and only one of these;
`BindSucceeds`; `ReapsPinged`: the collector drops a mapping on its own object's word;
`ImplementsTable`: every step is one of `MappingTable` or none.  Without overlap and reuse
the table is what the rest of the proxy takes it for.

**Table_live** — one ORB thread, one native, two addresses, two indices, with overlap
and reuse, under fairness.  `DtorCompletes`: the destructor ends
although the broadcast is made without the lock and may come before the wait (the
timed wait ends by itself); `DeadReaped`: the mapping of a dead object goes away.

**Table_overlap** (violation) — `BindSucceeds` fails when a pop overlaps a push; see 6.

**Mapper_disciplined** — two threads, two natives, two names, three values, two
indices; no hazard: each caller uses what it was given and has not removed.
`GrantHonoured`: a reference given out denotes the object it was given out for;
`AnswersTheQuestion`: the reference about to be given out is about the object asked for
and faces the way asked for, or is the native when a reference comes back;
`NamesDenote`: a bound name leads to a mapping that `remove_server` will come to.

**Mapper_hazards** — one native and one index but all hazards.  `NameIsOwn`: the name a
registered value carries is bound to that value's mapped reference, so `remove_server`
never unbinds another server's name.  One index is what makes reuse of keys happen
at once.

**Count_single** — one ORB thread (the default) and the collector, two values.
`NotDeletedInUse`.

**Start_up** — five configuration files: options between other lines with blanks, comments
and several addresses; addresses of interfaces with a random alias and type ids; two
blanks in a value; and two files that cannot be parsed.  Three interface addresses (one of
them of IPv6, one that is never external), two mappers from services, the generic one and
a null mapper.  `OptionsInOrder`: `ORB_init` gets every word of every `ORB_Option` line in
order; `AddressesUsed`: an ORB that is made listens at every address of the file, the
outside first and in order, with its host or an address of its interface, its ports,
family and alias; none is made if one of them cannot be parsed; `ManagersListen`: the POA
managers' policies name endpoints the ORB listens at, although interfaces change and
aliases are random: this is what the cache of endpoints is for; `NullAsConfigured`,
`NullIsLastResort`: the null mapper, which looks at nothing, serves the types the file
gives it, and only when no other mapper does; `OwnedOnce`: the registry owns each mapper
once, also when initialisation throws half-way; `StartEnds`: if the interface waited for
has an address from some time on, the start ends.

**Loader_files** — two processes, three inodes (each process may hold one that no path
names, and one is free), all hazards, under fairness.  `FilesTell`: a process during whose
life no other lived is named by the PID file and the IOR file while it runs,
whatever was left by those before it.  `RefusedByTheLiving`: a process that gets no lock
and leaves was killed, or a call failed it, or another process has the same file open and
locked; a check of what the file says instead of the lock would refuse starts after a kill.
`OneOfThemRuns`: of processes that compete for a lock nobody waits for, not all lose,
unless one of these things has happened or one has got no proxy.

**Loader_twice** (violation) — `OneInstance` fails; see 6.

**Request_single** — one thread, four requests, arriving on both POAs: a two-way one, a
two-way one for an operation declared oneway, a wait-for-server one for an operation
inherited over two levels, and a one-way one for an operation the proxy answers by itself;
a repository with an interface of two bases, one derived from it, and two interfaces with
an operation of the same name; a `strcmp` that returns the difference of characters, which
is 1 for one pair of names (the theorems are for any).  `SignatureRight`, `SignatureKept`:
the signature found for a request and, after any number of other requests, for its answer
is the repository's, and is there; a missing one is only used by `evaluate_request`, for
an operation that neither the type nor a direct base has; `AnswersFit`: nobody is answered
too often or too early; `FacesReceiver`; under fairness `AnsweredAtLast`: a client that
waits is answered or its request is with the target, and an answer of the target that can
be read reaches the client, unless a null pointer that is used unseen brings the process
down (section 6).  Deadlock is not checked: each request is dispatched once, and the run
ends when all are done.

**Life_cycle** — all three modes, two threads, a collector, two stops: the second makes a
stop that comes during or after another.  `ServedWhileThere`: no thread serves once the
registry is being destroyed; `DestroyedOnce`: registry and ORB are destroyed once, however
the start or the run ends; `ShutdownOutlived`: on UNIX and as a service the ORB is not
destroyed while its `shutdown` is under way, because the loader waits for all threads;
`TimelyIsSafe`: only a stop that is early, late, in an upcall or after another one crashes
the process, or a Windows loader whose proxy could not be configured, or as a Windows
application any stop, if the loader destroys the ORB before `shutdown` has returned;
`TimelyEnds`: a stop that is timely and the only one ends the process, as a Windows
application perhaps by that crash, if the interface repository and the pinged objects
answer in the end.  Deadlock is not checked: the process ends.

**Values_walk** — two calls at once, four operations: one with arguments of all modes, a
result and an exception, one that returns sequences, one declared oneway, for which the
client may wait or not, and one with an array; types of every kind, nested to four levels;
references that are native, mapped, nil or wanted by no mapper.  `ServerSees`,
`ClientSees`: what goes on is what came in with every reference mapped once, argument by
argument; `FlagsTell`: what is remembered of a type is true of it, compared with the
closure of its parts; `OnlyArraysAndOnewaysFail`: the walk only fails on an array of what
may hold references and on the reply to an operation declared oneway.  Of an exception
that the signature does not name, nothing goes on to the client.  Deadlock is not checked:
a crash ends the run.

`TypeOK` is stated in every module.  The runs check it where it says more than the other
properties do (`Table_quiet`, `Mapper_disciplined`, `Start_up`, `Loader_files`); elsewhere
it is for readers and for the proofs.

All bounds are CONSTANTS: `MaxIndex` and `PageSize` (`WithinBound` keeps the free stack
within it when overlap makes it grow), `MaxGrants` (where the history counter stops),
`MaxCount` (no `find` beyond it), `attempts` (the code's own three), and the sets.


## 4 What is proved

All theorems are for every value of the constants that satisfies the ASSUMEs of the
module: finite set of workers (`Cardinality` is used), null pointers that are not
values, positive sizes.

| Theorem | Statement | Hazards |
|---|---|---|
| `RMVByMapped_proofs!TypeCorrect` | `Spec => []TypeOK` | all |
| `RMVByMapped_proofs!CountsCorrect` | `Spec => []CountsExact` | all |
| `RMVByMapped_proofs!IndicesParted` | `Spec => []IndexPartition` | all but `overlap` |
| `RMVByMapped_proofs!BindsSucceed` | `Spec => []BindSucceeds` | all but `overlap` |
| `RMVByMapped_proofs!ReapsItsOwn` | `Spec => ReapsPinged` | all but `reuse` |
| `RMVByMapped_proofs!TableImplemented` | `Spec => ImplementsTable` | all but `overlap` |
| `ReferenceMapper_proofs!TypeCorrect` | `Spec => []TypeOK` | all |
| `ReferenceMapper_proofs!NamesOwned` | `Spec => []NameIsOwn` | all |
| `ReferenceMapper_proofs!GrantsHonoured` | `Spec => []GrantHonoured` | none |
| `ReferenceMapper_proofs!QuestionsAnswered` | `Spec => []AnswersTheQuestion` | none |
| `ReferenceMapper_proofs!NamesKnown` | `Spec => []NamesDenote` | none |
| `ReferenceMapper_proofs!NeverCrashes` | `Spec => []NoCrash` | none |
| `ReferenceMapValue_proofs!SingleThreadSafe` | one worker: `Spec => []NotDeletedInUse` | |
| `ServiceLoader_proofs!TypeCorrect` | `Spec => []TypeOK` | all |
| `ServiceLoader_proofs!RefusalsJustified` | `Spec => RefusedByTheLiving` | all |
| `ServiceLoader_proofs!SuccessorsTell` | `Spec => []FilesTell` | all |
| `ProxyStart_proofs!MappersOwnedOnce` | `Spec => []OwnedOnce` | all |
| `ProxyStart_proofs!NullMapperLast` | `Spec => []NullIsLastResort` | all |
| `ProxyStart_proofs!ManagersAlwaysListen` | `Spec => []ManagersListen` | all |
| `ProxyStart_proofs!OptionsAlwaysInOrder` | `Spec => []OptionsInOrder` | all |
| `ProxyStart_proofs!AddressesAlwaysUsed` | `Spec => []AddressesUsed` | all |
| `ProxyStart_proofs!NullAlwaysAsConfigured` | `Spec => []NullAsConfigured` | all |
| `ProxyStart_proofs!StartTypes` | `Spec => []TypeOK` | all |
| `ProxyLifeCycle_proofs!TypeCorrect` | `Spec => []TypeOK` | any number of threads and stops |
| `ProxyLifeCycle_proofs!NobodyServesTheDestroyed` | `Spec => []ServedWhileThere` | the same |
| `ProxyLifeCycle_proofs!DestructionOnce` | `Spec => []DestroyedOnce` | the same |
| `ProxyLifeCycle_proofs!OrbOutlivesShutdown` | `Spec => []ShutdownOutlived` | the same |
| `ProxyLifeCycle_proofs!TimelyStopsAreSafe` | `Spec => []TimelyIsSafe` | the same |
| `ProxyInvocation_proofs!ClientsAnswered` | `Spec => []AnswersFit` | any number of threads |
| `ProxyInvocation_proofs!ReferencesFace` | `Spec => []FacesReceiver` | any number of threads |
| `ProxyInvocation_proofs!SignaturesRight` | IDL's rules, one level of bases: `Spec => []SignatureRight` | any number of threads |
| `ProxyInvocation_proofs!SignaturesKept` | one thread: `Spec => []SignatureKept` | |
| `ProxyInvocation_proofs!InvocationTypes` | `Spec => []TypeOK` | any number of threads |

The last column says which of the module's hazards may strike.  A hazard that is left out
is an explicit assumption of the theorem (`ASSUME ~Overlap`), and none is left out for
convenience: with it the property is false.  TLC refutes `BindSucceeds`, `IndexPartition` and
`ImplementsTable` on the instance of `Table_overlap`, `ReapsPinged` on that of `Table_reuse`,
and the four properties of `ReferenceMapper` on the instance of `Mapper_disciplined` with
two grants and any single one of the three hazards.

* **Table, counts.**  `CountsExact` needs to know which thread has a value and that a slot
  which is written was within the pages: the invariant `Structure` adds `Locks` (a thread in
  the middle of a critical section has its lock), `Stacks` and `Ranges` (every index on the
  stack, in a loaded copy of it or in a thread's hands is a slot's) and `Owners` (a thread
  has a value exactly while it works on one).  Lemmas about cardinalities say what
  filling or clearing one slot does to `Slots(v)`.  Overlap breaks the *distribution* of
  indices, not the counts, because `bind` and the collector look at the slot before
  they touch it: that is why the theorem needs no hazard excluded.
* **Table, indices.**  `IndexPartition` speaks of sets and says nothing of the steps
  between a load of the free stack and its store.  `Serial` does: without overlap nobody
  pushes while somebody pops, and what a thread has loaded still is the stack.  `Parted` says
  that exactly the indices below `high_index_` are in a slot, on the stack or with a thread,
  and each in one of these only, in a form that a step changes in one place.
* **Table, refinement.**  Every step is one of `MappingTable` or a stutter (`Simulates`).
  What binds must bind a value that stands for a native object (`Stands`), and a new value
  must not be one that the table still has (`FreshIsUnheld`): there the exact counts are
  needed, since an address can be allocated again as soon as its count is zero.  `Noted` and
  `OwnObject` say what the collector remembers across its ping.
* **Names.**  `NameIsOwn` alone is not inductive, since the name is bound one step before
  it is stored in the value.  `Pending` says that such a name is bound to the right
  reference and is nobody else's; `Unique` that no two registered values share a name;
  `Removers` that a value on its way out is one thread's business.
* **Grants.**  A reference goes on denoting its object if its index is given to nobody else.
  `Vacant` says that of the stack and of what lies beyond `high_index_`; `Plain`, `Private`
  and `Answers` that a thread between two steps has a value of its own, new and not yet
  given out, or a reversed copy; `Denoting` is `NamesDenote` with the name that is bound
  and not stored yet.  `GrantHonoured` is in the invariant itself: that a removal
  takes the mapping of the one who removes rests on it.
* **Counts.**  With one worker, the only updates that can overlap are two decrements,
  the collector's and a var's.  `Covered` says the count is never less than the number
  of those who have the value; `Loaded` that what was loaded is not less than what is
  stored, and if more, the value has left the table.
* **Loader.** `LocksHeld`: a lock belongs to a process that has the inode open as
  `lock_fd_`, although `FclosePid` closes another descriptor of it. `SuccessorsTell`
  follows a process that is alone through the stages of `run_i` and says at each what
  path, text and IOR file are; a process that starts beside one that lives is not alone
  and takes `alone` from the other, so that nobody else writes the files of one that has
  it.
* **Registry.**  `OwnedOnce` needs to know that a mapper on its way to `decr_refcount` is one
  the registry refers to no longer (`LetGo`).  So it survives `destroy_chain`, which
  decrements some mappers twice: none of those is left in the chain.  `Ordered` says that
  no null mapper is in the chain before `init_mappers`, and that the registry is ready
  once the proxy is active, so that a service loaded then adds nothing.
* **Life cycle.**  `Staged` and `Pooled` say what the loader's position implies for the
  proxy, the ORB, the registry and the pool; `Hosted` that a stop under way keeps the thread
  it came on from ending, the collector too.  `TimelyIsSafe` has an invariant of its own,
  `Causes`: at most one stop is timely, and it finds what it needs while no other has come.
* **Requests.**  `InHand`: a thread that is not idle serves a request that is in its hands
  alone and was not answered for its outcome; `TwowaysReturn`: only two-way requests come
  back.  `Faced` adds to `FacesReceiver` only what kinds of things are handed on, to whom.
* **Start.** What the file says (`Said`) is defined over all lines at once, what the code
  does over one line after another; that the two agree is shown by induction over the
  lines, for every token and every file.  The rest is `Started`, stage by stage: `Loaded`
  (`configs_` is what `load` makes of the file), `Parsed` (the endpoints so far come of
  the first addresses, in order, each with the host, ports and alias that address asks for
  (`Made`; `Plugged` knows where a host may come from), and the others are still in
  `todo`), `Argued` (the arguments of the ORB are the options and then one `listen` per
  endpoint), `Managed` (the policies name endpoints that are in the cache).  The cache is
  what makes `ManagersListen` hold: between the two uses the interfaces may change, the
  endpoints do not.  `Nulled` follows the type ids from the file to the null mapper, also
  through a start that fails half-way.
* **Signatures, right.** `Signed`: the operations are a `Tree`, which is expressed by a
  number for each node that decreases along the links, so that every search ends, at a
  node of the name or at an empty link; every thread in `add_interface` is at a place of
  its call (`Working`) and makes new nodes (`Fresh`); and all entries are right
  (`EntriesRight`), as is what a thread has in its hands (`ReadyRight`).  Nothing is said
  of who else is in the table.  Two threads that store in one link lose a node, two that
  append to one chain lose an entry, but every node and entry that is ever put there is
  right, and that is all the theorem needs.  `ImplicitReserved` and `Unambiguous` are what
  IDL demands of a repository.  `WithinReach`, that operations are the type's own or a
  direct base's, is not: it is there because `add_interface` visits direct bases only
  (section 6). `MCProxyInvocation` assumes the first two, so that TLC evaluates them on
  the repository of the run; its requests go beyond the third on purpose.
* **Signatures, kept.**  `Keeping`, for a single thread: the table is still what it was when the
  thread looked (`Placed`), every interface that the call has come past is entered
  (`Entering`), no entry is twice in a chain (`Distinct`, `FreshEntries`), so that the
  comparison with the tail cannot be mistaken, and what was forwarded is found (`Known`).
  `Blamed` says who has used a missing signature: a request that was just looked up in vain,
  for an operation beyond reach.  So nothing is assumed of the repository or the requests.  With
  two threads `Placed` fails, and so does the property: `Request_pool`.
* **Sequences.**  The library states induction for an operator, which cannot be instantiated
  here.  `SequenceLemmas` states it for a set of numbers (`Reaches`) and for functions that are
  defined step by step (`Iterates`), by way of the least number outside a set, and derives
  from it what `FlattenSeq` makes of a sequence of sequences.

Only model-checked:

* the liveness properties (`DtorCompletes`, `DeadReaped`, `OneOfThemRuns`,
  `AnsweredAtLast`, `StartEnds`, `TimelyEnds`): they rest on fairness and are outside the
  prover's reach;
* `ServerSees`, `ClientSees`, `FlagsTell` and `OnlyArraysAndOnewaysFail`:
  `ValueEvaluation` is written with recursive operators, as the code is with recursive
  functions, and the prover does not take modules that declare any.


## 5 Fairness

* *Table.*  Weak fairness for the step of a thread that runs; strong fairness for
  taking a mutex, since a mutex that is free again and again is granted in the end
  (`ACE_Thread_Mutex` over pthreads); `GcTimeout`, because the wait has a deadline;
  `GcPing`, because a ping returns, if only by an exception.  None for requests, deaths
  or the start of the destructor.
* *Loader.*  Weak fairness for the next step of a process that lives: no call in
  `run_i` before `wait` blocks (`F_SETLK`, not `F_SETLKW`).  None for starting, stopping,
  failing or crashing.
* *Start.*  Weak fairness for `Configure`, the thread that starts the proxy, its sleeps
  included.  None for interfaces: `StartEnds` has their coming up as a premise.
* *Life cycle.*  Weak fairness for the loader's thread, for each thread of the pool, for the
  collector and for a stop that has come; strong fairness for an upcall that takes the
  table's lock and goes on to its end, since the lock is given back again and again and an
  upcall makes finitely many calls.  None for stops and upcalls to come, nor for answers of
  the interface repository, which upcalls wait for (`GenericMapper.cpp:109`,
  `OperationTable.cpp:487-593`), or of the objects that are pinged: `TimelyEnds` has them as a
  premise.
* *Requests.*  Weak fairness for a thread that serves a request, and for handling what
  has come back, which the ORB's event loop does.  None for clients and targets: a
  target may never answer, and the proxy sets no time limit.


## 6 Where code and text disagree

Two runs of `PROJECT.json` show one each:

* **Table_overlap.**  `next_index` pops `free_stack_` under `high_index_lock_`
  (`RMVByMapped.cpp:54-59`), `unbind` and `svc` push under `gc_control_lock_` (165, 231).
  When they overlap an index is handed out twice and `bind` fails; its result is not
  looked at (`ProxyMapper.cpp:390`).
* **Loader_twice.**  `svc_loader_base.h:66-68` says that only one instance will run.
  `run_i` opens the locked PID file a second time and closes it again
  (`UNIX_svc_loader.cpp:388-396`), which drops the lock.

The following configurations show further ones.  They are run by hand, each with the
MC module of its prefix (`Table_` MCRMVByMapped, `Mapper_` MCReferenceMapper, `Count_`
MCReferenceMapValue, `Loader_` MCServiceLoader, `Request_`
MCProxyInvocation), and end with a counterexample:

| Configuration | Property | What happens |
|---|---|---|
| `Table_reuse` | `ReapsPinged` | the recheck at `RMVByMapped.cpp:224` compares addresses; after an unbind and a bind that reuse slot and address it passes for another mapping |
| `Table_spurious` | `DeadReaped` | the collector takes any return of the wait other than a timeout for the end (187) |
| `Table_leak` | `NothingLeftBehind` | the destructor deletes the pages with values in them; `ProxyMapper.cpp:109` says "need to iterate over maps, remove each entry and decrement refcounts" |
| `Mapper_renamed` | `NamesDenote` | a second `as_server` overwrites `ior_table_name_`; the first name stays bound after `remove_server` (`ReferenceMapper.idl:98-99`) |
| `Mapper_counted` | `ClientsCounted` | "Client references are counted" (`ReferenceMapper.idl:103-104`): the first `remove_client` removes the mapping |
| `Mapper_known` | `KnownOnce` | "If the supplied ref is known, the previously created reference map value is returned" (`MapperRegistry.h:84-86`): a native reference is mapped anew each time |
| `Mapper_reuse` | `GivenOutOnce` | a mapped reference that was removed comes to denote another object when its index is used again |
| `Mapper_miss` | `NoCrash` | a reverse mapping that is not found is logged and then used (`ProxyMapper.cpp:437-440`) |
| `Count_pool` | `NotDeletedInUse` | with two ORB threads an increment is lost |
| `Count_leak` | `CleansUp` | with one, a decrement may be: the value is never deleted |
| `Loader_stale` | `PidIndicatesRunning` | the PID file is written before the proxy is looked at and stays when there is none |
| `Request_pool` | `SignatureKept` | with two threads, two additions to the operation table overlap and one is lost |
| `Request_exception` | `ExceptionsLikeReplies` | user exceptions are mapped for the POA the request came in on, replies for the other one; `ChangeLog:2176-2178` describes both alike |

Others can be seen in the text of the models.  `destroy_chain` decrements each successor
twice (`ProxyMapper.cpp:200-203`): `Unwound`, and `DecrementsTheLiving`, which `Start_up` would
refute.  `init_endpoints` stops at an empty word, so that an address after two blanks is
dropped (`UpToBlank`).  An endpoint without a port makes `configure` dereference a null
pointer (`BadOptions`).  An array of references makes the evaluator use a nil `DynSequence`
(`NarrowsToSequence`, `OnlyArraysAndOnewaysFail`).  An operation that is declared oneway and
called with a response expected gets a reply handler, which uses the nil type code of its
result (`GenericEvaluator.cpp:321-324`; `ReplyFails`, `proxify_result`).  A system exception
that is not one of CORBA's own makes `handle_excep_i` use a null pointer
(`ProxyReplyHandler.cpp:144-147`; `HandleNonstandard`).  A stop that is not timely crashes the
process in the ways `TimelyIsSafe` lists.  As a Windows application the loader may destroy
the ORB while the console handler's thread is in its `shutdown`, after any stop (the mode that
`ShutdownOutlived` leaves out, and a cause in `TimelyIsSafe`).  A signal on a collector that
has `gc_control_lock_` may leave `shutdown` waiting for an upcall that waits for the lock:
`Timely` excludes it, and without that `TimelyEnds` fails.  Two more: `add_interface` visits
direct bases only, so that an operation inherited over two levels has no signature
(`Visited`; `F` in the repository of the runs, named in `SignatureKept`); and a reply whose
evaluation throws is answered with an exception and then with the reply
(`HandleResponseThrows`, named in `AnswersFit`).


## 7 What is not modelled

* *Mapping table*: `rebind` and the dump operations, which have no caller.
* *Proxy mapper*: POA creation and policies (TAO's business), and the mode without a
  table (`CacheProxyReferences` false), in which an object id is the native reference
  itself and there is no state.
* *Generic evaluator*: value types, which it does not look into either, and types that
  contain themselves, on which `has_objref` does not come to an end.  `ValueAssumption`
  excludes both.
* *Generic mapper*: the list of evaluators that grows on first use.  It is only
  appended to and nothing in it is deleted before the mapper is, so that a request keeps
  its evaluator; with several threads an append may be lost, which leaks one.
* *Configuration*: the interface repository's arguments (`get_ifr_options`),
  `get_long_value`, the option for the debug level.
* *Proxy*: `open`, which nothing calls.
* *Server agent and access list*: notifications and flags no modelled operation reads.
* *Interface repository service*: calls into TAO; how the table uses what it returns is
  in `OperationTable`.
* *Windows loader*: the commands that install, remove, start and stop the service, which
  only talk to the service manager.  *Main, logging, command lines*: process entry, output.
* ACE, TAO and POSIX are outside the repository and modelled from their use: mutexes and
  condition waits as owners and positions, `fcntl` locks as described in 2.6, the POAs as
  the two directions of references.


## 8 Plan

Done, in this order: the table and its abstract specification; the ReferenceMapper
service over it; counts; registry; loader; operation table and requests; the theorems
of section 4; configuration and start; the life cycle of a process; values.

Left to model: the mode without a table, and which mapper of several answers for a
reference; the list of evaluators.

Done since, proofs: the index partition, the bindings and the refinement of the table; what
references denote, under discipline; the life cycle; ownership and order of the mappers;
the direction of references; the start, for every file; the signatures, for every
repository.  Every invariant of the runs but those of `Values_walk` is now a theorem.

Next, proofs: `ValueEvaluation` with functions on trees of bounded depth instead of recursive
operators, and by the induction of `SequenceLemmas` that `proxify` maps every reference once.
