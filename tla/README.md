# A formal model of gretl

gretl is a statistics package in C: a library (`lib/src`) with an interpreter
for the scripting language *hansl*, a command-line client (`cli`), a GTK client
(`gui`) and plugins. The estimators are numerical code. What a model checker
can say something about is the interpreter and the long-lived state it works
on: blocks and loops, function calls, variables, saved models, settings,
samples, redirected output, and the instances of the graphical client that run
side by side. This directory holds TLA+ modules for that part, TLC
configurations that check them on small instances, and TLAPS proofs for all
instances.

Paths below are relative to the repository's source root; file names without a
directory are in `lib/src`.

## Inventory

| Component | Source | State it keeps | Operations | What is hard | What makes it correct | Module |
|---|---|---|---|---|---|---|
| Conditional execution | `flow_control.c` | static arrays `T`, `got_T`, `tok` and the counter `indent`, one set for the process | `if`, `elif`, `else`, `endif`; record, reset, check, clear | shared by script, loops and functions at any depth; conditions call functions while the state is in between | nobody changes another's blocks; at most one branch is followed | `ScriptControl` |
| Loops | `monte_carlo.c` | `currloop`, `compile_level`, `loop_execute`, `loop_renaming`, `looping[]`, trees of `LOOPSET`s | store a line, start, iterate, break, end, abandon | storing and executing share pointers; errors in either; loops inside functions inside loops | a loop is executed as it was read, by who read it; nothing is lost | `Loops` |
| User functions | `gretl_func.c` | `callstack`, `return_line`, one `fncall` and `ExecState` per call | call, lend and copy arguments, early return, errors, assign returns, stop | every exit has to undo what the entry did | after any exit the caller finds its own state | `ScriptControl`, `Calls`, `Subsample`, `SavedObjects`, `Outfile` |
| Command execution | `interact.c` | `ExecState`, `CMD`, error flags | parse, dispatch, catch, run a script | error codes pass through several layers | an error ends what it should, no more | `ScriptControl`, `Outfile` |
| Saved objects | `objstack.c` | `last_model`, `ostack`, reference counts, protected models | ref, unref, stack, replace, unstack, hide and restore around calls | counts kept by hand in four files | nothing reachable is freed, nothing freed is reachable | `SavedObjects` |
| Settings | `libset.c` | stack of `set_state`s | push, pop, set | not every call pushes | a function's settings end with it | `Outfile` |
| User variables | `uservar.c`, `dataset.c` | the table of variables, each with a level | define, assign, delete, lend, delete at level | an argument by reference is the caller's variable, renamed and moved | a name means one variable; callers find theirs again | `Calls` |
| Dataset, subsample | `dataset.c`, `subsample.c` | full and restricted set, masks, `t1`, `t2` | restrict, permanent, restore, add and drop | two copies of the data linked by a mask | restoring gives back what was there | `Subsample` |
| Redirection | `gretl_prn.c`, `interact.c` | stack of streams, static `vparms` | start, end | unwinding on errors; one copy for all depths | output goes where the innermost `outfile` says, and back | `Outfile` |
| Instance registry | `gui/gretl_ipc.c` | a PID file, a temporary file, request files, signals | register, prune, leave, find, hand over | crashes, identifiers used again, two instances at once | no live instance is lost; what is handed over is opened | `Instances` |
| Options | `options.c` | option parameters stacked by function depth | push, get, destroy at level | recursion | a command sees its own parameters | none |
| Command-line client | `cli/gretlcli.c` | stack of 8 open scripts, `indent0` | run, quit, errors | nested runs | the right script goes on | none |
| Others | see `PROJECT.json` | | | | | none, with the reason |

How they interact: a client reads a line and hands it to `maybe_exec_line()`
(or, while a loop is stored, to the loop). `flow_control()` is asked first
whether the line is blocked. A line may start a loop (`gretl_loop_exec()`) or
call functions (`gretl_function_exec()`), directly or from within the condition
of an `if`; both run further lines in the same way, on the C stack. Each layer
records shared state when it starts and puts it back when it ends. That
save-and-restore discipline, on every path out, is what nearly all the
properties here are about. There is one thread of control; only the instances
of the graphical client are concurrent, as processes that share files.

Each of the detailed modules is paired with an abstract one that says what the
component promises, without the shared counters, flags, copies and pointers,
and is shown to implement it:

| Detailed | Abstract | The promise |
|---|---|---|
| `ScriptControl` | `PrivateBlocks` | each activation has its own stack of blocks |
| `Loops` | `LoopBodies` | a loop is a value: the lines its own reader read |
| `Calls` | `Scopes` | each call has its own bindings of names to cells |
| `Subsample` | `Sample` | one set of observations, one value each, a sample |
| `Outfile` | `Outputs` | each activation has its own output and settings |
| `Instances` | `Registry` | instances are numbered in order, and open what they are handed |

### Disagreements as constants

The code does not keep every promise of its documentation. Each detailed module
has a constant `Faults`: a set of names of situations in which it does not,
listed with its `ASSUME`. With `Faults = {}` these situations are left out by
the guards that name them, and everything else of the component is there; a
name in the set admits its situation, and TLC then finds the property violated
that it is against. (In `ScriptControl` the two Booleans `CatchCalls` and
`LoopReturns` do the same for two kinds of programs.) *Findings* lists them all.

## What is modelled

### IfState

`ifstate()` as operators on a record `[T, gotT, tok, indent]`, one per code:
`Blocked` (IS_FALSE), `Relax`, `Reset`, `Unindent`, `Open` (SET_TRUE and
SET_FALSE), `Branch` (SET_ELIF and SET_ELSE), `Close` (SET_ENDIF), with the
conditions `CanOpen`, `CanBranch`, `CanClose` that the code tests. The arrays
keep stale entries above the counter, as in C. `IfDepth` is `IF_DEPTH`.

### ScriptControl

The C stack as a sequence of scopes (the script, then one per activation of a
loop or function), the one if-state, the error code on its way up, and
`return_line`. Each scope has the level it recorded (`indent0`), what it is
waiting for, whether the line that called it has `catch`, and a history
variable `ret`.

| Actions | Code |
|---|---|
| `If`, `Elif`, `Else`, `Endif`, `Resume` | the branches of `flow_control()`, with `if_eval()` |
| `CommandFails` | any command that ends in error |
| `CallInCommand`, `CallInIf`, `CallInElif`, `CallInReturn` | entry of `gretl_function_exec()` from a command, a condition, the value of a `return` |
| `FunctionEnd`, `EarlyReturn`, `ReturnAfterLoop`, `ValueReturned`, `AfterLoop`, `FunctionFails` | its ways on and out |
| `StartLoop`, `IterationEnd`, `Break`, `ReturnInLoop`, `LoopFails` | `gretl_loop_exec()` |

The program is not fixed: whatever line may legally come next can come next,
conditions have either value or an error, commands may fail. Two kinds of
programs are told apart by constants, because their combination is where the
code does not keep its promise (see *Findings*): `CatchCalls` (calls of
functions prefixed with `catch`; the reference manual advises against it) and
`LoopReturns` (`return` inside loops).

The code takes `catch` in functions, in the script itself and in the loops of
either. A function that fails resets the blocks to those of its caller if that
is a function, or a loop of one; called by the script itself, or by a loop of
it, it clears all of them (`gretl_func.c:9595`), and a script that catches the
error goes on without its own. `MayCatch` leaves this second case out unless
`Faults` has `script`.

Taken as given: the blocks of a function balance, which
`gretl_function_append_line()` enforces by counting; the lines of a loop body
balance too, which the code only checks by count when an iteration ends (a body
with an unbalanced `else` flips its caller's block, and `OwnBlock` leaves such
programs out). The value of a `return` whose loop has failed is not itself a
call.

### PrivateBlocks

The abstract specification: one stack of blocks for each activation, out of the
reach of all others; each block has followed a branch, or not yet, or is dead.
There are no arrays, no counter and no resets. `ScriptControl` implements it
under the mapping `StackOf`, which cuts the shared arrays at the recorded
levels.

### ObjectStore and SavedObjects

`ObjectStore` has the routines of `objstack.c` as operators on a record: what
is allocated at each address and its reference count, the protected models, the
last model, the stack of saved objects. `Ref`, `UnrefFor`, `Destroy`,
`OffStack`, `SetLast`, `StackAs`, `RemoveFromStack`, `SavedObjectsCleanup` and
`DestroyWorkingModel` call one another as the C functions do; `Free` and `Gone`
are the three destructors, with their different ideas of a count.

`SavedObjects` has the actions of a script: `Estimate...` (single equations and
VARs, named or not), `StartSystem` to `EndAndEstimateSystem` and the faults of
a system block, `EstimateSystem`, `CallFunction` and `Return` with the last
model put away and restored, `Start...Loop`, `EstimateOnNewLine`,
`EstimateOnSameLine` and `EndLoop` for the records of `ols --print-final`,
`FreeNamed`, `ClearData`, `DropLastModel`. Besides the store it keeps `anon`
(`sysstack`) and one frame for each `ExecState`.

A model is protected from being freed in two ways, and `Protected` has both
(`objstack.c:293`): its address is on the list of protected models (`prot`), or
among the records of the loop that `currloop` points at or of a loop around that
one (`listed`). The second list is not cleared when an inner loop ends: the
records are freed, `currloop` stays until the outermost loop ends, and what is
allocated at one of their addresses is then taken for a record. The end of a
function's loop resets `currloop` although a loop of the caller runs on.

`Faults`: `lost` (an equation system nobody refers to), `unnamed` (one that is
freed while `sysstack` lists it), `stale` (records of an inner loop that
outlive it), `reused` (a model is saved under a name at the address of a record
that was freed). Without them every action is still there: malformed systems that
are destroyed as they should be, loops run again, progressive loops, loops that
fail at the start.

Left out: what is estimated, and so the contents of models (`swap_models` only
exchanges contents); the references held by windows of the graphical client and
its `genr_model`; failures of `malloc`. The count of a model that is protected is
never read; that of a working model or record is not kept. The stack is a set: its order matters to lookups by name
alone only, when objects of two kinds share a name (`gretl_stack_object`
compares names within a kind, `objstack.c:872`), and either is taken then.

### Loops and LoopBodies

`Loops` has the structures as a function from addresses to records (`loops`),
the static variables under their own names, and `acts`, the C stack of scripts,
functions and executing loops. `currloop`, `compile_level` and `loop_execute`
are what `gretl_loop_append_line()`, `gretl_loop_exec()` and every reader of
lines look at.

| Actions | Code |
|---|---|
| `BeginLoop`, `BeginFails`, `StoreLine`, `EndLoop` | `gretl_loop_append_line()`, `start_new_loop()`, `loop_attach_child()` |
| `Refused`, `Unparsed` | a line that cannot be stored, one that cannot be tokenized |
| `RunLoop`, `Iterate`, `LoopLine`, `LoopCall`, `InnerLoop`, `EndOfBody`, `LoopEnds`, `LoopFails` | `gretl_loop_exec()` and what it frees |
| `StartScript`, `EndScript`, `Call`, `Return`, `Run`, `Fails` | `execute_script()` of the graphical client, `gretl_function_exec()`, `run_script()` |

`LoopBodies` has no addresses and no flags: a reader holds the bodies it has
begun, a loop is a sequence of lines (with bodies inside), and an execution is
a body and a place in it. The mapping reads the trees of structures as values.
Index variables, progressive output and the compiled form of lines are left out.

### Calls and Scopes

`Calls` has the one collection of variables (`uvars`: name, level, value, and
for a shell the variable that owns what it shows), the flags of the functions' parameters
(`immut`) and the stack of calls. `Call(f, a)` is the whole of what
`gretl_function_exec()` does before the first line (checking arguments,
renaming and shifting, copying, flagging), `Return(n)` all after the last
(the return value, giving names and levels back, deleting the level);
`Define`, `Assign`, `Delete` are what lines do with names. `Scopes` is the usual
semantics of a call: a new scope, its parameters bound to copies or to the
caller's cells. One kind of object passed by copying, shifting or reference,
and series, which follow rules of their own, stand for the types of hansl.
The parameters of a function have different names, as the parser of function
definitions sees to (`gretl_func.c:7072`).

### Subsample and Sample

`Subsample` has the dataset in use (`dset`: rows, `submask`, `t1`, `t2` and the
full rows kept aside), one frame for each call, the level of a series `y` and
the sample of the last model. `SetSample`, `SetStart`, `Full`,
`RestrictSample`, `RestrictPermanently`, `PermaSample` and `RestrictFails` are
the forms of `smpl`; `Genr`, `AddSeries`, `DropSeries`, `AddObs` and `Estimate`
the commands that use or change the data; `Call` and `Return` what a function
records and restores. Rows have identities, so that the mapping can say which
observations are selected and what their values are, wherever copies are kept.
Panel data and restructuring are left out.

### Outfile and Outputs

`Outfile` has the printer (`prn`: streams put aside, each with its depth, and
whether output is disabled), `vparms`, the stack of program states, and the
functions, loops and scripts under execution, with what each recorded.
`Outfile`, `EndOutfile` and `Set` are the commands; `Call`, `StartLoop`, `Run`
and `End` begin and end activities; `CommandFails` and `ActivityFails` take an
error up through them, one redirection at a time, to the session or to a line
that begins with `catch` (`caught` in the record of what that line called). In
`Outputs` each activation is a record, and an error ends those of the functions
that fail.

`process_command_error()` ends a redirection, if any is in force, for each line
an error passes, and does not ask whose it is. When the error ends in the
session nothing should be left, so that this does no harm. When it is caught,
those who go on may have diverted their output (`Spared`), and theirs is safe
only if each of those who fail is a function with a redirection of its own
(`EachHasOwn`). The guard of `CommandFails` leaves all other cases out unless
`Faults` has `caught`. A loop among those who fail ends one redirection, or
two; the cases in which the number then comes out right are left out as well.

### Instances and Registry

`Instances` has, for each process identifier, how far its program has come
(`pc`, `stage`), the PID file and the temporary file, the request files and the
pending signals. Each read or write of a file and each signal is an action of
its own; `Die` is a crash between any two of these, after which the identifier
may be taken again by `Start` or by another program. A crash in the middle of
copying a file is not among them: `gretl_copy_file()` truncates the destination
before it writes to it (`lib/src/gretl_utils.c:1994`), and a PID file that is cut
off there has lost lines. `Registry` is a numbering of instances
and what each is handed.

## Properties and runs

| Property | Module | Says |
|---|---|---|
| `TypeOK` | each | the types, and the shape of the structures |
| `CallersIntact` | `ScriptControl` | the blocks open at a call stay open, and followed, while what was called runs |
| `OneBranch` | `ScriptControl` | a block that has followed a branch never follows another |
| `ReturnPending` | `ScriptControl` | a pending `return` has a function below that waits for its loop |
| `NoDangling` | `SavedObjects` | nothing the program may follow points at a freed object |
| `CountsExact` | `SavedObjects` | a count is the number of places that refer to the object |
| `NoneLost` | `SavedObjects` | every allocated object can be reached |
| `NamesDesignate` | `SavedObjects` | a name designates one object of a kind |
| `ProtectionEnds` | `SavedObjects` | the protected models are the working models and the records of running loops |
| `CallerKeepsLast` | `SavedObjects` | a call leaves its caller's last model in place |
| `WithinCallers` | `Subsample` | a function stays within the sample it was given |
| `Cumulates` | `Subsample` | what is left after a restriction is the intersection with what was there |
| `ModelSameRows` | `Subsample` | a model matched by its mask was estimated on the rows it is matched with |
| `RestoresOnExit` | `Subsample` | the end of a function brings back its caller's sample and observations |
| `NoneLost` | `Loops` | no structure is lost, none is used after it was freed |
| `StateOfReader` | `Loops` | the static variables describe the reader that is on top |
| `LoopingExact` | `Loops` | `looping[]` marks the depths at which a loop runs |
| `RenamingHolds` | `Loops` | while a loop that renames runs, series are looked up by name |
| `OneOfEachName` | `Calls` | a name designates one variable at each level |
| `NothingLeftOpen` | `Outfile` | when an error has reached the session, nothing is diverted; when it was caught, nothing by those who failed |
| `QuietEnds` | `Outfile` | the end of a redirection restores what `--quiet` turned off |
| `AllInFile` | `Instances` | every instance has its line, with the number it shows |
| `NumbersDiffer` | `Instances` | no two windows show one number |
| `RequestThere` | `Instances` | who is signalled has a handler and finds a request |
| `FindsLatest` | `Instances` | a newcomer finds the latest instance |
| `Opened` | `Instances` | what an instance is handed is opened, if it does not end before |
| `Implements...` | each | the detailed module implements the abstract one |

| Run | Instance | Result |
|---|---|---|
| `script_catch` | blocks 3 deep, C stack 4, catch | 72 787 states: all hold, the refinement included |
| `script_return` | blocks 2 deep, C stack 5, returns in loops | 57 867 states: `ReturnPending` and the refinement hold |
| `script_leaves` | blocks 3 deep, C stack 5, returns in loops | `ReturnLeaves` violated by a loop within a loop |
| `saved` | 5 addresses, 2 names, depth 2, loops nested to 2 with one record each | 588 232 states (up to symmetry): all hold |
| `sample` | 3 observations, depth 2 | 145 836 states: all hold |
| `sample_exit` | 3 observations, depth 1, `relinked` | `RestoresOnExit` violated |
| `loops` | 3 structures, 2 lines each, 3 readers | 124 487 states: all hold |
| `calls` | names m, n, s (a series), 3 functions, 4 variables, depth 2 | 27 107 states: all hold |
| `instances` | 3 identifiers, numbers to 3 | 1 057 906 states (up to symmetry): all safety properties and the refinement hold |
| `instances_live` | 2 identifiers, fair | 16 176 states: `Opened` holds |
| `output` | 2 values of a setting, 3 activities | 788 290 states (up to symmetry): all hold |
| `output_quiet` | the same with `nested` | `QuietEnds` violated |

### The bounds, and why they are enough

`ScriptControl`. A call that is caught is made from a function (with
`Faults = {}`), with a block open in the script below it, and the callee may
itself call or loop: 4 scopes. A pending return taken over by another function needs a script, a
function, its outer loop, a called function and that one's loop: 5 scopes. Three
levels of blocks let each of three scopes hold one; with 5 scopes two levels
keep the refinement within reach, and the proofs cover the rest. The bounds are
`MaxScopes` (guard of `Push`) and `IfDepth`, whose real value is 1024; running
into it is part of the model.

`SavedObjects`. The bounds are the number of addresses (`Obj`), `MaxDepth`,
`MaxLoops`, `MaxRecords` (lines with `--print-final` in a loop) and the number
of equations, where 2 stands for more. Three working models leave room for
three objects: the last model of the caller, one that replaces it on the stack
and a new last model. Addresses are reused once freed, as by `malloc`; they and
the names are interchangeable, which the symmetry uses.

`Subsample`. `MaxObs` 3 is the least with restrictions that are not ranges (1
and 3) and ranges that are not everything; at two depths a function has a
caller that is itself restricted by its own. The identities of observations
bound `AddObs`.

`Loops`. Three structures are a loop with a child and a loop of a function
called from it, or three in one another; two lines put one before or after an
inner loop; three readers are a script, a function and one called by that.

`Calls`. `MCParams` gives the functions every mode of parameter: by value,
`const`, by reference, for matrices and for a series, one and two at a time.
Two depths have a parameter lent on. `MaxVars` leaves room for what a function
defines itself.

`Outfile`. `MaxActs` counts functions, loops and scripts together: three are a
function within a function within a loop, or a function that catches the error
of one called by another. The proofs are for any number.

`Instances`. Two processes that register and one that crashes, or prunes, in
between. `MaxNumber` bounds the numbers shown, and the run with
the liveness property has two identifiers, one to hand over and one to open.

Every state has a successor in every run, so deadlock is checked everywhere.

### Fairness

`FairSpec` of `Instances` has `WF_vars(Handle(p))` for each process: a pending
`SIGUSR1` is delivered, which the operating system sees to, and the handler
interrupts whatever the process does (`gui/gretl_ipc.c:503`). Nothing else is
assumed: instances may stop anywhere, as `Die` shows. All other runs are about
safety alone. The interpreter runs what it is given, and scripts may loop for
ever.

## Findings

With a run:

1. `return` in a loop within a loop ends the inner loop only
   (`monte_carlo.c:3893`): the function goes on with the outer loop, against
   "causes the function to return (exit) at the point where it appears"
   (`doc/tex/functions.tex:754`). Run `script_leaves`: a loop whose function has
   to return ends at its next step, and the loops around it with theirs; the
   trace is an outer loop that starts another iteration. (The value of the
   `return`, and what it calls, is evaluated after the loops.)
2. A function that is called with a subsample and ends with the full dataset in
   place leaves its caller with the full dataset and the indices of the
   subsample (`gretl_func.c:9574`), against "restore the sample that was in
   place on entry" (line 9573). Run `sample_exit`.
3. A function that diverts its output while its caller's `outfile --quiet` is in
   force overwrites the one static copy of what that turned off
   (`interact.c:948`): messages stay off, against
   `doc/commands/gretl_commands_en.xml:10325`; the example of nesting at line
   10347 is such a case. Run `output_quiet`.

The others, by the name in `Faults` that admits them:

- `ScriptControl` (`script`): a call from the script itself, or from a loop of
  it, fails and is caught. The function has cleared all blocks
  (`gretl_func.c:9596`), `interact.c:4455` (in a loop, `monte_carlo.c:3946`)
  takes the error, and the script goes on as if it had no `if` open, so that the
  `else` or `endif` of the block it is in is unmatched. TLC finds
  `CallersIntact` and `ImplementsPrivateBlocks` violated; `TypeOK` and
  `OneBranch` hold. The manual says that `catch` "should not be used on calls to
  user-defined functions" (`doc/commands/gretl_commands_en.xml:1608`); the code
  warns (`geneval.c:9939`) and goes on.
- `ScriptControl` (`LoopReturns`): `return` in a loop within an `if` of the same
  function ends with `Unmatched "if"`, and the open blocks of the caller are
  dropped (`gretl_func.c:9557`, where the pending return also overwrites an
  error of the loop); after finding 1, a function called by the outer loop that
  runs a loop takes the pending `return` for its own (`gretl_func.c:9333`).
  With `CatchCalls` as well, `CallersIntact` is violated: after `catch f()`,
  where `f` ends in that way, the caller goes on without its blocks. This is why
  runs and theorems treat the two kinds of programs separately.
- `SavedObjects`. `unnamed`: a malformed unnamed system that has an equation is
  freed while `sysstack` still lists it (`system.c:2226`, also 987 and 3001).
  `lost`: a named system is lost when it has no equations (`system.c:522`) or
  fails `sys_check_lists` (2236), against "If the system is mal-formed, it is
  destroyed" (2199). `stale`: the records of an inner loop survive, freed, into
  its next run when it is progressive or fails at its first line
  (`monte_carlo.c:3999`, `3047`). `reused`: between the end of an inner loop and
  that of the loop around it a model is saved under a name at the address of a
  record of the inner loop. `model_is_in_loop()` (2223) takes it for a record;
  references to it are added (`gretl_object_ref()` does not ask) and never taken
  off, so that `CountsExact` is violated, and `NoneLost` once the name is given
  to another model. It is a leak: TLC finds `TypeOK`, `NoDangling`,
  `NamesDesignate`, `ProtectionEnds` and `CallerKeepsLast` to hold (with 4
  addresses and counts bounded by 2).
- `Subsample`. `misaligned`: a condition on top of a range within a subsample is
  moved to the wrong rows (`subsample.c:1906`, `1937`). `inverted`: `smpl` with
  one field may put `t1` above `t2` (2643). `stale`: the bounds of a function
  are those of another mask (`gretl_func.c:9769`). `replace`: `--replace` in a
  function replaces the restriction of its caller. `relinked`: finding 2.
  `escapes`: `smpl full`, and a restriction that fails and is caught, put a
  function that was called with a range outside of it. `addobs`: observations
  added and then a restriction, in a function. `trim`: a range made permanent
  while there is a model. In addition, `smpl a b --permanent` on a subsample
  commits the restriction and not the range, which `Sample` allows.
- `Loops`. `unbalanced`: a missing `endloop` in a function that a loop calls
  (`monte_carlo.c:256`). `unparsed`: a line of a loop that cannot be tokenized
  leaves the loop behind. `run`: loops in a script run by a function are stored
  and never executed (`interact.c:1522`), against
  `doc/commands/gretl_commands_en.xml:7786`. `renaming`: the end of a loop in a
  called function resets the caller's flag (`monte_carlo.c:4022`).
- `Calls`. `shared`: constness is a flag of the function and not of the call
  (`gretl_func.c:8787`), and is what was declared again while the arguments of a
  recursive call are passed (7797). `twice`: a variable passed to two parameters is found
  under one name (7562). `return`: a parameter that is constant only in this
  call is not copied when it is returned, and the caller's value goes with it
  (8346), against `doc/tex/functions.tex:572`. Not an action of `Calls`: an
  argument refused after others have been renamed leaves those as they are
  (7617).
- `Outfile`. `nested`: finding 3. `failing`: an error ends a redirection with
  `--quiet` without restoring anything. `closes`: a function may end its
  caller's redirection. `leaves`: a function that does not end its own ends in
  error, and only one redirection is ended. `unparsed`: an error in a line that
  is not executed as a command ends none. `block`: a loop, or a script run with
  `--quiet`, that ends a redirection begun outside overwrites what that
  restored, and one that begins a redirection with `--quiet` and
  does not end it undoes that. `caught`: the error of a function without a
  redirection of its own ends its caller's (`interact.c:4463`), and the caller,
  whose line has `catch`, goes on undiverted and without what `--quiet` turned
  off: `NothingLeftOpen`, `QuietEnds` and `ImplementsOutputs` are violated.
  `unset`: `set` in a script run by a function without a line of its
  own with `set` changes its caller's setting.
- `Instances`. `overlap`: two processes that rewrite the file at once lose
  lines (`gui/gretl_ipc.c:311`). `early`: a hand-off to an instance that is in
  the file and has no handler yet ends it (`gui/gretl_ipc.c:612`). `second`: a
  second hand-off overwrites the request of the first (552).

Seen and not in a model: the macro `loop_err_caught` (`monte_carlo.c:205`) sets
the flag that `maybe_preserve_loop()` means to test (3506), so loops are never
kept; `indent0` of the command-line client is overwritten by a nested `run`
(`cli/gretlcli.c:1310`), and that the stack of eight scripts is full is not
noticed where one is pushed (1295, 1371); blocks nest to depth 1023 and the
manual says 1024 (`flow_control.c:233`, `doc/tex/hp-ctrlflow.tex:33`); the index variable of a
loop is not read-only (`geneval.c:1203`, `doc/tex/hp-ctrlflow.tex:236`);
objects of different kinds can be saved under one name (`objstack.c:872`,
against the comment at 875); the copy of a saved model has two references and
not one (`objstack.c:976`, comment at 952), which is harmless, as `CountsExact`
shows.

## What is proved

| Module | Theorem | Property | Assumes of `Faults` |
|---|---|---|---|
| `ScriptControlProofs` | `TypeCorrect` | `TypeOK` | not `script`; not `CatchCalls` and `LoopReturns` together |
| | `CallersSafe` | `CallersIntact` | the same |
| | `ReturnOwned` | `ReturnPending` | the same |
| | `OneBranchOnly` | `OneBranch` | the same |
| `PrivateBlocksProofs` | `PrivateBlocksImplemented` | `ImplementsPrivateBlocks` | the same |
| `OutfileProofs` | `TypeCorrect` | `TypeOK` | `OwnOnly`: not `closes`, `leaves`, `unparsed`, `caught` |
| | `DiversionEnds` | `NothingLeftOpen` | `OwnOnly` |
| | `QuietRestored` | `QuietEnds` | `OwnOnly`, `Polite`: not `nested`, `failing` |
| | `OutputsImplemented` | `ImplementsOutputs` | none of the faults |
| `InstancesProofs` | `TypeCorrect` | `TypeOK` | |
| | `InstancesInFile` | `AllInFile` | not `overlap` |
| | `NumbersShown` | `NumbersDiffer` | not `overlap` |
| | `PriorIsLatest` | `FindsLatest` | not `overlap` |
| | `RequestsFound` | `RequestThere` | not `second` |
| | `RegistryImplemented` | `ImplementsRegistry` | not `overlap`, not `second` |
| `SavedObjectsProofs` | `TypeCorrect` | `TypeOK` | `Kept`: not `unnamed`, `stale`, `reused` |
| | `NothingDangles` | `NoDangling` | `Kept` |
| | `CountsAreExact` | `CountsExact` | `Kept` |
| | `NamesAreUnique` | `NamesDesignate` | `Kept` |
| | `ProtectionIsExact` | `ProtectionEnds` | `Kept` |
| | `CallerGetsItsModelBack` | `CallerKeepsLast` | `Kept` |
| | `NothingIsLost` | `NoneLost` | `Kept`, not `lost` |
| `LoopsProofs` | `TypeCorrect` | `TypeOK` | `Orderly`: not `unbalanced`, `unparsed`, `run` |
| | `StructuresAreOwned` | `NoneLost` | `Orderly` |
| | `StateIsOfReader` | `StateOfReader` | `Orderly` |
| | `LoopingIsExact` | `LoopingExact` | `Orderly` |
| | `RenamingIsKept` | `RenamingHolds` | `Orderly`, not `renaming` |
| | `BodiesImplemented` | `ImplementsBodies` | `Orderly` |
| `SubsampleProofs` | `TypeCorrect` | `TypeOK` | `Regular`: not `inverted`, `stale`, `relinked`, `addobs` |
| | `SampleIsRestored` | `RestoresOnExit` | `Regular` |
| | `CallersBound` | `WithinCallers` | `Bounded`: none but `trim` |
| | `RestrictionsCumulate` | `Cumulates` | `Aligned`: `Regular`, not `misaligned` |
| | `ModelsKeepTheirRows` | `ModelSameRows` | `Untrimmed`: `Regular`, not `trim` |
| | `SampleImplemented` | `ImplementsSample` | `Regular` |
| `CallsProofs` | `TypesHold` | `TypeOK` | no faults |
| | `OneVariable` | `OneOfEachName` | `Distinct`: not `shared`, `twice` |
| | `ScopesImplemented` | `ImplementsScopes` | no faults |

The remaining assumptions are the `ASSUME`s of the modules, which say of what
type the constants are. There is no bound: the theorems hold for every
`IfDepth >= 2`, every depth of the C stack, any number of functions, loops and
scripts, any set of processes, any number of saved objects and names, any number
of loop structures, lines and readers, any number of observations and of nested
calls, any functions with any parameters.

### ScriptControlProofs

For programs that do not mix `CatchCalls` and `LoopReturns`, and do not catch
calls made by the script itself (`script`). The inductive invariant is `IInv == TypeOK /\ Stack /\ Frames /\ Pending`.

- `TypeOK` alone is not inductive: `Endif` lowers the counter without looking
  at it. What keeps it from going below 0 is that index 0 of `tok` is never
  written, so that `CanClose` fails there: part of `Frames`.
- `CallersIntact` is not inductive: that the block of a caller is followed
  when a scope above starts needs `~Blocked` at the call, and that it still is
  when the scope ends needs the recorded levels to grow upwards: `Stack`.
- After an error the counter may be anywhere below the levels of the scopes on
  the stack. `Frames` says so (`~failing =>`), and `FunctionFails` needs that
  a scope whose caller catches it is never one that clears everything: `Stack`
  keeps track of where `catch` occurs. With `script` it is one, and the blocks of
  the script are gone.

The proof has a lemma for each operator of `IfState` (type and frame), one for
each way of changing the stack (`Kept`, `Push`), and one step per action.
`OneBranch` is an action property: `Stays` compares the blocks before and after
each operator.

### PrivateBlocksProofs

Under the same conditions, `ScriptControl` implements `PrivateBlocks`. `View` is
the mapping `StackOf` written as an operator on an if-state, a stack of scopes
and an error, so that lemmas can compare two of them. The invariant is

    RInv == IInv /\ RisingIn(scopes) /\ Got /\ Idle

- `RisingIn`: the recorded levels grow along the whole stack. `Stack` has this
  from one scope to the next; the rest would need induction.
- `Got`: a block that is followed and is not an `else` is known to have
  followed a branch. Without it an `elif` could find a block that `T` says is
  followed and `got_T` says is not, and follow it again.
- `Idle`: a scope that waits for a condition is in branches that are followed,
  so that what it opens when it resumes is not dead.

One lemma says what each step inside a scope (`OwnStep`, `FailStep`), each
start of one (`EnterStep`) and each end (`LeaveStep`, `AbandonStep`) does to the
view; below them `SameUpTo` says which levels of the arrays a step leaves
alone. `FlowStep`, `FunctionStep` and `LoopStep` go through the actions.

### OutfileProofs

`IInv == Typed /\ Rising /\ Within /\ Inherited /\ OnItsWay /\ LastRestores`. An
error ends one redirection for each line it passes. That this is enough rests on
three facts, none of which the code states: the depths of the streams rise
(`Rising`), no stream is of a deeper function than those on the stack, nor of
one through which the error has passed already (`Within`), and what was in
force when a function was called is not of its own depth (`Inherited`).
`OnItsWay` is about an error that will be caught: as long as whoever catches it
or somebody below has a redirection, each function that has still to fail has
one of its own (`Covered`), so that theirs is never the one that is ended, and
what was in force when they called is still there (`StillInherited`).
`QuietEnds` needs that only the innermost redirection may have something to
restore, and that `vparms` says so when it has (`LastRestores`). Depth is
the number of functions among the activities, a cardinality; `Among` and its
lemmas count them along the stack.

`OutputsImplemented` is the refinement of `Outputs`, where the session and
every function have a redirection, messages and settings of their own. What
belongs to the function at depth `d` is read from the shared state through
`FunctionAt`, its place among the activities: its redirection is the stream of
its depth, its settings the state it has put on the stack or the one below, its
messages those the state above it has put aside. For that the invariant needs
`Extra` on top of `IInv`:

- `SavedIn`: what a function with a state of its own has put aside are the
  messages of the state below.
- `Recorded`: as long as nothing has failed, `vparms` is on only if the
  redirection in force, when there is one, has something to restore.

There is one lemma per action (`...Refines`). While an error is on its way, the
records that are left are those of whoever catches it and of all below, or of
the session alone (`Reach`): the line that fails is `Fail`. What the loops and
scripts above the session restore is then a `Set` of the session; above a line
with `catch` whoever goes on finds the state in use as it was at the call
(`CaughtCommandRefines`, `CaughtActivityRefines`). Each fault
breaks the mapping: with `unset` a function without a state of its own changes
an option of its caller, with `nested` and `failing` what `vparms` recorded is
lost or not acted upon, with `block` the end of a loop or script undoes what a
redirection has set, and the others leave or close a stream of another function.

### InstancesProofs

`IInv == TInv /\ SeqOK /\ AllInFile /\ FileOK /\ TmpOK`: `AllInFile` depends
on what a process that rewrites the file has kept in the temporary file
(`TmpOK`), and the order of the lines on that of the numbers (`FileOK`).
`RequestThere` has an invariant of its own (`RInv == TInv /\ Sent /\
RequestThere /\ ShownOK`), because it holds in spite of overlapping rewrites.
`RegistryImplemented` uses both: each step of `Instances` is one of `Registry`
or changes nothing there.

### SavedObjectsProofs

The program counts references by hand, and the count of an object is right or
wrong only with respect to places that `objstack.c` does not know: the last
models that frames put away, the unnamed system of each depth. So the store is
called `Sound(m, X)` with respect to a count `X` of the references from
outside: counts are `X` plus the store's own places (`Exact`), what is held is
alive (`HeldAlive`), protected models are not saved by name, no object and no
name is in the stack twice, and a system the store holds has equations
(`Complete`: `equation_system_destroy` never frees one without). There is a
lemma for each routine of `ObjectStore`: it keeps a store sound with respect to
the same `X`, or to one that differs by the place its caller takes or gives up
(`SoundRef`, `SoundUnref`, `SoundDestroy`, `SoundSetLast`, ...).

The invariant `IInv` is that the store is sound with respect to what the frames
and unnamed systems hold (`Outside`, two cardinalities), together with the shape
of the frames:

- `Apart`, `Older`: the working models and records of different frames are
  different objects, and no frame puts away a model of its own or of a frame
  it calls. A frame that returns could otherwise unprotect and free
  what its caller gets back.
- `store.prot = AllOwn(frames)`: exactly those models are protected.
- `Defined`: the system of an open block is held by nobody, or as the unnamed
  one of its depth and nowhere else, so that to drop it leaves nothing dangling.
- `AnonSystems`, `PrevsComplete`: what a depth keeps unnamed is a system, and a
  system a frame puts away has equations. Without the second, `SetLast` at a
  return could make an incomplete system the last model.

Protection is by address, so `Sound` has a conjunct that says when an address
that is `listed` protects rightly: if a model is there, it is on the list of
protected models too (the record itself, then). A model that is estimated on a
new line, or a working model, at such an address is on that list; one that is
saved under a name is not, which is `reused`: with it the counts are wrong.

`unnamed` and `stale` are excluded because there the code does leave a pointer
to freed memory, which no invariant survives; `lost` only loses memory and all
but `NoneLost` is proved with it. `NoneLost` needs one conjunct more
(`Tidy`): what is neither protected nor being defined has a reference.

### LoopsProofs

The program keeps loops as trees of structures and a single `currloop`, which is
at different times the loop that is being stored, a child of it, or the rest of
one that is being executed. Everything that can go wrong with it is about which
tree a structure belongs to: `gretl_loop_exec()` frees a tree when it ends, and
`destroy_loop_stack()` climbs from `currloop` to the root and frees that tree.

*Trees without induction.* `Root` and `Family` are recursive functions of the
structures. What they are is derived here without an induction principle: the
levels of a tree are numbers, a set of numbers that is not empty has a least one
(`Least`), so any set of structures has an outermost member, and, since levels
are bounded, an innermost one. `FamilyIsUnder` shows with the second that the
recursive `Family` exists and is what can be reached through `children`;
`RootFacts` shows with the first that `Root` exists, has no parent, and is the
same for a structure and its parent; `FamilyOfRoot` joins them: what
`destroy_loop_stack()` frees is the set of structures with that root.
Then there is a lemma for each change to the trees: a line is stored
(`StoreForest`), a loop is begun (`AddForest`), one is begun inside another
(`NestForest`), a tree is freed (`DropForest`).

*The invariant.* `IInv == Typed /\ Nesting /\ Deeper /\ Storage /\ Owned /\
Marked`. `Typed` has the trees: `Linked` (both ends of a pointer agree), `Lined`
(each first line of an inner loop has one child, and each child a line), and
`Grounded` (a loop without a parent is at level 0). `Owned` is what `NoneLost`
says in terms of roots, `Storage` what `StateOfReader` says and that the tree
being stored is not one that is executed, `Marked` is `LoopingExact`. None of
the properties is inductive without the others:

- Without `Nesting` (an inner loop runs directly above its parent, an outermost
  one above a reader, and no two in one tree) the end of a loop could free a
  tree that is executed further down the stack.
- Without `Deeper` (who reads above a loop is deeper in calls) the end of a loop
  could reset the mark of another at the same depth.
- Without `Grounded` an `endloop` at `compile_level` 1 could leave a loop that
  is somebody's child to be executed. It was added after a proof of
  `StepEndLoop` failed for want of it.

`Quiet` adds to it, for `RenamingHolds`, that no loop that renames is below the
reader of another loop (`Alone`). TLC checked `IInv` and `Alone` on the
instance of the run `loops` first, and on larger ones.

*The refinement.* `BodiesImplemented` says that all this is loops as values:
every step is one of `LoopBodies` or changes nothing of it. `Value` and
`OpenBodies` are recursive functions too, and the same two facts about levels
stand in for induction: `ValueExists` solves the first from the innermost loops
outwards, `BeforeExists` the second from the outermost inwards, and `ValueFacts`
and `BeforeStep` say line by line what they are. What a step does to them is in
three lemmas about values, whatever the step is:

- a set of structures that no pointer leaves and no step touches has the values
  it had (`ValueKept`), so that a loop under execution is what it was when it was
  read, whatever is stored or freed meanwhile (`StoringHeld`, `DestroyValues`);
- a line more in a loop is a line more in its value (`EditedBody`), whether it
  is a statement or the first line of a loop inside;
- the loops around it are the same up to their last lines (`EditedBefore`).

The last holds because of one thing more about the state, `Placed`: the loop
being stored, and each loop around it, is attached to the last line of its
parent. Otherwise the lines of an inner loop would appear in the middle of one
that was read already, and `EndLoop`, which only follows a pointer to the
parent, would not be `Close`, which puts the body at the end of the one around
it (`LastIsInner`). `PlacedStep` shows that every step keeps it, with `IInv`; TLC
checked it first. `SimNext` then has one lemma for each kind of step (`SimStoreLine`,
`SimEndLoop`, `SimInnerLoop`, ...), over what `LoopBodies` sees of the stack when
a reader stores a loop on top (`ViewStorer`) and when nothing is stored
(`ViewIdle`). `renaming` need not be excluded: the flag is no part of what is read.

*The assumption.* `Orderly` excludes programs whose functions or scripts leave
a loop open for another reader (`unbalanced`, `unparsed`, `run`): there the
code does hand the lines of one reader to another, and `StateOfReader` is
false. `renaming` is excluded from `RenamingIsKept` alone: a loop in a called
function turns off the flag its caller relies on.

### SubsampleProofs

The rows in use, the full rows kept aside, masks, ranges and the records of
calls all say where an observation is, each in its own numbering. The proof
brings them to one: `Base(d)` is the sequence of the identities of the full
dataset, and a mask with a range selects places of it (`Where`, `Picked`).
Assignments, copies and restored rows leave `Base` alone; `addobs` extends it,
the end of a function cuts it off, and only a permanent sample, in the main
script, replaces it. The lemmas about datasets (`RestoreSound`, `MaskSound`,
`ValuesSound`, `LongerSound`, ...) say that each operation yields a sound
dataset, and what its `Base` is. They rest on what `Rank` does to a mask
(`RankFacts`): a masked row has as many masked rows before it as there are
before its copy.

*The invariant* has layers, so that each theorem needs no more than it must:

- `Core`: the dataset is `Sound` (observations in the order in which they were
  added, a mask and a range that fit, copies with the identities of their
  originals, a series in all rows or in none), and the records of the calls are
  `Linked` to it. A record is about the first observations there are
  (`Recorded`). The next record, or the dataset, has those and the ones that the
  call added, is still masked if the call was made with a mask, and is not
  masked once observations have been added (`Follows`). Otherwise the end of a
  function could neither find the rows to go back to nor tell what it had added.
- `Confined`, for `WithinCallers`: the sample of a call lies within those of the
  calls below it, and a subsample made in a function is either the one the
  function was called with or part of the caller's sample. Without that, a
  range of the subsample would say nothing about the caller's.
- `Modelled`, for `ModelSameRows`: the model's places are among the
  observations that every running call has seen. The end of a function could
  otherwise take them away.

`Cumulates` and `RestoresOnExit` follow from `Core`. TLC checked each layer on
the instance of the run `sample`, with the disagreements its theorem allows.

*What the proof corrected.* `Full` took the bounds of the main script from the
rows that were in use before the full dataset was restored, where the code
takes them from the restored ones (`subsample.c:839`); the step for `Full` could
not be proved, and bounds, `Extrema(d)`, now are those of a dataset. Further
`NoSeries` is assumed to be no value of a series; that it differs from `NA` had
not been enough. And `NA` is now assumed to differ from 1, the value that the
model assigns: assignments of the abstract dataset are of values other than
`NA`, and the refinement could not be proved without it.

*The refinement.* The full rows of a dataset, `FullRows(d)`, are a `Table` of
observations with their values, from which the mapping reads the abstract
observations (`ObsOf`) and data (`DataOf`). Most of the work is to say what each
operation does to the full rows:

- Ranges, restoring and a new mask keep them (`RangedRows`, `RestoredRows`,
  `MaskedRows`), because restoring first writes the values of the subsample back
  and a new mask copies them. These steps are a `Select`.
- A permanent sample leaves some rows, with their values (`PartData`); it is a
  `Commit`.
- An assignment in a subsample reaches exactly the observations that are masked
  and in range, though the copy aside is not touched (`ValueAt`,
  `AssignedValue`).
- The end of a function, by whichever of its five ways, leaves the first rows as
  they were (`ExitRows`) and takes off those the function has added.

So no value is lost or moved to another observation while a dataset is
restricted and restored, in the function or its callers. The invariant is
`Core`, with `lastmod` of its type, as for the other theorems.

*The assumptions.* Each disagreement that a theorem leaves out is one with which
the invariant, or the property, fails. With one of them at a time, TLC finds
`WithinCallers` violated by `escapes`, by `replace` and by `misaligned`,
`Cumulates` by `misaligned`, `ModelSameRows` by `trim`, and `RestoresOnExit` by
`relinked` (finding 2) and by `addobs`. `inverted` and `stale` break `TypeOK`.

### CallsProofs

An argument that is not copied is the caller's own variable, which for the time
of the call has another name and another level. Nothing in the table of
variables says where it came from: that is known to the record of the call
alone, and which of the recorded arguments go back is decided at the end, for a
series from a flag that belongs to the function. So the invariant is about both:
`LoansOf(immut, callstack)` derives from the records, and from the flags as they
are now, what is lent to each level, and `Sound(U, G, O, n)` says of variables
`U` with levels up to `n` that they agree with loans `G` and with the series
`O` each call has found:

- `Lending`: what is lent to a level is there, or lent on from there level by
  level to where it is, under the names that those calls recorded, and is lent
  once at each level. Otherwise the end of a function could move down what is
  not its own.
- `Named`: a name belongs to one variable at each level, *those included that
  are lent away from it*. `OneOfEachName` says this of the variables that are at
  the level now, and is not inductive: a variable that is lent has to find its
  name free when it comes back.
- `Shells`: the owner of what a shell shows is lent to a level at which the
  shell stays, so that the end of a function destroys the shell before its
  owner can be deleted by the caller.
- `Keeping`: the series found by a call are below it or lent to it, so that
  `stop_fncall()` leaves none of its own.

`G`, `O` and `n` are parameters because soundness is also what holds in the
middle of a step. A call passes its arguments one at a time, and each sees what
the ones before have moved: `PassedSome` says that the variables are sound with
what would be lent if the call were made with the arguments so far, and one
lemma each shows that a copy, a variable and a shell keep it so
(`CopyPassed`, `VariablePassed`, `ShellPassed`). The end of a function gives the
arguments back one at a time (`GivenBack`) before it clears the level
(`SoundClose`). Both are recursive functions over the arguments; the facts about
them are about each prefix, and a least prefix at which one fails does for
induction (`PassedAll`, `GivesExists`). `IInv` adds that moved
objects are constant in the call (`Recorded`), which is what keeps their values
from being taken when they are returned (`Bounded`).

`ScopesImplemented` is proved with a stronger invariant, `RInv`, and with the
relation `Called(U, imm, cs, i, v, x)`: `x` is the name of variable `v` at level
`i`, where it is now or from where it is lent. `OneName`, which follows from
`Sound`, makes it one to one, so that the scope of level `i` under the mapping is
the relation read as a function (`ScopeIs`), and two states in which it agrees at
a level, with the owners of values and with what is constant, have one scope
there (`SameScope`). `RInv` adds three facts to `IInv`:

- `Pointers`: the series that a call has recorded in `ptrvars`, from which the
  mapping (and the check for constant objects) tells what is lent, are those
  that its end gives back, which it tells from the flags.
- `Supplied`: each parameter of a running function has a variable. Without it a
  variable could be defined under the name of a parameter and be constant from
  the start.
- `Twins`: two names at one level have one value only if both are constant
  there. It is what `Lends` asks of a call, and is needed of the caller to show
  it of the callee: two arguments with the same value may be passed to two
  parameters.

Each step is then shown to leave the levels below the current one as they were
(`StayBelow`, `CallSame`, `ReturnedCalled`): for a call because what is lent by
it is called at the caller's level what it was called there before, for a return
because it is given back under that name. `CallLevel` says what the parameters
of a call are bound to, from `Bindings`, the part of `PassedSome` that is about
names and values; `FlagsSeen` that an argument that is constant for the caller
is so for the parameter, which is read from flags that change while arguments
are passed.

*The assumption.* With `shared` a recursive call changes the flag of a series
argument, and its caller then gives back what was a copy or keeps what was lent;
with `twice` a variable is lent twice at a level and comes back to two places.
With two series and three levels TLC finds `OneOfEachName` and `TypeOK` violated
by each of them. `return` takes the value of a variable that stays, so
`TypesHold` leaves it out too. TLC checked `IInv` on the instance of the run
`calls`, with `return`, and on one with two series and three levels.

*What the proof corrected.* The constants of `Calls` allowed a function two
parameters of one name, for which `OneOfEachName` is false; the parser refuses
such a function, and `CallsAssumption` now says so. And `Shares`, which leaves
out the disagreement `shared`, asked only that the flags be the same after a
recursive call. While its arguments are passed they are those that were declared
(`Unchecked`), and an argument that is constant for the caller, though not
declared so, is passed to a parameter that is not: `FlagsSeen` fails, and TLC
finds `ImplementsScopes` violated after four steps, at three levels, with a
function of three parameters that calls itself. `Shares` now leaves such a call
out as well.

### Only model-checked

Liveness: `Opened` is out of the prover's reach, as `ENABLED` is. So is what
recursive functions compute in general: the folds of `ObjectStore` over the stack, for instance, need an
induction principle with the property as its parameter. The roots, families and
values of `LoopsProofs` are found along the levels of trees, and the arguments of
`CallsProofs` are counted, for which a least element does instead.

## Not modelled

- Command-line client and option parameters: small stacks that a later
  extension can add.
- Tokenizer, expression evaluation: a grammar and an evaluator over numerical
  data. The calls that expressions make are in `ScriptControl`.
- Estimation, statistics, matrices, graphs: floating-point algorithms and their
  presentation. They are most of the repository, so that the share of its lines
  that the modules stand for is small.
- Windows and dialogs of the graphical client, foreign programs, downloads,
  databases, plugins: input and output. The reader of scripts in
  `gui/library.c` is part of `Loops`; the references that windows hold to saved
  objects are not modelled.
- Parallel execution: the transfer of objects between MPI ranks is left to the
  MPI library, and kernels under OpenMP share no control state.
- Dates and lists: pure algorithms, left for a later extension.

## Plan

1. The stack of scripts of the command-line client, and the parameters of
   options by function depth, as a module each.
2. The references held by windows of the graphical client, in `SavedObjects`.
3. Calendar and list algorithms as functions against reference definitions.
4. A function's exit as one module: what `ScriptControl`, `Calls`, `Subsample`,
   `SavedObjects` and `Outfile` do at the same exit.
