---------------------------- MODULE TraceSession ----------------------------
(***************************************************************************)
(* Taking traces: the commands of postproc/kutrace_control.cc, the         *)
(* functions of postproc/kutrace_lib.cc they call, and the system calls    *)
(* those make of the loaded module, down to the trace file.                *)
(*                                                                         *)
(* Commands of a menu come in any order.  A command becomes a list of      *)
(* operations, each one system call or one assignment to the library's     *)
(* static variables, and the kernel events being traced happen between any *)
(* two.  The program may be killed at any point; another run of it finds   *)
(* the module as it is but none of the static variables.                   *)
(* TraceBuffer models the module in detail; here its buffer is a sequence  *)
(* of blocks of BlockWords entries.                                        *)
(***************************************************************************)
EXTENDS Integers, Sequences

CONSTANTS
    Menus,       \* kinds of sessions: the commands that may be given, bounds
                 \* on how many of them and on the kernel events traced, and
                 \* whether the program may be killed
    BlockWords,  \* entries in a block
    NBLOCKS,     \* blocks in the module's buffer
    LiveBlocks   \* blocks a live dump writes: 1.75MB

GoFlags == [go |-> {}, goipc |-> {"IPC"}, gollc |-> {"LLC"},
            gowrap |-> {"WRAP"}, goipcllc |-> {"IPC", "LLC"},
            goipcwrap |-> {"IPC", "WRAP"}, gollcwrap |-> {"LLC", "WRAP"},
            goipcllcwrap |-> {"IPC", "LLC", "WRAP"}]

Commands == DOMAIN GoFlags \cup
    {"init", "test", "on", "off", "flush", "reset", "stat", "dump", "stop",
     "quit", "1", "0", "-force", "kutrace::go", "kutrace::stop"}

(* Arguments of the program; the others are read by it, or are calls of    *)
(* the library by a program that traces itself.                            *)
Arguments == {"-force", "1", "0"}

ASSUME MenuAssumption ==
    Menus \subseteq [commands : SUBSET Commands, most : Nat, events : Nat,
                     mortal : BOOLEAN]

ASSUME SizesAssumption ==
    /\ BlockWords \in Nat \ {0} /\ NBLOCKS \in Nat /\ 2 <= NBLOCKS
    /\ LiveBlocks \in Nat \ {0}

VARIABLES
    clock,            \* the time, counted in the reads of it
    events,           \* kernel events traced so far
    pending,          \* time of an event that is being inserted, or 0
    kutrace_tracing,
    flags,            \* do_ipc, do_llc, do_wrap
    did_wrap_around,
    blocks,           \* the blocks handed out, traceblock[0] first
    current,          \* the block being filled, 0 if the next entry needs one
    menu,             \* the kind of this session
    commands,         \* commands given so far
    running,          \* the program runs
    todo,             \* operations still to be done
    control_flags,    \* main's control_flags
    start, stop,      \* start_usec and stop_usec, 0 if not set
    livedump,         \* DoDump's livedump
    wrapped,          \* ... did_wrap_around
    blockcount,       \* ... blockcount
    traceblock,       \* ... traceblock, the buffer a block is read into
    out,              \* the blocks written so far
    file,             \* the last trace file written, or NoFile
    kept,             \* history: start and stop, if set, are times before and
                      \* after everything in the module's trace
    off               \* history: DoOff has been done since tracing was on and
                      \* the pairs were cleared

kernelVars == <<clock, events, pending>>
modVars == <<kutrace_tracing, flags, did_wrap_around, blocks, current>>
cmdVars == <<menu, commands, running, control_flags>>
dumpVars == <<livedump, wrapped, blockcount, traceblock, out>>
history == <<kept, off>>
vars == <<kernelVars, modVars, cmdVars, todo, start, stop, dumpVars, file, history>>

NoFile == [start |-> 0, stop |-> 0, wrap |-> FALSE, live |-> FALSE,
           kept |-> FALSE, blocks |-> <<>>]
Garbage == [flags |-> {}, entries |-> <<>>]   \* an uninitialised block buffer

(***************************************************************************)
(* The module                                                              *)
(***************************************************************************)

(* Mutant: wraps to traceblock[0].                                         *)
WrapTo_Zero == IF current \in 1..(NBLOCKS - 1) /\ did_wrap_around
               THEN current + 1 ELSE 1

(* The block a wrapping trace takes next: traceblock[0] is left alone.     *)
WrapTo == IF current \in 2..(NBLOCKS - 1) /\ did_wrap_around
          THEN current + 1 ELSE 2

(* An entry is inserted, with tracing on or off: into the current block,   *)
(* or a new one, or when all are used the next one of a wrapping trace.    *)
(* Else tracing is turned off.                                             *)
InsertEntry(e) ==
    LET fresh == [flags |-> flags, entries |-> <<e>>]
        room == current # 0 /\ Len(blocks[current].entries) < BlockWords
    IN
    \/ /\ room
       /\ blocks' = [blocks EXCEPT ![current].entries = Append(@, e)]
       /\ UNCHANGED <<kutrace_tracing, flags, did_wrap_around, current>>
    \/ /\ ~ room /\ Len(blocks) < NBLOCKS
       /\ blocks' = Append(blocks, fresh)
       /\ current' = Len(blocks) + 1
       /\ UNCHANGED <<kutrace_tracing, flags, did_wrap_around>>
    \/ /\ ~ room /\ Len(blocks) = NBLOCKS /\ "WRAP" \in flags
       /\ current' = WrapTo
       /\ blocks' = [blocks EXCEPT ![WrapTo] = fresh]
       /\ did_wrap_around' = TRUE
       /\ UNCHANGED <<kutrace_tracing, flags>>
    \/ /\ ~ room /\ Len(blocks) = NBLOCKS /\ "WRAP" \notin flags
       /\ kutrace_tracing' = FALSE
       /\ UNCHANGED <<flags, did_wrap_around, blocks, current>>

(* A hook in the kernel finds tracing on and takes the time ...            *)
EventBegin ==
    /\ kutrace_tracing /\ pending = 0 /\ events < menu.events
    /\ clock' = clock + 1 /\ pending' = clock + 1 /\ events' = events + 1
    /\ UNCHANGED <<modVars, cmdVars, todo, start, stop, dumpVars, file, history>>

(* ... and its entry is inserted, even if tracing is off by then.          *)
EventEnd ==
    /\ pending # 0
    /\ InsertEntry([kind |-> "event", at |-> pending])
    /\ pending' = 0
    /\ UNCHANGED <<clock, events, cmdVars, todo, start, stop, dumpVars, file, history>>

(***************************************************************************)
(* The library's functions and main's commands, as lists of operations     *)
(***************************************************************************)

Op(name) == [op |-> name, flags |-> {}]
Ops(names) == [i \in 1..Len(names) |-> Op(names[i])]
RESET(f) == <<[op |-> "RESET", flags |-> f]>>

DoReset(f) == RESET(f) \o Ops(<<"ClearPairs">>)
DoInit == Ops(<<"StartPair", "INSERTN", "INSERT1">>)
DoOn == Ops(<<"StartPairIfZero", "ON">>)

(* Mutant: does not wait for inserts that are under way.                   *)
DoOff_NoWait == Ops(<<"OFF", "StopPairIfZero">>)

DoOff == Ops(<<"OFF", "msleep", "StopPairIfZero">>)
DoFlush == Ops(<<"FLUSH">>)
WriteFile == Ops(<<"GETCOUNT", "LivePair", "Blocks", "Close">>) \o RESET({})
DoDump == Ops(<<"TEST", "FLUSH", "fopen">>) \o WriteFile
DoQuit == DoOff \o Ops(<<"exit">>)

(* The "go" commands add to control_flags, except go, which clears them.   *)
NewFlags(c) == IF c = "go" THEN {}
               ELSE IF c \in DOMAIN GoFlags THEN control_flags \cup GoFlags[c]
               ELSE control_flags

Body(c, f) ==
    CASE c \in DOMAIN GoFlags -> DoReset(f) \o DoInit \o DoOn
      [] c \in {"stop", "0"}  -> DoOff \o Ops(<<"msleep">>) \o DoFlush
                                 \o DoDump \o DoQuit
      [] c = "1"              -> DoReset(f) \o DoInit \o DoOn \o Ops(<<"exit">>)
      [] c = "kutrace::go"    -> DoReset({}) \o DoInit \o DoOn
      [] c = "kutrace::stop"  -> DoOff \o DoFlush \o DoDump \o DoQuit
      [] c = "-force"         -> RESET({})
      [] c = "init"           -> DoInit
      [] c = "on"             -> DoOn
      [] c = "off"            -> DoOff \o Ops(<<"msleep">>)
      [] c = "flush"          -> DoFlush
      [] c = "reset"          -> DoReset(f)
      [] c = "dump"           -> DoDump
      [] c = "quit"           -> DoQuit
      [] c \in {"test", "stat"} -> <<>>      \* these only look

ReadLine(c) ==
    /\ todo = <<>> /\ commands < menu.most
    /\ c \in Arguments => ~running
    /\ commands' = commands + 1
    /\ running' = TRUE
    /\ control_flags' = NewFlags(c)
    /\ UNCHANGED menu
    /\ todo' = Body(c, NewFlags(c))
    /\ UNCHANGED <<kernelVars, modVars, start, stop, dumpVars, file, history>>

(***************************************************************************)
(* The operations                                                          *)
(***************************************************************************)

Doing(name) == todo # <<>> /\ Head(todo).op = name
Done == todo' = Tail(todo)

(* Nothing is traced and nothing is on its way.                            *)
Empty == blocks = <<>> /\ pending = 0 /\ ~kutrace_tracing

(* The static variables do not outlive the process.                        *)
Forget ==
    /\ running' = FALSE /\ control_flags' = {}
    /\ start' = 0 /\ stop' = 0 /\ kept' = Empty /\ off' = FALSE

Exit ==
    /\ Doing("exit") /\ Done
    /\ Forget
    /\ UNCHANGED <<kernelVars, modVars, menu, commands, dumpVars, file>>

(* The process is killed, or has no more input.                            *)
Die ==
    /\ running /\ menu.mortal /\ Forget
    /\ todo' = <<>>
    /\ out' = <<>> /\ traceblock' = Garbage
    /\ UNCHANGED <<kernelVars, modVars, menu, commands, livedump, wrapped, blockcount,
                   file>>

(* ON and OFF.                                                             *)
Switch ==
    /\ Doing("ON") \/ Doing("OFF")
    /\ Done
    /\ kutrace_tracing' = Doing("ON")
    /\ kept' = (kept /\ (Doing("ON") => stop = 0))
    /\ off' = (off /\ Doing("OFF"))
    /\ UNCHANGED <<kernelVars, flags, did_wrap_around, blocks, current,
                   cmdVars, start, stop, dumpVars, file>>

(* "Wait 20 msec for any pending tracing to finish".                       *)
Sleep ==
    /\ Doing("msleep") /\ pending = 0
    /\ Done
    /\ UNCHANGED <<kernelVars, modVars, cmdVars, start, stop, dumpVars, file, history>>

(* DoInit sets the start pair, DoOn only if it is not set.                 *)
SetStart ==
    LET sets == Doing("StartPair") \/ start = 0 IN
    /\ Doing("StartPair") \/ Doing("StartPairIfZero")
    /\ Done
    /\ clock' = IF sets THEN clock + 1 ELSE clock
    /\ start' = IF sets THEN clock + 1 ELSE start
    /\ kept' = (kept /\ (sets => Empty /\ stop = 0))
    /\ UNCHANGED <<events, pending, modVars, cmdVars, stop, dumpVars, file, off>>

(* Mutant: a live dump goes by the stop pair there is.                     *)
SetStop_NotLive ==
    LET sets == Doing("StopPairIfZero") /\ stop = 0 IN
    /\ Doing("StopPairIfZero") \/ Doing("LivePair")
    /\ Done
    /\ clock' = IF sets THEN clock + 1 ELSE clock
    /\ stop' = IF sets THEN clock + 1 ELSE stop
    /\ blockcount' = IF Doing("LivePair") /\ livedump THEN LiveBlocks
                     ELSE blockcount
    /\ off' = (off \/ Doing("StopPairIfZero"))
    /\ UNCHANGED <<events, pending, modVars, cmdVars, start, livedump, wrapped,
                   traceblock, out, file, kept>>

(* DoOff sets the stop pair if it is not set; a live dump always does, and *)
(* decides how many blocks to write.                                       *)
SetStop ==
    LET sets == \/ Doing("StopPairIfZero") /\ stop = 0
                \/ Doing("LivePair") /\ livedump
    IN
    /\ Doing("StopPairIfZero") \/ Doing("LivePair")
    /\ Done
    /\ clock' = IF sets THEN clock + 1 ELSE clock
    /\ stop' = IF sets THEN clock + 1 ELSE stop
    /\ blockcount' = IF Doing("LivePair") /\ livedump THEN LiveBlocks
                     ELSE blockcount
    /\ off' = (off \/ Doing("StopPairIfZero"))
    /\ UNCHANGED <<events, pending, modVars, cmdVars, start, livedump, wrapped,
                   traceblock, out, file, kept>>

ClearPairs ==
    /\ Doing("ClearPairs") /\ Done
    /\ start' = 0 /\ stop' = 0 /\ kept' = Empty /\ off' = FALSE
    /\ UNCHANGED <<kernelVars, modVars, cmdVars, dumpVars, file>>

(* ~INSERTN and ~INSERT1, which insert with tracing off: the names and the *)
(* PID at the front of the trace.                                          *)
InsertNames ==
    /\ Doing("INSERTN") \/ Doing("INSERT1")
    /\ Done
    /\ clock' = clock + 1
    /\ InsertEntry([kind |-> IF Doing("INSERTN") THEN "name" ELSE "pid",
                    at |-> clock + 1])
    /\ UNCHANGED <<events, pending, cmdVars, start, stop, dumpVars, file, history>>

Reset ==
    /\ Doing("RESET") /\ Done
    /\ kutrace_tracing' = FALSE
    /\ flags' = Head(todo).flags
    /\ did_wrap_around' = FALSE
    /\ blocks' = <<>> /\ current' = 0
    /\ kept' = (pending = 0 /\ start = 0 /\ stop = 0)
    /\ UNCHANGED <<kernelVars, cmdVars, start, stop, dumpVars, file, off>>

(* do_flush fills up the current block and turns tracing off.              *)
Flush ==
    /\ Doing("FLUSH") /\ Done
    /\ kutrace_tracing' = FALSE /\ current' = 0
    /\ UNCHANGED <<kernelVars, flags, did_wrap_around, blocks, cmdVars, start,
                   stop, dumpVars, file, history>>

(* DoDump: is tracing on?                                                  *)
Test ==
    /\ Doing("TEST") /\ Done
    /\ livedump' = kutrace_tracing
    /\ UNCHANGED <<kernelVars, modVars, cmdVars, start, stop, wrapped,
                   blockcount, traceblock, out, file, history>>

(* DoDump returns early if the file cannot be opened.                      *)
Open ==
    /\ Doing("fopen")
    /\ Done \/ todo' = SubSeq(todo, Len(WriteFile) + 2, Len(todo))
    /\ UNCHANGED <<kernelVars, modVars, cmdVars, start, stop, dumpVars, file, history>>

(* DoDump: the number of blocks, and whether the trace wrapped.            *)
GetCount ==
    /\ Doing("GETCOUNT") /\ Done
    /\ kutrace_tracing' = FALSE
    /\ blockcount' = Len(blocks)
    /\ wrapped' = did_wrap_around
    /\ UNCHANGED <<kernelVars, flags, did_wrap_around, blocks, current,
                   cmdVars, start, stop, livedump, traceblock, out, file, history>>

(* DoDump reads the next block and writes it. SET4KB and GET4KB copy it to *)
(* traceblock if the module has it, and else leave traceblock alone.       *)
CopyBlock ==
    LET i == Len(out) + 1
        b == IF i <= Len(blocks) THEN blocks[i] ELSE traceblock
    IN
    /\ Doing("Blocks") /\ i <= blockcount
    /\ traceblock' = b
    /\ out' = Append(out, b)
    /\ kutrace_tracing' = FALSE
    /\ UNCHANGED <<kernelVars, flags, did_wrap_around, blocks, current,
                   cmdVars, todo, start, stop, livedump, wrapped, blockcount,
                   file, history>>

(* Mutant: the loop over the blocks does not end at blockcount.            *)
LastBlock_OffByOne ==
    /\ Doing("Blocks") /\ Len(out) > blockcount
    /\ Done
    /\ UNCHANGED <<kernelVars, modVars, cmdVars, start, stop, dumpVars, file, history>>

LastBlock ==
    /\ Doing("Blocks") /\ Len(out) >= blockcount
    /\ Done
    /\ UNCHANGED <<kernelVars, modVars, cmdVars, start, stop, dumpVars, file, history>>

(* DoDump: the file is complete. The time pairs went into its first block, *)
(* and the wrap flag of that block was turned off if nothing wrapped.      *)
Close ==
    /\ Doing("Close") /\ Done
    /\ file' = [start |-> start, stop |-> stop, live |-> livedump,
                kept |-> kept /\ (off \/ livedump),
                wrap |-> out # <<>> /\ "WRAP" \in out[1].flags /\ wrapped,
                blocks |-> out]
    /\ out' = <<>> /\ traceblock' = Garbage
    /\ UNCHANGED <<kernelVars, modVars, cmdVars, start, stop, livedump,
                   wrapped, blockcount, history>>

(***************************************************************************)
(* The specification                                                       *)
(***************************************************************************)

Init ==
    /\ clock = 0 /\ events = 0 /\ pending = 0
    /\ kutrace_tracing = FALSE /\ flags = {} /\ did_wrap_around = FALSE
    /\ blocks = <<>> /\ current = 0
    /\ menu \in Menus /\ commands = 0 /\ running = FALSE
    /\ todo = <<>> /\ control_flags = {}
    /\ start = 0 /\ stop = 0
    /\ livedump = FALSE /\ wrapped = FALSE /\ blockcount = 0
    /\ traceblock = Garbage /\ out = <<>> /\ file = NoFile
    /\ kept = TRUE /\ off = FALSE

Command == \/ Exit \/ Switch \/ Sleep \/ SetStart \/ SetStop
           \/ ClearPairs \/ InsertNames \/ Reset \/ Flush
           \/ Test \/ Open \/ GetCount \/ CopyBlock \/ LastBlock \/ Close

Next ==
    \/ EventBegin \/ EventEnd
    \/ (\E c \in menu.commands : ReadLine(c))
    \/ Command \/ Die

Spec == Init /\ [][Next]_vars

(* The program and the interrupted kernel path both keep running.          *)
FairSpec == Spec /\ WF_vars(Command) /\ WF_vars(EventEnd)

(***************************************************************************)
(* Properties                                                              *)
(***************************************************************************)

Flags == {"IPC", "LLC", "WRAP"}
Entry == [kind : {"name", "pid", "event"}, at : Nat]
Block == [flags : SUBSET Flags, entries : Seq(Entry)]

(* Type invariant; a block is never overfull.                              *)
TypeOK ==
    /\ clock \in Nat /\ events \in 0..menu.events /\ pending \in 0..clock
    /\ kutrace_tracing \in BOOLEAN /\ did_wrap_around \in BOOLEAN
    /\ flags \in SUBSET Flags /\ control_flags \in SUBSET Flags
    /\ blocks \in Seq(Block) /\ Len(blocks) <= NBLOCKS
    /\ \A b \in 1..Len(blocks) : Len(blocks[b].entries) \in 1..BlockWords
    /\ current \in 0..Len(blocks)
    /\ start \in 0..clock /\ stop \in 0..clock
    /\ livedump \in BOOLEAN /\ wrapped \in BOOLEAN /\ blockcount \in Nat
    /\ traceblock \in Block /\ out \in Seq(Block)
    /\ file.blocks \in Seq(Block)
    /\ kept \in BOOLEAN /\ off \in BOOLEAN /\ running \in BOOLEAN
    /\ menu \in Menus /\ commands \in 0..menu.most

Entries(b) == {b.entries[i] : i \in 1..Len(b.entries)}
FileEntries == UNION {Entries(file.blocks[i]) : i \in 1..Len(file.blocks)}

(* "Start timepair is set by DoInit. Stop timepair is set by DoOff": the   *)
(* time pairs of a file, from which rawtoevent computes its times, were    *)
(* taken before and after everything that is in it.                        *)
TimesBracketed ==
    \A e \in FileEntries : /\ 0 < file.start /\ file.start <= e.at
                           /\ e.at <= file.stop

(* The same for a trace that was reset with no insert under way, by the    *)
(* process that then started it, stopped it once and dumped it (or dumped  *)
(* it live), whatever that process did before and wherever others died.    *)
TimesBracketedIfKept == file.kept => TimesBracketed

(* "Wait 20 msec for any pending tracing to finish": when DoDump closes a  *)
(* file after DoOff, no entry is still on its way, and the file is what    *)
(* the module holds, no block missing, none twice and none changed since.  *)
FileIsTrace ==
    [][file' # file /\ off => pending = 0 /\ file'.blocks = blocks]_vars

(* "Add trap/irq/syscall names into front of trace": once there, they stay *)
(* there until the next RESET, even after a wraparound, and every file has *)
(* them in front.                                                          *)
Named(b) == b # <<>> /\ b[1].entries[1].kind = "name"

NamesStay ==
    [][Named(blocks) => /\ blocks' # <<>> => Named(blocks')
                        /\ file' # file => Named(file'.blocks)]_vars

(* Every command given ends: no wait and no loop of the library hangs.     *)
SessionEnds == todo # <<>> ~> todo = <<>>
=============================================================================
