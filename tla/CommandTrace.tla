---------------------------- MODULE CommandTrace ----------------------------
(***************************************************************************)
(* From the trace of the simulator to the commands of the device: the I/O  *)
(* events that dumps, hits, trims and relocations emit (simulator.cpp),    *)
(* _commands() and _AddressDependencyTracker of src/dwpdsim/mqsim.py, and  *)
(* MQSim, which may run the commands in any order that respects their      *)
(* predecessors.                                                           *)
(*                                                                         *)
(* Addresses are recycled, flows run independently of each other, and a    *)
(* block may be moved and its address written again in one nanosecond: all *)
(* that orders the device is the predecessor list of each command.         *)
(***************************************************************************)
EXTENDS StoragePool, FiniteSetsExt

CONSTANTS
    Stream,     \* streams of a tier
    Chunks,     \* commands per block: its sectors over MAX_NVME_SECTORS
    MaxEvents   \* bound on the length of the trace

ASSUME CommandTraceAssumption ==
    /\ Chunks \in Nat \ {0} /\ MaxEvents \in Nat
    /\ Stream \subseteq Nat /\ IsFiniteSet(Stream) /\ Stream # {}

VARIABLES
    flow,       \* stream a block is written to, per tier
    waitsFor,   \* event the next event of a moving block depends on
    commands,   \* the commands, by request_id
    tracker,    \* hazards._states
    device,     \* "off" while the trace is written and converted
    done,       \* commands the device has executed
    content     \* the command that last wrote or trimmed each location

traceVars == <<vars, flow, waitsFor, commands, tracker, device, done, content>>

NoEvent == 0
NoCommand == 0
NoFlow == -1

\* A location: tier, stream, address and chunk.  An address is the address of
\* a whole block, so two locations are equal or do not overlap.
Location == Tier \X Stream \X (0 .. Cardinality(Block)) \X (1 .. Chunks)

Events == IF commands = <<>> THEN 0 ELSE commands[Len(commands)].event

-----------------------------------------------------------------------------
(* _commands(): one event, Chunks commands.                                 *)

\* Mutant of Conflicts: a write does not wait for the reads before it.
ConflictsUnread(op, l) == {tracker[l].last} \ {NoCommand}

\* update(): a read waits for the last mutation, a mutation for the reads too.
Conflicts(op, l) ==
    ({tracker[l].last} \ {NoCommand}) \cup (IF op = "READ" THEN {} ELSE tracker[l].readers)

Tracked(op, l, c) ==
    IF op = "READ" THEN [tracker[l] EXCEPT !.readers = @ \cup {c}]
    ELSE [last |-> c, readers |-> {}]

\* Mutant of FinalCommand: the first chunk stands for the event.
FirstCommand(e) == Min({c \in DOMAIN commands : commands[c].event = e})

\* final_command_by_sequence
FinalCommand(e) == Max({c \in DOMAIN commands : commands[c].event = e})

\* emit_io() and the conversion of the event; after is depends_on_sequence.
Emit(op, t, s, a, after) ==
    LET Id(k) == Len(commands) + k
        Place(k) == <<t, s, a, k>>
        Predecessors(k) ==
            Conflicts(op, Place(k))
            \cup (IF k = 1 /\ after # NoEvent THEN {FinalCommand(after)} ELSE {})
            \cup (IF k > 1 THEN {Id(k - 1)} ELSE {})
    IN  /\ device = "off" /\ Events < MaxEvents
        /\ commands' = commands \o
              [k \in 1 .. Chunks |->
                  [event |-> Events + 1, after |-> after, op |-> op, place |-> Place(k),
                   predecessors |-> Predecessors(k) \ {Id(k)}]]
        /\ tracker' = [l \in Location |->
              IF \E k \in 1 .. Chunks : l = Place(k)
              THEN Tracked(op, l, Id(l[4])) ELSE tracker[l]]
        /\ UNCHANGED <<device, done, content>>

-----------------------------------------------------------------------------
(* The simulator: its pools, and the events it emits.                       *)

TraceInit ==
    /\ Init
    /\ flow = [t \in Tier |-> [b \in Block |-> NoFlow]]
    /\ waitsFor = [b \in Block |-> NoEvent]
    /\ commands = <<>>
    /\ tracker = [l \in Location |-> [last |-> NoCommand, readers |-> {}]]
    /\ device = "off"
    /\ done = {}
    /\ content = [l \in Location |-> NoCommand]

WriteBlock(b, t, s) ==
    /\ Write(b, t)
    /\ flow' = [flow EXCEPT ![t][b] = s]
    /\ Emit("WRITE", t, s, NewAddress(t), NoEvent)
    /\ UNCHANGED waitsFor

TrimBlock(b, t) ==
    /\ Trim(b, t)
    /\ Emit("TRIM", t, flow[t][b], address[t][b], NoEvent)
    /\ UNCHANGED <<flow, waitsFor>>

\* A storage hit that moves nothing.
ReadBlock(b, t) ==
    /\ moving = {} /\ On(b, t)
    /\ Emit("READ", t, flow[t][b], address[t][b], NoEvent)
    /\ UNCHANGED <<vars, flow, waitsFor>>

\* A relocation reads its blocks, writes them all and then trims the sources;
\* after a hit the first read is the hit itself.  The blocks to be read join
\* one by one.
ReadSource(b) ==
    /\ On(b, "SLC") /\ b \notin moving
    /\ \A c \in moving : ~On(c, "TLC")
    /\ moving' = moving \cup {b}
    /\ Emit("READ", "SLC", flow["SLC"][b], address["SLC"][b], NoEvent)
    /\ waitsFor' = [waitsFor EXCEPT ![b] = Events + 1]
    /\ UNCHANGED <<next, recycled, used, peak, address, flow>>

WriteDestination(b, s) ==
    /\ AllocateDestination(b)
    /\ flow' = [flow EXCEPT !["TLC"][b] = s]
    /\ Emit("WRITE", "TLC", s, NewAddress("TLC"), waitsFor[b])
    /\ waitsFor' = [waitsFor EXCEPT ![b] = Events + 1]

TrimSource(b) ==
    /\ ReleaseSource(b)
    /\ Emit("TRIM", "SLC", flow["SLC"][b], address["SLC"][b], waitsFor[b])
    /\ waitsFor' = [waitsFor EXCEPT ![b] = NoEvent]
    /\ UNCHANGED flow

-----------------------------------------------------------------------------
(* MQSim.                                                                  *)

\* prepare() has written the command traces and the device runs them; an
\* event_limit may cut the trace anywhere.
StartDevice ==
    /\ device = "off"
    /\ device' = "on"
    /\ UNCHANGED <<vars, flow, waitsFor, commands, tracker, done, content>>

Ready(c) == c \notin done /\ commands[c].predecessors \subseteq done

Execute(c) ==
    /\ device = "on" /\ Ready(c)
    /\ done' = done \cup {c}
    /\ content' = IF commands[c].op = "READ" THEN content
                  ELSE [content EXCEPT ![commands[c].place] = c]
    /\ UNCHANGED <<vars, flow, waitsFor, commands, tracker, device>>

AllExecuted ==
    device = "on" /\ done = DOMAIN commands /\ UNCHANGED traceVars

TraceNext ==
    \/ \E b \in Block, t \in Tier :
          TrimBlock(b, t) \/ ReadBlock(b, t) \/ \E s \in Stream : WriteBlock(b, t, s)
    \/ \E b \in Block :
          ReadSource(b) \/ TrimSource(b) \/ \E s \in Stream : WriteDestination(b, s)
    \/ StartDevice \/ AllExecuted
    \/ \E c \in DOMAIN commands : Execute(c)

TraceSpec == TraceInit /\ [][TraceNext]_traceVars

-----------------------------------------------------------------------------
(* Properties.                                                             *)

\* What the simulator's own order says is at the place of c when c runs.
Expected(c) ==
    LET before == {d \in 1 .. c - 1 : commands[d].place = commands[c].place
                                      /\ commands[d].op # "READ"}
    IN  IF before = {} THEN NoCommand ELSE Max(before)

\* Whatever order the device picks, a read returns what the simulator had last
\* written there, a write never lands on a block that is still to be read or
\* trimmed, and a trim never hits the block written there next.
DeviceSequential ==
    device = "on" => \A c \in DOMAIN commands : Ready(c) => content[commands[c].place] = Expected(c)

\* A block that moves is on the device as a whole all the time: no chunk is
\* written before all were read, and none is trimmed before all were written.
CopySurvives ==
    \A c \in done : \A d \in DOMAIN commands :
        commands[d].event = commands[c].after => d \in done
=============================================================================
