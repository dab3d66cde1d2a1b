----------------------------- MODULE Stacktrace -----------------------------
(***************************************************************************)
(* Stacktrace::create (src/src/Stacktrace.cpp): the unwinder hands the     *)
(* frames of the stack to linux_unwind_callback, one call each and the     *)
(* innermost first; the callback stores their addresses in a buffer on the *)
(* stack; then every address is turned into a line.                        *)
(***************************************************************************)
EXTENDS Naturals, Sequences, FiniteSets

CONSTANTS
    Symbol,     \* Symbol[a]: the name dladdr finds for address a, or "" 
    Demangled,  \* the names __cxa_demangle knows, and what it makes of them
    ShortMod    \* 2^16, the range of unsigned short and uint16_t

\* The instruction pointer of a frame may be null.
Null == 0
Address == DOMAIN Symbol

ASSUME StacktraceAssumption ==
    /\ Address \subseteq Nat \ {Null}
    /\ ShortMod \in Nat \ {0}

Name == {Symbol[a] : a \in Address} \union {Demangled[n] : n \in DOMAIN Demangled}

VARIABLES
    stage,   \* "idle", "unwind", "symbolize" or "return"
    stack,   \* the stack create was called on, innermost frame first
    frames,  \* the frames the unwinder has not yet handed to the callback
    limit,   \* numberOfLines, the size of the buffer
    buffer,  \* what the callback has written, state->current - buffer long
    lines    \* the lines made so far, from line number to name

traceVars == <<stage, stack, frames, limit, buffer, lines>>

TraceInit ==
    /\ stage = "idle"
    /\ stack = <<>>
    /\ frames = <<>>
    /\ limit = 0
    /\ buffer = <<>>
    /\ lines = <<>>

Create(s, n) ==
    /\ stage = "idle"
    /\ stage' = "unwind"
    /\ stack' = s
    /\ frames' = s
    /\ limit' = n
    /\ buffer' = <<>>
    /\ lines' = <<>>

\* Mutant: the end of the buffer is found when it was passed.
BufferPassed == Len(buffer) > limit

BufferFull == Len(buffer) = limit

\* linux_unwind_callback skips a null frame ...
SkipFrame ==
    /\ stage = "unwind"
    /\ frames # <<>> /\ Head(frames) = Null
    /\ frames' = Tail(frames)
    /\ UNCHANGED <<stage, stack, limit, buffer, lines>>

\* ... stores any other while there is room ...
StoreFrame ==
    /\ stage = "unwind"
    /\ frames # <<>> /\ Head(frames) # Null
    /\ ~BufferFull
    /\ frames' = Tail(frames)
    /\ buffer' = Append(buffer, Head(frames))
    /\ UNCHANGED <<stage, stack, limit, lines>>

\* Mutant: a null frame ends the unwinding.
EndAtNull ==
    /\ stage = "unwind"
    /\ frames # <<>> => Head(frames) = Null \/ BufferFull
    /\ stage' = "symbolize"
    /\ UNCHANGED <<stack, frames, limit, buffer, lines>>

\* ... and then returns _URC_END_OF_STACK, as the unwinder does by itself.
EndOfStack ==
    /\ stage = "unwind"
    /\ frames # <<>> => Head(frames) # Null /\ BufferFull
    /\ stage' = "symbolize"
    /\ UNCHANGED <<stack, frames, limit, buffer, lines>>

\* The demangled name, or the symbol where demangling fails.
LineOf(address) ==
    LET symbol == Symbol[address]
    IN  IF symbol \in DOMAIN Demangled THEN Demangled[symbol] ELSE symbol

\* Mutant: the keys are ints.
SymbolizeInts ==
    /\ stage = "symbolize"
    /\ stage' = "return"
    /\ lines' = [key \in 0 .. Len(buffer) - 1 |-> LineOf(buffer[key + 1])]
    /\ UNCHANGED <<stack, frames, limit, buffer>>

\* The line for each address of the buffer; the int index becomes the unsigned
\* short key of the map, and a later line takes the place of one with its key.
Symbolize ==
    /\ stage = "symbolize"
    /\ stage' = "return"
    /\ LET Last(key) == CHOOSE i \in DOMAIN buffer :
                            /\ (i - 1) % ShortMod = key
                            /\ i + ShortMod > Len(buffer)
       IN  lines' = [key \in {(i - 1) % ShortMod : i \in DOMAIN buffer} |->
                        LineOf(buffer[Last(key)])]
    /\ UNCHANGED <<stack, frames, limit, buffer>>

\* The locals of create are gone; the caller has the lines.
ReturnLines ==
    /\ stage = "return"
    /\ stage' = "idle"
    /\ limit' = 0
    /\ stack' = <<>>
    /\ frames' = <<>>
    /\ buffer' = <<>>
    /\ lines' = <<>>

Trace == SkipFrame \/ StoreFrame \/ EndOfStack \/ Symbolize

\* The loops over getLines go through the map in the order of its keys.
LineSeq(ls) == [i \in 1 .. Cardinality(DOMAIN ls) |-> ls[i - 1]]

-----------------------------------------------------------------------------
TraceTypeOK ==
    /\ stage \in {"idle", "unwind", "symbolize", "return"}
    /\ stack \in Seq(Address \union {Null})
    /\ frames \in Seq(Address \union {Null})
    /\ limit \in Nat
    /\ buffer \in Seq(Address)
    /\ \E n \in 0 .. ShortMod : lines \in [0 .. n - 1 -> Name]

\* The callback never writes behind the buffer, an array of variable length on
\* the stack, however deep the stack is and wherever its null frames are.
WithinBuffer == Len(buffer) <= limit

\* How many frames were called from frame p, the null ones left out: the number
\* of its line.
Rank(p) == Cardinality({q \in 1 .. p - 1 : stack[q] # Null})

\* The trace is the innermost frames of the stack, none left out but the null
\* ones, numbered from 0 in their order; as many as there was room for.
LinesAreInnermost ==
    stage = "return" /\ limit <= ShortMod =>
        /\ \A p \in DOMAIN stack :
             stack[p] # Null /\ Rank(p) < limit =>
                 Rank(p) \in DOMAIN lines /\ lines[Rank(p)] = LineOf(stack[p])
        /\ \A n \in DOMAIN lines :
             \E p \in DOMAIN stack : stack[p] # Null /\ Rank(p) = n /\ n < limit
=============================================================================
