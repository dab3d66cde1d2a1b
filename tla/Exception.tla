------------------------------ MODULE Exception ------------------------------
(***************************************************************************)
(* An ee::Exception on its way through a program (Exception.cpp): it is    *)
(* made with the stacktrace of its place, functions that rethrow it add    *)
(* notes, what() returns the text update() has cached, and it is logged in *)
(* the end (the overloads of Log::log and Log::check).                     *)
(*                                                                         *)
(* update() and operator<< catch whatever the strings and the vector throw *)
(* when memory is short.  Layout (line breaks, tabs, blanks) is left out   *)
(* of the texts; text as in LogEntry.                                      *)
(***************************************************************************)
EXTENDS Stacktrace, LogEntry

CONSTANTS
    Text,          \* the texts that callers and messages are made of
    Special,       \* the texts and names with a quote or a backslash in them
    NoteSet,       \* the notes the program uses
    Stacks,        \* the stacks exceptions are made on
    NumberOfLines, \* the default size of a stacktrace, 32
    Limits,        \* the sizes stacktraces are created with
    Levels,        \* the levels the program logs at
    MaxInfos,      \* bound: notes of an exception
    MaxEntries     \* bound: entries logged

ASSUME ExceptionAssumption ==
    /\ Stacks \subseteq Seq(Address \union {Null})
    /\ NumberOfLines \in Nat
    /\ Limits \subseteq Nat

OutputFormat == {"String", "Json"}

VARIABLES
    exception,     \* the fields of the exception, or NoException
    cache,         \* mCache
    pending,       \* what waits for Stacktrace::create to return
    logged,        \* the list of the thread in LogThreadMap
    stream         \* what its out stream has printed

exceptionVars == <<exception, cache, pending, logged, stream>>

NoException == [format |-> "none", caller |-> "", message |-> "",
                infos |-> <<>>, lines |-> <<>>]
Nothing == [call |-> "none"]

-----------------------------------------------------------------------------
(* The text of an exception                                                 *)

TypeName == "PN2ee9ExceptionE"    \* typeid(this): of the pointer
DateTime == "datetime"

Section(header, text) == When(text # "", <<header, text>>)

\* The name of a note and, if it has one, its caller in braces.
NoteHeader(note) ==
    <<note.name>> \o When(note.caller # "", <<"{", note.caller, "}">>) \o <<":">>

StringText(x) ==
    <<"Exception type:", TypeName, "Datetime:", DateTime>>
      \o Section("In method:", x.caller)
      \o Section("With message:", x.message)
      \o FlattenSeq([i \in DOMAIN x.infos |->
                       NoteHeader(x.infos[i]) \o <<x.infos[i].value>>])
      \o (IF x.lines # <<>>
          THEN <<"Stacktrace:">> \o FlattenSeq(AsString(x.lines))
          ELSE <<>>)

(* The tokens of Json are tuples: <<"string", text>>, or <<c>> for a character c. *)

\* Nothing is escaped: a quote in a text ends the string it stands in.
Quoted(text) == <<IF text \in Special THEN "broken" ELSE "string", text>>

Member(key, value) == <<<<",">>, Quoted(key), <<":">>>> \o value

\* Mutant: i++ < size.
CommaPost(i, size) == When((i - 1) % ShortMod < size, <<<<",">>>>)

\* ++i < size, where i is a uint16_t.
Comma(i, size) == When(i % ShortMod < size, <<<<",">>>>)

Array(items) ==
    <<<<"[">>>> \o FlattenSeq([i \in DOMAIN items |->
                                 items[i] \o Comma(i, Len(items))]) \o <<<<"]">>>>

InfoObject(note) ==
    <<<<"{">>, Quoted("name"), <<":">>, Quoted(note.name)>>
      \o Member("value", <<Quoted(note.value)>>)
      \o Member("caller", IF note.caller = "" THEN <<<<"null">>>>
                                              ELSE <<Quoted(note.caller)>>)
      \o <<<<"}">>>>

JsonText(x) ==
    <<<<"{">>, Quoted("type"), <<":">>, Quoted(TypeName)>>
      \o Member("datetime", <<Quoted(DateTime)>>)
      \o When(x.caller # "", Member("method", <<Quoted(x.caller)>>))
      \o When(x.message # "", Member("message", <<Quoted(x.message)>>))
      \o When(x.infos # <<>>, Member("infos",
                Array([i \in DOMAIN x.infos |-> InfoObject(x.infos[i])])))
      \o When(x.lines # <<>>, Member("stacktrace",
                Array([i \in DOMAIN x.lines |-> <<Quoted(x.lines[i])>>])))
      \o <<<<"}">>>>

TextOf(x) == IF x.format = "Json" THEN JsonText(x) ELSE StringText(x)
CouldNotBuild == <<"Could not build message">>

\* Exception::update: the text of the fields, or what the catch leaves, unless the
\* assignment in the catch throws as well: that ends the program, and is left out.
Update(x) == {TextOf(x), CouldNotBuild}

-----------------------------------------------------------------------------
(* The exception                                                            *)

ExceptionInit ==
    /\ TraceInit
    /\ exception = NoException
    /\ cache = <<>>
    /\ pending = Nothing
    /\ logged = <<>>
    /\ stream = <<>>

\* The members are initialised: the last of them calls Stacktrace::create.
Construct(caller, message, infos, format) ==
    /\ exception = NoException
    /\ \E s \in Stacks : Create(s, NumberOfLines)
    /\ pending' = [call |-> "Exception",
                   value |-> [format |-> format, caller |-> caller,
                              message |-> message, infos |-> infos, lines |-> <<>>]]
    /\ UNCHANGED <<exception, cache, logged, stream>>

\* Stacktrace::create returns to the call that waits for it.
Return(call) ==
    /\ ReturnLines
    /\ pending.call = call
    /\ pending' = Nothing

Constructed ==
    /\ Return("Exception")
    /\ exception' = [pending.value EXCEPT !.lines = LineSeq(lines)]
    /\ cache' \in Update(exception')
    /\ UNCHANGED <<logged, stream>>

\* operator<<: the vector may not store the note, update() may not build the
\* text.
AddNote(note) ==
    /\ stage = "idle"
    /\ exception # NoException
    /\ Len(exception.infos) < MaxInfos
    /\ \/ /\ exception' = [exception EXCEPT !.infos = Append(@, note)]
          /\ cache' \in Update(exception')
       \/ UNCHANGED <<exception, cache>>
    /\ UNCHANGED <<traceVars, pending, logged, stream>>

-----------------------------------------------------------------------------
(* Logging it                                                               *)

\* Log::log: the entry is stored and printed, two line breaks after it.
Store(e) ==
    /\ logged' = Append(logged, e)
    /\ stream' = stream \o Write(e) \o <<<<>>, <<>>>>

MayLog == stage = "idle" /\ Len(logged) < MaxEntries

\* Log::log(LogLevel, const Exception&)
LogException(level) ==
    /\ MayLog
    /\ exception # NoException
    /\ Store(LogEntry(level, "ee::Exception", exception.caller, exception.message,
                      exception.infos, <<exception.lines>>))
    /\ UNCHANGED <<traceVars, exception, cache, pending>>

\* Log::log with a stacktrace of n lines, made before log is called.
LogTraced(e, n) ==
    /\ MayLog
    /\ \E s \in Stacks : Create(s, n)
    /\ pending' = [call |-> "log", value |-> e]
    /\ UNCHANGED <<exception, cache, logged, stream>>

\* Log::log(LogLevel, const std::exception&)
LogStdException(level, what) ==
    LogTraced(LogEntry(level, "std::exception", "std::exception", what, <<>>, NoTrace),
              NumberOfLines)

Traced ==
    /\ Return("log")
    /\ Store([pending.value EXCEPT !.trace = <<LineSeq(lines)>>])
    /\ UNCHANGED <<exception, cache>>

\* Log::check
Check(condition, method, message, notes) ==
    /\ MayLog
    /\ IF condition
       THEN UNCHANGED <<logged, stream>>
       ELSE Store(LogEntry("Warning", "", method, message, notes, NoTrace))
    /\ UNCHANGED <<traceVars, exception, cache, pending>>

ExceptionNext ==
    \/ Trace /\ UNCHANGED exceptionVars
    \/ \E caller, message \in Text, infos \in BoundedSeq(NoteSet, 1),
          format \in OutputFormat : Construct(caller, message, infos, format)
    \/ Constructed
    \/ \E note \in NoteSet : AddNote(note)
    \/ \E level \in Levels : LogException(level)
    \/ \E level \in Levels, what \in Text : LogStdException(level, what)
    \/ \E level \in Levels, notes \in BoundedSeq(NoteSet, 1), n \in Limits :
          LogTraced(LogEntry(level, "class", "method", "", notes, NoTrace), n)
    \/ Traced
    \/ \E condition \in BOOLEAN, message \in Text :
          Check(condition, "method", message, <<>>)
    \/ stage = "idle" /\ UNCHANGED <<traceVars, exceptionVars>>   \* no more calls

ExceptionSpec == ExceptionInit /\ [][ExceptionNext]_<<traceVars, exceptionVars>>

-----------------------------------------------------------------------------
ExceptionType == [format : OutputFormat \union {"none"},
                  caller : Text \union {""}, message : Text \union {""},
                  infos : Seq(NoteSet), lines : Seq(Name)]

EntryType == [level : Levels \union {"Warning"},
              classname : {"", "ee::Exception", "std::exception", "class"},
              method : Text \union {"", "std::exception", "method"},
              message : Text \union {""},
              notes : Seq(NoteSet), trace : Seq(Seq(Name))]

\* Traces, the exception, what waits for a trace and the entries logged hold
\* values of their types (Exception.cpp, the overloads of Log::log and
\* Log::check).  What the texts hold, cache and stream, is more than their
\* type: see ExceptionText.
ExceptionTypeOK ==
    /\ TraceTypeOK
    /\ exception \in ExceptionType
    /\ pending \in {Nothing} \union [call : {"Exception"}, value : ExceptionType]
                               \union [call : {"log"}, value : EntryType]
    /\ logged \in Seq(EntryType)
=============================================================================
