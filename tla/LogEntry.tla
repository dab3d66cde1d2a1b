------------------------------ MODULE LogEntry ------------------------------
(***************************************************************************)
(* Log entries and their notes (LogEntry.cpp, Note.hpp), and the text      *)
(* LogEntry::write makes of an entry.  A text is a sequence of lines, a    *)
(* line a sequence of tokens; a token is a name, or a punctuation that the *)
(* code puts between names.                                                *)
(***************************************************************************)
EXTENDS Naturals, SequencesExt

CONSTANT NumberText    \* what std::to_string makes of the number literals

\* A Note stores its value as text, whichever of its constructors made it.
Note(name, value, caller) ==
    [name |-> name,
     value |-> IF value \in DOMAIN NumberText THEN NumberText[value] ELSE value,
     caller |-> caller]

\* toString(LogLevel)
LevelText == [Trace |-> "TRACE", Info |-> "INFO", Warning |-> "WARNING",
              Error |-> "ERROR", Fatal |-> "FATAL"]

\* The optional stacktrace of an entry: none, or one, the lines of a Stacktrace.
NoTrace == <<>>
HasValue(trace) == trace # NoTrace

LogEntry(logLevel, classname, method, message, notes, trace) ==
    [level |-> logLevel, classname |-> classname, method |-> method,
     message |-> message, notes |-> notes, trace |-> trace]

When(condition, tokens) == IF condition THEN tokens ELSE <<>>

FirstLine(e) ==
    <<LevelText[e.level], "[", "date", "]">>
      \o When(e.message # "", <<e.message>>)
      \o When(e.classname # "", <<"::", e.classname, "::">>)
      \o When(e.method # "", <<"-->", e.method>>)

NoteLine(note) ==
    <<"\t", note.name, ":", note.value>>
      \o When(note.caller # "", <<"-->", note.caller>>)

\* Stacktrace::asString
AsString(lines) ==
    [i \in DOMAIN lines |-> <<"[", ToString(i - 1), "]", lines[i]>>]

\* Mutant: the notes are written without their callers.
WriteWithoutCaller(e) ==
    <<FirstLine(e)>>
      \o [i \in DOMAIN e.notes |-> SubSeq(NoteLine(e.notes[i]), 1, 4)]
      \o (IF HasValue(e.trace)
          THEN <<<<"Stacktrace:">>>> \o AsString(Head(e.trace))
          ELSE <<>>)

\* LogEntry::write
Write(e) ==
    <<FirstLine(e)>>
      \o [i \in DOMAIN e.notes |-> NoteLine(e.notes[i])]
      \o (IF HasValue(e.trace)
          THEN <<<<"Stacktrace:">>>> \o AsString(Head(e.trace))
          ELSE <<>>)

=============================================================================
