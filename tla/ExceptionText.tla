---------------------------- MODULE ExceptionText ----------------------------
(***************************************************************************)
(* Reading back what an exception says and what a stream has printed: a    *)
(* reader for each of the two formats of what(), and one for the entries   *)
(* LogEntry::write prints.  The readers know the formats, not the code.    *)
(***************************************************************************)
EXTENDS Exception

\* What a reader finds: the value read and the tokens after it.
Found(v, ts) == [ok |-> TRUE, value |-> v, rest |-> ts]
NotFound == [ok |-> FALSE, value |-> <<>>, rest |-> <<>>]

After(n, s) == SubSeq(s, n + 1, Len(s))

RECURSIVE ReadValue(_), ReadItem(_, _), ReadItems(_, _)

\* A Json value: a string or null, an array or an object.
ReadValue(ts) ==
    CASE ts = <<>> -> NotFound
      [] ts # <<>> /\ Head(ts)[1] \in {"string", "null"} -> Found(Head(ts), Tail(ts))
      [] ts # <<>> /\ Head(ts) = <<"[">> -> ReadItems(Tail(ts), "]")
      [] ts # <<>> /\ Head(ts) = <<"{">> -> ReadItems(Tail(ts), "}")
      [] OTHER -> NotFound

\* An element of an array, or a key and its value in an object.
ReadItem(ts, close) ==
    IF close = "]" THEN ReadValue(ts)
    ELSE IF Len(ts) > 2 /\ Head(ts)[1] = "string" /\ ts[2] = <<":">>
    THEN LET v == ReadValue(After(2, ts))
         IN  [v EXCEPT !.value = <<Head(ts)[2], v.value>>]
    ELSE NotFound

\* At least one item, a comma between two of them, and the closing bracket.
ReadItems(ts, close) ==
    LET item == ReadItem(ts, close)
        more == ReadItems(Tail(item.rest), close)
    IN  CASE ~item.ok \/ item.rest = <<>> -> NotFound
          [] item.ok /\ item.rest # <<>> /\ Head(item.rest) = <<close>> ->
               Found(<<item.value>>, Tail(item.rest))
          [] item.ok /\ item.rest # <<>> /\ Head(item.rest) = <<",">> ->
               [more EXCEPT !.value = <<item.value>> \o more.value]
          [] OTHER -> NotFound

\* The value of a key, and default if the object has not got it.
Field(object, key, default) ==
    IF \E i \in DOMAIN object : object[i][1] = key
    THEN object[CHOOSE i \in DOMAIN object : object[i][1] = key][2]
    ELSE default

\* The fields of an exception in an object.
ReadJson(ts) ==
    LET object == ReadValue(ts).value
        infos == Field(object, "infos", <<>>)
        names == Field(object, "stacktrace", <<>>)
        TextField(o, key) == Field(o, key, <<"string", "">>)[2]
        Caller(o) == LET c == Field(o, "caller", <<"null">>)
                     IN  IF c = <<"null">> THEN "" ELSE c[2]
    IN  [caller |-> TextField(object, "method"),
         message |-> TextField(object, "message"),
         infos |-> [i \in DOMAIN infos |->
                      [name |-> TextField(infos[i], "name"),
                       value |-> TextField(infos[i], "value"),
                       caller |-> Caller(infos[i])]],
         lines |-> [i \in DOMAIN names |-> names[i][2]]]

IsJson(ts) == LET v == ReadValue(ts) IN v.ok /\ v.rest = <<>>

RECURSIVE ReadSections(_, _)

\* The sections of the String format, each a header and what it is about.
ReadSections(ts, x) ==
    CASE ts = <<>> -> x
      [] ts # <<>> /\ Head(ts) = "In method:" ->
           ReadSections(After(2, ts), [x EXCEPT !.caller = ts[2]])
      [] ts # <<>> /\ Head(ts) = "With message:" ->
           ReadSections(After(2, ts), [x EXCEPT !.message = ts[2]])
      [] ts # <<>> /\ Head(ts) = "Stacktrace:" ->
           [x EXCEPT !.lines = [i \in 1 .. (Len(ts) - 1) \div 4 |-> ts[4 * i + 1]]]
      [] OTHER ->
           LET called == ts[2] = "{"
               note == [name |-> ts[1], value |-> ts[IF called THEN 6 ELSE 3],
                        caller |-> IF called THEN ts[3] ELSE ""]
           IN  ReadSections(After(IF called THEN 6 ELSE 3, ts),
                            [x EXCEPT !.infos = Append(@, note)])

ReadString(ts) ==
    ReadSections(After(4, ts),
                 [caller |-> "", message |-> "", infos |-> <<>>, lines |-> <<>>])

\* The lines of an entry.
ReadEntry(ls) ==
    LET tokens == After(4, ls[1])
        Position(token) == CHOOSE i \in 1 .. Len(tokens) + 1 :
                               i = Len(tokens) + 1 \/ tokens[i] = token
        Has(token) == token \in ToSet(tokens)
        noteLines == SelectSeq(ls, LAMBDA l : l[1] = "\t")
        traces == {i \in DOMAIN ls : ls[i] = <<"Stacktrace:">>}
        first == CHOOSE i \in traces : TRUE
    IN  LogEntry(CHOOSE l \in DOMAIN LevelText : LevelText[l] = ls[1][1],
                 IF Has("::") THEN tokens[Position("::") + 1] ELSE "",
                 IF Has("-->") THEN tokens[Len(tokens)] ELSE "",
                 IF tokens # <<>> /\ Head(tokens) \notin {"::", "-->"}
                 THEN Head(tokens) ELSE "",
                 [i \in DOMAIN noteLines |->
                    [name |-> noteLines[i][2], value |-> noteLines[i][4],
                     caller |-> IF Len(noteLines[i]) = 6 THEN noteLines[i][6] ELSE ""]],
                 IF traces = {} THEN NoTrace
                 ELSE <<[i \in 1 .. Len(ls) - first |-> ls[first + i][4]]>>)

RECURSIVE ReadEntries(_)

\* Two empty lines end an entry.
ReadEntries(ls) ==
    IF ls = <<>> THEN <<>>
    ELSE LET n == CHOOSE i \in DOMAIN ls :
                      ls[i] = <<>> /\ \A j \in 1 .. i - 1 : ls[j] # <<>>
         IN  <<ReadEntry(SubSeq(ls, 1, n - 1))>> \o ReadEntries(After(n + 1, ls))

-----------------------------------------------------------------------------
\* Nothing in the exception needs to be escaped, and the 16-bit counter of the
\* Json lists does not come round.
JsonSafe ==
    LET x == exception
        texts == {x.caller, x.message} \union ToSet(x.lines)
                   \union UNION {{n.name, n.value, n.caller} : n \in ToSet(x.infos)}
    IN  /\ texts \intersect Special = {}
        /\ Len(x.infos) < ShortMod /\ Len(x.lines) < ShortMod

\* Whatever notes were added on the way, and wherever memory ran short, what()
\* is the text of all fields as they are now, or says that it could not be
\* built: never an older text or a part of one.  The text is complete: a reader
\* of the format gets every field back from it.
WhatReadsBack ==
    exception # NoException /\ cache # CouldNotBuild =>
        LET fields == [caller |-> exception.caller, message |-> exception.message,
                       infos |-> exception.infos, lines |-> exception.lines]
        IN  IF exception.format = "Json"
            THEN JsonSafe => IsJson(cache) /\ ReadJson(cache) = fields
            ELSE ReadString(cache) = fields

\* What the stream has printed is the list of entries, in their order and with
\* everything they hold: no entry runs into the next one, whether it has notes,
\* a trace (also one of no lines) or nothing but a level.
StreamReadsBack == ReadEntries(stream) = logged
=============================================================================
