------------------------------ MODULE CsvImport ------------------------------
(***************************************************************************)
(* Reading a roster file (csv.ts): the parser, one character at a time,    *)
(* then the columns an admin chose and the checks of the rows, which the   *)
(* browser makes for its preview and the server makes again.  The file was *)
(* written from a table by some program that follows RFC 4180.             *)
(***************************************************************************)
EXTENDS Naturals, Sequences, SequencesExt

CONSTANTS Tables     \* tables: sequences of rows of cells; a cell is a sequence of characters

VARIABLES
    table,      \* history: the table the file was written from
    rest,       \* the text that is still to be read
    field, row, records, inQuotes,
    done

vars   == <<table, rest, field, row, records, inQuotes, done>>
parser == <<field, row, records, inQuotes>>

Q       == "\""
Special == {Q, ",", "\n", "\r"}
Spaces  == {" ", "\n", "\r"}

\* How a program writes a cell, a row and a table: cells with special characters
\* are quoted, or all are; a quote inside is doubled.
Doubled(cell) == FlattenSeq([k \in DOMAIN cell |-> IF cell[k] = Q THEN <<Q, Q>> ELSE <<cell[k]>>])
Written(cell, all) ==
    IF all \/ \E k \in DOMAIN cell : cell[k] \in Special THEN <<Q>> \o Doubled(cell) \o <<Q>> ELSE cell
Joined(parts, sep) ==
    FlattenSeq([k \in DOMAIN parts |-> IF k = 1 THEN parts[k] ELSE sep \o parts[k]])
File(t, all, eol, ends) ==
    Joined([i \in DOMAIN t |-> Joined([k \in DOMAIN t[i] |-> Written(t[i][k], all)], <<",">>)], eol)
       \o (IF ends THEN eol ELSE <<>>)

Init ==
    /\ table \in Tables
    /\ \E all, ends \in BOOLEAN, eol \in {<<"\n">>, <<"\r", "\n">>} : rest = File(table, all, eol, ends)
    /\ field = <<>> /\ row = <<>> /\ records = <<>> /\ inQuotes = FALSE /\ done = FALSE
-----------------------------------------------------------------------------
(* parseCsv.                                                               *)

Reads(c) == rest # <<>> /\ Head(rest) = c /\ rest' = Tail(rest)
Escaped  == Len(rest) >= 2 /\ rest[1] = Q /\ rest[2] = Q

\* Wrong variant: the second quote is read again.
EscapedQuoteTwice ==
    /\ inQuotes /\ Escaped
    /\ rest' = Tail(rest)
    /\ field' = Append(field, Q)
    /\ UNCHANGED <<table, row, records, inQuotes, done>>

EscapedQuote ==
    /\ inQuotes /\ Escaped
    /\ rest' = SubSeq(rest, 3, Len(rest))
    /\ field' = Append(field, Q)
    /\ UNCHANGED <<table, row, records, inQuotes, done>>

OpenOrClose ==
    /\ ~(inQuotes /\ Escaped) /\ Reads(Q)
    /\ inQuotes' = ~inQuotes
    /\ UNCHANGED <<table, field, row, records, done>>

PushField ==
    /\ ~inQuotes /\ Reads(",")
    /\ row' = Append(row, field) /\ field' = <<>>
    /\ UNCHANGED <<table, records, inQuotes, done>>

PushRow ==
    /\ records' = Append(records, Append(row, field))
    /\ row' = <<>> /\ field' = <<>>

LineFeed ==
    /\ ~inQuotes /\ Reads("\n") /\ PushRow
    /\ UNCHANGED <<table, inQuotes, done>>

CarriageReturn ==
    /\ ~inQuotes /\ Reads("\r")
    /\ UNCHANGED <<table, parser, done>>

Character ==
    /\ rest # <<>> /\ Head(rest) \notin (IF inQuotes THEN {Q} ELSE Special)
    /\ rest' = Tail(rest) /\ field' = Append(field, Head(rest))
    /\ UNCHANGED <<table, row, records, inQuotes, done>>

\* A last line without its newline.
EndOfText ==
    /\ rest = <<>> /\ ~done /\ done' = TRUE
    /\ IF field # <<>> \/ row # <<>> THEN PushRow ELSE UNCHANGED <<field, row, records>>
    /\ UNCHANGED <<table, rest, inQuotes>>

Next ==
    \/ EscapedQuote \/ OpenOrClose \/ PushField \/ LineFeed \/ CarriageReturn \/ Character
    \/ EndOfText

Spec == Init /\ [][Next]_vars
-----------------------------------------------------------------------------
(* The rows of the file, and what is made of them.                         *)

Trim(cell) ==
    LET kept == {k \in DOMAIN cell : cell[k] \notin Spaces} IN
    IF kept = {} THEN <<>> ELSE SubSeq(cell, Min(kept), Max(kept))

NonEmpty(rs) == SelectSeq(rs, LAMBDA r : \E k \in DOMAIN r : Trim(r[k]) # <<>>)

Headers == [k \in DOMAIN NonEmpty(records)[1] |-> Trim(NonEmpty(records)[1][k])]

\* The value under a header: the last column of that name, blank where the row is short.
Under(r, h) ==
    LET cols == {k \in DOMAIN Headers : Headers[k] = h} IN
    IF cols = {} \/ Max(cols) > Len(r) THEN <<>> ELSE Trim(r[Max(cols)])

Lower(cell) == [k \in DOMAIN cell |-> IF cell[k] = "X" THEN "x" ELSE cell[k]]
UserOk(u)   == \A k \in DOMAIN u : u[k] \notin Special \cup Spaces     \* USERNAME_RE

User(r) == Lower(Trim(r.user))

\* Wrong variant: user names are compared as they were typed.
SeenAsTyped(rs, i) == \E j \in 1..i - 1 : rs[j].user = rs[i].user

Seen(rs, i) == \E j \in 1..i - 1 : User(rs[j]) = User(rs[i])

\* validateImportRows
ValidateImportRows(rs, requireEmail) ==
    [i \in DOMAIN rs |->
       [user |-> User(rs[i]), mail |-> Trim(rs[i].mail),
        ok |-> /\ User(rs[i]) # <<>> /\ UserOk(User(rs[i])) /\ ~Seen(rs, i)
               /\ requireEmail => Trim(rs[i].mail) # <<>>]]

ApplyMapping(user, mail) ==
    LET data == Tail(NonEmpty(records)) IN
    ValidateImportRows([i \in DOMAIN data |->
        [user |-> Under(data[i], user), mail |-> IF mail = <<>> THEN <<>> ELSE Under(data[i], mail)]],
        mail # <<>>)

\* ImportStudentsForm sends the rows that have no issue.
Sent(user, mail) == SelectSeq(ApplyMapping(user, mail), LAMBDA r : r.ok)
-----------------------------------------------------------------------------
\* However a table was quoted and its lines ended, the records read are the
\* table's rows, but for blank ones: no cell is split, merged or moved.
ReadAsWritten == done => NonEmpty(records) = NonEmpty(table)

\* The server accepts, unchanged, every row the preview showed as valid, whichever
\* columns were chosen.
ServerAgrees ==
    done /\ NonEmpty(records) # <<>> =>
       \A mail \in {<<>>, <<"m">>} :
          LET sent == Sent(<<"u">>, mail) IN ValidateImportRows(sent, mail # <<>>) = sent
=============================================================================
