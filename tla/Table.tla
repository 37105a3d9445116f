-------------------------------- MODULE Table --------------------------------
(***************************************************************************)
(* Tables: extensions/table.c, from a paragraph whose last line may be a   *)
(* header to the rows of the table, with the spans of cells, and the table *)
(* as the CommonMark renderer writes it. Lines start no other block and    *)
(* are not indented.                                                       *)
(***************************************************************************)
EXTENDS Escape

CONSTANTS
    Lines,                   \* the lines of a document, blank ones are <<"LF">>
    MaxLines,                \* bound on their number,
    MaxParagraph,            \* and on the length of a paragraph
    Options,                 \* sets of options: "TABLE_SPANS", "TABLE_ROWSPAN_DITTO"
    UINT16_MAX,
    MAX_AUTOCOMPLETED_CELLS

VARIABLES
    options,
    fed,       \* the number of lines so far
    open,      \* the last block: "none", "paragraph" or "table"
    content,   \* of the open paragraph
    visited,   \* CMARK_NODE__TABLE_VISITED of the open paragraph
    table,     \* the open table
    closed     \* the blocks before it

vars == <<options, fed, open, content, visited, table, closed>>

Null == [cells |-> <<>>, paragraph_offset |-> 0]
Mark == <<IF "TABLE_ROWSPAN_DITTO" \in options THEN "DQ" ELSE "^">>
Blank_(line) == line = <<"LF">>

-----------------------------------------------------------------------------
(* Rows *)

\* s without the backslashes before pipes
unescape_pipes(s) ==
    FlattenSeq([k \in DOMAIN s |-> IF s[k] = "BS" /\ k < Len(s) /\ s[k + 1] = "|" THEN <<>> ELSE <<s[k]>>])

\* cells and the one that the n characters at p are, of a row that begins at from.
\* A cell with nothing between its pipes is spanned by the last that is not.
append_row_cell(s, p, n, from, cells) ==
    LET lit == cmark_chunk_trim(unescape_pipes(SubSeq(s, p, p + n - 1)))
        start == Max({from} \cup {k + 1 : k \in {k \in from .. p - 1 : s[k] = "|"}})
        end == IF n > 0 THEN p + n - 1 ELSE p
        hidden == "TABLE_SPANS" \in options /\ lit = <<>> /\ start = end
        marks == "TABLE_SPANS" \in options /\ lit = Mark
        spanning == {k \in DOMAIN cells : cells[k].colspan > 0}
        wider == IF hidden /\ spanning # {} THEN [cells EXCEPT ![Max(spanning)].colspan = @ + 1] ELSE cells
    IN  Append(wider, [lit |-> lit, data |-> TRUE, colspan |-> IF hidden THEN 0 ELSE 1,
                       rowspan |-> IF marks THEN 0 ELSE 1])

\* The rest of row_from_string at p: a line that ends before the text does was not
\* the row, and the row begins after it.
RECURSIVE RowFrom(_, _, _, _)
RowFrom(s, p, from, cells) ==
    LET cell == scan_table_cell(s, p)
        pipe == scan_table_cell_end(s, p + cell)
        more == IF cell + pipe > 0 THEN append_row_cell(s, p, cell, from, cells) ELSE cells
        next == p + cell + pipe
        after == next + scan_table_row_end(s, next)
        Result(end, row) == IF end # Len(s) + 1 \/ row = <<>> THEN Null
                            ELSE [cells |-> row, paragraph_offset |-> from - 1]
    IN  CASE p > Len(s) -> Result(p, cells)
          [] p <= Len(s) /\ Len(more) = UINT16_MAX -> Null
          [] p <= Len(s) /\ Len(more) < UINT16_MAX /\ pipe > 0 -> RowFrom(s, next, from, more)
          [] p <= Len(s) /\ Len(more) < UINT16_MAX /\ pipe = 0 ->
                IF after > next /\ after <= Len(s)
                THEN RowFrom(s, after + scan_table_cell_end(s, after), after, <<>>)
                ELSE Result(after, more)
row_from_string(s) == RowFrom(s, 1 + scan_table_cell_end(s, 1), 1, <<>>)

-----------------------------------------------------------------------------
(* Tables *)

Filler == [lit |-> <<>>, data |-> FALSE, colspan |-> 1, rowspan |-> 1]

get_n_autocompleted_cells(t) == t.n_columns * t.n_rows - t.n_nonempty_cells
incr_table_row_count_Full(t, n) == [t EXCEPT !.n_rows = @ + 1, !.n_nonempty_cells = @ + t.n_columns]
incr_table_row_count(t, n) == [t EXCEPT !.n_rows = @ + 1, !.n_nonempty_cells = @ + n]

Alignment(lit) == LET left == lit[1] = ":" right == lit[Len(lit)] = ":"
                  IN  IF left /\ right THEN "c" ELSE IF left THEN "l" ELSE IF right THEN "r" ELSE "none"

NewTable(header, delimiter) ==
    incr_table_row_count([n_columns |-> Len(header), n_rows |-> 0, n_nonempty_cells |-> 0,
                          alignments |-> [k \in DOMAIN delimiter |-> Alignment(delimiter[k].lit)],
                          rows |-> <<header>>], Len(header))

SpanningRow_Above(rows, i) == Len(rows)
\* The row above in which the marker in column i finds its spanning cell, 0 for none.
SpanningRow(rows, i) == Max({0} \cup {r \in DOMAIN rows : rows[r][i].rowspan # 0})

WithRow_Longer(t, cells) ==
    incr_table_row_count([t EXCEPT !.rows = Append(@, cells)], Len(cells))
\* The table with one more row: markers lengthen the cells above them, a filler
\* excepted; cells too many are dropped and those missing autocompleted.
WithRow(t, cells) ==
    LET n == Min({Len(cells), t.n_columns})
        marker(i) == i <= n /\ cells[i].rowspan = 0 /\ "TABLE_SPANS" \in options
        grown == [r \in DOMAIN t.rows |-> [i \in DOMAIN t.rows[r] |->
                    IF marker(i) /\ r = SpanningRow(t.rows, i) /\ t.rows[r][i].data
                    THEN [t.rows[r][i] EXCEPT !.rowspan = @ + 1] ELSE t.rows[r][i]]]
        row == [i \in 1 .. t.n_columns |->
                    IF i > n THEN Filler
                    ELSE IF marker(i) /\ SpanningRow(t.rows, i) > 0 THEN [cells[i] EXCEPT !.lit = <<>>]
                    ELSE cells[i]]
    IN  incr_table_row_count([t EXCEPT !.rows = Append(grown, row)], n)

\* try_opening_table_header: may the open paragraph's last line and this one open a table?
Candidate(line) == ~ visited /\ scan_table_start(line, 1) > 0 /\ row_from_string(line) # Null
Opens(line) == /\ Candidate(line)
               /\ row_from_string(content) # Null
               /\ Len(row_from_string(content).cells) = Len(row_from_string(line).cells)

Paragraph(text) == [type |-> "paragraph", text |-> text]
Closed == CASE open = "none" -> closed
            [] open = "paragraph" -> Append(closed, Paragraph(content))
            [] open = "table" -> Append(closed, [type |-> "table", table |-> table])

-----------------------------------------------------------------------------
(* A line *)

NoTable == [n_columns |-> 0, n_rows |-> 0, n_nonempty_cells |-> 0, alignments |-> <<>>, rows |-> <<>>]

Init == /\ options \in Options
        /\ fed = 0 /\ closed = <<>>
        /\ open = "none" /\ content = <<>> /\ visited = FALSE /\ table = NoTable

Fed == fed < MaxLines /\ fed' = fed + 1 /\ UNCHANGED options

StartParagraph(line) ==
    /\ open' = "paragraph" /\ content' = line /\ visited' = FALSE
    /\ table' = NoTable /\ closed' = Closed

Matches(line) == open = "table" /\ row_from_string(line) # Null

BlankLine(line) ==
    /\ Fed /\ Blank_(line)
    /\ closed' = Closed
    /\ open' = "none" /\ content' = <<>> /\ visited' = FALSE /\ table' = NoTable

FirstLine(line) ==
    /\ Fed /\ ~ Blank_(line) /\ open = "none"
    /\ StartParagraph(line)

\* The delimiter row was one but did not fit the header: never try again.
ContinueParagraph(line) ==
    /\ Fed /\ ~ Blank_(line) /\ open = "paragraph" /\ ~ Opens(line)
    /\ Len(content) < MaxParagraph
    /\ visited' = (visited \/ Candidate(line))
    /\ content' = content \o line
    /\ UNCHANGED <<open, table, closed>>

\* The paragraph becomes the table; lines before its last are put before it.
try_opening_table_header(line) ==
    LET header == row_from_string(content)
        before == cmark_chunk_trim(unescape_pipes(SubSeq(content, 1, header.paragraph_offset)))
    IN  /\ Fed /\ ~ Blank_(line) /\ open = "paragraph" /\ Opens(line)
        /\ table' = NewTable(header.cells, row_from_string(line).cells)
        /\ closed' = IF header.paragraph_offset > 0 THEN Append(closed, Paragraph(before)) ELSE closed
        /\ open' = "table" /\ content' = <<>> /\ visited' = FALSE

try_opening_table_row(line) ==
    /\ Fed /\ ~ Blank_(line) /\ Matches(line)
    /\ get_n_autocompleted_cells(table) <= MAX_AUTOCOMPLETED_CELLS
    /\ table' = WithRow(table, row_from_string(line).cells)
    /\ UNCHANGED <<open, content, visited, closed>>

\* Not a row, or one too many to complete: the table is finished.
LeaveTable(line) ==
    /\ Fed /\ ~ Blank_(line) /\ open = "table"
    /\ ~ Matches(line) \/ get_n_autocompleted_cells(table) > MAX_AUTOCOMPLETED_CELLS
    /\ StartParagraph(line)

Next == \E line \in Lines :
    \/ BlankLine(line) \/ FirstLine(line) \/ ContinueParagraph(line)
    \/ try_opening_table_header(line) \/ try_opening_table_row(line) \/ LeaveTable(line)

Spec == Init /\ [][Next]_vars

-----------------------------------------------------------------------------
(* What the CommonMark renderer writes for a table *)

EscapePipes(lit) == FlattenSeq([k \in DOMAIN lit |-> IF lit[k] = "|" THEN <<"BS", "|">> ELSE <<lit[k]>>])
CellText_NoMark(c) == <<"SP">> \o EscapePipes(c.lit) \o <<"SP", "|">>
CellText(c) ==
    IF c.colspan = 0 THEN EscapePipes(c.lit) \o <<"|">>
    ELSE <<"SP">> \o (IF c.rowspan = 0 THEN Mark ELSE <<>>) \o EscapePipes(c.lit) \o <<"SP", "|">>
RowText(row) == <<"|">> \o FlattenSeq([i \in DOMAIN row |-> CellText(row[i])]) \o <<"LF">>
AlignText(a) == CASE a = "none" -> <<"SP", "-", "-", "-", "SP", "|">>
                  [] a = "l" -> <<"SP", ":", "-", "-", "SP", "|">>
                  [] a = "c" -> <<"SP", ":", "-", ":", "SP", "|">>
                  [] a = "r" -> <<"SP", "-", "-", ":", "SP", "|">>
DelimiterText(t) == <<"|">> \o FlattenSeq([i \in DOMAIN t.alignments |-> AlignText(t.alignments[i])])
                            \o <<"LF">>

-----------------------------------------------------------------------------
(* Properties *)

Tables == (IF open = "table" THEN {table} ELSE {})
          \cup {closed[k].table : k \in {k \in DOMAIN closed : closed[k].type = "table"}}

\* Every row has a cell in every column. try_opening_table_row walks up the rows
\* with cmark_node_nth_child: at a row without that cell it would never end.
RowsFull == \A t \in Tables : /\ Len(t.rows) = t.n_rows
                              /\ \A r \in DOMAIN t.rows : Len(t.rows[r]) = t.n_columns
                              /\ Len(t.alignments) = t.n_columns

\* The product of columns and rows less the cells counted is the number of cells
\* made up, and the limit is passed by less than one row.
AutocompletedExact ==
    \A t \in Tables :
       LET made == Cardinality({<<r, i>> \in (1 .. t.n_rows) \X (1 .. t.n_columns) : ~ t.rows[r][i].data})
       IN  /\ get_n_autocompleted_cells(t) = made
           /\ made < MAX_AUTOCOMPLETED_CELLS + 1 + t.n_columns

\* The rowspan of a cell that came from the text is one more than the number of
\* markers right below it; a marker below a cell shows nothing of its text.
SpanExact ==
    \A t \in Tables : \A i \in 1 .. t.n_columns : \A r \in 1 .. t.n_rows :
       LET c == t.rows[r][i]
           end == Min({t.n_rows + 1} \cup {q \in r + 1 .. t.n_rows : t.rows[q][i].rowspan # 0})
       IN  /\ c.data /\ c.rowspan > 0 => c.rowspan = end - r
           /\ c.rowspan = 0 /\ (\E q \in 1 .. r - 1 : t.rows[q][i].rowspan > 0) => c.lit = <<>>

\* What the CommonMark renderer writes for a table is read back as that table: its
\* columns, alignments, texts and spans. Not so for a marker in the header, which is
\* written beside its own text, for a cell that spans cells which were dropped, and
\* for a marker below a made-up cell, which is only then counted.
ReadBack(t) ==
    LET header == row_from_string(RowText(t.rows[1])).cells
        delimiter == row_from_string(DelimiterText(t)).cells
        rows == [r \in 2 .. t.n_rows |-> row_from_string(RowText(t.rows[r])).cells]
    IN  FoldLeftDomain(LAMBDA acc, r : IF r = 1 THEN acc ELSE WithRow(acc, rows[r]),
                       NewTable(header, delimiter), t.rows)
Shown(t) == [n_columns |-> t.n_columns, alignments |-> t.alignments,
             rows |-> [r \in DOMAIN t.rows |-> [i \in DOMAIN t.rows[r] |->
                         <<t.rows[r][i].lit, t.rows[r][i].colspan, t.rows[r][i].rowspan>>]]]
Writable(t) == /\ \A c \in ToSet(t.rows[1]) : c.rowspan > 0
               /\ \A r \in DOMAIN t.rows : \A i \in DOMAIN t.rows[r] : 
                     /\ i + t.rows[r][i].colspan <= t.n_columns + 1
                     /\ ~ t.rows[r][i].data /\ r < t.n_rows => t.rows[r + 1][i].rowspan > 0
RoundTrip == \A t \in Tables : Writable(t) => Shown(ReadBack(t)) = Shown(t)
=============================================================================
