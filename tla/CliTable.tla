------------------------------ MODULE CliTable ------------------------------
(***************************************************************************)
(* parsers.cli_parse_table on one line of a table: the line is cut into    *)
(* fields, and each field is filed under the header it stands below.       *)
(*                                                                         *)
(* A line is a sequence of blanks and "x"s, for what is not blank; a field *)
(* or a word is the pair of its first and last place.  A header is the     *)
(* pair of its first place and the place behind its last, as in the code.  *)
(* Definitions whose name begins with Bug are faults a change could bring  *)
(* in; nothing uses them but the check that the properties notice.         *)
(***************************************************************************)
EXTENDS Integers, Sequences, FiniteSetsExt, SequencesExt

CONSTANT Width      \* of a line

ASSUME WidthAssumption == Width \in Nat \ {0}

VARIABLES
  line,     \* the line
  domains,  \* where the headers are, from left to right
  at,       \* the place the scan for fields has come to
  row,      \* for each header, what was filed under it, in order
  result    \* "scanning", "row" or "UnexpectedOutput"

vars == <<line, domains, at, row, result>>

Places  == 1 .. Width
Lines   == [Places -> {"x", " "}]
Domains == {<<a, b>> : a, b \in [left : Places, right : 2 .. Width + 1]}
Headers == {1, 2}

Filled(i) == i \in Places /\ line[i] = "x"

-----------------------------------------------------------------------------
BugMatchEnd ==
  LET end[i \in 1 .. Width + 1] == IF Filled(i) THEN end[i + 1] ELSE i
  IN  end

(* Where the match of (?:\S\s\S|\S)+ that begins at a place ends: the      *)
(* place behind it.  The first alternative is tried first, so the          *)
(* character that ends one blank cannot begin the next.                    *)
MatchEnd ==
  LET end[i \in 1 .. Width + 1] ==
        IF ~Filled(i) THEN i
        ELSE IF Filled(i + 2) /\ ~Filled(i + 1) THEN end[i + 3]
        ELSE end[i + 1]
  IN  end

WordEnd ==
  LET end[i \in 1 .. Width + 1] == IF Filled(i) THEN end[i + 1] ELSE i
  IN  end

BugField(i) == <<i, MatchEnd[i]>>

Field(i) == <<i, MatchEnd[i] - 1>>

(* The words of a field, from left to right (re.finditer).                 *)
Words(field) ==
  LET begins(i) == Filled(i) /\ (i = field[1] \/ ~Filled(i - 1))
      upTo[i \in 0 .. field[2]] ==
        IF i < field[1] THEN <<>>
        ELSE IF begins(i) THEN Append(upTo[i - 1], <<i, WordEnd[i] - 1>>)
        ELSE upTo[i - 1]
  IN  upTo[field[2]]

(* _find_left_right_headers: the first header that ends behind the field's *)
(* beginning, and the last that begins before its end.                     *)
BugLeftmost(field) ==
  LET ending == {h \in Headers : field[1] <= domains[h].right}
  IN  IF ending = {} THEN 3 ELSE Min(ending)

Leftmost(field) ==
  LET ending == {h \in Headers : field[1] < domains[h].right}
  IN  IF ending = {} THEN 3 ELSE Min(ending)

Rightmost(field) ==
  LET beginning == {h \in Headers : field[2] > domains[h].left}
  IN  IF beginning = {} THEN 0 ELSE Max(beginning)

-----------------------------------------------------------------------------
BugFile(r, word) == [r EXCEPT ![Leftmost(word)] = <<word>>]

(* row[key] += " " + word                                                  *)
File(r, word) == [r EXCEPT ![Leftmost(word)] = Append(@, word)]

Fail == result' = "UnexpectedOutput" /\ UNCHANGED row

(* A field below more than one header: its words are filed one by one.     *)
SplitField(field) ==
  /\ Leftmost(field) < Rightmost(field)
  /\ IF \A k \in DOMAIN Words(field) :
            Leftmost(Words(field)[k]) = Rightmost(Words(field)[k])
     THEN row' = FoldLeft(File, row, Words(field)) /\ UNCHANGED result
     ELSE Fail

(* A field below no header.                                                *)
StrayField(field) == Leftmost(field) > Rightmost(field) /\ Fail

(* A field below one header, which must still be free.                     *)
FileField(field) ==
  /\ Leftmost(field) = Rightmost(field)
  /\ IF row[Leftmost(field)] = <<>>
     THEN row' = [row EXCEPT ![Leftmost(field)] = <<field>>] /\ UNCHANGED result
     ELSE Fail

NextField ==
  /\ result = "scanning"
  /\ \E i \in at .. Width :
       /\ Filled(i) /\ \A j \in at .. i - 1 : ~Filled(j)
       /\ at' = MatchEnd[i]
       /\ SplitField(Field(i)) \/ StrayField(Field(i)) \/ FileField(Field(i))
  /\ UNCHANGED <<line, domains>>

EndOfLine ==
  /\ result = "scanning"
  /\ \A i \in at .. Width : ~Filled(i)
  /\ result' = "row"
  /\ UNCHANGED <<line, domains, at, row>>

(* header_line.index finds each header behind the one before it.           *)
Init == /\ line \in Lines
        /\ domains \in {d \in Domains : /\ d[1].left < d[1].right
                                        /\ d[1].right <= d[2].left
                                        /\ d[2].left < d[2].right}
        /\ at = 1 /\ row = [h \in Headers |-> <<>>] /\ result = "scanning"

Next == NextField \/ EndOfLine

Spec == Init /\ [][Next]_vars

-----------------------------------------------------------------------------
Span  == 1 .. Width
TypeOK == /\ line \in Lines /\ domains \in Domains /\ at \in 1 .. Width + 1
          /\ \A h \in Headers : row[h] \in Seq(Span \X Span)
          /\ result \in {"scanning", "row", "UnexpectedOutput"}

Filed     == row[1] \o row[2]
Covers(f) == {i \in f[1] .. f[2] : Filled(i)}
Below(f, h) == f[1] < domains[h].right /\ f[2] >= domains[h].left

(* No row loses, repeats or reorders text: read from the first header to   *)
(* the last it is the line, word for word.                                 *)
RowIsLine ==
  result = "row" =>
    /\ UNION {Covers(Filed[k]) : k \in DOMAIN Filed} = {i \in Places : Filled(i)}
    /\ \A k \in 1 .. Len(Filed) - 1 : Filed[k][2] < Filed[k + 1][1]

(* What a row has under a header stood below it in the table, and reached  *)
(* at most to the first character of the next.                             *)
FiledBelowHeader ==
  result = "row" =>
    \A h \in Headers, k \in 1 .. Width :
      k \in DOMAIN row[h] =>
        /\ Below(row[h][k], h)
        /\ \A g \in Headers \ {h} :
             Below(row[h][k], g) => g > h /\ row[h][k][2] = domains[g].left

-----------------------------------------------------------------------------
(* "The left/right bounds of each data field are expected to fall          *)
(* underneath exactly 1 header ... Data fields are initially divided by 2  *)
(* spaces" (parsers.py:104-109): a line of such fields is accepted, with   *)
(* at most one field to a header.                                          *)
Blank(i)  == ~Filled(i)
Begins(i) == Filled(i) /\ Blank(i - 1) /\ Blank(i - 2)
Ends(i)   == Filled(i) /\ Blank(i + 1) /\ Blank(i + 2)
DataFields == {f \in Places \X Places :
                 /\ f[1] <= f[2] /\ Begins(f[1]) /\ Ends(f[2])
                 /\ \A i \in f[1] .. f[2] - 1 : ~Ends(i)}

Tidy(Under(_, _)) ==
  /\ \A f \in DataFields : \E h \in Headers : {g \in Headers : Under(f, g)} = {h}
  /\ \A f, g \in DataFields :
       (\E h \in Headers : Under(f, h) /\ Under(g, h)) => f = g

(* That holds for fields that reach past a header's first character and    *)
(* have no word of one character: those the code takes to be below no      *)
(* header (the search for the rightmost asks right_index > left), or cuts  *)
(* where there is one blank.                                               *)
PastFirst(f, h) == f[1] < domains[h].right /\ f[2] > domains[h].left
LongWords       == \A i \in Places : Filled(i) => Filled(i - 1) \/ Filled(i + 1)

MostTidyLinesParse == Tidy(PastFirst) /\ LongWords => result # "UnexpectedOutput"
=============================================================================
