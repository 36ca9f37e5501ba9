---------------------------- MODULE DataLoading ----------------------------
(***************************************************************************)
(* How main() of sandbox.cpp turns a file of "upper,lower" lines into the  *)
(* pairs of chains that are composed with the machine: csv_parser, which   *)
(* reads the file again for every value, then std::reverse and             *)
(* string_to_logfst.  The training and the test file take the same way, so *)
(* there is one of each here.                                              *)
(*                                                                         *)
(* A line is a sequence of letters and commas.  What C++ leaves undefined  *)
(* (iterators that run past a string without a comma, SetFinal on a state  *)
(* that was never added) ends in status "undefined".                       *)
(***************************************************************************)
EXTENDS Integers, SequencesExt

CONSTANTS Chars,      \* the characters
          Files,      \* the files: sequences of lines
          Comma,      \* ','
          MaxNum      \* bound on the number of examples asked for

ASSUME FilesAssumption == Comma \in Chars /\ Files \subseteq Seq(Seq(Chars))
ASSUME NumAssumption == MaxNum \in Nat

VARIABLES file,       \* the lines of the file
          newline,    \* whether the last line ends with '\n'
          num,        \* num_training_examples
          stage,      \* the loop of main() that is running
          i,          \* its counter
          dataString, \* data_string_train: pairs of strings
          data        \* training_data: pairs of chains

vars == <<file, newline, num, stage, i, dataString, data>>

----------------------------------------------------------------------------
\* csv_parser

\* Mutant of TotalLines: the number of line ends.
TotalLinesByNewlines == IF newline THEN Len(file) ELSE Len(file) - 1

\* total_lines counts the calls of getline up to the one that meets the end
\* of the file: one too many when the last line is terminated.
TotalLines == IF newline THEN Len(file) + 1 ELSE Max({1, Len(file)})

\* get_line: row calls of getline on one string.  The call after a terminated
\* last line empties it; a call after the one that met the end of the file
\* leaves it as it is.
GetLine(row) ==
    IF row <= Len(file) THEN file[row]
    ELSE IF newline \/ file = <<>> THEN <<>>
    ELSE Last(file)

Commas(line) == {k \in 1..Len(line) : line[k] = Comma}

\* fields
NumFields(line) == Cardinality(Commas(line)) + 1

\* What get_value returns: the string, or how it ends instead.
Value(s) == [ends |-> "return", value |-> s]
Ends(how) == [ends |-> how, value |-> <<>>]

\* Mutant of FirstField: the comma is included.
FirstFieldWithComma(line) == SubSeq(line, 1, Min(Commas(line)))
\* The first column, up to the first comma.
FirstField(line) == SubSeq(line, 1, Min(Commas(line)) - 1)

\* The last column is collected from a reverse iterator.
LastField(line) == Reverse(SubSeq(line, Max(Commas(line)) + 1, Len(line)))

\* A column in between, collected forwards.
MiddleField(line, column) ==
    LET from == CHOOSE k \in Commas(line) :
                    Cardinality({m \in Commas(line) : m < k}) = column - 2
        to == Min({m \in Commas(line) : m > from})
    IN  SubSeq(line, from + 1, to - 1)

GetValue(row, column) ==
    LET line == GetLine(row)
    IN  CASE column > NumFields(line) \/ row > TotalLines -> Ends("exit")
          [] column <= NumFields(line) /\ row <= TotalLines /\ Commas(line) = {}
               -> Ends("undefined")
          [] column = 1 /\ Commas(line) # {} /\ row <= TotalLines
               -> Value(FirstField(line))
          [] column > 1 /\ column = NumFields(line) /\ row <= TotalLines
               -> Value(LastField(line))
          [] column > 1 /\ column < NumFields(line) /\ row <= TotalLines
               -> Value(MiddleField(line, column))

----------------------------------------------------------------------------
Init == /\ file \in Files
        /\ newline \in BOOLEAN
        /\ num \in 0..MaxNum
        /\ stage = "read" /\ i = 1
        /\ dataString = <<>> /\ data = <<>>

\* One pass of the first loop.  The two calls of get_value are the arguments
\* of one constructor, so C++ leaves their order open; it shows when they end
\* differently.
ReadExample ==
    /\ stage = "read" /\ i <= num
    /\ LET first == GetValue(i, 1)
           second == GetValue(i, 2)
       IN  IF first.ends = "return" /\ second.ends = "return"
             THEN /\ dataString' = Append(dataString, <<first.value, second.value>>)
                  /\ i' = i + 1
                  /\ UNCHANGED stage
             ELSE /\ stage' \in {first.ends, second.ends} \ {"return"}
                  /\ UNCHANGED <<dataString, i>>
    /\ UNCHANGED <<file, newline, num, data>>

\* Mutant of StartConvert: both loops share the counter.
StartConvertKeepingCounter ==
    /\ stage = "read" /\ i > num
    /\ stage' = "convert"
    /\ UNCHANGED <<file, newline, num, i, dataString, data>>

StartConvert ==
    /\ stage = "read" /\ i > num
    /\ stage' = "convert" /\ i' = 1
    /\ UNCHANGED <<file, newline, num, dataString, data>>

\* Mutant of Convert: the second string is left as csv_parser returned it.
ConvertWithoutReverse ==
    /\ stage = "convert" /\ i <= num
    /\ LET p == dataString[i]
       IN  IF p[1] # <<>> /\ p[2] # <<>>
             THEN /\ data' = Append(data, <<p[1], p[2]>>)
                  /\ dataString' = dataString
                  /\ i' = i + 1
                  /\ UNCHANGED stage
             ELSE /\ stage' = "undefined"
                  /\ UNCHANGED <<dataString, data, i>>
    /\ UNCHANGED <<file, newline, num>>

\* One pass of the second loop: reverse the second string in place, make a
\* chain of each.  string_to_logfst adds no state for an empty string and then
\* makes state 0 final.
Convert ==
    /\ stage = "convert" /\ i <= num
    /\ LET p == <<dataString[i][1], Reverse(dataString[i][2])>>
       IN  /\ dataString' = [dataString EXCEPT ![i] = p]
           /\ IF p[1] # <<>> /\ p[2] # <<>>
                THEN /\ data' = Append(data, p)
                     /\ i' = i + 1
                     /\ UNCHANGED stage
                ELSE /\ stage' = "undefined"
                     /\ UNCHANGED <<data, i>>
    /\ UNCHANGED <<file, newline, num>>

EndConvert ==
    /\ stage = "convert" /\ i > num
    /\ stage' = "done"
    /\ UNCHANGED <<file, newline, num, i, dataString, data>>

Next == ReadExample \/ StartConvert \/ Convert \/ EndConvert

Spec == Init /\ [][Next]_vars

----------------------------------------------------------------------------
\* An independent reading of a line "upper,lower".
Pairs(line) == {p \in {<<SubSeq(line, 1, k - 1), SubSeq(line, k + 1, Len(line))>> :
                            k \in 1..Len(line)} :
                    p[1] \o <<Comma>> \o p[2] = line}

TwoColumns(line) == Cardinality(Commas(line)) = 1

\* A file of the kind that is shipped: two columns everywhere, and the rows
\* asked for have something in both.
Legal == /\ num <= Len(file)
         /\ \A k \in 1..Len(file) : TwoColumns(file[k])
         /\ \A k \in 1..num : file[k][1] # Comma /\ Last(file[k]) # Comma

\* Types; the loop counters say how much has been read and converted.
TypeOK ==
    /\ stage \in {"read", "convert", "done", "exit", "undefined"}
    /\ i \in 1..(num + 1)
    /\ stage \in {"read", "exit"} => Len(dataString) = i - 1 /\ data = <<>>
    /\ stage = "convert" => Len(dataString) = num /\ Len(data) = i - 1
    /\ stage = "done" => Len(dataString) = num /\ Len(data) = num

\* The chains spell the two columns of their row from left to right: the
\* reverse iterator of get_value (csv_parser.cpp:112-121) and the std::reverse
\* of main() (sandbox.cpp:110, 141) cancel out.
SpelledForward ==
    (\A k \in 1..Len(file) : TwoColumns(file[k])) =>
        \A k \in 1..Len(data) : data[k] \in Pairs(file[k])

\* Asked for rows that are there, main() reads them all: get_value neither
\* exits nor runs out of its line (csv_parser.cpp:94-141), and string_to_logfst
\* gets no empty string (wfst-train.cpp:189-208).
LegalFileLoads == Legal => stage \notin {"exit", "undefined"}

\* csv_parser.cpp:96, the message of the guard in get_value: a row "greater than
\* total number of columns or row present in the file" is an error, here in a file
\* of two columns with a terminated last line.
RowsBeyondTheFileAreErrors ==
    (/\ file # <<>> /\ newline
     /\ \A k \in 1..Len(file) : TwoColumns(file[k])
     /\ num > Len(file))
        => stage # "undefined"
=============================================================================
