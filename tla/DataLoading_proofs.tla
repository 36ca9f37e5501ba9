------------------------- MODULE DataLoading_proofs -------------------------
(***************************************************************************)
(* The loops of main() read and convert as many examples as they say, the  *)
(* two reversals cancel out, and a file of two columns with enough rows is *)
(* read to the end: for every file over every set of characters.           *)
(***************************************************************************)
EXTENDS DataLoading, SequenceTheorems, FiniteSetTheorems, WellFoundedInduction,
        TLAPS

Strings == Seq(Chars)

-----------------------------------------------------------------------------
(* Lines and their columns. *)

(* The first of some positions. *)
LEMMA FirstPosition ==
    ASSUME NEW S \in SUBSET Nat, S # {}
    PROVE  Min(S) \in S /\ \A k \in S : Min(S) <= k
<1> DEFINE R == OpToRel(<, Nat)
<1>1. PICK x \in S : \A y \in S : ~ (<<y, x>> \in R)
  <2>1. IsWellFoundedOn(R, Nat)  BY NatLessThanWellFounded
  <2> HIDE DEF R
  <2> QED  BY <2>1, WFMin
<1>2. \A y \in S : <<y, x>> \in R <=> y < x
  <2>1. \A y, z \in Nat : <<y, z>> \in R <=> y < z  BY Zenon DEF OpToRel
  <2> HIDE DEF R
  <2> QED  BY <2>1
<1>3. \A y \in S : x <= y
  <2> TAKE y \in S
  <2>1. ~(y < x) /\ x \in Nat /\ y \in Nat  BY <1>1, <1>2
  <2> QED  BY <2>1
<1> QED  BY <1>3 DEF Min

LEMMA CommasFinite ==
    ASSUME NEW line \in Strings
    PROVE  /\ IsFiniteSet(Commas(line)) /\ Commas(line) \in SUBSET (1..Len(line))
           /\ Cardinality(Commas(line)) \in Nat
<1>1. IsFiniteSet(1..Len(line))  BY FS_Interval DEF Strings
<1>2. Commas(line) \in SUBSET (1..Len(line))  BY DEF Commas
<1> QED  BY <1>1, <1>2, FS_Subset, FS_CardinalityType

(* A part of a line is a string. *)
LEMMA PartOfLine ==
    ASSUME NEW line \in Strings, NEW from \in Nat \ {0}, NEW to \in Int,
           to <= Len(line)
    PROVE  /\ SubSeq(line, from, to) \in Strings
           /\ Len(SubSeq(line, from, to)) = IF from <= to THEN to - from + 1 ELSE 0
<1>1. \A k \in from..to : line[k] \in Chars  BY DEF Strings
<1>2. from \in Int  OBVIOUS
<1> QED  BY <1>1, <1>2, SubSeqProperties DEF Strings

LEMMA ReverseTwice ==
    ASSUME NEW t \in Strings
    PROVE  /\ Reverse(t) \in Strings /\ Len(Reverse(t)) = Len(t)
           /\ Reverse(Reverse(t)) = t
<1> DEFINE r == Reverse(t)
           u == Reverse(r)
<1>1. r = [k \in 1..Len(t) |-> t[Len(t) - k + 1]] /\ Len(t) \in Nat
  BY DEF Reverse, Strings
<1>2. u = [k \in 1..Len(r) |-> r[Len(r) - k + 1]]  BY DEF Reverse
<1> HIDE DEF r, u
<1>3. r \in [1..Len(t) -> Chars] /\ DOMAIN r = 1..Len(t)  BY <1>1 DEF Strings
<1>4. r \in Strings /\ Len(r) = Len(t)  BY <1>1, <1>3 DEF Strings
<1>5. DOMAIN u = 1..Len(t) /\ \A k \in 1..Len(t) : u[k] = t[k]
  BY <1>1, <1>2, <1>4
<1>6. u \in [1..Len(t) -> Chars]  BY <1>1, <1>2, <1>5 DEF Strings
<1>7. u \in Strings /\ Len(u) = Len(t)  BY <1>1, <1>5, <1>6 DEF Strings
<1>8. u = t  BY <1>5, <1>7, SeqEqual DEF Strings
<1> QED  BY <1>4, <1>8 DEF r, u

(* total_lines is not too small, and right if the last line is not terminated. *)
LEMMA EnoughLines ==
    ASSUME file \in Files, newline \in BOOLEAN
    PROVE  /\ TotalLines \in Nat /\ TotalLines >= Len(file) /\ Len(file) \in Nat
           /\ ~newline /\ file # <<>> => TotalLines = Len(file)
<1>1. Len(file) \in Nat  BY FilesAssumption
<1>2. CASE newline  BY <1>1, <1>2 DEF TotalLines
<1>3. CASE ~newline
  <2> DEFINE S == {1, Len(file)}
  <2>1. \E x \in S : \A y \in S : x >= y
    <3>1. CASE Len(file) <= 1  BY <1>1, <3>1
    <3>2. CASE Len(file) > 1  BY <1>1, <3>2
    <3> QED  BY <1>1, <3>1, <3>2
  <2>2. Max(S) \in S /\ \A y \in S : Max(S) >= y
    <3> HIDE DEF S
    <3> QED  BY <2>1 DEF Max
  <2>3. file # <<>> => Len(file) >= 1  BY FilesAssumption
  <2> QED  BY <1>1, <1>3, <2>2, <2>3 DEF TotalLines
<1> QED  BY <1>2, <1>3

LEMMA LineRead ==
    ASSUME file \in Files, NEW row \in Nat \ {0}
    PROVE  GetLine(row) \in Strings
<1>1. file \in Seq(Seq(Chars))  BY FilesAssumption
<1>2. file # <<>> => Last(file) \in Seq(Chars)  BY <1>1 DEF Last
<1> QED  BY <1>1, <1>2 DEF GetLine, Strings

(* The columns of a line with a comma are strings. *)
LEMMA ColumnTypes ==
    ASSUME NEW line \in Strings, Commas(line) # {}
    PROVE  /\ FirstField(line) \in Strings
           /\ Cardinality(Commas(line)) = 1 => LastField(line) \in Strings
           /\ Cardinality(Commas(line)) > 1 => MiddleField(line, 2) \in Strings
<1> DEFINE C == Commas(line)
           k == Min(C)
<1>1. C \in SUBSET (1..Len(line)) /\ IsFiniteSet(C) /\ Len(line) \in Nat
      /\ Cardinality(C) \in Nat
  BY CommasFinite DEF Strings
<1>2. k \in C /\ \A m \in C : k <= m
  <2>1. C \in SUBSET Nat  BY <1>1
  <2> QED  BY <2>1, FirstPosition
<1>3. k \in Nat /\ k >= 1 /\ k <= Len(line)  BY <1>1, <1>2
<1>4. FirstField(line) \in Strings
  BY <1>3, PartOfLine DEF FirstField
<1>5. ASSUME Cardinality(C) = 1 PROVE LastField(line) \in Strings
  <2>1. PICK c : C = {c}  BY <1>1, <1>5, FS_Singleton
  <2>2. C = {k}  BY <1>2, <2>1
  <2>3. Max({k}) = k  BY <1>3 DEF Max
  <2>4. SubSeq(line, k + 1, Len(line)) \in Strings  BY <1>1, <1>3, PartOfLine
  <2> HIDE DEF C
  <2>5. LastField(line) = Reverse(SubSeq(line, k + 1, Len(line)))
    BY <2>2, <2>3 DEF LastField, C
  <2> QED  BY <2>4, <2>5, ReverseTwice
<1>6. ASSUME Cardinality(C) > 1 PROVE MiddleField(line, 2) \in Strings
  <2> DEFINE from == CHOOSE c \in C : Cardinality({m \in C : m < c}) = 2 - 2
             after == {m \in C : m > from}
             to == Min(after)
  <2>1. from \in C /\ Cardinality({m \in C : m < from}) = 0
    <3>1. {m \in C : m < k} = {}
      <4> SUFFICES ASSUME NEW m \in C, m < k PROVE FALSE  OBVIOUS
      <4>1. m \in Nat /\ k <= m  BY <1>1, <1>2
      <4> QED  BY <1>3, <4>1
    <3>2. Cardinality({m \in C : m < k}) = 2 - 2  BY <3>1, FS_EmptySet
    <3> HIDE DEF C, k
    <3> QED  BY <1>2, <3>2
  <2> HIDE DEF from
  <2>2. {m \in C : m < from} = {}
    <3>1. {m \in C : m < from} \in SUBSET C  OBVIOUS
    <3> QED  BY <1>1, <2>1, <3>1, FS_Subset, FS_EmptySet
  <2>3. after # {}
    <3> SUFFICES ASSUME after = {} PROVE FALSE  OBVIOUS
    <3>1. C = {from}
      <4>1. ASSUME NEW m \in C PROVE m = from
        <5>1. m \in Nat /\ from \in Nat /\ ~(m < from) /\ ~(m > from)
          BY <1>1, <2>1, <2>2
        <5> QED  BY <5>1
      <4> QED  BY <2>1, <4>1
    <3> HIDE DEF C, after
    <3>2. Cardinality(C) = 1  BY <3>1, FS_Singleton
    <3> QED  BY <1>6, <3>2
  <2>4. after \in SUBSET Nat  BY <1>1
  <2>5. to \in after  BY <2>3, <2>4, FirstPosition
  <2>6. to \in Nat /\ to <= Len(line) /\ from \in Nat /\ from >= 1  BY <1>1, <2>1, <2>5
  <2> HIDE DEF after, to
  <2>7. SubSeq(line, from + 1, to - 1) \in Strings  BY <1>1, <2>6, PartOfLine
  <2> QED  BY <2>7 DEF MiddleField, from, after, to
<1> QED  BY <1>4, <1>5, <1>6

(* What get_value does with the first two columns. *)
LEMMA GetValueEnds ==
    ASSUME file \in Files, newline \in BOOLEAN, NEW row \in Nat \ {0}
    PROVE  LET line == GetLine(row)
               first == GetValue(row, 1)
               second == GetValue(row, 2)
           IN  /\ first.ends \in {"return", "exit", "undefined"}
               /\ second.ends \in {"return", "exit", "undefined"}
               /\ first.ends = "return" => first.value \in Strings
               /\ second.ends = "return" => second.value \in Strings
               /\ first.ends = "return" /\ second.ends = "return" =>
                    Commas(line) # {} /\ row <= TotalLines
               /\ row <= Len(file) /\ TwoColumns(line) =>
                    /\ first.ends = "return" /\ first.value = FirstField(line)
                    /\ second.ends = "return" /\ second.value = LastField(line)
<1> DEFINE line == GetLine(row)
           first == GetValue(row, 1)
           second == GetValue(row, 2)
           n == Cardinality(Commas(line))
<1>1. /\ line \in Strings /\ n \in Nat /\ NumFields(line) = n + 1
      /\ TotalLines \in Nat /\ TotalLines >= Len(file) /\ Len(file) \in Nat
  BY LineRead, CommasFinite, EnoughLines DEF NumFields
<1>2. n = 0 <=> Commas(line) = {}
  BY <1>1, CommasFinite, FS_EmptySet
<1> HIDE DEF line, n
<1>3. \/ first = Ends("exit") /\ row > TotalLines
      \/ first = Ends("undefined") /\ Commas(line) = {}
      \/ first = Value(FirstField(line)) /\ Commas(line) # {} /\ row <= TotalLines
  <2>1. CASE row > TotalLines  BY <1>1, <2>1 DEF GetValue, line
  <2>2. CASE row <= TotalLines /\ Commas(line) = {}
    BY <1>1, <2>2 DEF GetValue, line
  <2>3. CASE row <= TotalLines /\ Commas(line) # {}
    BY <1>1, <2>3 DEF GetValue, line
  <2> QED  BY <1>1, <2>1, <2>2, <2>3
<1>4. \/ second = Ends("exit") /\ (row > TotalLines \/ n = 0)
      \/ second = Value(LastField(line)) /\ n = 1
      \/ second = Value(MiddleField(line, 2)) /\ n > 1
  <2>1. CASE row > TotalLines \/ n = 0  BY <1>1, <2>1 DEF GetValue, line
  <2>2. CASE row <= TotalLines /\ n = 1
    BY <1>1, <1>2, <2>2 DEF GetValue, line
  <2>3. CASE row <= TotalLines /\ n > 1
    BY <1>1, <1>2, <2>3 DEF GetValue, line
  <2> QED  BY <1>1, <2>1, <2>2, <2>3
<1> HIDE DEF first, second
<1>5. first.ends = "return" => first.value \in Strings
  BY <1>1, <1>3, ColumnTypes DEF Ends, Value
<1>6. second.ends = "return" => second.value \in Strings
  BY <1>1, <1>2, <1>4, ColumnTypes DEF Ends, Value, n
<1>7. first.ends = "return" => Commas(line) # {} /\ row <= TotalLines
  BY <1>3 DEF Ends, Value
<1>8. row <= Len(file) /\ TwoColumns(line) =>
        /\ first.ends = "return" /\ first.value = FirstField(line)
        /\ second.ends = "return" /\ second.value = LastField(line)
  BY <1>1, <1>2, <1>3, <1>4 DEF TwoColumns, Ends, Value, n
<1>9. /\ first.ends \in {"return", "exit", "undefined"}
      /\ second.ends \in {"return", "exit", "undefined"}
  BY <1>3, <1>4 DEF Ends, Value
<1> QED  BY <1>5, <1>6, <1>7, <1>8, <1>9 DEF line, first, second

-----------------------------------------------------------------------------
(* The inductive invariant of the loops. *)

(* What csv_parser returns for a line of two columns, and what the second  *)
(* loop makes of it.                                                       *)
AsRead(line) == <<FirstField(line), LastField(line)>>
AsConverted(line) == <<FirstField(line), Reverse(LastField(line))>>

LoopInv ==
    /\ file \in Files /\ newline \in BOOLEAN /\ num \in Nat
    /\ dataString \in Seq(Strings \X Strings)
    /\ data \in Seq(Strings \X Strings)
    /\ TypeOK

(* Whether the second loop has not come to entry k of data_string_train. *)
Untouched(k) == stage = "read" \/ (stage = "convert" /\ k >= i)

ColumnsInv ==
    (\A k \in 1..Len(file) : TwoColumns(file[k])) =>
        /\ Len(dataString) <= Len(file) /\ Len(data) <= Len(file)
        /\ \A k \in 1..Len(dataString) :
             Untouched(k) => dataString[k] = AsRead(file[k])
        /\ \A k \in 1..Len(data) : data[k] = AsConverted(file[k])

LInv == LoopInv /\ ColumnsInv /\ LegalFileLoads

LEMMA InitLInv == Init => LInv
<1> SUFFICES ASSUME Init PROVE LInv  OBVIOUS
<1>1. num \in Nat  BY NumAssumption DEF Init
<1>2. LoopInv  BY <1>1 DEF Init, LoopInv, TypeOK
<1>3. Len(file) \in Nat  BY FilesAssumption DEF Init
<1>4. ColumnsInv  BY <1>3 DEF Init, ColumnsInv
<1>5. LegalFileLoads  BY DEF Init, LegalFileLoads
<1> QED  BY <1>2, <1>4, <1>5 DEF LInv

(* A line with a comma that get_value accepts is a line of the file. *)
LEMMA RowInFile ==
    ASSUME file \in Files, newline \in BOOLEAN, NEW row \in Nat \ {0},
           Commas(GetLine(row)) # {}, row <= TotalLines
    PROVE  row <= Len(file) /\ GetLine(row) = file[row]
<1>1. Len(file) \in Nat  BY FilesAssumption
<1>2. Commas(<<>>) = {}  BY DEF Commas
<1>3. CASE newline \/ file = <<>>  BY <1>1, <1>2, <1>3 DEF GetLine
<1>4. CASE ~newline /\ file # <<>>  BY <1>1, <1>4, EnoughLines DEF GetLine
<1> QED  BY <1>3, <1>4

LEMMA ReadExampleStep == LInv /\ ReadExample => LInv'
<1> SUFFICES ASSUME LInv, ReadExample PROVE LInv'  OBVIOUS
<1> USE DEF LInv, LoopInv
<1> DEFINE first == GetValue(i, 1)
           second == GetValue(i, 2)
           line == GetLine(i)
           back == first.ends = "return" /\ second.ends = "return"
<1>1. /\ stage = "read" /\ i <= num /\ UNCHANGED <<file, newline, num, data>>
      /\ back => /\ dataString' = Append(dataString, <<first.value, second.value>>)
                 /\ i' = i + 1 /\ stage' = "read"
      /\ ~back => /\ stage' \in {first.ends, second.ends} \ {"return"}
                  /\ UNCHANGED <<dataString, i>>
  BY DEF ReadExample
<1>2. /\ i \in Nat \ {0} /\ i \in 1..(num + 1)
      /\ Len(dataString) = i - 1 /\ data = <<>> /\ Len(file) \in Nat
  BY <1>1, FilesAssumption DEF TypeOK
<1>3. /\ first.ends \in {"return", "exit", "undefined"}
      /\ second.ends \in {"return", "exit", "undefined"}
      /\ first.ends = "return" => first.value \in Strings
      /\ second.ends = "return" => second.value \in Strings
      /\ back => Commas(line) # {} /\ i <= TotalLines
      /\ i <= Len(file) /\ TwoColumns(line) =>
           /\ first.ends = "return" /\ first.value = FirstField(line)
           /\ second.ends = "return" /\ second.value = LastField(line)
  BY <1>2, GetValueEnds
<1>4. back => i <= Len(file) /\ line = file[i]
  BY <1>2, <1>3, RowInFile
<1>5. i <= Len(file) => line = file[i]  BY DEF GetLine
<1> HIDE DEF first, second, line, back
<1> DEFINE p == <<first.value, second.value>>
<1>6. CASE back
  <2>1. p \in Strings \X Strings  BY <1>3, <1>6 DEF back
  <2>2. dataString' = Append(dataString, p)  BY <1>1, <1>6
  <2> HIDE DEF p
  <2>3. /\ dataString' \in Seq(Strings \X Strings)
        /\ Len(dataString') = i /\ dataString'[i] = p
        /\ \A k \in 1..(i - 1) : dataString'[k] = dataString[k]
    BY <1>2, <2>1, <2>2
  <2>4. TypeOK'  BY <1>1, <1>2, <1>6, <2>3 DEF TypeOK
  <2>5. ColumnsInv'
    <3> SUFFICES ASSUME \A k \in 1..Len(file) : TwoColumns(file[k])
                 PROVE  /\ Len(dataString') <= Len(file) /\ Len(data') <= Len(file)
                        /\ \A k \in 1..Len(dataString') : dataString'[k] = AsRead(file[k])
                        /\ \A k \in 1..Len(data') : data'[k] = AsConverted(file[k])
      BY <1>1, <1>6 DEF ColumnsInv, Untouched, TwoColumns, Commas, AsRead,
                        AsConverted, FirstField, LastField
    <3>1. i <= Len(file) /\ line = file[i] /\ TwoColumns(line)
      BY <1>2, <1>4, <1>6
    <3>2. p = AsRead(file[i])  BY <1>3, <3>1 DEF AsRead, p
    <3>3. \A k \in 1..(i - 1) : dataString[k] = AsRead(file[k])
      BY <1>1, <1>2 DEF ColumnsInv, Untouched
    <3>4. \A k \in 1..i : k = i \/ k \in 1..(i - 1)  BY <1>2
    <3> QED  BY <1>1, <1>2, <2>3, <3>1, <3>2, <3>3, <3>4
  <2>6. LegalFileLoads'  BY <1>1, <1>6 DEF LegalFileLoads
  <2> QED  BY <1>1, <2>3, <2>4, <2>5, <2>6
<1>7. CASE ~back
  <2>1. /\ stage' \in {"exit", "undefined"} /\ UNCHANGED <<dataString, i>>
    BY <1>1, <1>3, <1>7
  <2>2. TypeOK'  BY <1>1, <1>2, <2>1 DEF TypeOK
  <2>3. ColumnsInv'
    BY <1>1, <2>1 DEF ColumnsInv, Untouched, TwoColumns, Commas, AsRead,
                      AsConverted, FirstField, LastField
  <2>4. LegalFileLoads'
    <3> SUFFICES ASSUME Legal PROVE FALSE
      BY <1>1 DEF LegalFileLoads, Legal, TwoColumns, Commas
    <3>1. i <= Len(file) /\ i \in 1..Len(file)  BY <1>1, <1>2 DEF Legal
    <3>2. TwoColumns(line)  BY <1>5, <3>1 DEF Legal
    <3> QED  BY <1>3, <1>7, <3>1, <3>2 DEF back
  <2> QED  BY <1>1, <2>1, <2>2, <2>3, <2>4
<1> QED  BY <1>6, <1>7

(* Two columns have one comma, and the columns are what is around it. *)
LEMMA OneComma ==
    ASSUME NEW line \in Strings, TwoColumns(line)
    PROVE  \E k \in 1..Len(line) :
             /\ line[k] = Comma
             /\ FirstField(line) = SubSeq(line, 1, k - 1)
             /\ LastField(line) = Reverse(SubSeq(line, k + 1, Len(line)))
<1>1. PICK k : Commas(line) = {k}
  BY CommasFinite, FS_Singleton DEF TwoColumns
<1>2. k \in 1..Len(line) /\ line[k] = Comma /\ k \in Nat
  BY <1>1 DEF Commas, Strings
<1>3. Min({k}) = k /\ Max({k}) = k  BY <1>2 DEF Min, Max
<1> QED  BY <1>1, <1>2, <1>3 DEF FirstField, LastField

(* A line of two columns with something in both. *)
LEMMA ColumnsNotEmpty ==
    ASSUME NEW line \in Strings, TwoColumns(line),
           line[1] # Comma, Last(line) # Comma
    PROVE  FirstField(line) # <<>> /\ Reverse(LastField(line)) # <<>>
<1>1. PICK k \in 1..Len(line) :
        /\ line[k] = Comma
        /\ FirstField(line) = SubSeq(line, 1, k - 1)
        /\ LastField(line) = Reverse(SubSeq(line, k + 1, Len(line)))
  BY OneComma
<1>2. Len(line) \in Nat /\ 1 < k /\ k < Len(line)  BY <1>1 DEF Strings, Last
<1>3. Len(FirstField(line)) = k - 1  BY <1>1, <1>2, PartOfLine
<1>4. /\ SubSeq(line, k + 1, Len(line)) \in Strings
      /\ Len(SubSeq(line, k + 1, Len(line))) = Len(line) - k
  BY <1>2, PartOfLine
<1>5. Reverse(LastField(line)) = SubSeq(line, k + 1, Len(line))
  BY <1>1, <1>4, ReverseTwice
<1>6. Len(FirstField(line)) # 0 /\ Len(Reverse(LastField(line))) # 0
  BY <1>2, <1>3, <1>4, <1>5
<1>7. Len(<<>>) = 0  OBVIOUS
<1> QED  BY <1>6, <1>7

LEMMA ConvertStep == LInv /\ Convert => LInv'
<1> SUFFICES ASSUME LInv, Convert PROVE LInv'  OBVIOUS
<1> USE DEF LInv, LoopInv
<1> DEFINE p == <<dataString[i][1], Reverse(dataString[i][2])>>
           full == p[1] # <<>> /\ p[2] # <<>>
<1>1. /\ stage = "convert" /\ i <= num /\ UNCHANGED <<file, newline, num>>
      /\ dataString' = [dataString EXCEPT ![i] = p]
      /\ full => data' = Append(data, p) /\ i' = i + 1 /\ stage' = "convert"
      /\ ~full => stage' = "undefined" /\ UNCHANGED <<data, i>>
  BY DEF Convert
<1>2. /\ i \in Nat \ {0} /\ i \in 1..(num + 1)
      /\ Len(dataString) = num /\ Len(data) = i - 1 /\ Len(file) \in Nat
  BY <1>1, FilesAssumption DEF TypeOK
<1>3. p \in Strings \X Strings
  <2>1. i \in 1..Len(dataString)  BY <1>1, <1>2
  <2>2. dataString[i] \in Strings \X Strings  BY <2>1
  <2> QED  BY <2>2, ReverseTwice
<1>4. (\A k \in 1..Len(file) : TwoColumns(file[k])) =>
         i \in 1..Len(file) /\ p = AsConverted(file[i])
  <2> SUFFICES ASSUME \A k \in 1..Len(file) : TwoColumns(file[k])
               PROVE  i \in 1..Len(file) /\ p = AsConverted(file[i])
    OBVIOUS
  <2>1. i \in 1..Len(dataString) /\ Len(dataString) <= Len(file) /\ i \in 1..Len(file)
    BY <1>1, <1>2 DEF ColumnsInv
  <2>2. dataString[i] = AsRead(file[i])
    BY <1>1, <1>2, <2>1 DEF ColumnsInv, Untouched
  <2> QED  BY <2>1, <2>2 DEF AsRead, AsConverted
<1> HIDE DEF p, full
<1>5. /\ dataString' \in Seq(Strings \X Strings)
      /\ Len(dataString') = num
      /\ \A k \in 1..num : k # i => dataString'[k] = dataString[k]
  <2>1. i \in 1..Len(dataString)  BY <1>1, <1>2
  <2>2. dataString \in Seq(Strings \X Strings)  OBVIOUS
  <2> HIDE DEF LInv
  <2> QED  BY <1>1, <1>2, <1>3, <2>1, <2>2, ExceptSeq
<1>6. CASE full
  <2>1. /\ data' \in Seq(Strings \X Strings) /\ Len(data') = i /\ data'[i] = p
        /\ \A k \in 1..(i - 1) : data'[k] = data[k]
    <3>1. data \in Seq(Strings \X Strings) /\ data' = Append(data, p)  BY <1>1, <1>6
    <3> HIDE DEF LInv
    <3> QED  BY <1>2, <1>3, <3>1
  <2>2. TypeOK'  BY <1>1, <1>2, <1>5, <1>6, <2>1 DEF TypeOK
  <2>3. ColumnsInv'
    <3> SUFFICES ASSUME \A k \in 1..Len(file) : TwoColumns(file[k])
                 PROVE  /\ Len(dataString') <= Len(file) /\ Len(data') <= Len(file)
                        /\ \A k \in 1..Len(dataString') :
                             k >= i + 1 => dataString'[k] = AsRead(file[k])
                        /\ \A k \in 1..Len(data') : data'[k] = AsConverted(file[k])
      BY <1>1, <1>6 DEF ColumnsInv, Untouched, TwoColumns, Commas, AsRead,
                        AsConverted, FirstField, LastField
    <3>1. Len(dataString') <= Len(file)  BY <1>2, <1>5 DEF ColumnsInv
    <3>2. \A k \in 1..num : k >= i + 1 => dataString'[k] = AsRead(file[k])
      BY <1>1, <1>2, <1>5 DEF ColumnsInv, Untouched
    <3>3. \A k \in 1..i : data'[k] = AsConverted(file[k])
      BY <1>2, <1>4, <2>1 DEF ColumnsInv
    <3>4. i <= Len(file)  BY <1>4
    <3> QED  BY <1>5, <2>1, <3>1, <3>2, <3>3, <3>4
  <2>4. LegalFileLoads'  BY <1>1, <1>6 DEF LegalFileLoads
  <2> QED  BY <1>1, <1>5, <2>1, <2>2, <2>3, <2>4
<1>7. CASE ~full
  <2>1. stage' = "undefined" /\ UNCHANGED <<data, i>>  BY <1>1, <1>7
  <2>2. TypeOK'  BY <1>1, <1>2, <2>1 DEF TypeOK
  <2>3. ColumnsInv'
    BY <1>1, <1>2, <1>5, <2>1
       DEF ColumnsInv, Untouched, TwoColumns, Commas, AsRead, AsConverted,
           FirstField, LastField
  <2>4. LegalFileLoads'
    <3> SUFFICES ASSUME Legal PROVE FALSE
      BY <1>1 DEF LegalFileLoads, Legal, TwoColumns, Commas
    <3>1. i \in 1..Len(file) /\ p = AsConverted(file[i])  BY <1>4 DEF Legal
    <3>2. /\ file[i] \in Strings /\ TwoColumns(file[i])
          /\ file[i][1] # Comma /\ Last(file[i]) # Comma
      BY <1>1, <1>2, <3>1, FilesAssumption DEF Legal, Strings
    <3> QED  BY <1>7, <3>1, <3>2, ColumnsNotEmpty DEF full, AsConverted
  <2> QED  BY <1>1, <1>5, <2>1, <2>2, <2>3, <2>4
<1> QED  BY <1>6, <1>7

(* Between the loops nothing is read or converted. *)
LEMMA LoopStep == LInv /\ (StartConvert \/ EndConvert \/ UNCHANGED vars) => LInv'
<1> SUFFICES ASSUME LInv, StartConvert \/ EndConvert \/ UNCHANGED vars PROVE LInv'
  OBVIOUS
<1> USE DEF LInv, LoopInv
<1>1. UNCHANGED <<file, newline, num, dataString, data>>
  BY DEF StartConvert, EndConvert, vars
<1>2. LoopInv'
  <2>1. TypeOK'  BY <1>1 DEF StartConvert, EndConvert, vars, TypeOK
  <2> QED  BY <1>1, <2>1
<1>3. ColumnsInv'
  <2>1. \A k : Untouched(k)' /\ k \in 1..Len(dataString) => Untouched(k)
    BY DEF Untouched, StartConvert, EndConvert, vars
  <2> QED  BY <1>1, <2>1 DEF ColumnsInv, TwoColumns, Commas, AsRead, AsConverted,
                             FirstField, LastField
<1>4. LegalFileLoads'
  <2>1. stage' \in {"exit", "undefined"} => stage \in {"exit", "undefined"}
    BY DEF StartConvert, EndConvert, vars
  <2> QED  BY <1>1, <2>1 DEF LegalFileLoads, Legal, TwoColumns, Commas
<1> QED  BY <1>2, <1>3, <1>4

LEMMA NextLInv == LInv /\ [Next]_vars => LInv'
BY ReadExampleStep, ConvertStep, LoopStep DEF Next

LEMMA LInvHolds == Spec => []LInv
BY InitLInv, NextLInv, PTL DEF Spec

-----------------------------------------------------------------------------
(* The counters of the two loops say how many examples are read and         *)
(* converted; when main() goes on it has all it was asked for.              *)
THEOREM LoadingTypeCorrect == Spec => []TypeOK
<1>1. LInv => TypeOK  BY DEF LInv, LoopInv
<1> QED  BY <1>1, LInvHolds, PTL

(* get_value and main() reverse the second column twice: the chains spell   *)
(* both columns of their row from left to right.                            *)
THEOREM SpelledForwardCorrect == Spec => []SpelledForward
<1>1. ASSUME LInv, \A k \in 1..Len(file) : TwoColumns(file[k]),
             NEW n \in 1..Len(data)
      PROVE  data[n] \in Pairs(file[n])
  <2>1. n \in 1..Len(file) /\ file[n] \in Strings
    BY <1>1, FilesAssumption DEF LInv, LoopInv, ColumnsInv, Strings
  <2> DEFINE line == file[n]
  <2>2. PICK k \in 1..Len(line) :
          /\ line[k] = Comma
          /\ FirstField(line) = SubSeq(line, 1, k - 1)
          /\ LastField(line) = Reverse(SubSeq(line, k + 1, Len(line)))
    BY <1>1, <2>1, OneComma
  <2> DEFINE u == SubSeq(line, 1, k - 1)
             v == SubSeq(line, k + 1, Len(line))
  <2>3. Len(line) \in Nat /\ k \in Nat /\ line \in Seq(Chars)  BY <2>1 DEF Strings
  <2>4. v \in Strings  BY <2>1, <2>3, PartOfLine
  <2>5. data[n] = <<u, v>>
    <3>1. data[n] = AsConverted(line)  BY <1>1 DEF LInv, ColumnsInv
    <3>2. Reverse(LastField(line)) = v  BY <2>2, <2>4, ReverseTwice
    <3> QED  BY <2>2, <3>1, <3>2 DEF AsConverted
  <2>6. (u \o <<Comma>>) \o v = line
    <3>1. SubSeq(line, 1, k) = u \o <<line[k]>>
      BY <2>3, SubSeqRecursiveSecond
    <3>2. SubSeq(line, 1, k) \o v = SubSeq(line, 1, Len(line))
      BY <2>3, ConcatAdjacentSubSeq
    <3>3. SubSeq(line, 1, Len(line)) = line  BY <2>3, SubSeqFull
    <3> QED  BY <2>2, <3>1, <3>2, <3>3
  <2>7. \E m \in 1..Len(line) :
          <<u, v>> = <<SubSeq(line, 1, m - 1), SubSeq(line, m + 1, Len(line))>>
    OBVIOUS
  <2> HIDE DEF u, v
  <2>8. <<u, v>>[1] = u /\ <<u, v>>[2] = v  OBVIOUS
  <2> QED  BY <2>5, <2>6, <2>7, <2>8 DEF Pairs
<1>2. LInv => SpelledForward  BY <1>1 DEF SpelledForward
<1> QED  BY <1>2, LInvHolds, PTL

(* A file of two filled columns with as many rows as are asked for is read  *)
(* and converted without an error.                                          *)
THEOREM LegalFilesLoad == Spec => []LegalFileLoads
<1>1. LInv => LegalFileLoads  BY DEF LInv
<1> QED  BY <1>1, LInvHolds, PTL

=============================================================================
