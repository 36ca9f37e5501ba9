--------------------------- MODULE MCDataLoading ---------------------------
\* Files of up to three lines for DataLoading: longer and shorter columns, a
\* palindrome and a column that is not one, empty columns, a line without a
\* comma and one with two.
EXTENDS DataLoading

CONSTANTS a, b, comma, sharp    \* characters

MCLines == {<<a, b, sharp, comma, b, a, a>>, <<a, comma, b>>, <<b, b, comma, a, b>>,
            <<sharp, comma>>, <<a, b>>, <<a, comma, a, b, comma, b>>, <<>>}

MCFiles == UNION {[1..n -> MCLines] : n \in 0..3}
=============================================================================
