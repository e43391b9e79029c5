------------------------------- MODULE TextDiff --------------------------------
(* The line diff of the rule engine package: a longest common subsequence by     *)
(* dynamic programming, traced back into a table of matched lines, and a walk    *)
(* over both texts that turns the table into rows.  A text is a sequence of      *)
(* lines; a row is [status, left, right], left and right the number of the line  *)
(* shown on that side, 0 for the padding the code numbers -1.                    *)
EXTENDS Integers, Sequences, FiniteSets

Larger(x, y) == IF x >= y THEN x ELSE y

(* The lengths dp[i][j] of the longest common subsequences of the prefixes.      *)
LcsLengths(a, b) ==
    LET dp[p \in (0..Len(a)) \X (0..Len(b))] ==
            LET i == p[1]
                j == p[2]
            IN  IF i = 0 \/ j = 0 THEN 0
                ELSE IF a[i] = b[j] THEN dp[<<i - 1, j - 1>>] + 1
                ELSE Larger(dp[<<i - 1, j>>], dp[<<i, j - 1>>])
    IN  dp

(* Faulty: the table is filled one place too far.                                *)
computeLcsOffByOne(a, b) ==
    LET dp == LcsLengths(a, b)
        trace[p \in (0..Len(a)) \X (0..Len(b))] ==
            LET i == p[1]
                j == p[2]
            IN  IF i = 0 \/ j = 0 THEN {}
                ELSE IF a[i] = b[j] THEN {<<i + 1, j + 1>>} \cup trace[<<i - 1, j - 1>>]
                ELSE IF dp[<<i - 1, j>>] >= dp[<<i, j - 1>>] THEN trace[<<i - 1, j>>]
                ELSE trace[<<i, j - 1>>]
    IN  trace[<<Len(a), Len(b)>>]

(* The matched pairs, traced back from the ends.                                 *)
computeLcs(a, b) ==
    LET dp == LcsLengths(a, b)
        trace[p \in (0..Len(a)) \X (0..Len(b))] ==
            LET i == p[1]
                j == p[2]
            IN  IF i = 0 \/ j = 0 THEN {}
                ELSE IF a[i] = b[j] THEN {<<i, j>>} \cup trace[<<i - 1, j - 1>>]
                ELSE IF dp[<<i - 1, j>>] >= dp[<<i, j - 1>>] THEN trace[<<i - 1, j>>]
                ELSE trace[<<i, j - 1>>]
    IN  trace[<<Len(a), Len(b)>>]

(* How many lines away the next line of one side is that is matched with the     *)
(* line the other side stands at; the rest of the side when there is none.       *)
Nearest(distances, none) ==
    IF distances = {} THEN none ELSE CHOOSE d \in distances : \A e \in distances : d <= e

findNextMatchInLeft(li, ri, m, match) ==
    Nearest({ i - li : i \in { k \in li..m : <<k, ri>> \in match } }, m - li + 1)

findNextMatchInRight(li, ri, n, match) ==
    Nearest({ j - ri : j \in { k \in ri..n : <<li, k>> \in match } }, n - ri + 1)

(* The code asks this only where the lines li and ri are not matched, and takes  *)
(* m and n for the distances when the other side has run out.                    *)
PrefersLeft(li, ri, m, n, match) ==
    LET nextMatchLeft == IF ri <= n THEN findNextMatchInLeft(li, ri, m, match) ELSE m
        nextMatchRight == IF li <= m THEN findNextMatchInRight(li, ri, n, match) ELSE n
    IN  nextMatchLeft <= nextMatchRight

(* The rows from the lines li and ri on.                                         *)
buildDiffResult(left, right, match) ==
    LET m == Len(left)
        n == Len(right)
        rows[p \in (1..m + 1) \X (1..n + 1)] ==
            LET li == p[1]
                ri == p[2]
            IN  IF li > m /\ ri > n THEN <<>>
                ELSE IF p \in match
                THEN <<[status |-> "equal", left |-> li, right |-> ri]>> \o rows[<<li + 1, ri + 1>>]
                ELSE IF li <= m /\ (ri > n \/ PrefersLeft(li, ri, m, n, match))
                THEN <<[status |-> "removed", left |-> li, right |-> 0]>> \o rows[<<li + 1, ri>>]
                ELSE <<[status |-> "added", left |-> 0, right |-> ri]>> \o rows[<<li, ri + 1>>]
    IN  rows[<<1, 1>>]

Count(rows, status) == Cardinality({ i \in DOMAIN rows : rows[i].status = status })

diffText(left, right) ==
    LET rows == buildDiffResult(left, right, computeLcs(left, right))
    IN  [rows |-> rows,
         addedCount |-> Count(rows, "added"),
         removedCount |-> Count(rows, "removed"),
         hasChanges |-> Count(rows, "added") > 0 \/ Count(rows, "removed") > 0]
===============================================================================
