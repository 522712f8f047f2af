---------------------------- MODULE ConditionFormat ----------------------------
(***************************************************************************)
(* Condition strings of go/main.go: "is_dirty=true,is_overweight=false,    *)
(* is_broken=true".  A string is the sequence of the pieces the code tells *)
(* apart; Other stands for text that begins none of them.                  *)
(***************************************************************************)
EXTENDS Naturals, Sequences, FiniteSets

Keys   == <<"is_dirty=", "is_overweight=", "is_broken=">>
Values == {"true", "false"}
Comma  == ","
Other  == "?"

Key   == {Keys[k] : k \in 1 .. 3}
Piece == Key \cup Values \cup {Comma, Other}

(* The strings the code is written for. *)
Condition   == [1 .. 3 -> BOOLEAN]
Value(b)    == IF b THEN "true" ELSE "false"
Rendered(c) == <<Keys[1], Value(c[1]), Comma, Keys[2], Value(c[2]), Comma,
                 Keys[3], Value(c[3])>>

-----------------------------------------------------------------------------
(* isValidConditionFormat.  Its loop over the keys takes three pieces per  *)
(* key and returns false at the first that is not there.  It indexes the   *)
(* string for the comma without looking whether the string has ended.      *)
HasPrefix(s, i, piece) == i \in DOMAIN s /\ s[i] = piece

PairAt(s, k)  == /\ HasPrefix(s, 3 * k - 2, Keys[k])
                 /\ \E v \in Values : HasPrefix(s, 3 * k - 1, v)
CommaAt(s, k) == HasPrefix(s, 3 * k, Comma)
Reaches(s, k) == \A j \in 1 .. 3 : j < k => PairAt(s, j) /\ CommaAt(s, j)

OutOfRange(s) == \E k \in 1 .. 2 : Reaches(s, k) /\ PairAt(s, k) /\ Len(s) = 3 * k - 1

(* a plausible mistake: the end of the string is not looked at             *)
isValidConditionFormat_Prefix(s) == Reaches(s, 3) /\ PairAt(s, 3)
isValidConditionFormat(s) == Reaches(s, 3) /\ PairAt(s, 3) /\ Len(s) = 8

-----------------------------------------------------------------------------
(* calculateConditionLevel counts "=true"; an error for more than three.   *)
WarnCount(s) ==
  Cardinality({i \in 2 .. Len(s) : s[i - 1] \in Key /\ s[i] = "true"})

calculateConditionLevel(s) ==
  CASE WarnCount(s) = 0        -> "info"
    [] WarnCount(s) \in {1, 2} -> "warning"
    [] WarnCount(s) = 3        -> "critical"
    [] OTHER                   -> "error"
=============================================================================
