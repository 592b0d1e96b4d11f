------------------------------- MODULE Timestamps -------------------------------
(***************************************************************************)
(* Times in the database (server.go now, saveReceipt, createInvitation,    *)
(* updateRun): text in RFC3339Nano, which drops the trailing zeros of the  *)
(* fraction and a fraction of zero altogether.  SQL and reportRows compare *)
(* the texts.                                                              *)
(*                                                                         *)
(* Data abstraction: what stands before the fraction has a fixed width; it *)
(* is the number of the second here, in Width digits.  A fraction is its   *)
(* Places digits.                                                          *)
(***************************************************************************)
EXTENDS Integers, Sequences

CONSTANTS
  Base,        \* of the digits
  Width,       \* digits before the fraction
  Places,      \* digits of the fraction
  LastSecond   \* the last second that can be written

\* What is left of n without its last i digits.
Shifted(n) ==
  LET q[i \in 0..Width] == IF i = 0 THEN n ELSE q[i - 1] \div Base IN q

ASSUME TimestampAssumption ==
  /\ Base \in Nat \ {0} /\ Width \in Nat /\ Places \in Nat /\ LastSecond \in Nat
  /\ Shifted(LastSecond)[Width] = 0

Seconds == 0..LastSecond
Fractions == [1..Places -> 0..(Base - 1)]

\* The order of the characters in ASCII: the point, the digits, "Z".
Point == -1
Zulu == Base

Digits(n) == [i \in 1..Width |-> Shifted(n)[Width - i] % Base]

\* Format(time.RFC3339Nano): the fraction of a second without its trailing zeros.
Fraction(f) ==
  LET kept == {i \in 1..Places : f[i] # 0}
  IN  IF kept = {} THEN <<>>
      ELSE <<Point>> \o SubSeq(f, 1, CHOOSE i \in kept : \A j \in kept : j <= i)

\* Mutation: local time; the clocks go back by a second before second 2.
LocalStamp(second, f) ==
  Digits(IF second < 2 THEN second ELSE second - 1) \o Fraction(f) \o <<Zulu>>

\* now: UTC().Format(time.RFC3339Nano).
Stamp(second, f) == Digits(second) \o Fraction(f) \o <<Zulu>>

\* The order of texts, character by character.
AtMost(s, t) ==
  \/ s = t
  \/ \E k \in DOMAIN s \cap DOMAIN t : s[k] < t[k] /\ \A j \in 1..(k - 1) : s[j] = t[j]
  \/ Len(s) < Len(t) /\ \A j \in DOMAIN s : s[j] = t[j]

\* expires_at <= now in SQL, at any fractions of two seconds.
TextOrder ==
  [x \in Seconds \X Seconds |->
     {AtMost(Stamp(x[1], f[1]), Stamp(x[2], f[2])) : f \in Fractions \X Fractions}]
=============================================================================
