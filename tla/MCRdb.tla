------------------------------- MODULE MCRdb -------------------------------
\* Instances of Rdb for TLC, with bytes of sixteen values.
EXTENDS Rdb

\* A number that is read back as another, and a string that fills a file.
TwoValues == {[kind |-> "int", n |-> -1], [kind |-> "raw", n |-> 20]}

\* The limits of every form, and the values next to them.
Near(S) == S \cup {n - 1 : n \in S} \cup {n + 1 : n \in S}
Limits == {0, Byte \div 4, Byte \div 2, Byte, Word \div 2, Word, DWord \div 2, DWord}

NearLimits ==
  [kind : {"int"}, n : Near(Limits \cup {-n : n \in Limits} \cup {DWord + Byte})]
  \cup [kind : {"raw"}, n : Near(Limits \cup {(Byte \div 4) * Byte}) \cap (0 .. DWord - 1)]
=============================================================================
