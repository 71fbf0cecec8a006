-------------------------------- MODULE Dict --------------------------------
(***************************************************************************)
(* A dictionary of dict.c: two hash tables, the entries of the first being *)
(* moved to the second one by one while the dictionary is used.  Every     *)
(* database, list of watched keys and command table of the server is one.  *)
(*                                                                         *)
(* A dictionary is a record, and each function of dict.c an operator from  *)
(* one dictionary to the next, since one call makes several of them in     *)
(* turn.  A chain is the sequence of its entries; what dictType does to    *)
(* keys and values (copies, destructors) is left out.                      *)
(***************************************************************************)
EXTENDS Integers, Sequences, FiniteSets

CONSTANTS
  Keys, Vals, None,
  Hash,               \* hashFunction of the dictType
  DICT_INITIAL_SIZE,  \* 4 in dict.h
  LoadDenominator     \* 1 / DICT_LOAD_RATIO: 5 in dict.h

ASSUME HashAssumption == Hash \in [Keys -> Nat]
ASSUME SizesAssumption == DICT_INITIAL_SIZE \in Nat \ {0} /\ LoadDenominator \in Nat \ {0, 1}
ASSUME NoneIsNoVal == None \notin Vals

VARIABLES
  dict,     \* [ht0, ht1: the tables; rehashidx; dead: it read past a table]
  reply     \* the answer of the last call

vars == <<dict, reply>>

Entry == [key : Keys, val : Vals]

\* calloc of a table of n empty chains; n = 0 is no table.
dictHT(n) == [size |-> n, used |-> 0, table |-> [i \in 0 .. n - 1 |-> <<>>]]

dictIsRehashing(d) == d.rehashidx # -1

\* h & sizemask, the sizes being powers of two.
Index(t, k) == Hash[k] % t.size

Push(t, e) ==
  [t EXCEPT !.used = @ + 1, !.table[Index(t, e.key)] = <<e>> \o @]

\* The least power of two that is n or more.
nextpower(n) ==
  LET power[i \in 0 .. n] == IF i = 0 THEN 1 ELSE 2 * power[i - 1] IN
  CHOOSE p \in {power[i] : i \in 0 .. n} :
    p >= n /\ \A i \in 0 .. n : power[i] >= n => p <= power[i]

(***************************************************************************)
(* Rehashing.                                                              *)
(***************************************************************************)

\* Mutant: the search for a chain starts after rehashidx, which may have been
\* left with the rest of its chain.
RehashStepSkipping(d) ==
  LET busy == {i \in d.rehashidx + 1 .. d.ht0.size - 1 : d.ht0.table[i] # <<>>}
      i    == CHOOSE j \in busy : \A l \in busy : j <= l
      from == [d.ht0 EXCEPT !.used = @ - 1, !.table[i] = Tail(@)]
      to   == Push(d.ht1, Head(d.ht0.table[i]))
  IN
  IF busy = {} THEN [d EXCEPT !.dead = TRUE]
  ELSE IF from.used = 0
    THEN [d EXCEPT !.ht0 = to, !.ht1 = dictHT(0), !.rehashidx = -1]
    ELSE [d EXCEPT !.ht0 = from, !.ht1 = to, !.rehashidx = i]

\* One entry moves, the first of the first chain.  If every chain is empty
\* the code reads the word after the table, a null pointer, and follows it.
dictRehashStep(d) ==
  LET busy == {i \in d.rehashidx .. d.ht0.size - 1 : d.ht0.table[i] # <<>>}
      i    == CHOOSE j \in busy : \A l \in busy : j <= l
      from == [d.ht0 EXCEPT !.used = @ - 1, !.table[i] = Tail(@)]
      to   == Push(d.ht1, Head(d.ht0.table[i]))
  IN
  IF busy = {} THEN [d EXCEPT !.dead = TRUE]
  ELSE IF from.used = 0
    THEN [d EXCEPT !.ht0 = to, !.ht1 = dictHT(0), !.rehashidx = -1]
    ELSE [d EXCEPT !.ht0 = from, !.ht1 = to, !.rehashidx = i]

dictExpand(d, n) ==
  IF d.ht0.size = 0
    THEN [d EXCEPT !.ht0 = dictHT(n)]
    ELSE [d EXCEPT !.ht1 = dictHT(n), !.rehashidx = 0]

\* The size the first table ought to have: doubled when it holds one entry per
\* chain, exactly; shrunk when it is nearly empty, but not to the initial size.
WantedSize(t) ==
  IF t.size = 0 THEN DICT_INITIAL_SIZE
  ELSE IF t.used = t.size THEN nextpower(t.used * 2)
  ELSE IF t.used * LoadDenominator < t.size /\ nextpower(t.used) > DICT_INITIAL_SIZE
    THEN nextpower(t.used)
  ELSE t.size

dictExpandIfNeed(d) ==
  IF dictIsRehashing(d) \/ WantedSize(d.ht0) = d.ht0.size
    THEN d ELSE dictExpand(d, WantedSize(d.ht0))

(***************************************************************************)
(* Entries.                                                                *)
(***************************************************************************)

\* Mutant: a new entry goes to the first table although it is being emptied.
AddEntryToFirst(d, e) ==
  LET x == dictExpandIfNeed(d) IN
  IF dictIsRehashing(x)
    THEN dictRehashStep([x EXCEPT !.ht0 = Push(@, e)])
    ELSE [x EXCEPT !.ht0 = Push(@, e)]

dictAddEntry(d, e) ==
  LET x == dictExpandIfNeed(d) IN
  IF dictIsRehashing(x)
    THEN dictRehashStep([x EXCEPT !.ht1 = Push(@, e)])
    ELSE [x EXCEPT !.ht0 = Push(@, e)]

\* The chain that k belongs to, and the positions of k there: the code stops
\* at the first.
Chain(t, k) == IF t.size = 0 THEN <<>> ELSE t.table[Index(t, k)]
Places(t, k) == LET c == Chain(t, k) IN {i \in DOMAIN c : c[i].key = k}
First(t, k) ==
  LET at == Places(t, k) IN CHOOSE i \in at : \A j \in at : i <= j

\* The value of k in one table.
ValueIn(t, k) == IF Places(t, k) = {} THEN None ELSE Chain(t, k)[First(t, k)].val

\* Mutant: the search ends with the first table.
FindInFirst(d, k) == ValueIn(d.ht0, k)

\* The value of the entry found, None if there is none.
dictFind(d, k) ==
  LET v == ValueIn(d.ht0, k) IN
  IF v = None /\ dictIsRehashing(d) THEN ValueIn(d.ht1, k) ELSE v

\* The dictionary with the value of an existing entry replaced.
SetVal(d, k, v) ==
  LET at(t) == [t EXCEPT !.table[Index(t, k)][First(t, k)].val = v] IN
  IF Places(d.ht0, k) # {} THEN [d EXCEPT !.ht0 = at(@)]
  ELSE IF dictFind(d, k) # None THEN [d EXCEPT !.ht1 = at(@)]
  ELSE d

Unlink(t, k) ==
  LET at == First(t, k) IN
  [t EXCEPT !.used = @ - 1,
            !.table[Index(t, k)] = SubSeq(@, 1, at - 1) \o SubSeq(@, at + 1, Len(@))]

\* Mutant: the count of the first table goes down, wherever the entry was.
RemoveCountingFirst(d, k) ==
  IF Places(d.ht0, k) # {} THEN [d EXCEPT !.ht0 = Unlink(@, k)]
  ELSE IF dictFind(d, k) # None
    THEN [d EXCEPT !.ht1 = [Unlink(@, k) EXCEPT !.used = @ + 1], !.ht0.used = @ - 1]
  ELSE d

\* The dictionary without the entry of k.  Nothing finishes the rehash when
\* this is the last entry of the first table.
Remove(d, k) ==
  IF Places(d.ht0, k) # {} THEN [d EXCEPT !.ht0 = Unlink(@, k)]
  ELSE IF dictFind(d, k) # None THEN [d EXCEPT !.ht1 = Unlink(@, k)]
  ELSE d

(***************************************************************************)
(* Iteration, as rdbSave and lookupCommand do it: nothing is changed on    *)
(* the way.                                                                *)
(***************************************************************************)

\* used is tested before a table is walked.
EntriesFrom(t, index) ==
  IF t.used = 0 THEN {}
  ELSE UNION {{t.table[i][j] : j \in DOMAIN t.table[i]} : i \in index .. t.size - 1}

\* Mutant: the iterator starts as it goes on in the second table.
IterFromZero(d) ==
  EntriesFrom(d.ht0, 1) \cup EntriesFrom(d.ht1, 1)

\* The entries that dictIterNext returns until NULL.  index is -1 at first,
\* but 0 when the walk of the first table has ended, and it is incremented
\* before it is used.
dictIterNext(d) ==
  EntriesFrom(d.ht0, 0) \cup EntriesFrom(d.ht1, IF d.ht0.used = 0 THEN 0 ELSE 1)

\* The second table is not looked at.
dictIsEmpty(d) == d.ht0.used = 0

(***************************************************************************)
(* The calls.                                                              *)
(***************************************************************************)

Ok(op, k, b) == [op |-> op, key |-> k, ret |-> b]

\* The call returns dictionary d, or kills the process on its way.
Return(d, answer) ==
  IF d.dead THEN dict' = [dict EXCEPT !.dead = TRUE] /\ UNCHANGED reply
            ELSE dict' = d /\ reply' = answer

dictAdd(k, v) ==
  IF dictFind(dict, k) # None
    THEN Return(dict, Ok("dictAdd", k, FALSE))
    ELSE Return(dictAddEntry(dict, [key |-> k, val |-> v]), Ok("dictAdd", k, TRUE))

dictReplace(k, v) ==
  Return(SetVal(dict, k, v), Ok("dictReplace", k, dictFind(dict, k) # None))

dictFetchValue(k) ==
  LET d == IF dictIsRehashing(dict) THEN dictRehashStep(dict) ELSE dict IN
  Return(d, [op |-> "dictFetchValue", key |-> k, val |-> dictFind(d, k)])

dictContains(k) == Return(dict, Ok("dictContains", k, dictFind(dict, k) # None))

dictDelete(k) ==
  LET x == dictExpandIfNeed(dict)
      d == IF dictIsRehashing(x) THEN dictRehashStep(x) ELSE x
  IN
  Return(Remove(d, k), Ok("dictDelete", k, dictFind(d, k) # None))

Init ==
  /\ dict = [ht0 |-> dictHT(0), ht1 |-> dictHT(0), rehashidx |-> -1, dead |-> FALSE]
  /\ reply = None

Next ==
  /\ ~dict.dead
  /\ \E k \in Keys :
       \/ \E v \in Vals : dictAdd(k, v) \/ dictReplace(k, v)
       \/ dictFetchValue(k)
       \/ dictContains(k)
       \/ dictDelete(k)

Spec == Init /\ [][Next]_vars

(***************************************************************************)
(* Properties.                                                             *)
(***************************************************************************)

Table(t) ==
  /\ t.size \in Nat /\ t.used \in Nat
  /\ t.table \in [0 .. t.size - 1 -> Seq(Entry)]

TypeOK ==
  /\ Table(dict.ht0) /\ Table(dict.ht1)
  /\ dict.rehashidx \in Int
  /\ dict.dead \in BOOLEAN

\* The places of a table that hold an entry.
Slots(t) == UNION {{<<i, j>> : j \in DOMAIN t.table[i]} : i \in DOMAIN t.table}

\* The structure every function of dict.c relies on and none checks: used is
\* the number of entries, an entry is in the chain of its hash, a key is in
\* one place only of the two tables, and _dictRehashStep has left nothing
\* behind rehashidx.
WellFormed ==
  /\ \A t \in {dict.ht0, dict.ht1} :
       /\ t.used = Cardinality(Slots(t))
       /\ \A s \in Slots(t) : s[1] = Index(t, t.table[s[1]][s[2]].key)
  /\ \A k \in Keys : Cardinality(Places(dict.ht0, k)) + Cardinality(Places(dict.ht1, k)) <= 1
  /\ dictIsRehashing(dict) <=> dict.ht1.size # 0
  /\ dictIsRehashing(dict) => \A i \in 0 .. dict.rehashidx - 1 : dict.ht0.table[i] = <<>>

\* A dictionary implements a map, also while its entries move between tables.
Abstract == INSTANCE Map WITH map <- [k \in Keys |-> dictFind(dict, k)]

MapSpec == Abstract!Spec

\* What an iteration returns is in the map, and it misses no key of it but
\* those in the first chain of the second table, while the first one still
\* has entries to move.  dictIsEmpty is wrong only when dictDelete has
\* emptied the first table before its entries were moved.
IterMissesOneChain ==
  LET held == {k \in Keys : dictFind(dict, k) # None}
      seen == dictIterNext(dict)
  IN
  /\ \A e \in seen : dictFind(dict, e.key) = e.val
  /\ \A k \in held \ {e.key : e \in seen} :
       dict.ht0.used # 0 /\ Places(dict.ht1, k) # {} /\ Index(dict.ht1, k) = 0
  /\ dictIsEmpty(dict) /\ held # {} => seen # {} /\ dictIsRehashing(dict)

\* A search for the next chain to move fails only after dictDelete took the
\* last entry of the first table: rehashing by itself never runs off the end.
DiesOnlyEmptied == [][dict'.dead => dict.ht0.used = 0]_vars

\* _dictRehashStep's comment at the search that finds no chain: "in principle
\* we do not get here".
RehashFindsEntry == ~dict.dead
=============================================================================
