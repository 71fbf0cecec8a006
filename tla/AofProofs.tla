----------------------------- MODULE AofProofs -----------------------------
(***************************************************************************)
(* What Aof keeps true for every number of commands: the file and the two  *)
(* buffers hold what was logged, and no command is in the file twice.      *)
(***************************************************************************)
EXTENDS Aof, SequenceTheorems, FiniteSetTheorems, WellFoundedInduction, TLAPS

(***************************************************************************)
(* The inductive invariant.  db, riders and next's use as a clock are left *)
(* out: nothing in it depends on what ran.                                 *)
(***************************************************************************)
Appends == [stage : {"idle", "fetched", "begun"}, buf : Buffers, at : Nat,
            cmds : Seq(Command), grow : BOOLEAN]

Types ==
  /\ up \in BOOLEAN /\ append \in Appends
  /\ buf \in [Buffers -> Seq(Items)] /\ active \in Buffers
  /\ thread \in {"check", "towait", "wait", "write", "fsync", "clear", "finish"}
  /\ isAofing \in BOOLEAN
  /\ file \in Seq(Items) /\ synced \in 0 .. Len(file)
  /\ next \in 1 .. MaxCommands + 1
  /\ logged \in Seq(Items) /\ torn \in BOOLEAN

\* isAofing is set from the swap to the end of the thread's round.
Busy == up => (isAofing <=> thread \in {"write", "fsync", "clear", "finish"})

\* How far an append that has begun moved the length of its buffer.
Room == IF append.grow THEN Len(append.cmds) ELSE 0

\* The buffer of an append that has begun is as CatBegin left it, or was
\* cleared behind its back.
Sized ==
  up /\ append.stage = "begun"
    => Len(buf[append.buf]) \in {0, append.at + Room}

\* What buffer b holds of the commands that count.
Settled(b) == IF Concerns(b) THEN SubSeq(buf[b], 1, append.at) ELSE buf[b]

\* While nothing is torn: what is in the file and in the buffers is what was
\* logged; io_buf is empty when the thread may swap; and an append that was
\* overtaken by a swap finds the new active buffer empty.
Exact ==
  up /\ ~torn =>
    /\ file \o UnwrittenItems \o ActiveItems = logged
    /\ thread \in {"check", "towait", "wait", "finish"} => Settled(io_buf) = <<>>
    /\ append.stage # "idle" /\ append.buf = io_buf => buf[active] = <<>>
    /\ append.stage = "begun" => Len(buf[append.buf]) = append.at + Room

\* A command is in s once at most, and arrived before number n.
Once(s) == \A i, j \in DOMAIN s : IsCommand(s[i]) /\ s[i] = s[j] => i = j
Before(s, n) == \A i \in DOMAIN s : IsCommand(s[i]) => s[i] < n

\* No command is in both.
Apart(s, t) == \A i \in DOMAIN s, j \in DOMAIN t : IsCommand(s[i]) => s[i] # t[j]

\* A command is in one place: the append, a buffer or the file, but for the
\* time in which the thread has written io_buf and not cleared it.
OnePlace ==
  /\ Once(file) /\ Before(file, next)
  /\ up =>
       /\ \A b \in Buffers : Once(buf[b]) /\ Before(buf[b], next)
       /\ Apart(buf[1], buf[2])
       /\ Apart(buf[active], file)
       /\ thread \notin {"fsync", "clear"} => Apart(buf[io_buf], file)
       /\ append.stage # "idle" =>
            /\ Once(append.cmds) /\ Before(append.cmds, next)
            /\ Apart(append.cmds, file)
            /\ \A b \in Buffers : Apart(append.cmds, buf[b])

AofInv == Types /\ Busy /\ Sized /\ Exact /\ OnePlace

-----------------------------------------------------------------------------
(***************************************************************************)
(* Sequences of items.                                                     *)
(***************************************************************************)
\* What concatenation returns, position by position.
LEMMA ConcatItems ==
  ASSUME NEW s \in Seq(Items), NEW t \in Seq(Items)
  PROVE  /\ s \o t \in Seq(Items)
         /\ DOMAIN (s \o t) = 1 .. Len(s) + Len(t)
         /\ \A i \in 1 .. Len(s) : (s \o t)[i] = s[i]
         /\ \A i \in Len(s) + 1 .. Len(s) + Len(t) : (s \o t)[i] = t[i - Len(s)]
<1>1. /\ s \o t \in Seq(Items)
      /\ Len(s \o t) = Len(s) + Len(t)
      /\ \A i \in 1 .. Len(s) + Len(t) :
           (s \o t)[i] = IF i <= Len(s) THEN s[i] ELSE t[i - Len(s)]
  BY ConcatProperties
<1>2. Len(s) \in Nat /\ Len(t) \in Nat
  BY LenProperties
<1>3. DOMAIN (s \o t) = 1 .. Len(s \o t)
  BY <1>1, LenProperties
<1>4. QED
  BY <1>1, <1>2, <1>3

\* An item of a concatenation is an item of one of the two.
LEMMA ItemOfConcat ==
  ASSUME NEW s \in Seq(Items), NEW t \in Seq(Items), NEW i \in DOMAIN (s \o t)
  PROVE  \/ i \in DOMAIN s /\ (s \o t)[i] = s[i]
         \/ /\ i > Len(s) /\ i \in Int /\ i - Len(s) \in DOMAIN t
            /\ (s \o t)[i] = t[i - Len(s)]
<1>1. /\ Len(s) \in Nat /\ Len(t) \in Nat
      /\ DOMAIN s = 1 .. Len(s) /\ DOMAIN t = 1 .. Len(t)
  BY LenProperties
<1>2. QED
  BY <1>1, ConcatItems

\* Two sequences without a command in common can be put together.
LEMMA OnceConcat ==
  ASSUME NEW s \in Seq(Items), NEW t \in Seq(Items), Once(s), Once(t), Apart(t, s)
  PROVE  Once(s \o t)
<1> DEFINE u == s \o t
<1> SUFFICES ASSUME NEW i \in DOMAIN u, NEW j \in DOMAIN u, IsCommand(u[i]), u[i] = u[j]
             PROVE  i = j
  BY DEF Once
<1>1. Len(s) \in Nat /\ DOMAIN s = 1 .. Len(s)
  BY LenProperties
<1>2. /\ \/ i \in DOMAIN s /\ u[i] = s[i]
         \/ i > Len(s) /\ i \in Int /\ i - Len(s) \in DOMAIN t /\ u[i] = t[i - Len(s)]
      /\ \/ j \in DOMAIN s /\ u[j] = s[j]
         \/ j > Len(s) /\ j \in Int /\ j - Len(s) \in DOMAIN t /\ u[j] = t[j - Len(s)]
  BY ItemOfConcat
<1> HIDE DEF u
<1>3. CASE i \in DOMAIN s /\ j \in DOMAIN s /\ u[i] = s[i] /\ u[j] = s[j]
  BY <1>3 DEF Once
<1>4. CASE /\ i - Len(s) \in DOMAIN t /\ u[i] = t[i - Len(s)] /\ i \in Int
           /\ j - Len(s) \in DOMAIN t /\ u[j] = t[j - Len(s)] /\ j \in Int
  <2>1. i - Len(s) = j - Len(s)
    BY <1>4 DEF Once
  <2>2. QED
    BY <1>1, <1>4, <2>1
<1>5. CASE i \in DOMAIN s /\ u[i] = s[i] /\ j - Len(s) \in DOMAIN t /\ u[j] = t[j - Len(s)]
  BY <1>5 DEF Apart
<1>6. CASE j \in DOMAIN s /\ u[j] = s[j] /\ i - Len(s) \in DOMAIN t /\ u[i] = t[i - Len(s)]
  BY <1>6 DEF Apart
<1>7. QED
  BY <1>2, <1>3, <1>4, <1>5, <1>6

\* What is true of the commands of both is true of those of the whole.
LEMMA ApartConcat ==
  ASSUME NEW s \in Seq(Items), NEW t \in Seq(Items), NEW r
  PROVE  /\ Apart(r, s) /\ Apart(r, t) => Apart(r, s \o t)
         /\ Apart(s, r) /\ Apart(t, r) => Apart(s \o t, r)
         /\ \A n : Before(s, n) /\ Before(t, n) => Before(s \o t, n)
<1> DEFINE u == s \o t
<1>1. \A i \in DOMAIN u : (\E j \in DOMAIN s : u[i] = s[j]) \/ (\E j \in DOMAIN t : u[i] = t[j])
  BY ItemOfConcat
<1> HIDE DEF u
<1>2. Apart(r, s) /\ Apart(r, t) => Apart(r, u)
  BY <1>1 DEF Apart
<1>3. Apart(s, r) /\ Apart(t, r) => Apart(u, r)
  BY <1>1 DEF Apart
<1>4. \A n : Before(s, n) /\ Before(t, n) => Before(u, n)
  BY <1>1 DEF Before
<1>5. QED
  BY <1>2, <1>3, <1>4 DEF u

\* Having no command in common does not depend on the order.
LEMMA ApartSymmetric ==
  ASSUME NEW s, NEW t, Apart(s, t)
  PROVE  Apart(t, s)
BY DEF Apart

\* A sequence whose commands are at the same places of another one.
Within(p, s) == \A i \in DOMAIN p : IsCommand(p[i]) => i \in DOMAIN s /\ p[i] = s[i]

\* Such a sequence has no more commands, and not more often.
LEMMA WithinKeeps ==
  ASSUME NEW p, NEW s, NEW r, Within(p, s)
  PROVE  /\ Once(s) => Once(p)
         /\ \A n : Before(s, n) => Before(p, n)
         /\ Apart(r, s) => Apart(r, p)
         /\ Apart(s, r) => Apart(p, r)
<1>1. Once(s) => Once(p)
  BY DEF Within, Once
<1>2. \A n : Before(s, n) => Before(p, n)
  BY DEF Within, Before
<1>3. Apart(r, s) => Apart(r, p)
  BY DEF Within, Apart
<1>4. Apart(s, r) => Apart(p, r)
  BY DEF Within, Apart
<1>5. QED
  BY <1>1, <1>2, <1>3, <1>4

\* The first n items of a sequence.
LEMMA FirstItems ==
  ASSUME NEW s \in Seq(Items), NEW n \in 0 .. Len(s)
  PROVE  /\ SubSeq(s, 1, n) \in Seq(Items) /\ Len(SubSeq(s, 1, n)) = n
         /\ \A i \in 1 .. n : SubSeq(s, 1, n)[i] = s[i]
         /\ Within(SubSeq(s, 1, n), s)
<1>1. Len(s) \in Nat /\ DOMAIN s = 1 .. Len(s) /\ \A i \in 1 .. Len(s) : s[i] \in Items
  BY LenProperties
<1>2. /\ SubSeq(s, 1, n) \in Seq(Items)
      /\ Len(SubSeq(s, 1, n)) = IF 1 <= n THEN n - 1 + 1 ELSE 0
      /\ \A i \in 1 .. n - 1 + 1 : SubSeq(s, 1, n)[i] = s[1 + i - 1]
  BY <1>1, SubSeqProperties
<1>3. DOMAIN SubSeq(s, 1, n) = 1 .. Len(SubSeq(s, 1, n))
  BY <1>2, LenProperties
<1>4. QED
  BY <1>1, <1>2, <1>3 DEF Within

\* What the first bytes of s hold is a sequence of items, all its commands at
\* the places that they have in s.
LEMMA PieceWithin ==
  ASSUME NEW s \in Seq(Items), NEW p \in Pieces(s)
  PROVE  p \in Seq(Items) /\ Within(p, s)
<1>0. Len(s) \in Nat /\ DOMAIN s = 1 .. Len(s) /\ \A i \in 1 .. Len(s) : s[i] \in Items
  BY LenProperties
<1>1. PICK n \in 0 .. Len(s) - 1 : p \in {SubSeq(s, 1, n) \o f : f \in Fragment(s[n + 1])}
  BY DEF Pieces
<1>2. PICK f \in Fragment(s[n + 1]) : p = SubSeq(s, 1, n) \o f
  BY <1>1
<1>3. s[n + 1] \in Items /\ n \in 0 .. Len(s)
  BY <1>0
<1>4. f \in Seq(Items) /\ \A i \in DOMAIN f : ~IsCommand(f[i])
  <2>1. CASE f = <<>>
    BY <2>1
  <2>2. CASE f = <<Torn>> \/ f = <<Lead>>
    <3>1. {Torn, Lead} \subseteq Items /\ ~IsCommand(Torn) /\ ~IsCommand(Lead)
      BY DEF Items, Torn, Lead, IsCommand, Command
    <3>2. f = <<Torn>> => f \in Seq(Items) /\ \A i \in DOMAIN f : ~IsCommand(f[i])
      BY <3>1
    <3>3. f = <<Lead>> => f \in Seq(Items) /\ \A i \in DOMAIN f : ~IsCommand(f[i])
      BY <3>1
    <3>4. QED
      BY <2>2, <3>2, <3>3
  <2>3. CASE ~IsCommand(s[n + 1]) /\ f = <<s[n + 1]>>
    BY <2>3, <1>3 DEF IsCommand
  <2>4. QED
    BY <1>2, <2>1, <2>2, <2>3 DEF Fragment
<1>5. /\ SubSeq(s, 1, n) \in Seq(Items) /\ Len(SubSeq(s, 1, n)) = n
      /\ Within(SubSeq(s, 1, n), s)
  BY <1>3, FirstItems
<1>6. p \in Seq(Items)
  BY <1>2, <1>4, <1>5, ConcatItems
<1>7. ASSUME NEW i \in DOMAIN p, IsCommand(p[i])
      PROVE  i \in DOMAIN s /\ p[i] = s[i]
  <2>1. i \in DOMAIN SubSeq(s, 1, n) /\ p[i] = SubSeq(s, 1, n)[i]
    BY <1>2, <1>4, <1>5, <1>7, ItemOfConcat
  <2>2. QED
    BY <2>1, <1>5, <1>7 DEF Within
<1>8. QED
  BY <1>6, <1>7 DEF Within

-----------------------------------------------------------------------------
(***************************************************************************)
(* The initial states and the steps.                                       *)
(***************************************************************************)
LEMMA InitInv == Init => AofInv
<1> SUFFICES ASSUME Init PROVE AofInv
  OBVIOUS
<1>1. /\ <<>> \in Seq(Items) /\ <<>> \in Seq(Command) /\ Len(<<>>) = 0
      /\ Once(<<>>) /\ (\A n : Before(<<>>, n)) /\ (\A s : Apart(<<>>, s))
  BY DEF Once, Before, Apart
<1>2. \A b \in Buffers : buf[b] = <<>>
  BY DEF Init
<1>3. Types
  <2>1. append \in Appends
    BY <1>1 DEF Init, Appends, Idle, Buffers
  <2>2. 1 \in 1 .. MaxCommands + 1 /\ 0 \in 0 .. Len(<<>>)
    BY <1>1, MaxCommandsAssumption
  <2>3. QED
    BY <1>1, <2>1, <2>2 DEF Init, Types, Buffers
<1>4. Busy /\ Sized
  BY DEF Init, Busy, Sized, Idle
<1>5. Exact
  <2>1. io_buf \in Buffers /\ active \in Buffers
    BY DEF Init, io_buf, Buffers
  <2>2. ActiveItems = <<>> /\ UnwrittenItems = <<>> /\ Settled(io_buf) = <<>>
    BY <1>2, <2>1 DEF Init, ActiveItems, UnwrittenItems, Settled, Concerns, Idle
  <2>3. append.stage = "idle" /\ file = <<>> /\ logged = <<>>
    BY DEF Init, Idle
  <2>4. <<>> \o <<>> \o <<>> = <<>>
    BY <1>1, ConcatEmptySeq
  <2>5. QED
    BY <2>2, <2>3, <2>4 DEF Exact
<1>6. OnePlace
  <2>1. io_buf \in Buffers /\ active \in Buffers /\ 1 \in Buffers /\ 2 \in Buffers
    BY DEF Init, io_buf, Buffers
  <2>2. append.stage = "idle" /\ file = <<>>
    BY DEF Init, Idle
  <2>3. QED
    BY <1>1, <1>2, <2>1, <2>2 DEF OnePlace
<1>7. QED
  BY <1>3, <1>4, <1>5, <1>6 DEF AofInv

\* The commands of an append that arrives are new to the buffers and the file.
LEMMA ArriveInv ==
  ASSUME AofInv, NEW n \in 1 .. 2, processCommand(n)
  PROVE  AofInv'
<1> USE DEF AofInv
<1>1. PICK cmds : cmds = [i \in 1 .. n |-> next + i - 1]
  OBVIOUS
<1>2. /\ up /\ append.stage = "idle" /\ next \in 1 .. MaxCommands + 1
      /\ next + n <= MaxCommands + 1 /\ next' = next + n
      /\ append' = [Idle EXCEPT !.stage = "fetched", !.buf = active, !.cmds = cmds]
      /\ UNCHANGED <<up, buf, active, thread, isAofing, file, synced, logged, torn>>
  BY <1>1 DEF processCommand, Types
<1>3. /\ cmds \in Seq(Command) /\ DOMAIN cmds = 1 .. n
      /\ \A i \in 1 .. n : cmds[i] = next + i - 1 /\ cmds[i] \in Command
  BY <1>1, <1>2, MaxCommandsAssumption DEF Command
<1>4. /\ append' \in Appends /\ append'.stage = "fetched" /\ append'.buf = active
      /\ append'.cmds = cmds
  BY <1>2, <1>3 DEF Idle, Appends, Types
<1>5. Types'
  BY <1>2, <1>4, MaxCommandsAssumption DEF Types
<1>6. Busy' /\ Sized'
  BY <1>2, <1>4 DEF Busy, Sized
<1>7. \A b \in Buffers : ~Concerns(b) /\ ~Concerns(b)'
  BY <1>2, <1>4 DEF Concerns
<1>8. active \in Buffers /\ io_buf \in Buffers /\ io_buf' = io_buf /\ active # io_buf
  BY <1>2 DEF Types, Buffers, io_buf
<1>9. Exact'
  <2>1. Settled(io_buf)' = Settled(io_buf) /\ ActiveItems' = ActiveItems
    BY <1>2, <1>7, <1>8 DEF Settled, ActiveItems
  <2>2. UnwrittenItems' = UnwrittenItems
    BY <1>2, <1>7, <1>8 DEF UnwrittenItems
  <2>3. QED
    BY <1>2, <1>4, <1>8, <2>1, <2>2 DEF Exact
<1>10. OnePlace'
  <2>1. ASSUME NEW s, Before(s, next) PROVE Before(s, next + n) /\ Apart(cmds, s)
    <3>1. \A i \in DOMAIN s : IsCommand(s[i]) => s[i] < next /\ s[i] \in Int
      BY <2>1 DEF Before, IsCommand, Command
    <3>2. \A i \in DOMAIN s : IsCommand(s[i]) => s[i] < next + n
      BY <3>1, <1>2
    <3>3. \A i \in DOMAIN cmds : IsCommand(cmds[i]) /\ cmds[i] \in Int /\ ~(cmds[i] < next)
      BY <1>2, <1>3 DEF IsCommand, Command
    <3>4. Apart(cmds, s)
      BY <3>1, <3>3 DEF Apart
    <3>5. QED
      BY <3>2, <3>4 DEF Before
  <2>2. Once(cmds) /\ Before(cmds, next + n)
    <3>1. \A i \in 1 .. n, j \in 1 .. n : cmds[i] = cmds[j] => i = j
      BY <1>2, <1>3
    <3>2. \A i \in 1 .. n : cmds[i] < next + n
      BY <1>2, <1>3
    <3>3. QED
      BY <1>3, <3>1, <3>2 DEF Once, Before
  <2>3. QED
    BY <1>2, <1>4, <1>8, <2>1, <2>2 DEF OnePlace
<1>11. QED
  BY <1>5, <1>6, <1>9, <1>10

\* What was before a concatenation is its beginning.
LEMMA FirstOfConcat ==
  ASSUME NEW s \in Seq(Items), NEW t \in Seq(Items)
  PROVE  SubSeq(s \o t, 1, Len(s)) = s
<1>1. /\ s \o t \in Seq(Items) /\ Len(s \o t) = Len(s) + Len(t)
      /\ \A i \in 1 .. Len(s) : (s \o t)[i] = s[i]
  BY ConcatItems, LenProperties
<1>2. Len(s) \in Nat /\ Len(t) \in Nat
  BY LenProperties
<1>3. Len(s) \in 0 .. Len(s \o t)
  BY <1>1, <1>2
<1>4. /\ SubSeq(s \o t, 1, Len(s)) \in Seq(Items) /\ Len(SubSeq(s \o t, 1, Len(s))) = Len(s)
      /\ \A i \in 1 .. Len(s) : SubSeq(s \o t, 1, Len(s))[i] = (s \o t)[i]
  BY <1>1, <1>3, FirstItems
<1>5. QED
  BY <1>1, <1>4, SeqEqual

\* A sequence of commands is a sequence of items.
LEMMA CommandsAreItems == \A s \in Seq(Command) : s \in Seq(Items)
<1>1. Command \subseteq Items
  BY DEF Items
<1>2. QED
  BY <1>1, SeqMonotonic

\* Buffers whose commands are in the places that they had keep the order of
\* things.
LEMMA OnePlaceKept ==
  ASSUME AofInv, UNCHANGED <<up, active, file, next>>, thread' = thread,
         \A b \in Buffers : Within(buf'[b], buf[b]),
         append'.stage # "idle" => append.stage # "idle" /\ append'.cmds = append.cmds
  PROVE  OnePlace'
<1>1. io_buf' = io_buf /\ io_buf \in Buffers /\ active \in Buffers
  BY DEF AofInv, Types, io_buf, Buffers
<1>2. Once(file) /\ Before(file, next)
  BY DEF AofInv, OnePlace
<1>3. ASSUME up
      PROVE  /\ \A b \in Buffers : Once(buf'[b]) /\ Before(buf'[b], next)
             /\ Apart(buf'[1], buf'[2])
             /\ Apart(buf'[active], file)
             /\ thread \notin {"fsync", "clear"} => Apart(buf'[io_buf], file)
             /\ append.stage # "idle" => \A b \in Buffers : Apart(append.cmds, buf'[b])
  <2>1. \A b \in Buffers : Once(buf'[b]) /\ Before(buf'[b], next)
    BY <1>3, WithinKeeps DEF AofInv, OnePlace
  <2>2. Apart(buf'[1], buf'[2])
    <3>1. Apart(buf[1], buf[2]) /\ Within(buf'[1], buf[1]) /\ Within(buf'[2], buf[2])
      BY <1>3 DEF AofInv, OnePlace, Buffers
    <3>2. Apart(buf'[1], buf[2])
      BY <3>1, WithinKeeps
    <3>3. QED
      BY <3>1, <3>2, WithinKeeps
  <2>3. Apart(buf'[active], file)
    BY <1>1, <1>3, WithinKeeps DEF AofInv, OnePlace
  <2>4. thread \notin {"fsync", "clear"} => Apart(buf'[io_buf], file)
    BY <1>1, <1>3, WithinKeeps DEF AofInv, OnePlace
  <2>5. append.stage # "idle" => \A b \in Buffers : Apart(append.cmds, buf'[b])
    BY <1>3, WithinKeeps DEF AofInv, OnePlace
  <2>6. QED
    BY <2>1, <2>2, <2>3, <2>4, <2>5
<1>4. up /\ append.stage # "idle" =>
        Once(append.cmds) /\ Before(append.cmds, next) /\ Apart(append.cmds, file)
  BY DEF AofInv, OnePlace
<1>5. QED
  BY <1>1, <1>2, <1>3, <1>4 DEF OnePlace

\* The space that sdscatlen makes counts as nothing yet.
LEMMA CatBeginInv ==
  ASSUME AofInv, NEW grow \in BOOLEAN, CatBegin(grow)
  PROVE  AofInv'
<1> DEFINE b == append.buf
<1>1. PICK holes : holes = [i \in DOMAIN append.cmds |-> Hole]
  OBVIOUS
<1>2. /\ up /\ append.stage = "fetched" /\ append \in Appends
      /\ append' = [append EXCEPT !.stage = "begun", !.at = Len(buf[b]), !.grow = grow]
      /\ buf' = IF grow THEN [buf EXCEPT ![b] = @ \o holes] ELSE buf
      /\ UNCHANGED <<up, active, thread, isAofing, file, synced, next, logged, torn>>
  BY <1>1 DEF CatBegin, AofInv, Types
<1>3. /\ buf \in [Buffers -> Seq(Items)] /\ b \in Buffers /\ append.cmds \in Seq(Command)
  BY <1>2 DEF AofInv, Types, Appends
<1>4. /\ buf[b] \in Seq(Items) /\ Len(buf[b]) \in Nat /\ Len(append.cmds) \in Nat
      /\ DOMAIN append.cmds = 1 .. Len(append.cmds)
  BY <1>3, LenProperties
<1>5. /\ holes \in Seq(Items) /\ Len(holes) = Len(append.cmds)
      /\ \A i \in DOMAIN holes : ~IsCommand(holes[i])
  <2>1. Hole \in Items /\ ~IsCommand(Hole)
    BY DEF Hole, Items, IsCommand, Command
  <2>2. QED
    BY <1>1, <1>4, <2>1
<1>6. /\ append' \in Appends /\ append'.stage = "begun" /\ append'.buf = b
      /\ append'.at = Len(buf[b]) /\ append'.grow = grow /\ append'.cmds = append.cmds
  <2>1. append' \in Appends
    BY <1>2, <1>3, <1>4 DEF Appends
  <2>2. QED
    BY <1>2, <2>1 DEF Appends
<1>7. /\ buf' \in [Buffers -> Seq(Items)]
      /\ \A c \in Buffers : c # b => buf'[c] = buf[c]
      /\ Len(buf'[b]) = Len(buf[b]) + (IF grow THEN Len(append.cmds) ELSE 0)
      /\ SubSeq(buf'[b], 1, Len(buf[b])) = buf[b]
      /\ Within(buf'[b], buf[b])
  <2>1. CASE grow
    <3>1. buf' = [buf EXCEPT ![b] = buf[b] \o holes]
      BY <1>2, <2>1
    <3>2. buf[b] \o holes \in Seq(Items) /\ Len(buf[b] \o holes) = Len(buf[b]) + Len(holes)
      BY <1>4, <1>5, ConcatProperties
    <3>3. Within(buf[b] \o holes, buf[b])
      BY <1>4, <1>5, ItemOfConcat DEF Within
    <3>4. buf'[b] = buf[b] \o holes
      BY <1>3, <3>1
    <3>5. SubSeq(buf'[b], 1, Len(buf[b])) = buf[b]
      BY <3>4, <1>4, <1>5, FirstOfConcat
    <3>6. QED
      BY <1>3, <1>5, <2>1, <3>1, <3>2, <3>3, <3>4, <3>5
  <2>2. CASE ~grow
    <3>1. buf' = buf
      BY <1>2, <2>2
    <3>2. SubSeq(buf[b], 1, Len(buf[b])) = buf[b]
      BY <1>4, SubSeqFull
    <3>3. Within(buf[b], buf[b])
      BY DEF Within
    <3>4. QED
      BY <1>3, <1>4, <2>2, <3>1, <3>2, <3>3
  <2>3. QED
    BY <2>1, <2>2
<1>8. Types'
  BY <1>2, <1>6, <1>7 DEF AofInv, Types
<1>9. Busy'
  BY <1>2 DEF AofInv, Busy
<1>10. Room' = IF grow THEN Len(append.cmds) ELSE 0
  BY <1>6 DEF Room
<1>11. Sized'
  BY <1>6, <1>7, <1>10 DEF Sized
<1>12. active \in Buffers /\ io_buf \in Buffers /\ io_buf' = io_buf
  BY <1>2 DEF AofInv, Types, Buffers, io_buf
<1>13. \A c \in Buffers : Settled(c)' = Settled(c)
  <2>1. ASSUME NEW c \in Buffers PROVE Settled(c)' = Settled(c)
    <3>1. ~Concerns(c) /\ (Concerns(c)' <=> c = b)
      BY <1>2, <1>6 DEF Concerns
    <3>2. QED
      BY <1>6, <1>7, <3>1 DEF Settled
  <2>2. QED
    BY <2>1
<1>14. Exact'
  <2>1. ActiveItems' = ActiveItems
    BY <1>2, <1>12, <1>13 DEF Settled, ActiveItems
  <2>2. UnwrittenItems' = UnwrittenItems
    BY <1>2, <1>12, <1>13 DEF Settled, UnwrittenItems
  <2>3. append.buf = io_buf => active # b
    BY <1>12 DEF io_buf, Buffers
  <2>4. QED
    BY <1>2, <1>6, <1>7, <1>10, <1>12, <1>13, <2>1, <2>2, <2>3 DEF AofInv, Exact
<1>15. \A c \in Buffers : Within(buf'[c], buf[c])
  <2>1. \A c \in Buffers : Within(buf[c], buf[c])
    BY DEF Within
  <2>2. QED
    BY <1>7, <2>1
<1>16. OnePlace'
  BY <1>2, <1>6, <1>15, OnePlaceKept
<1>17. QED
  BY <1>8, <1>9, <1>11, <1>14, <1>16 DEF AofInv

\* Concatenation is associative.
LEMMA ItemsAssociative ==
  \A s, t, u \in Seq(Items) : (s \o t) \o u = s \o (t \o u)
BY ConcatAssociative

\* The copy puts the commands where the length was when it was read: whatever
\* happened to the buffer, each of its items is one of the commands, one that
\* was there, or a hole.
LEMMA CatEndInv ==
  ASSUME AofInv, CatEnd
  PROVE  AofInv'
<1>0. PICK b, at, cmds, now, end, new :
         /\ b = append.buf /\ at = append.at /\ cmds = append.cmds /\ now = buf[append.buf]
         /\ end = IF append.grow THEN Len(now) ELSE at + Len(cmds)
         /\ new = [i \in 1 .. end |-> IF i > at THEN cmds[i - at]
                                      ELSE IF i <= Len(now) THEN now[i] ELSE Hole]
  OBVIOUS
<1> DEFINE other == 3 - b
<1>1. /\ up /\ append.stage = "begun" /\ append \in Appends
      /\ buf' = [buf EXCEPT ![b] = new] /\ append' = Idle
      /\ logged' = logged \o cmds
      /\ torn' = (torn \/ (b = io_buf /\ thread # "write"))
      /\ UNCHANGED <<up, active, thread, isAofing, file, synced, next>>
  BY <1>0 DEF CatEnd, AofInv, Types
<1>2. /\ buf \in [Buffers -> Seq(Items)] /\ b \in Buffers /\ other \in Buffers /\ other # b
      /\ Buffers = {b, other}
      /\ at \in Nat /\ cmds \in Seq(Command) /\ append.grow \in BOOLEAN
      /\ torn \in BOOLEAN /\ logged \in Seq(Items) /\ file \in Seq(Items)
  BY <1>0, <1>1 DEF AofInv, Types, Appends, Buffers
<1>3. /\ now \in Seq(Items) /\ Len(now) \in Nat /\ DOMAIN now = 1 .. Len(now)
      /\ \A i \in 1 .. Len(now) : now[i] \in Items
      /\ Len(cmds) \in Nat /\ DOMAIN cmds = 1 .. Len(cmds) /\ cmds \in Seq(Items)
      /\ \A i \in 1 .. Len(cmds) : cmds[i] \in Items
  <2>1. now \in Seq(Items) /\ cmds \in Seq(Items)
    BY <1>0, <1>2, CommandsAreItems
  <2>2. QED
    BY <2>1, LenProperties
<1>4. /\ Len(now) \in {0, at + (IF append.grow THEN Len(cmds) ELSE 0)}
  BY <1>0, <1>1 DEF AofInv, Sized, Room
<1>5. end \in Nat /\ \A i \in 1 .. end : i > at => i - at \in 1 .. Len(cmds)
  <2>1. CASE append.grow /\ Len(now) = 0
    BY <1>0, <2>1
  <2>2. CASE append.grow /\ Len(now) = at + Len(cmds)
    <3>1. end = at + Len(cmds)
      BY <1>0, <2>2
    <3>2. QED
      BY <1>2, <1>3, <3>1
  <2>3. CASE ~append.grow
    <3>1. end = at + Len(cmds)
      BY <1>0, <2>3
    <3>2. QED
      BY <1>2, <1>3, <3>1
  <2>4. QED
    BY <1>2, <1>4, <2>1, <2>2, <2>3
<1>6. Hole \in Items /\ ~IsCommand(Hole)
  BY DEF Hole, Items, IsCommand, Command
<1>7. DOMAIN new = 1 .. end /\ new \in Seq(Items) /\ Len(new) = end
  <2>1. DOMAIN new = 1 .. end
    BY <1>0
  <2>2. ASSUME NEW i \in 1 .. end PROVE new[i] \in Items
    <3>1. new[i] = IF i > at THEN cmds[i - at] ELSE IF i <= Len(now) THEN now[i] ELSE Hole
      BY <1>0
    <3>2. i > at => cmds[i - at] \in Items
      BY <1>3, <1>5
    <3>3. i <= Len(now) => now[i] \in Items
      BY <1>3, <1>5
    <3>4. QED
      BY <1>6, <3>1, <3>2, <3>3
  <2>3. new = [i \in 1 .. end |-> new[i]]
    BY <1>0
  <2>4. new \in [1 .. end -> Items]
    BY <2>1, <2>2, <2>3
  <2>5. new \in Seq(Items) /\ Len(new) = end
    BY <1>5, <2>4
  <2>6. QED
    BY <2>1, <2>5
<1>8. ASSUME NEW i \in DOMAIN new
      PROVE  \/ i > at /\ i \in Int /\ i - at \in DOMAIN cmds /\ new[i] = cmds[i - at]
             \/ i <= at /\ i \in DOMAIN now /\ new[i] = now[i]
             \/ ~IsCommand(new[i])
  BY <1>0, <1>2, <1>3, <1>5, <1>6, <1>7
<1>9. append' \in Appends /\ append'.stage = "idle"
  <2>1. <<>> \in Seq(Command)
    OBVIOUS
  <2>2. QED
    BY <1>1, <2>1 DEF Idle, Appends, Buffers
<1>10. buf' \in [Buffers -> Seq(Items)] /\ buf'[b] = new /\ buf'[other] = buf[other]
  BY <1>1, <1>2, <1>7
<1>11. logged' \in Seq(Items)
  BY <1>1, <1>2, <1>3, ConcatItems
<1>12. Types'
  BY <1>1, <1>9, <1>10, <1>11 DEF AofInv, Types
<1>13. Busy' /\ Sized'
  BY <1>1, <1>9 DEF AofInv, Busy, Sized
<1>14. active \in Buffers /\ io_buf \in Buffers /\ io_buf' = io_buf /\ active # io_buf
  BY <1>1 DEF AofInv, Types, Buffers, io_buf
<1>15. Exact'
  <2>1. SUFFICES ASSUME ~torn'
                 PROVE  /\ (file \o UnwrittenItems \o ActiveItems = logged)'
                        /\ (thread \in {"check", "towait", "wait", "finish"} => Settled(io_buf) = <<>>)'
    BY <1>9 DEF Exact
  <2>2. ~torn /\ (b = active \/ thread = "write")
    BY <1>1, <1>2, <1>14, <2>1 DEF Buffers, io_buf
  <2>3. /\ file \o UnwrittenItems \o ActiveItems = logged
        /\ thread \in {"check", "towait", "wait", "finish"} => Settled(io_buf) = <<>>
        /\ b = io_buf => buf[active] = <<>>
        /\ Len(now) = at + (IF append.grow THEN Len(cmds) ELSE 0)
    BY <1>0, <1>1, <2>2 DEF AofInv, Exact, Room
  <2>4. at \in 0 .. Len(now) /\ end = at + Len(cmds)
    BY <1>0, <1>2, <1>3, <2>3
  <2>5. Settled(b) = SubSeq(now, 1, at)
    BY <1>0, <1>1 DEF Settled, Concerns
  <2>6. PICK was : was = SubSeq(now, 1, at)
    OBVIOUS
  <2>7. /\ was \in Seq(Items) /\ Len(was) = at
        /\ \A i \in 1 .. at : was[i] = now[i]
    BY <1>3, <2>4, <2>6, FirstItems
  <2>8. new = was \o cmds
    <3>1. /\ was \o cmds \in Seq(Items)
          /\ Len(was \o cmds) = at + Len(cmds)
          /\ \A i \in 1 .. at : (was \o cmds)[i] = was[i]
          /\ \A i \in at + 1 .. at + Len(cmds) : (was \o cmds)[i] = cmds[i - at]
      BY <1>3, <2>7, ConcatItems, ConcatProperties
    <3>2. \A i \in 1 .. end : new[i] = IF i > at THEN cmds[i - at] ELSE now[i]
      BY <1>0, <1>3, <2>4
    <3>3. \A i \in 1 .. end : new[i] = (was \o cmds)[i]
      BY <1>2, <1>3, <2>4, <2>7, <3>1, <3>2
    <3>4. QED
      BY <1>7, <2>4, <3>1, <3>3, SeqEqual
  <2>9. ~Concerns(b)' /\ ~Concerns(other)' /\ ~Concerns(other)
    BY <1>0, <1>1, <1>2, <1>9 DEF Concerns
  <2>10. buf[other] \in Seq(Items)
    BY <1>2
  <2>11. CASE b = active
    <3>1. other = io_buf
      BY <1>2, <2>11 DEF io_buf
    <3>2. ActiveItems = was /\ ActiveItems' = was \o cmds
      <4>1. ActiveItems = was
        BY <2>5, <2>6, <2>11 DEF ActiveItems, Settled
      <4>2. ActiveItems' = buf'[b]
        BY <1>1, <2>9, <2>11 DEF ActiveItems
      <4>3. QED
        BY <1>10, <2>8, <4>1, <4>2
    <3>3. PICK u : u = UnwrittenItems
      OBVIOUS
    <3>4. /\ UnwrittenItems' = u /\ u \in Seq(Items)
          /\ Settled(io_buf)' = Settled(io_buf)
      BY <1>1, <1>10, <1>14, <2>9, <2>10, <3>1, <3>3 DEF UnwrittenItems, Settled
    <3>5. file \o u \in Seq(Items)
      BY <1>2, <3>4, ConcatItems
    <3>6. (file \o u) \o (was \o cmds) = ((file \o u) \o was) \o cmds
      BY <1>3, <2>7, <3>5, ItemsAssociative
    <3>7. file' \o UnwrittenItems' \o ActiveItems' = logged'
      BY <1>1, <2>3, <3>2, <3>3, <3>4, <3>6
    <3>8. QED
      BY <1>1, <2>3, <3>4, <3>7
  <2>12. CASE b # active
    <3>1. b = io_buf /\ other = active /\ thread = "write" /\ buf[active] = <<>>
      BY <1>2, <1>14, <2>2, <2>3, <2>12 DEF io_buf, Buffers
    <3>2. ActiveItems = <<>> /\ ActiveItems' = <<>>
      BY <1>1, <1>10, <2>9, <3>1 DEF ActiveItems
    <3>3. UnwrittenItems = was /\ UnwrittenItems' = was \o cmds
      <4>1. UnwrittenItems = was
        BY <2>5, <2>6, <3>1 DEF UnwrittenItems, Settled
      <4>2. UnwrittenItems' = buf'[b]
        BY <1>1, <1>14, <2>9, <3>1 DEF UnwrittenItems
      <4>3. QED
        BY <1>10, <2>8, <4>1, <4>2
    <3>4. file \o was \in Seq(Items) /\ was \o cmds \in Seq(Items)
      BY <1>2, <1>3, <2>7, ConcatItems
    <3>5. file \o (was \o cmds) \in Seq(Items)
      BY <1>2, <3>4, ConcatItems
    <3>6. (file \o (was \o cmds)) \o <<>> = file \o (was \o cmds)
      BY <3>5, ConcatEmptySeq
    <3>7. (file \o was) \o <<>> = file \o was
      BY <3>4, ConcatEmptySeq
    <3>8. file \o (was \o cmds) = (file \o was) \o cmds
      BY <1>2, <1>3, <2>7, ItemsAssociative
    <3>9. file \o was = logged
      BY <2>3, <3>2, <3>3, <3>7
    <3>10. file' \o UnwrittenItems' \o ActiveItems' = logged'
      BY <1>1, <3>2, <3>3, <3>6, <3>8, <3>9
    <3>11. QED
      BY <1>1, <3>1, <3>10
  <2>13. QED
    BY <2>11, <2>12
<1>16. OnePlace'
  <2>1. /\ Once(file) /\ Before(file, next)
        /\ Once(now) /\ Before(now, next) /\ Once(cmds) /\ Before(cmds, next)
        /\ Once(buf[other]) /\ Before(buf[other], next)
        /\ Apart(cmds, now) /\ Apart(cmds, buf[other]) /\ Apart(cmds, file)
    BY <1>0, <1>1, <1>2 DEF AofInv, OnePlace
  <2>2. Apart(now, buf[other]) /\ Apart(buf[other], now)
    <3>1. Apart(buf[1], buf[2]) /\ Apart(buf[2], buf[1])
      BY <1>1, ApartSymmetric DEF AofInv, OnePlace
    <3>2. QED
      BY <1>0, <1>2, <3>1 DEF Buffers
  <2>3. Once(new)
    <3>1. SUFFICES ASSUME NEW i \in DOMAIN new, NEW j \in DOMAIN new,
                          IsCommand(new[i]), new[i] = new[j]
                   PROVE  i = j
      BY DEF Once
    <3>2. /\ \/ i > at /\ i \in Int /\ i - at \in DOMAIN cmds /\ new[i] = cmds[i - at]
             \/ i <= at /\ i \in DOMAIN now /\ new[i] = now[i]
          /\ \/ j > at /\ j \in Int /\ j - at \in DOMAIN cmds /\ new[j] = cmds[j - at]
             \/ j <= at /\ j \in DOMAIN now /\ new[j] = now[j]
      BY <1>8, <3>1
    <3>3. CASE /\ i \in Int /\ i - at \in DOMAIN cmds /\ new[i] = cmds[i - at]
               /\ j \in Int /\ j - at \in DOMAIN cmds /\ new[j] = cmds[j - at]
      <4>1. i - at = j - at
        BY <2>1, <3>1, <3>3 DEF Once
      <4>2. QED
        BY <1>2, <3>3, <4>1
    <3>4. CASE i \in DOMAIN now /\ new[i] = now[i] /\ j \in DOMAIN now /\ new[j] = now[j]
      BY <2>1, <3>1, <3>4 DEF Once
    <3>5. CASE i - at \in DOMAIN cmds /\ new[i] = cmds[i - at] /\ j \in DOMAIN now /\ new[j] = now[j]
      BY <2>1, <3>1, <3>5 DEF Apart
    <3>6. CASE j - at \in DOMAIN cmds /\ new[j] = cmds[j - at] /\ i \in DOMAIN now /\ new[i] = now[i]
      BY <2>1, <3>1, <3>6 DEF Apart
    <3>7. QED
      BY <3>2, <3>3, <3>4, <3>5, <3>6
  <2>4. \A i \in DOMAIN new : IsCommand(new[i]) =>
          (\E k \in DOMAIN cmds : new[i] = cmds[k]) \/ (\E k \in DOMAIN now : new[i] = now[k])
    BY <1>8
  <2>5. Before(new, next)
    BY <2>1, <2>4 DEF Before
  <2>6. Apart(new, buf[other])
    BY <2>1, <2>2, <2>4 DEF Apart
  <2>7. ASSUME Apart(now, file) PROVE Apart(new, file)
    BY <2>1, <2>4, <2>7 DEF Apart
  <2>8. /\ Apart(buf[active], file)
        /\ thread \notin {"fsync", "clear"} => Apart(buf[io_buf], file)
    BY <1>1 DEF AofInv, OnePlace
  <2>9. Apart(buf'[1], buf'[2])
    BY <1>2, <1>10, <2>6, ApartSymmetric DEF Buffers
  <2>10. \A c \in Buffers : Once(buf'[c]) /\ Before(buf'[c], next)
    BY <1>2, <1>10, <2>1, <2>3, <2>5
  <2>11. \A c \in Buffers : Apart(buf[c], file) => Apart(buf'[c], file)
    BY <1>0, <1>2, <1>10, <2>7
  <2>12. /\ Apart(buf'[active], file)
         /\ thread \notin {"fsync", "clear"} => Apart(buf'[io_buf], file)
    BY <1>14, <2>8, <2>11
  <2>13. QED
    BY <1>1, <1>9, <1>14, <2>1, <2>9, <2>10, <2>12 DEF OnePlace
<1>17. QED
  BY <1>12, <1>13, <1>15, <1>16 DEF AofInv

\* A step of the thread, or a signal to it, that leaves the buffers alone, what
\* the file holds and whether the thread is at work.
LEMMA QuietStep ==
  ASSUME AofInv, UNCHANGED <<Loop, buf, active, file, torn>>,
         synced' \in 0 .. Len(file), isAofing' \in BOOLEAN,
         thread' \in {"check", "towait", "wait", "clear"},
         up => (isAofing' <=> thread' = "clear"),
         thread \in {"check", "towait", "wait", "fsync", "finish"},
         thread' = "clear" <=> thread = "fsync"
  PROVE  AofInv'
<1>1. Types'
  BY DEF AofInv, Types, Loop
<1>2. Busy' /\ Sized'
  BY DEF AofInv, Busy, Sized, Room, Loop
<1>3. io_buf' = io_buf /\ \A b \in Buffers : Settled(b)' = Settled(b)
  BY DEF Loop, io_buf, Settled, Concerns
<1>4. Exact'
  <2>1. ActiveItems' = ActiveItems /\ UnwrittenItems' = UnwrittenItems
    BY DEF Loop, ActiveItems, UnwrittenItems, Concerns, io_buf
  <2>2. io_buf \in Buffers
    BY DEF AofInv, Types, Buffers, io_buf
  <2>3. Room' = Room
    BY DEF Room, Loop
  <2>4. QED
    BY <1>3, <2>1, <2>2, <2>3 DEF AofInv, Exact, Loop
<1>5. OnePlace'
  BY <1>3 DEF AofInv, OnePlace, Loop
<1>6. QED
  BY <1>1, <1>2, <1>4, <1>5 DEF AofInv

\* The steps of flushAppendOnlyFile and of the thread that put nothing in the file.
LEMMA QuietStepsInv ==
  ASSUME AofInv, flushAppendOnlyFile \/ Test \/ Wait \/ fsync \/ Finish
  PROVE  AofInv'
<1>0. Types /\ Busy /\ Len(file) \in Nat
  <2>1. Types /\ Busy
    BY DEF AofInv
  <2>2. QED
    BY <2>1, LenProperties DEF Types
<1>1. CASE flushAppendOnlyFile
  BY <1>0, <1>1, QuietStep DEF flushAppendOnlyFile, Types, Busy
<1>2. CASE Test
  BY <1>0, <1>2, QuietStep DEF Test, Types, Busy
<1>3. CASE Wait
  BY <1>0, <1>3, QuietStep DEF Wait, Types, Busy
<1>4. CASE fsync
  BY <1>0, <1>4, QuietStep DEF fsync, Types, Busy
<1>5. CASE Finish
  BY <1>0, <1>5, QuietStep DEF Finish, Types, Busy
<1>6. QED
  BY <1>1, <1>2, <1>3, <1>4, <1>5

\* The swap: what was active is now unwritten, and the new active buffer is
\* empty as long as nothing is torn.
LEMMA SwapInv ==
  ASSUME AofInv, Swap
  PROVE  AofInv'
<1>1. /\ up /\ thread = "check" /\ ~isAofing /\ Len(buf[active]) > 0
      /\ isAofing' = TRUE /\ active' = io_buf /\ thread' = "write"
      /\ UNCHANGED <<up, append, buf, file, synced, next, logged, torn>>
  BY DEF Swap, needAOF, Loop
<1>2. /\ active \in Buffers /\ io_buf \in Buffers /\ io_buf' = active /\ active # io_buf
      /\ buf \in [Buffers -> Seq(Items)] /\ file \in Seq(Items) /\ append \in Appends
  BY <1>1 DEF AofInv, Types, Buffers, io_buf
<1>3. Types'
  BY <1>1, <1>2 DEF AofInv, Types
<1>4. Busy' /\ Sized'
  BY <1>1 DEF AofInv, Busy, Sized, Room
<1>5. \A b \in Buffers : (Concerns(b)' <=> Concerns(b)) /\ Settled(b)' = Settled(b)
  BY <1>1 DEF Concerns, Settled
<1>6. Exact'
  <2>1. SUFFICES ASSUME ~torn
                 PROVE  /\ (file \o UnwrittenItems \o ActiveItems = logged)'
                        /\ (append.stage # "idle" /\ append.buf = io_buf => buf[active] = <<>>)'
                        /\ (append.stage = "begun" => Len(buf[append.buf]) = append.at + Room)'
    BY <1>1 DEF Exact
  <2>2. /\ file \o UnwrittenItems \o ActiveItems = logged
        /\ Settled(io_buf) = <<>>
        /\ append.stage # "idle" /\ append.buf = io_buf => buf[active] = <<>>
        /\ append.stage = "begun" => Len(buf[append.buf]) = append.at + Room
    BY <1>1, <2>1 DEF AofInv, Exact
  <2>3. UnwrittenItems = <<>> /\ ActiveItems = Settled(active)
    BY <1>1 DEF UnwrittenItems, ActiveItems, Settled
  <2>4. ActiveItems' = <<>>
    BY <1>1, <1>2, <1>5, <2>2 DEF ActiveItems, Settled, Concerns
  <2>5. UnwrittenItems' = Settled(active)
    BY <1>1, <1>2, <1>5 DEF UnwrittenItems, Settled, Concerns
  <2>6. buf[active] # <<>>
    BY <1>1, <1>2
  <2>7. append.stage # "idle" => append.buf = active
    BY <1>2, <2>2, <2>6 DEF io_buf, Buffers, Appends
  <2>8. Settled(active) \in Seq(Items)
    <3>1. CASE Concerns(active)
      <4>1. Room \in Nat /\ append.at \in Nat /\ append.stage = "begun" /\ append.buf = active
        BY <1>2, <3>1, LenProperties DEF Room, Appends, Concerns
      <4>2. append.at \in 0 .. Len(buf[active])
        BY <2>2, <4>1
      <4>3. QED
        BY <1>2, <3>1, <4>2, FirstItems DEF Settled
    <3>2. CASE ~Concerns(active)
      BY <1>2, <3>2 DEF Settled
    <3>3. QED
      BY <3>1, <3>2
  <2>9. (file \o UnwrittenItems \o ActiveItems = logged)'
    <3>1. file \o <<>> = file
      BY <1>2, ConcatEmptySeq
    <3>2. file \o Settled(active) \in Seq(Items)
      BY <1>2, <2>8, ConcatItems
    <3>3. (file \o Settled(active)) \o <<>> = file \o Settled(active)
      BY <3>2, ConcatEmptySeq
    <3>4. QED
      BY <1>1, <2>2, <2>3, <2>4, <2>5, <3>1, <3>3
  <2>10. append.stage # "idle" => buf'[active'] = <<>>
    BY <1>1, <1>2, <2>2, <2>7 DEF Settled, Concerns
  <2>11. QED
    BY <1>1, <2>2, <2>9, <2>10 DEF Room
<1>7. OnePlace'
  BY <1>1, <1>2 DEF AofInv, OnePlace
<1>8. QED
  BY <1>3, <1>4, <1>6, <1>7 DEF AofInv

\* A write adds to the file commands of io_buf that are not in it yet.
LEMMA WriteKeepsOnePlace ==
  ASSUME AofInv, NEW piece \in Seq(Items), Within(piece, buf[io_buf]),
         up, thread = "write", thread' = "fsync", file' = file \o piece,
         UNCHANGED <<up, append, buf, active, next>>
  PROVE  OnePlace' /\ file' \in Seq(Items)
<1>1. /\ active \in Buffers /\ io_buf \in Buffers /\ io_buf' = io_buf /\ active # io_buf
      /\ file \in Seq(Items)
  BY DEF AofInv, Types, Buffers, io_buf
<1>2. /\ Once(file) /\ Before(file, next)
      /\ \A b \in Buffers : Once(buf[b]) /\ Before(buf[b], next)
      /\ Apart(buf[1], buf[2])
      /\ Apart(buf[active], file) /\ Apart(buf[io_buf], file)
      /\ append.stage # "idle" =>
           /\ Once(append.cmds) /\ Before(append.cmds, next) /\ Apart(append.cmds, file)
           /\ \A b \in Buffers : Apart(append.cmds, buf[b])
  BY DEF AofInv, OnePlace
<1>3. Apart(buf[active], buf[io_buf])
  BY <1>1, <1>2, ApartSymmetric DEF Buffers
<1>4. /\ Once(piece) /\ Before(piece, next) /\ Apart(piece, file)
      /\ Apart(buf[active], piece)
      /\ append.stage # "idle" => Apart(append.cmds, piece)
  BY <1>1, <1>2, <1>3, WithinKeeps
<1>5. /\ file \o piece \in Seq(Items) /\ Once(file \o piece) /\ Before(file \o piece, next)
      /\ Apart(buf[active], file \o piece)
      /\ append.stage # "idle" => Apart(append.cmds, file \o piece)
  BY <1>1, <1>2, <1>4, ConcatItems, OnceConcat, ApartConcat
<1>6. QED
  BY <1>1, <1>2, <1>5 DEF OnePlace

\* A write puts the whole of its buffer into the file.
LEMMA WriteInv ==
  ASSUME AofInv, Write
  PROVE  AofInv'
<1>1. /\ up /\ thread = "write" /\ thread' = "fsync"
      /\ file' = file \o buf[io_buf] /\ torn' = (torn \/ Concerns(io_buf))
      /\ UNCHANGED <<up, append, buf, active, isAofing, synced, next, logged>>
  BY DEF Write, Loop
<1>2. /\ active \in Buffers /\ io_buf \in Buffers /\ io_buf' = io_buf /\ active # io_buf
      /\ buf[io_buf] \in Seq(Items) /\ file \in Seq(Items) /\ torn \in BOOLEAN
  BY <1>1 DEF AofInv, Types, Buffers, io_buf
<1>3. Within(buf[io_buf], buf[io_buf])
  BY DEF Within
<1>4. OnePlace' /\ file' \in Seq(Items)
  BY <1>1, <1>2, <1>3, WriteKeepsOnePlace
<1>5. synced \in 0 .. Len(file')
  <2>1. Len(file') = Len(file) + Len(buf[io_buf]) /\ Len(file) \in Nat /\ Len(buf[io_buf]) \in Nat
    BY <1>1, <1>2, ConcatProperties, LenProperties
  <2>2. QED
    BY <2>1 DEF AofInv, Types
<1>6. Types'
  BY <1>1, <1>2, <1>4, <1>5 DEF AofInv, Types, Concerns
<1>7. Busy' /\ Sized'
  BY <1>1 DEF AofInv, Busy, Sized, Room
<1>8. Exact'
  <2>1. SUFFICES ASSUME ~torn, ~Concerns(io_buf)
                 PROVE  /\ (file \o UnwrittenItems \o ActiveItems = logged)'
                        /\ (append.stage # "idle" /\ append.buf = io_buf => buf[active] = <<>>)'
                        /\ (append.stage = "begun" => Len(buf[append.buf]) = append.at + Room)'
    BY <1>1 DEF Exact
  <2>2. /\ file \o UnwrittenItems \o ActiveItems = logged
        /\ append.stage # "idle" /\ append.buf = io_buf => buf[active] = <<>>
        /\ append.stage = "begun" => Len(buf[append.buf]) = append.at + Room
    BY <1>1, <2>1 DEF AofInv, Exact
  <2>3. UnwrittenItems = buf[io_buf] /\ UnwrittenItems' = <<>> /\ ActiveItems' = ActiveItems
    BY <1>1, <2>1 DEF UnwrittenItems, ActiveItems, Concerns
  <2>4. file' \o <<>> = file'
    BY <1>4, ConcatEmptySeq
  <2>5. QED
    BY <1>1, <1>2, <2>2, <2>3, <2>4 DEF Room
<1>9. QED
  BY <1>4, <1>6, <1>7, <1>8 DEF AofInv

\* A write that fails puts a piece of its buffer there, cut within a command or not.
LEMMA WriteFailsInv ==
  ASSUME AofInv, WriteFails
  PROVE  AofInv'
<1>1. PICK piece \in Pieces(buf[io_buf]) \cup {<<Torn>>} : file' = file \o piece
  BY DEF WriteFails
<1>2. /\ up /\ thread = "write" /\ thread' = "fsync" /\ torn' = TRUE
      /\ UNCHANGED <<up, append, buf, active, isAofing, synced, next, logged>>
  BY DEF WriteFails, Loop
<1>3. io_buf \in Buffers /\ buf[io_buf] \in Seq(Items) /\ file \in Seq(Items)
  BY DEF AofInv, Types, Buffers, io_buf
<1>4. piece \in Seq(Items) /\ Within(piece, buf[io_buf])
  <2>1. CASE piece = <<Torn>>
    <3>1. Torn \in Items /\ ~IsCommand(Torn)
      BY DEF Items, Torn, IsCommand, Command
    <3>2. QED
      BY <2>1, <3>1 DEF Within
  <2>2. CASE piece \in Pieces(buf[io_buf])
    BY <1>3, <2>2, PieceWithin
  <2>3. QED
    BY <2>1, <2>2
<1>5. OnePlace' /\ file' \in Seq(Items)
  BY <1>1, <1>2, <1>4, WriteKeepsOnePlace
<1>6. synced \in 0 .. Len(file')
  <2>1. Len(file') = Len(file) + Len(piece) /\ Len(file) \in Nat /\ Len(piece) \in Nat
    BY <1>1, <1>3, <1>4, ConcatProperties, LenProperties
  <2>2. QED
    BY <2>1 DEF AofInv, Types
<1>7. Types'
  BY <1>2, <1>5, <1>6 DEF AofInv, Types
<1>8. Busy' /\ Sized' /\ Exact'
  BY <1>2 DEF AofInv, Busy, Sized, Room, Exact
<1>9. QED
  BY <1>5, <1>7, <1>8 DEF AofInv

\* Only what has been written is cleared, and its commands may then go out of
\* the buffer's books.
LEMMA ClearInv ==
  ASSUME AofInv, Clear
  PROVE  AofInv'
<1>1. /\ up /\ thread = "clear" /\ thread' = "finish"
      /\ buf' = [buf EXCEPT ![io_buf] = <<>>] /\ torn' = (torn \/ Concerns(io_buf))
      /\ UNCHANGED <<up, append, active, isAofing, file, synced, next, logged>>
  BY DEF Clear, Loop
<1>2. /\ active \in Buffers /\ io_buf \in Buffers /\ io_buf' = io_buf /\ active # io_buf
      /\ buf \in [Buffers -> Seq(Items)] /\ torn \in BOOLEAN /\ append \in Appends
      /\ file \in Seq(Items)
  BY <1>1 DEF AofInv, Types, Buffers, io_buf
<1>3. /\ buf' \in [Buffers -> Seq(Items)] /\ buf'[io_buf] = <<>> /\ Len(buf'[io_buf]) = 0
      /\ buf'[active] = buf[active]
  BY <1>1, <1>2
<1>4. Types'
  BY <1>1, <1>2, <1>3 DEF AofInv, Types, Concerns
<1>5. Busy'
  BY <1>1 DEF AofInv, Busy
<1>6. append.buf \in {active, io_buf}
  BY <1>2 DEF Appends, Buffers, io_buf
<1>7. Sized'
  BY <1>1, <1>3, <1>6 DEF AofInv, Sized, Room
<1>8. Exact'
  <2>1. SUFFICES ASSUME ~torn, ~Concerns(io_buf)
                 PROVE  /\ (file \o UnwrittenItems \o ActiveItems = logged)'
                        /\ Settled(io_buf)' = <<>>
                        /\ (append.stage # "idle" /\ append.buf = io_buf => buf[active] = <<>>)'
                        /\ (append.stage = "begun" => Len(buf[append.buf]) = append.at + Room)'
    BY <1>1, <1>2 DEF Exact
  <2>2. /\ file \o UnwrittenItems \o ActiveItems = logged
        /\ append.stage # "idle" /\ append.buf = io_buf => buf[active] = <<>>
        /\ append.stage = "begun" => Len(buf[append.buf]) = append.at + Room
    BY <1>1, <2>1 DEF AofInv, Exact
  <2>3. UnwrittenItems = <<>> /\ UnwrittenItems' = <<>>
    BY <1>1 DEF UnwrittenItems
  <2>4. ActiveItems' = ActiveItems /\ Settled(io_buf)' = <<>>
    BY <1>1, <1>2, <1>3, <2>1 DEF ActiveItems, Settled, Concerns
  <2>5. append.stage = "begun" => append.buf = active
    BY <1>6, <2>1 DEF Concerns
  <2>6. QED
    BY <1>1, <1>2, <1>3, <2>2, <2>3, <2>4, <2>5 DEF Room
<1>9. OnePlace'
  <2>1. \A s : Apart(<<>>, s) /\ Apart(s, <<>>)
    BY DEF Apart
  <2>2. Once(<<>>) /\ Before(<<>>, next)
    BY DEF Once, Before
  <2>3. \A b \in Buffers : b # io_buf => buf'[b] = buf[b]
    BY <1>1, <1>2
  <2>4. Apart(buf'[1], buf'[2])
    BY <1>1, <1>3, <2>1, <2>3 DEF AofInv, OnePlace, Buffers
  <2>5. QED
    BY <1>1, <1>2, <1>3, <2>1, <2>2, <2>3, <2>4 DEF AofInv, OnePlace
<1>10. QED
  BY <1>4, <1>5, <1>7, <1>8, <1>9 DEF AofInv

\* The items behind the first m.
LEMMA LastItems ==
  ASSUME NEW s \in Seq(Items), NEW m \in 0 .. Len(s)
  PROVE  /\ SubSeq(s, m + 1, Len(s)) \in Seq(Items)
         /\ DOMAIN SubSeq(s, m + 1, Len(s)) = 1 .. Len(s) - m
         /\ \A i \in 1 .. Len(s) - m : SubSeq(s, m + 1, Len(s))[i] = s[m + i]
<1>1. PICK n, r : n = Len(s) /\ r = SubSeq(s, m + 1, n)
  OBVIOUS
<1>2. n \in Nat /\ m \in 0 .. n /\ \A i \in 1 .. n : s[i] \in Items
  BY <1>1, LenProperties
<1>3. m + 1 \in Int /\ \A i \in m + 1 .. n : s[i] \in Items
  BY <1>2
<1>4. /\ r \in Seq(Items)
      /\ Len(r) = IF m + 1 <= n THEN n - (m + 1) + 1 ELSE 0
      /\ \A i \in 1 .. n - (m + 1) + 1 : r[i] = s[m + 1 + i - 1]
  BY <1>1, <1>2, <1>3, SubSeqProperties
<1>5. DOMAIN r = 1 .. Len(r)
  BY <1>4, LenProperties
<1>6. Len(r) = n - m
  BY <1>2, <1>4
<1>7. \A i \in 1 .. n - m : r[i] = s[m + i]
  <2>1. SUFFICES ASSUME NEW i \in 1 .. n - m PROVE r[i] = s[m + i]
    OBVIOUS
  <2>2. i \in 1 .. n - (m + 1) + 1 /\ m + 1 + i - 1 = m + i
    BY <1>2
  <2>3. QED
    BY <1>4, <2>2
<1>8. QED
  BY <1>1, <1>4, <1>5, <1>6, <1>7

\* A crash takes an end of the file that was not synced.
LEMMA CrashInv ==
  ASSUME AofInv, Crash
  PROVE  AofInv'
<1> DEFINE kept == SubSeq(file, 1, synced)
           rest == SubSeq(file, synced + 1, Len(file))
<1>1. /\ ~up' /\ UNCHANGED <<append, buf, active, thread, isAofing, synced, next, logged, torn>>
      /\ file' \in {file} \cup {kept \o p : p \in Pieces(rest)}
  BY DEF Crash
<1>2. /\ file \in Seq(Items) /\ synced \in 0 .. Len(file) /\ Len(file) \in Nat
      /\ DOMAIN file = 1 .. Len(file) /\ \A i \in 1 .. Len(file) : file[i] \in Items
  <2>1. file \in Seq(Items) /\ synced \in 0 .. Len(file)
    BY DEF AofInv, Types
  <2>2. QED
    BY <2>1, LenProperties
<1>3. file' \in Seq(Items) /\ synced \in 0 .. Len(file') /\ Within(file', file)
  <2>1. CASE file' = file
    BY <1>2, <2>1 DEF Within
  <2>2. CASE file' \in {kept \o p : p \in Pieces(rest)}
    <3>1. kept \in Seq(Items) /\ Len(kept) = synced /\ Within(kept, file)
          /\ DOMAIN kept = 1 .. synced
      <4>1. kept \in Seq(Items) /\ Len(kept) = synced /\ Within(kept, file)
        BY <1>2, FirstItems
      <4>2. QED
        BY <4>1, LenProperties
    <3>2. /\ rest \in Seq(Items) /\ DOMAIN rest = 1 .. Len(file) - synced
          /\ \A i \in 1 .. Len(file) - synced : rest[i] = file[synced + i]
      BY <1>2, LastItems
    <3> HIDE DEF kept, rest
    <3>3. PICK p \in Pieces(rest) : file' = kept \o p
      BY <2>2
    <3>4. p \in Seq(Items) /\ Within(p, rest)
      BY <3>2, PieceWithin
    <3>5. /\ kept \o p \in Seq(Items) /\ Len(kept \o p) = synced + Len(p) /\ Len(p) \in Nat
      BY <3>1, <3>4, ConcatProperties, LenProperties
    <3>6. ASSUME NEW i \in DOMAIN (kept \o p), IsCommand((kept \o p)[i])
          PROVE  i \in DOMAIN file /\ (kept \o p)[i] = file[i]
      <4>1. CASE i \in DOMAIN kept /\ (kept \o p)[i] = kept[i]
        BY <3>1, <3>6, <4>1 DEF Within
      <4>2. CASE i \in Int /\ i - synced \in DOMAIN p /\ (kept \o p)[i] = p[i - synced]
        <5>1. i - synced \in DOMAIN rest /\ p[i - synced] = rest[i - synced]
          BY <3>4, <3>6, <4>2 DEF Within
        <5>2. i \in 1 .. Len(file) /\ rest[i - synced] = file[synced + (i - synced)]
          BY <1>2, <3>2, <4>2, <5>1
        <5>3. synced + (i - synced) = i
          BY <1>2, <4>2
        <5>4. QED
          BY <1>2, <4>2, <5>1, <5>2, <5>3
      <4>3. QED
        BY <3>1, <3>4, <3>6, <4>1, <4>2, ItemOfConcat
    <3>7. QED
      BY <1>2, <3>3, <3>5, <3>6 DEF Within
  <2>3. QED
    BY <1>1, <2>1, <2>2
<1>4. up' \in BOOLEAN
  BY DEF Crash
<1>5. Types'
  BY <1>1, <1>3, <1>4 DEF AofInv, Types
<1>6. Busy' /\ Sized' /\ Exact'
  BY <1>1 DEF Busy, Sized, Exact
<1>7. Once(file) /\ Before(file, next)
  BY DEF AofInv, OnePlace
<1>8. Once(file') /\ Before(file', next)
  BY <1>3, <1>7, WithinKeeps
<1>9. OnePlace'
  BY <1>1, <1>8 DEF OnePlace
<1>10. QED
  BY <1>5, <1>6, <1>9 DEF AofInv

\* A restart begins with empty buffers and counts from the file it finds.
LEMMA initServerInv ==
  ASSUME AofInv, initServer
  PROVE  AofInv'
<1>1. /\ up' = TRUE /\ append' = Idle /\ buf' = [b \in Buffers |-> <<>>] /\ active' = 1
      /\ thread' = "check" /\ isAofing' = FALSE /\ synced' = Len(file)
      /\ logged' = file /\ torn' = FALSE /\ UNCHANGED <<file, next>>
  BY DEF initServer
<1>2. file \in Seq(Items) /\ Len(file) \in Nat /\ next \in 1 .. MaxCommands + 1
  BY LenProperties DEF AofInv, Types
<1>3. /\ <<>> \in Seq(Items) /\ <<>> \in Seq(Command) /\ Len(<<>>) = 0
      /\ Once(<<>>) /\ (\A n : Before(<<>>, n)) /\ (\A s : Apart(<<>>, s))
  BY DEF Once, Before, Apart
<1>4. append' \in Appends /\ append'.stage = "idle"
  BY <1>1, <1>3 DEF Appends, Idle, Buffers
<1>5. /\ io_buf' \in Buffers /\ active' \in Buffers /\ 1 \in Buffers /\ 2 \in Buffers
      /\ \A b \in Buffers : buf'[b] = <<>>
  BY <1>1 DEF Buffers, io_buf
<1>6. Types'
  <2>1. buf' \in [Buffers -> Seq(Items)]
    BY <1>1, <1>3
  <2>2. synced' \in 0 .. Len(file')
    BY <1>1, <1>2
  <2>3. QED
    BY <1>1, <1>2, <1>4, <1>5, <2>1, <2>2 DEF Types
<1>7. Busy' /\ Sized'
  BY <1>1, <1>4 DEF Busy, Sized
<1>8. Exact'
  <2>1. ActiveItems' = <<>> /\ UnwrittenItems' = <<>> /\ Settled(io_buf)' = <<>>
    BY <1>1, <1>4, <1>5 DEF ActiveItems, UnwrittenItems, Settled, Concerns
  <2>2. file \o <<>> = file
    BY <1>2, ConcatEmptySeq
  <2>3. QED
    BY <1>1, <1>4, <2>1, <2>2 DEF Exact
<1>9. OnePlace'
  BY <1>1, <1>3, <1>4, <1>5 DEF AofInv, OnePlace
<1>10. QED
  BY <1>6, <1>7, <1>8, <1>9 DEF AofInv

\* Nothing moves.
LEMMA StutterInv ==
  ASSUME AofInv, UNCHANGED vars
  PROVE  AofInv'
<1>1. Types' /\ Busy' /\ Sized'
  BY DEF AofInv, Types, Busy, Sized, Room, vars
<1>2. Exact'
  BY DEF AofInv, Exact, Room, UnwrittenItems, ActiveItems, Settled, Concerns, io_buf, vars
<1>3. OnePlace'
  BY DEF AofInv, OnePlace, io_buf, vars
<1>4. QED
  BY <1>1, <1>2, <1>3 DEF AofInv

-----------------------------------------------------------------------------
\* The conjunction is an invariant.
THEOREM Invariant == Spec => []AofInv
<1>1. AofInv /\ [Next]_vars => AofInv'
  <2>1. SUFFICES ASSUME AofInv, [Next]_vars PROVE AofInv'
    OBVIOUS
  <2>2. CASE \E n \in 1 .. 2 : processCommand(n)
    BY <2>1, <2>2, ArriveInv
  <2>3. CASE sdscatsds
    <3>1. CASE CatEnd
      BY <2>1, <3>1, CatEndInv
    <3>2. CASE \E grow \in BOOLEAN : CatBegin(grow)
      BY <2>1, <3>2, CatBeginInv
    <3>3. QED
      BY <2>3, <3>1, <3>2 DEF sdscatsds
  <2>4. CASE flushAppendOnlyFile \/ erverySecAOF
    BY <2>1, <2>4, QuietStepsInv, SwapInv, WriteInv, ClearInv DEF erverySecAOF
  <2>5. CASE WriteFails
    BY <2>1, <2>5, WriteFailsInv
  <2>6. CASE Crash
    BY <2>1, <2>6, CrashInv
  <2>7. CASE initServer
    BY <2>1, <2>7, initServerInv
  <2>8. CASE UNCHANGED vars
    BY <2>1, <2>8, StutterInv
  <2>9. QED
    BY <2>1, <2>2, <2>3, <2>4, <2>5, <2>6, <2>7, <2>8 DEF Next
<1>2. QED
  BY InitInv, <1>1, PTL DEF Spec

\* The file and the buffers hold what was logged, in its order, until an append
\* meets the thread between its write and its next swap or a write fails; and
\* whatever happens, over any number of crashes and restarts, no command is in
\* the file twice.
THEOREM LogIsKept == Spec => []NothingLost
<1>1. AofInv => NothingLost
  BY DEF AofInv, Exact, OnePlace, Once, NothingLost
<1>2. QED
  BY Invariant, <1>1, PTL

-----------------------------------------------------------------------------
(***************************************************************************)
(* Selections.  Only is defined by recursion on a sequence; what it returns *)
(* is found by induction, and induction by the least counterexample, which *)
(* a finite set of numbers has.                                            *)
(***************************************************************************)
\* What holds of a number when it holds of those below holds of all.
LEMMA NumberInduction ==
  ASSUME NEW n \in Nat, NEW Good,
         \A k \in 0 .. n : (\A j \in 0 .. k - 1 : j \in Good) => k \in Good
  PROVE  \A k \in 0 .. n : k \in Good
<1> DEFINE S == 1 .. n
           Bad == {1 .. k : k \in {i \in 0 .. n : i \notin Good}}
<1> SUFFICES ASSUME Bad # {} PROVE FALSE
  OBVIOUS
<1>1. IsWellFoundedOn(StrictSubsetOrdering(S), SUBSET S)
  <2>1. IsFiniteSet(S)
    BY FS_Interval
  <2>2. FiniteSubsetsOf(S) = SUBSET S
    BY <2>1, FS_FiniteSubsetsOfFinite
  <2>3. IsWellFoundedOn(StrictSubsetOrdering(S), FiniteSubsetsOf(S))
    BY FS_StrictSubsetOrderingWellFounded
  <2> QED
    BY <2>2, <2>3
<1>2. Bad \subseteq SUBSET S
  OBVIOUS
<1> HIDE DEF Bad
<1>3. PICK s \in Bad : \A t \in Bad : <<t, s>> \notin StrictSubsetOrdering(S)
  BY <1>1, <1>2, WFMin
<1> USE DEF Bad
<1>4. PICK k \in 0 .. n : k \notin Good /\ s = 1 .. k
  OBVIOUS
<1>5. ASSUME NEW j \in 0 .. k - 1 PROVE j \in Good
  <2>1. SUFFICES ASSUME j \notin Good PROVE FALSE
    OBVIOUS
  <2>2. 1 .. j \in Bad
    BY <1>4, <2>1
  <2>3. 1 .. j \subseteq s /\ 1 .. j # s /\ s \subseteq S
    <3>1. k \in 1 .. k /\ k \notin 1 .. j
      BY <1>4
    <3>2. QED
      BY <1>4, <3>1
  <2>4. <<1 .. j, s>> \in StrictSubsetOrdering(S)
    BY <2>3 DEF StrictSubsetOrdering
  <2>5. QED
    BY <1>3, <2>2, <2>4
<1>6. QED
  BY <1>4, <1>5

\* What holds of the empty sequence, and of each beginning of s when it holds
\* of the one that is shorter by one, holds of s.
LEMMA BeginningInduction ==
  ASSUME NEW s \in Seq(Items), NEW Good, <<>> \in Good,
         \A k \in 0 .. Len(s) - 1 :
           SubSeq(s, 1, k) \in Good => Append(SubSeq(s, 1, k), s[k + 1]) \in Good
  PROVE  s \in Good
<1> DEFINE N == {k \in 0 .. Len(s) : SubSeq(s, 1, k) \in Good}
<1>1. Len(s) \in Nat /\ \A i \in 1 .. Len(s) : s[i] \in Items
  BY LenProperties
<1>2. ASSUME NEW k \in 0 .. Len(s), \A j \in 0 .. k - 1 : j \in N
      PROVE  k \in N
  <2>1. CASE k = 0
    <3>1. SubSeq(s, 1, 0) = <<>>
      BY SubSeqEmpty
    <3>2. QED
      BY <2>1, <3>1
  <2>2. CASE k # 0
    <3>1. k - 1 \in 0 .. Len(s) - 1 /\ k - 1 \in 0 .. k - 1 /\ (k - 1) + 1 = k
      BY <1>1, <2>2
    <3>2. Append(SubSeq(s, 1, k - 1), s[k]) \in Good
      BY <1>2, <3>1
    <3>3. SubSeq(s, 1, k) = SubSeq(s, 1, k - 1) \o <<s[k]>>
      <4>1. 1 \in 1 .. Len(s) /\ k \in 1 .. Len(s)
        BY <1>1, <2>2
      <4>2. QED
        BY <4>1, SubSeqRecursiveSecond
    <3>4. Append(SubSeq(s, 1, k - 1), s[k]) = SubSeq(s, 1, k - 1) \o <<s[k]>>
      <4>1. SubSeq(s, 1, k - 1) \in Seq(Items) /\ s[k] \in Items
        <5>1. k - 1 \in 0 .. Len(s) /\ k \in 1 .. Len(s)
          BY <1>1, <2>2
        <5>2. QED
          BY <1>1, <5>1, FirstItems
      <4>2. QED
        BY <4>1, AppendIsConcat
    <3>5. QED
      BY <3>2, <3>3, <3>4
  <2>3. QED
    BY <2>1, <2>2
<1> HIDE DEF N
<1>3. \A k \in 0 .. Len(s) : k \in N
  BY <1>1, <1>2, NumberInduction
<1>4. SubSeq(s, 1, Len(s)) \in Good
  BY <1>1, <1>3 DEF N
<1>5. QED
  BY <1>4, SubSeqFull

\* The function in Only, for the first m items.
Selects(f, s, S, m) ==
  f = [n \in 0 .. m |->
         IF n = 0 THEN <<>> ELSE IF s[n] \in S THEN Append(f[n - 1], s[n]) ELSE f[n - 1]]

\* Only's function exists.
LEMMA SelectionExists ==
  ASSUME NEW s, NEW S, NEW m \in Nat
  PROVE  \E f : Selects(f, s, S, m)
<1> DEFINE Good == {k \in 0 .. m : \E f : Selects(f, s, S, k)}
<1>1. ASSUME NEW k \in 0 .. m, \A j \in 0 .. k - 1 : j \in Good
      PROVE  k \in Good
  <2>1. CASE k = 0
    <3>1. Selects([n \in 0 .. 0 |-> <<>>], s, S, 0)
      BY DEF Selects
    <3>2. QED
      BY <2>1, <3>1
  <2>2. CASE k # 0
    <3>1. k - 1 \in 0 .. k - 1
      BY <2>2
    <3>2. PICK f : Selects(f, s, S, k - 1)
      BY <1>1, <3>1
    <3>3. PICK g : g = [n \in 0 .. k |->
                          IF n # k THEN f[n]
                          ELSE IF s[n] \in S THEN Append(f[n - 1], s[n]) ELSE f[n - 1]]
      OBVIOUS
    <3>4. \A n \in 0 .. k : n # k => n \in 0 .. k - 1
      OBVIOUS
    <3>5. \A n \in 0 .. k - 1 : g[n] = f[n]
      BY <3>3
    <3>6. ASSUME NEW n \in 0 .. k
          PROVE  g[n] = IF n = 0 THEN <<>>
                        ELSE IF s[n] \in S THEN Append(g[n - 1], s[n]) ELSE g[n - 1]
      <4>1. CASE n = 0
        <5>1. 0 \in 0 .. k - 1
          BY <2>2
        <5>2. g[0] = f[0] /\ f[0] = <<>>
          BY <3>2, <3>5, <5>1 DEF Selects
        <5>3. QED
          BY <4>1, <5>2
      <4>2. CASE n # 0 /\ n # k
        <5>1. n \in 0 .. k - 1 /\ n - 1 \in 0 .. k - 1
          BY <4>2
        <5>2. g[n] = f[n] /\ g[n - 1] = f[n - 1]
          BY <3>5, <5>1
        <5>3. f[n] = IF s[n] \in S THEN Append(f[n - 1], s[n]) ELSE f[n - 1]
          BY <3>2, <4>2, <5>1 DEF Selects
        <5>4. QED
          BY <4>2, <5>2, <5>3
      <4>3. CASE n = k
        <5>1. g[k - 1] = f[k - 1]
          BY <3>1, <3>5
        <5>2. g[k] = IF s[k] \in S THEN Append(f[k - 1], s[k]) ELSE f[k - 1]
          BY <3>3
        <5>3. QED
          BY <2>2, <4>3, <5>1, <5>2
      <4>4. QED
        BY <4>1, <4>2, <4>3
    <3>7. DOMAIN g = 0 .. k /\ g = [n \in 0 .. k |-> g[n]]
      BY <3>3
    <3>8. Selects(g, s, S, k)
      BY <3>6, <3>7 DEF Selects
    <3>9. QED
      BY <3>8
  <2>3. QED
    BY <2>1, <2>2
<1> HIDE DEF Good
<1>2. \A k \in 0 .. m : k \in Good
  BY <1>1, NumberInduction
<1>3. m \in Good
  BY <1>2
<1>4. QED
  BY <1>3 DEF Good

\* Two sequences that begin alike select alike as far as that goes.
LEMMA SelectionsAgree ==
  ASSUME NEW s, NEW t, NEW S, NEW m \in Nat, NEW n \in Nat, n <= m,
         NEW f, Selects(f, s, S, m), NEW g, Selects(g, t, S, n),
         \A i \in 1 .. n : s[i] = t[i]
  PROVE  f[n] = g[n]
<1> DEFINE Good == {k \in 0 .. n : f[k] = g[k]}
<1>1. ASSUME NEW k \in 0 .. n, \A j \in 0 .. k - 1 : j \in Good
      PROVE  k \in Good
  <2>1. k \in 0 .. m
    OBVIOUS
  <2>2. /\ f[k] = IF k = 0 THEN <<>> ELSE IF s[k] \in S THEN Append(f[k - 1], s[k]) ELSE f[k - 1]
        /\ g[k] = IF k = 0 THEN <<>> ELSE IF t[k] \in S THEN Append(g[k - 1], t[k]) ELSE g[k - 1]
    BY <2>1 DEF Selects
  <2>3. k # 0 => f[k - 1] = g[k - 1] /\ s[k] = t[k]
    <3>1. k # 0 => k - 1 \in 0 .. k - 1 /\ k \in 1 .. n
      OBVIOUS
    <3>2. QED
      BY <1>1, <3>1
  <2>4. QED
    BY <2>2, <2>3
<1> HIDE DEF Good
<1>2. \A k \in 0 .. n : k \in Good
  BY <1>1, NumberInduction
<1>3. n \in Good
  BY <1>2
<1>4. QED
  BY <1>3 DEF Good

\* Only's value is that of any such function.
LEMMA OnlyIs ==
  ASSUME NEW s, NEW S, Len(s) \in Nat, NEW f, Selects(f, s, S, Len(s))
  PROVE  Only(s, S) = f[Len(s)]
<1> DEFINE g == CHOOSE h : Selects(h, s, S, Len(s))
<1>1. Only(s, S) = g[Len(s)]
  BY DEF Only, Selects
<1>2. Selects(g, s, S, Len(s))
  OBVIOUS
<1> HIDE DEF g
<1>3. g[Len(s)] = f[Len(s)]
  BY <1>2, SelectionsAgree
<1>4. QED
  BY <1>1, <1>3

\* Nothing is selected from nothing.
LEMMA OnlyEmpty == \A S : Only(<<>>, S) = <<>>
<1> SUFFICES ASSUME NEW S PROVE Only(<<>>, S) = <<>>
  OBVIOUS
<1>1. Len(<<>>) = 0 /\ 0 \in Nat
  OBVIOUS
<1>2. PICK f : Selects(f, <<>>, S, 0)
  BY SelectionExists
<1>3. f[0] = <<>>
  BY <1>2 DEF Selects
<1>4. QED
  BY <1>1, <1>2, <1>3, OnlyIs

\* One more item is selected, or not.
LEMMA OnlyAppend ==
  ASSUME NEW s \in Seq(Items), NEW x \in Items, NEW S
  PROVE  /\ x \in S => Only(Append(s, x), S) = Append(Only(s, S), x)
         /\ x \notin S => Only(Append(s, x), S) = Only(s, S)
<1> DEFINE n == Len(s)
           t == Append(s, x)
<1>1. n \in Nat /\ Len(t) = n + 1 /\ (\A i \in 1 .. n : t[i] = s[i]) /\ t[n + 1] = x
  BY AppendProperties, LenProperties
<1> HIDE DEF t, n
<1>2. PICK f : Selects(f, s, S, n)
  BY <1>1, SelectionExists
<1>3. PICK g : Selects(g, t, S, n + 1)
  <2>1. n + 1 \in Nat
    BY <1>1
  <2>2. QED
    BY <2>1, SelectionExists
<1>4. Only(s, S) = f[n] /\ Only(t, S) = g[n + 1]
  BY <1>1, <1>2, <1>3, OnlyIs DEF n
<1>5. g[n] = f[n]
  <2>1. n + 1 \in Nat /\ n <= n + 1
    BY <1>1
  <2>2. QED
    BY <1>1, <1>2, <1>3, <2>1, SelectionsAgree
<1>6. g[n + 1] = IF x \in S THEN Append(g[n], x) ELSE g[n]
  <2>1. n + 1 \in 0 .. n + 1 /\ n + 1 # 0 /\ (n + 1) - 1 = n
    BY <1>1
  <2>2. QED
    BY <1>1, <1>3, <2>1 DEF Selects
<1>7. QED
  BY <1>4, <1>5, <1>6 DEF t

\* What is selected are items of the set.
LEMMA OnlyType ==
  ASSUME NEW s \in Seq(Items), NEW S
  PROVE  Only(s, S) \in Seq(S)
<1> DEFINE Good == {t \in Seq(Items) : Only(t, S) \in Seq(S)}
<1>1. <<>> \in Good
  <2>1. <<>> \in Seq(Items) /\ <<>> \in Seq(S)
    OBVIOUS
  <2>2. QED
    BY <2>1, OnlyEmpty
<1>2. ASSUME NEW k \in 0 .. Len(s) - 1, SubSeq(s, 1, k) \in Good
      PROVE  Append(SubSeq(s, 1, k), s[k + 1]) \in Good
  <2>1. PICK t, x : t = SubSeq(s, 1, k) /\ x = s[k + 1]
    OBVIOUS
  <2>2. t \in Seq(Items) /\ Only(t, S) \in Seq(S)
    BY <1>2, <2>1
  <2>3. x \in Items
    BY <2>1, LenProperties, ElementOfSeq
  <2>4. Only(Append(t, x), S) \in Seq(S)
    <3>1. CASE x \in S
      <4>1. Only(Append(t, x), S) = Append(Only(t, S), x)
        BY <2>2, <2>3, <3>1, OnlyAppend
      <4>2. QED
        BY <2>2, <3>1, <4>1, AppendProperties
    <3>2. CASE x \notin S
      BY <2>2, <2>3, <3>2, OnlyAppend
    <3>3. QED
      BY <3>1, <3>2
  <2>5. Append(t, x) \in Seq(Items)
    BY <2>2, <2>3, AppendProperties
  <2>6. QED
    BY <2>1, <2>4, <2>5
<1> HIDE DEF Good
<1>3. s \in Good
  BY <1>1, <1>2, BeginningInduction
<1>4. QED
  BY <1>3 DEF Good

\* Sets that agree on the items of s select the same.
LEMMA OnlySame ==
  ASSUME NEW s \in Seq(Items), NEW S, NEW T, \A i \in DOMAIN s : s[i] \in S <=> s[i] \in T
  PROVE  Only(s, S) = Only(s, T)
<1> DEFINE Good == {t \in Seq(Items) : Only(t, S) = Only(t, T)}
<1>1. <<>> \in Good
  BY OnlyEmpty
<1>2. ASSUME NEW k \in 0 .. Len(s) - 1, SubSeq(s, 1, k) \in Good
      PROVE  Append(SubSeq(s, 1, k), s[k + 1]) \in Good
  <2>1. PICK t, x : t = SubSeq(s, 1, k) /\ x = s[k + 1]
    OBVIOUS
  <2>2. t \in Seq(Items) /\ Only(t, S) = Only(t, T)
    BY <1>2, <2>1
  <2>3. x \in Items /\ (x \in S <=> x \in T)
    <3>1. k + 1 \in 1 .. Len(s)
      BY LenProperties
    <3>2. QED
      BY <2>1, <3>1, LenProperties, ElementOfSeq
  <2>4. Only(Append(t, x), S) = Only(Append(t, x), T)
    <3>1. CASE x \in S
      <4>1. Only(Append(t, x), S) = Append(Only(t, S), x)
        BY <2>2, <2>3, <3>1, OnlyAppend
      <4>2. Only(Append(t, x), T) = Append(Only(t, T), x)
        BY <2>2, <2>3, <3>1, OnlyAppend
      <4>3. QED
        BY <2>2, <4>1, <4>2
    <3>2. CASE x \notin S
      <4>1. Only(Append(t, x), S) = Only(t, S)
        BY <2>2, <2>3, <3>2, OnlyAppend
      <4>2. Only(Append(t, x), T) = Only(t, T)
        BY <2>2, <2>3, <3>2, OnlyAppend
      <4>3. QED
        BY <2>2, <4>1, <4>2
    <3>3. QED
      BY <3>1, <3>2
  <2>5. Append(t, x) \in Seq(Items)
    BY <2>2, <2>3, AppendProperties
  <2>6. QED
    BY <2>1, <2>4, <2>5
<1> HIDE DEF Good
<1>3. s \in Good
  BY <1>1, <1>2, BeginningInduction
<1>4. QED
  BY <1>3 DEF Good

\* To select twice is to select from both sets.
LEMMA OnlyTwice ==
  ASSUME NEW s \in Seq(Items), NEW S \in SUBSET Items, NEW T
  PROVE  Only(Only(s, S), T) = Only(s, S \cap T)
<1> DEFINE Good == {t \in Seq(Items) : Only(Only(t, S), T) = Only(t, S \cap T)}
<1>1. <<>> \in Good
  BY OnlyEmpty
<1>2. ASSUME NEW k \in 0 .. Len(s) - 1, SubSeq(s, 1, k) \in Good
      PROVE  Append(SubSeq(s, 1, k), s[k + 1]) \in Good
  <2>1. PICK t, x : t = SubSeq(s, 1, k) /\ x = s[k + 1]
    OBVIOUS
  <2>2. t \in Seq(Items) /\ Only(Only(t, S), T) = Only(t, S \cap T)
    BY <1>2, <2>1
  <2>3. x \in Items
    BY <2>1, LenProperties, ElementOfSeq
  <2>4. Only(t, S) \in Seq(Items)
    BY <2>2, OnlyType, SeqMonotonic
  <2>5. Only(Only(Append(t, x), S), T) = Only(Append(t, x), S \cap T)
    <3>1. CASE x \notin S
      BY <2>2, <2>3, <3>1, OnlyAppend
    <3>2. CASE x \in S /\ x \in T
      <4>1. Only(Append(t, x), S) = Append(Only(t, S), x)
        BY <2>2, <2>3, <3>2, OnlyAppend
      <4>2. Only(Append(Only(t, S), x), T) = Append(Only(Only(t, S), T), x)
        BY <2>3, <2>4, <3>2, OnlyAppend
      <4>3. Only(Append(t, x), S \cap T) = Append(Only(t, S \cap T), x)
        BY <2>2, <2>3, <3>2, OnlyAppend
      <4>4. QED
        BY <2>2, <4>1, <4>2, <4>3
    <3>3. CASE x \in S /\ x \notin T
      <4>1. Only(Append(t, x), S) = Append(Only(t, S), x)
        BY <2>2, <2>3, <3>3, OnlyAppend
      <4>2. Only(Append(Only(t, S), x), T) = Only(Only(t, S), T)
        BY <2>3, <2>4, <3>3, OnlyAppend
      <4>3. Only(Append(t, x), S \cap T) = Only(t, S \cap T)
        BY <2>2, <2>3, <3>3, OnlyAppend
      <4>4. QED
        BY <2>2, <4>1, <4>2, <4>3
    <3>4. QED
      BY <3>1, <3>2, <3>3
  <2>6. Append(t, x) \in Seq(Items)
    BY <2>2, <2>3, AppendProperties
  <2>7. QED
    BY <2>1, <2>5, <2>6
<1> HIDE DEF Good
<1>3. s \in Good
  BY <1>1, <1>2, BeginningInduction
<1>4. QED
  BY <1>3 DEF Good

-----------------------------------------------------------------------------
(***************************************************************************)
(* What a restart would run.                                               *)
(***************************************************************************)
\* The items at which a load stops.
Stops == {Hole, Torn}
Sound(s) == \A i \in DOMAIN s : s[i] \notin Stops

\* Of the commands that came in one read the first runs and no other; what is
\* in memory is what was logged, as far as it ran.
Memory ==
  /\ db \in Seq(Command) /\ riders \subseteq Command
  /\ up =>
       /\ Before(logged, next) /\ \A c \in riders : c < next
       /\ append.stage # "idle" =>
            /\ Len(append.cmds) \in 1 .. 2
            /\ append.cmds[1] \notin riders
            /\ Len(append.cmds) = 2 => append.cmds[2] \in riders
       /\ Sound(logged) => Only(logged, Command \ riders) = db

\* The beginning of a file that is loaded has an end, and is all of it when
\* the load is not stopped.
LEMMA LoadsWhat ==
  ASSUME NEW f \in Seq(Items)
  PROVE  /\ Loads(f) \in Seq(Command)
         /\ Sound(f) => Loads(f) = Only(f, Command)
<1> DEFINE bad == {i \in DOMAIN f : f[i] \in {Hole, Torn}}
           good == {n \in 0 .. Len(f) : \A i \in bad : i > n}
           last == CHOOSE n \in good : \A m \in good : m <= n
<1>1. Len(f) \in Nat /\ DOMAIN f = 1 .. Len(f)
  BY LenProperties
<1>2. \E n \in good : \A m \in good : m <= n
  <2>1. SUFFICES ASSUME \A n \in good : \E m \in good : ~(m <= n) PROVE FALSE
    OBVIOUS
  <2>2. ASSUME NEW k \in 0 .. Len(f), \A j \in 0 .. k - 1 : j \in good
        PROVE  k \in good
    <3>1. CASE k = 0
      BY <1>1, <3>1
    <3>2. CASE k # 0
      <4>1. k - 1 \in 0 .. k - 1
        BY <3>2
      <4>2. PICK m \in good : ~(m <= k - 1)
        BY <2>1, <2>2, <4>1
      <4>3. m \in 0 .. Len(f) /\ m >= k
        BY <4>2
      <4>4. QED
        BY <1>1, <4>2, <4>3
    <3>3. QED
      BY <3>1, <3>2
  <2> HIDE DEF good
  <2>3. \A k \in 0 .. Len(f) : k \in good
    BY <1>1, <2>2, NumberInduction
  <2>4. Len(f) \in good
    BY <1>1, <2>3
  <2>5. QED
    BY <1>1, <2>1, <2>4 DEF good
<1>3. last \in good /\ \A m \in good : m <= last
  BY <1>2
<1>4. Loads(f) = Only(SubSeq(f, 1, last), Command)
  BY DEF Loads
<1>5. last \in 0 .. Len(f)
  BY <1>3
<1> HIDE DEF last
<1>6. Loads(f) \in Seq(Command)
  BY <1>4, <1>5, FirstItems, OnlyType
<1>7. ASSUME Sound(f) PROVE Loads(f) = Only(f, Command)
  <2>1. Len(f) \in good
    BY <1>1, <1>7 DEF Sound, Stops
  <2>2. last = Len(f)
    <3>1. Len(f) <= last
      BY <1>3, <2>1
    <3>2. PICK n, l : n = Len(f) /\ l = last
      OBVIOUS
    <3>3. n \in Nat /\ l \in 0 .. n /\ n <= l
      BY <1>1, <1>5, <3>1, <3>2
    <3>4. QED
      BY <3>2, <3>3
  <2>3. QED
    BY <1>4, <2>2, SubSeqFull
<1>8. QED
  BY <1>6, <1>7

\* What one read adds to the selection.
LEMMA OnlyFirst ==
  ASSUME NEW s \in Seq(Items), NEW c \in Seq(Items), Len(c) \in 1 .. 2, NEW S,
         c[1] \in S, Len(c) = 2 => c[2] \notin S
  PROVE  Only(s \o c, S) = Append(Only(s, S), c[1])
<1>1. c[1] \in Items /\ (Len(c) = 2 => c[2] \in Items)
  BY ElementOfSeq
<1>2. Append(s, c[1]) \in Seq(Items) /\ Append(s, c[1]) = s \o <<c[1]>>
  BY <1>1, AppendProperties, AppendIsConcat
<1>3. Only(Append(s, c[1]), S) = Append(Only(s, S), c[1])
  BY <1>1, OnlyAppend
<1>4. CASE Len(c) = 1
  <2>1. PICK a : a = c[1]
    OBVIOUS
  <2>2. <<a>> \in Seq(Items) /\ Len(<<a>>) = 1 /\ <<a>>[1] = a
    BY <1>1, <2>1
  <2>3. c = <<a>>
    <3>1. \A i \in 1 .. Len(c) : c[i] = <<a>>[i]
      BY <1>4, <2>1, <2>2
    <3>2. QED
      BY <1>4, <2>2, <3>1, SeqEqual
  <2>4. QED
    BY <1>2, <1>3, <2>1, <2>3
<1>5. CASE Len(c) = 2
  <2>1. PICK a, b : a = c[1] /\ b = c[2]
    OBVIOUS
  <2>2. /\ <<a>> \in Seq(Items) /\ <<b>> \in Seq(Items)
        /\ Len(<<a>>) = 1 /\ Len(<<b>>) = 1 /\ <<a>>[1] = a /\ <<b>>[1] = b
    BY <1>1, <1>5, <2>1
  <2>3. /\ <<a>> \o <<b>> \in Seq(Items) /\ Len(<<a>> \o <<b>>) = 2
        /\ (<<a>> \o <<b>>)[1] = a /\ (<<a>> \o <<b>>)[2] = b
    BY <2>2, ConcatItems, ConcatProperties
  <2>4. c = <<a>> \o <<b>>
    <3>1. \A i \in 1 .. Len(c) : c[i] = (<<a>> \o <<b>>)[i]
      <4>1. 1 .. Len(c) = {1, 2}
        BY <1>5
      <4>2. QED
        BY <2>1, <2>3, <4>1
    <3>2. QED
      BY <1>5, <2>3, <3>1, SeqEqual
  <2>5. s \o c = (s \o <<a>>) \o <<b>>
    BY <2>2, <2>4, ItemsAssociative
  <2>6. (s \o <<a>>) \o <<b>> = Append(Append(s, a), b)
    BY <1>1, <1>2, <1>5, <2>1, AppendIsConcat
  <2>7. Only(Append(Append(s, a), b), S) = Only(Append(s, a), S)
    BY <1>1, <1>2, <1>5, <2>1, OnlyAppend
  <2>8. QED
    BY <1>3, <2>1, <2>5, <2>6, <2>7
<1>6. QED
  BY <1>4, <1>5

\* A server that starts for the first time has executed and logged nothing.
LEMMA InitMemory == Init => Memory
<1> SUFFICES ASSUME Init PROVE Memory
  OBVIOUS
<1>1. db = <<>> /\ riders = {} /\ logged = <<>> /\ append.stage = "idle"
  BY DEF Init, Idle
<1>2. Before(<<>>, next)
  BY DEF Before
<1>3. <<>> \in Seq(Command)
  OBVIOUS
<1>4. QED
  BY <1>1, <1>2, <1>3, OnlyEmpty DEF Memory

\* A command that rides along is newer than all that were logged.
LEMMA ArriveMemory ==
  ASSUME AofInv, Memory, NEW n \in 1 .. 2, processCommand(n)
  PROVE  Memory'
<1>1. PICK cmds, more : /\ cmds = [i \in 1 .. n |-> next + i - 1]
                        /\ more = next + 1 .. next + n - 1
  OBVIOUS
<1>2. /\ up /\ append.stage = "idle" /\ next + n <= MaxCommands + 1 /\ next' = next + n
      /\ append' = [Idle EXCEPT !.stage = "fetched", !.buf = active, !.cmds = cmds]
      /\ riders' = riders \cup more
      /\ UNCHANGED <<up, db, logged>>
  BY <1>1 DEF processCommand
<1>3. next \in 1 .. MaxCommands + 1 /\ MaxCommands \in Nat /\ logged \in Seq(Items)
  BY MaxCommandsAssumption DEF AofInv, Types
<1>4. append'.cmds = cmds
  BY <1>2 DEF Idle
<1>5. /\ Len(cmds) = n /\ cmds[1] = next /\ (n = 2 => cmds[2] = next + 1)
  BY <1>1, <1>3
<1>6. /\ db \in Seq(Command) /\ riders \subseteq Command
      /\ Before(logged, next) /\ (\A c \in riders : c < next)
      /\ Sound(logged) => Only(logged, Command \ riders) = db
  BY <1>2 DEF Memory
<1>7. riders' \subseteq Command /\ \A c \in riders' : c < next + n
  <2>1. more \subseteq Command /\ \A c \in more : c < next + n
    BY <1>1, <1>2, <1>3 DEF Command
  <2>2. \A c \in riders : c < next + n
    BY <1>3, <1>6 DEF Command
  <2>3. QED
    BY <1>2, <1>6, <2>1, <2>2
<1>8. Before(logged, next + n)
  <2>1. \A i \in DOMAIN logged : IsCommand(logged[i]) => logged[i] < next /\ logged[i] \in Int
    BY <1>6 DEF Before, IsCommand, Command
  <2>2. QED
    BY <1>3, <2>1 DEF Before
<1>9. next \notin riders' /\ (n = 2 => next + 1 \in riders')
  <2>1. next \notin riders
    BY <1>3, <1>6
  <2>2. next \notin more /\ (n = 2 => next + 1 \in more)
    BY <1>1, <1>3
  <2>3. QED
    BY <1>2, <2>1, <2>2
<1>10. Only(logged, Command \ riders') = Only(logged, Command \ riders)
  <2>1. ASSUME NEW i \in DOMAIN logged
        PROVE  logged[i] \in Command \ riders' <=> logged[i] \in Command \ riders
    <3>1. logged[i] \in Command => logged[i] < next /\ logged[i] \in Int
      BY <1>6 DEF Before, IsCommand, Command
    <3>2. \A c \in more : ~(c < next)
      BY <1>1, <1>3
    <3>3. QED
      BY <1>2, <3>1, <3>2
  <2>2. PICK r : r = riders'
    OBVIOUS
  <2>3. QED
    BY <1>3, <2>1, <2>2, OnlySame
<1>11. QED
  BY <1>2, <1>4, <1>5, <1>6, <1>7, <1>8, <1>9, <1>10 DEF Memory

\* The first of the commands is run and all of them are logged.
LEMMA CatEndMemory ==
  ASSUME AofInv, Memory, CatEnd
  PROVE  Memory'
<1>1. PICK cmds : cmds = append.cmds
  OBVIOUS
<1>2. /\ up /\ append.stage = "begun" /\ append' = Idle /\ logged' = logged \o cmds
      /\ db' = Append(db, cmds[1]) /\ UNCHANGED <<up, next, riders>>
  BY <1>1 DEF CatEnd
<1>3. /\ cmds \in Seq(Command) /\ cmds \in Seq(Items) /\ logged \in Seq(Items)
      /\ Before(cmds, next)
  <2>1. cmds \in Seq(Command) /\ logged \in Seq(Items)
    BY <1>1 DEF AofInv, Types, Appends
  <2>2. Before(cmds, next)
    BY <1>1, <1>2 DEF AofInv, OnePlace
  <2>3. QED
    BY <2>1, <2>2, CommandsAreItems
<1>4. /\ db \in Seq(Command) /\ riders \subseteq Command
      /\ Before(logged, next) /\ (\A c \in riders : c < next)
      /\ Len(cmds) \in 1 .. 2 /\ cmds[1] \notin riders
      /\ Len(cmds) = 2 => cmds[2] \in riders
      /\ Sound(logged) => Only(logged, Command \ riders) = db
  BY <1>1, <1>2 DEF Memory
<1>5. cmds[1] \in Command
  BY <1>3, <1>4, ElementOfSeq
<1>6. db' \in Seq(Command) /\ Before(logged \o cmds, next)
  BY <1>2, <1>3, <1>4, <1>5, AppendProperties, ApartConcat
<1>7. Only(logged \o cmds, Command \ riders) = Append(Only(logged, Command \ riders), cmds[1])
  BY <1>3, <1>4, <1>5, OnlyFirst
<1>8. Sound(logged \o cmds) => Sound(logged)
  <2>1. Len(logged) \in Nat /\ Len(cmds) \in Nat /\ DOMAIN logged = 1 .. Len(logged)
    BY <1>3, LenProperties
  <2>2. \A i \in DOMAIN logged : i \in DOMAIN (logged \o cmds) /\ (logged \o cmds)[i] = logged[i]
    BY <1>3, <2>1, ConcatItems
  <2>3. QED
    BY <2>2 DEF Sound
<1>9. append'.stage = "idle"
  BY <1>2 DEF Idle
<1>10. QED
  BY <1>2, <1>4, <1>6, <1>7, <1>8, <1>9 DEF Memory

\* Every step keeps Memory.
LEMMA NextMemory ==
  ASSUME AofInv, Memory, [Next]_vars
  PROVE  Memory'
<1>1. CASE \E n \in 1 .. 2 : processCommand(n)
  BY <1>1, ArriveMemory
<1>2. CASE CatEnd
  BY <1>2, CatEndMemory
<1>3. CASE \E grow \in BOOLEAN : CatBegin(grow)
  <2>1. PICK grow \in BOOLEAN : CatBegin(grow)
    BY <1>3
  <2>2. /\ up /\ append.stage = "fetched" /\ append \in Appends
        /\ append' = [append EXCEPT !.stage = "begun", !.at = Len(buf[append.buf]), !.grow = grow]
        /\ UNCHANGED <<up, db, next, logged, riders>>
    BY <2>1 DEF CatBegin, AofInv, Types
  <2>3. append'.cmds = append.cmds
    BY <2>2 DEF Appends
  <2>4. append.stage # "idle"
    BY <2>2
  <2>5. QED
    BY <2>2, <2>3, <2>4 DEF Memory
<1>4. CASE flushAppendOnlyFile \/ erverySecAOF \/ WriteFails \/ UNCHANGED vars
  <2>1. UNCHANGED Loop
    BY <1>4 DEF flushAppendOnlyFile, erverySecAOF, WriteFails, Test, Wait, Swap, Write, fsync,
                Clear, Finish, Loop, vars
  <2>2. QED
    BY <2>1 DEF Memory, Loop
<1>5. CASE Crash
  BY <1>5 DEF Memory, Crash
<1>6. CASE initServer
  <2>1. /\ append' = Idle /\ db' = Loads(file) /\ logged' = file /\ riders' = {}
        /\ UNCHANGED <<file, next>>
    BY <1>6 DEF initServer
  <2>2. file \in Seq(Items) /\ Before(file, next)
    BY DEF AofInv, Types, OnePlace
  <2>3. Loads(file) \in Seq(Command) /\ (Sound(file) => Loads(file) = Only(file, Command))
    BY <2>2, LoadsWhat
  <2>4. Command \ {} = Command /\ append'.stage = "idle"
    BY <2>1 DEF Idle
  <2>5. QED
    BY <2>1, <2>2, <2>3, <2>4 DEF Memory
<1>7. QED
  BY <1>1, <1>2, <1>3, <1>4, <1>5, <1>6 DEF Next, sdscatsds

\* As long as the log holds nothing that stops aofLoad, the commands in it that
\* ran, in its order, are the ones that made the database in memory.
THEOREM MemoryInvariant == Spec => []Memory
<1>1. AofInv /\ Memory /\ [Next]_vars => Memory'
  BY NextMemory
<1>2. QED
  BY InitMemory, Invariant, <1>1, PTL DEF Spec

\* Every variable of the AOF keeps its type, through any number of crashes.
THEOREM AofTypeCorrect == Spec => []TypeOK
<1>1. AofInv /\ Memory => TypeOK
  BY DEF AofInv, Types, Appends, Memory, TypeOK
<1>2. QED
  BY Invariant, MemoryInvariant, <1>1, PTL

\* When all that was logged is in the file, a restart would rebuild what is in
\* memory, but for the commands that shared a read with another: unless the
\* file has zeros or half a command in it.
THEOREM ReloadRebuilds == Spec => []ReloadAgrees
<1>1. ASSUME AofInv, Memory, up, file = logged,
             {Hole, Torn} \cap {file[i] : i \in DOMAIN file} = {}
      PROVE  Only(Loads(file), Command \ riders) = db
  <2>1. file \in Seq(Items)
    BY <1>1 DEF AofInv, Types
  <2>2. Sound(file)
    BY <1>1 DEF Sound, Stops
  <2>3. Loads(file) = Only(file, Command)
    BY <2>1, <2>2, LoadsWhat
  <2>4. Command \in SUBSET Items /\ Command \cap (Command \ riders) = Command \ riders
    BY DEF Items
  <2>5. Only(Only(file, Command), Command \ riders) = Only(file, Command \ riders)
    BY <2>1, <2>4, OnlyTwice
  <2>6. QED
    BY <1>1, <2>2, <2>3, <2>5 DEF Memory
<1>2. AofInv /\ Memory => ReloadAgrees
  BY <1>1 DEF ReloadAgrees
<1>3. QED
  BY Invariant, MemoryInvariant, <1>2, PTL
=============================================================================
