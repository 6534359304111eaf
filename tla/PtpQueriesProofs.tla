--------------------------- MODULE PtpQueriesProofs ---------------------------
(***************************************************************************)
(* Three results on PtpQueries, for any set of instances and any answers.  *)
(* With pmc and the parser taken apart, an instance still behaves as       *)
(* PtpInstance says, so that what is proved there holds of it.  The parser *)
(* is right about every text: ParserIsRight relates its two loops to what  *)
(* a text says, by induction over the lines and the blocks.  With it, a    *)
(* snapshot is whole, and one that says "synchronized" was once true.      *)
(***************************************************************************)
EXTENDS PtpQueries, PtpInstanceProofs, WellFoundedInduction

\* Each way in which pmc ends is one of PtpInstance's two.
LEMMA PmcEnds ==
    ASSUME NEW i \in Instances, PmcBreaks(i) \/ PmcRefuses(i) \/ PmcParsed(i)
    PROVE  PmcAnswers(i) \/ PmcFails(i)
<1>1. CASE PmcBreaks(i)
  BY <1>1 DEF PmcBreaks, Fails, Ends, PmcAnswers
<1>2. CASE PmcRefuses(i)
  BY <1>2 DEF PmcRefuses, Ends, PmcFails, Blames
<1>3. CASE PmcParsed(i)
  <2> DEFINE parsed == ParsePmcOutput(text[i])
  <2>1. Verdict(parsed) \in Snapshots \cup {"Io", "Unusable"}
    BY DEF Verdict, Snapshots
  <2>2. CASE Misses(i, parsed)
    BY <1>3, <2>2 DEF PmcParsed, Misses, Ends, PmcFails, Blames
  <2>3. CASE query' = [query EXCEPT ![i] = "idle"] /\ Returns(i, Verdict(parsed))
    BY <1>3, <2>1, <2>3 DEF PmcParsed, Ends, PmcAnswers
  <2>4. QED
    BY <1>3, <2>2, <2>3 DEF PmcParsed
<1>4. QED
  BY <1>1, <1>2, <1>3

LEMMA StepRefines ==
    ASSUME [QueriesNext]_vars
    PROVE  [InstanceNext]_instanceVars
<1>1. CASE UNCHANGED vars
  BY <1>1 DEF vars
<1>2. ASSUME NEW i \in Instances, Begins(i) \/ Others(i)
      PROVE  InstanceNext
  BY <1>2 DEF Begins, Others, InstanceNext, Call
<1>3. ASSUME NEW i \in Instances, Answer(i) \/ PortMoves(i)
      PROVE  UNCHANGED instanceVars
  BY <1>3 DEF Answer, PortMoves
<1>4. ASSUME NEW i \in Instances, PmcBreaks(i) \/ PmcRefuses(i) \/ PmcParsed(i)
      PROVE  InstanceNext
  BY <1>4, PmcEnds DEF InstanceNext, Call
<1>5. QED
  BY <1>1, <1>2, <1>3, <1>4 DEF QueriesNext

\* Whatever ptp4l answers, and whenever it exits, the callers of an instance see what
\* PtpInstance allows.
THEOREM QueriesRefine == QueriesSpec => RefinesPtpInstance
<1>1. QueriesInit => InstanceInit
  BY DEF QueriesInit
<1>2. [QueriesNext]_vars => [InstanceNext]_instanceVars
  BY StepRefines
<1>3. QED
  BY <1>1, <1>2, PTL DEF QueriesSpec, RefinesPtpInstance, InstanceSpec

\* With it, no answer of ptp4l makes an instance lose its child or misjudge it.
THEOREM QueriesKeepOwnership ==
    ~StartsTwice => (QueriesSpec => [](Tracked /\ DropCleansUp) /\ VerdictIsTrue)
BY QueriesRefine, Ownership, Cleanup, Verdicts, PTL DEF RefinesPtpInstance

-----------------------------------------------------------------------------
(* Counting: induction over the numbers, as a fact about sets of them *)

LEMMA Smallest ==
    ASSUME NEW S \in SUBSET Nat, S # {}
    PROVE  \E n \in S : \A m \in S : n <= m
<1>1. IsWellFoundedOn(OpToRel(<, Nat), Nat)
  BY NatLessThanWellFounded
<1> DEFINE R == OpToRel(<, Nat)
<1>2. \A x, y \in Nat : y < x => <<y, x>> \in R
  BY DEF OpToRel
<1>3. IsWellFoundedOn(R, Nat)
  BY <1>1
<1> HIDE DEF R
<1>4. PICK x \in S : \A y \in S : ~(<<y, x>> \in R)
  BY <1>3, WFMin
<1>5. ASSUME NEW m \in S
      PROVE  x <= m
  <2>1. x \in Nat /\ m \in Nat /\ ~(m < x)
    BY <1>2, <1>4
  <2>2. QED
    BY <2>1
<1>6. QED
  BY <1>5

\* What holds of 0, and of n + 1 when it holds of n, holds of every number.
LEMMA UpTo ==
    ASSUME NEW S, 0 \in S, \A n \in Nat : n \in S => n + 1 \in S
    PROVE  Nat \subseteq S
<1> SUFFICES ASSUME Nat \ S # {} PROVE FALSE
  OBVIOUS
<1>1. PICK n \in Nat \ S : \A m \in Nat \ S : n <= m
  BY Smallest
<1>2. n - 1 \in Nat /\ n - 1 \in S /\ n = (n - 1) + 1
  BY <1>1
<1>3. QED
  BY <1>1, <1>2

\* Numbers up to a bound have a greatest.
LEMMA Greatest ==
    ASSUME NEW n \in Nat, NEW S \in SUBSET (1..n), S # {}
    PROVE  Max(S) \in S /\ \A m \in S : m <= Max(S)
<1> DEFINE T == {n - m : m \in S}
<1>1. T \in SUBSET Nat /\ T # {}
  <2>1. \A m \in S : n - m \in Nat
    OBVIOUS
  <2>2. QED
    BY <2>1
<1>2. PICK d \in T : \A e \in T : d <= e
  BY <1>1, Smallest
<1>3. PICK x \in S : d = n - x
  BY <1>2
<1>4. \A m \in S : x >= m
  <2>1. ASSUME NEW m \in S
        PROVE  x >= m
    <3>1. n - m \in T
      BY <2>1
    <3>2. n - x <= n - m
      BY <1>2, <1>3, <3>1
    <3>3. QED
      BY <2>1, <3>2
  <2>2. QED
    BY <2>1
<1>5. \E y \in S : \A m \in S : y >= m
  BY <1>4
<1>6. Max(S) \in S /\ \A m \in S : Max(S) >= m
  BY <1>5 DEF Max
<1>7. QED
  BY <1>6

-----------------------------------------------------------------------------
(* The two loops of the parser *)

NothingRead == [blocks |-> <<>>, kind |-> NoKind, lines |-> <<>>]

\* The recursive function exists: each step is taken from the one before.
LEMMA ReaderSteps ==
    ASSUME NEW lines, Len(lines) \in Nat
    PROVE  /\ Reader(lines)[0] = NothingRead
           /\ \A n \in 1..Len(lines) :
                  Reader(lines)[n] = ReadLine(Reader(lines)[n - 1], lines[n])
<1> DEFINE Reads(r, m) ==
               r = [n \in 0..m |-> IF n = 0 THEN NothingRead ELSE ReadLine(r[n - 1], lines[n])]
           S == {m \in Nat : \E r : Reads(r, m)}
<1>1. 0 \in S
  <2> DEFINE r == [n \in 0..0 |-> NothingRead]
  <2>1. Reads(r, 0)
    OBVIOUS
  <2>2. QED
    BY <2>1
<1>2. ASSUME NEW m \in Nat, m \in S
      PROVE  m + 1 \in S
  <2>1. PICK r : Reads(r, m)
    BY <1>2
  <2> DEFINE t == [n \in 0..(m + 1) |-> IF n = m + 1 THEN ReadLine(r[m], lines[m + 1]) ELSE r[n]]
  <2>2. \A n \in 0..(m + 1) :
            t[n] = IF n = 0 THEN NothingRead ELSE ReadLine(t[n - 1], lines[n])
    <3>1. ASSUME NEW n \in 0..(m + 1)
          PROVE  t[n] = IF n = 0 THEN NothingRead ELSE ReadLine(t[n - 1], lines[n])
      <4>1. CASE n = 0
        BY <2>1, <4>1
      <4>2. CASE n \in 1..m
        <5>1. t[n] = r[n] /\ t[n - 1] = r[n - 1]
          BY <4>2
        <5>2. r[n] = ReadLine(r[n - 1], lines[n])
          BY <2>1, <4>2
        <5>3. QED
          BY <4>2, <5>1, <5>2
      <4>3. CASE n = m + 1
        BY <4>3
      <4>4. QED
        BY <4>1, <4>2, <4>3
    <3>2. QED
      BY <3>1
  <2> HIDE DEF t
  <2>3. t = [n \in 0..(m + 1) |-> t[n]]
    BY DEF t
  <2>4. Reads(t, m + 1)
    BY <2>2, <2>3
  <2>5. QED
    BY <2>4
<1>3. \E r : Reads(r, Len(lines))
  <2> HIDE DEF S
  <2>1. Nat \subseteq S
    BY <1>1, <1>2, UpTo
  <2>2. QED
    BY <2>1 DEF S
<1>4. Reads(Reader(lines), Len(lines))
  BY <1>3 DEF Reader, NothingRead
<1>5. QED
  BY <1>4

NothingFound == [error |-> "none", found |-> <<>>]

LEMMA TakingSteps ==
    ASSUME NEW blocks, Len(blocks) \in Nat
    PROVE  /\ TakeBlocks(blocks)[0] = NothingFound
           /\ \A n \in 1..Len(blocks) :
                  TakeBlocks(blocks)[n] = TakeBlock(TakeBlocks(blocks)[n - 1], blocks[n])
<1> DEFINE Takes(r, m) ==
               r = [n \in 0..m |-> IF n = 0 THEN NothingFound ELSE TakeBlock(r[n - 1], blocks[n])]
           S == {m \in Nat : \E r : Takes(r, m)}
<1>1. 0 \in S
  <2> DEFINE r == [n \in 0..0 |-> NothingFound]
  <2>1. Takes(r, 0)
    OBVIOUS
  <2>2. QED
    BY <2>1
<1>2. ASSUME NEW m \in Nat, m \in S
      PROVE  m + 1 \in S
  <2>1. PICK r : Takes(r, m)
    BY <1>2
  <2> DEFINE t == [n \in 0..(m + 1) |-> IF n = m + 1 THEN TakeBlock(r[m], blocks[m + 1]) ELSE r[n]]
  <2>2. \A n \in 0..(m + 1) :
            t[n] = IF n = 0 THEN NothingFound ELSE TakeBlock(t[n - 1], blocks[n])
    <3>1. ASSUME NEW n \in 0..(m + 1)
          PROVE  t[n] = IF n = 0 THEN NothingFound ELSE TakeBlock(t[n - 1], blocks[n])
      <4>1. CASE n = 0
        BY <2>1, <4>1
      <4>2. CASE n \in 1..m
        <5>1. t[n] = r[n] /\ t[n - 1] = r[n - 1]
          BY <4>2
        <5>2. r[n] = TakeBlock(r[n - 1], blocks[n])
          BY <2>1, <4>2
        <5>3. QED
          BY <4>2, <5>1, <5>2
      <4>3. CASE n = m + 1
        BY <4>3
      <4>4. QED
        BY <4>1, <4>2, <4>3
    <3>2. QED
      BY <3>1
  <2> HIDE DEF t
  <2>3. t = [n \in 0..(m + 1) |-> t[n]]
    BY DEF t
  <2>4. Takes(t, m + 1)
    BY <2>2, <2>3
  <2>5. QED
    BY <2>4
<1>3. \E r : Takes(r, Len(blocks))
  <2> HIDE DEF S
  <2>1. Nat \subseteq S
    BY <1>1, <1>2, UpTo
  <2>2. QED
    BY <2>1 DEF S
<1>4. Takes(TakeBlocks(blocks), Len(blocks))
  BY <1>3 DEF TakeBlocks, NothingFound
<1>5. QED
  BY <1>4

-----------------------------------------------------------------------------
(* What a block tells of the text *)

\* The lines of an output: "other" stands for all that parse_pmc_output does not ask for,
\* a word for a line without a value.
Named(column) ==
    UNION {{Fields[kind][f][column] : f \in DOMAIN Fields[kind]} : kind \in Datasets}
Kinds == Datasets \cup {"other"}
Keys == Named(1) \cup {"other"}
Values == PortStates \cup Named(2) \cup {"true", "false", "junk", "other"}
Lines == [line : {"noise", "word"}] \cup [line : {"header"}, kind : Kinds]
             \cup [line : {"field"}, key : Keys, value : Values]
Blocks == [kind : Kinds, lines : Seq(Lines)]

LEMMA NoKindIsNone == NoKind \notin Kinds
BY DEF NoKind, Kinds, Datasets, Fields

\* The map gives every key its last value among the lines at `places`.
Tells(map, lines, places) ==
    /\ \A key : key \in DOMAIN map <=> \E m \in places : IsField(lines[m], key)
    /\ \A m \in places : \A key :
           IsField(lines[m], key) /\ (\A k \in places : k > m => ~IsField(lines[k], key))
               => map[key] = lines[m].value

LEMMA MapTells ==
    ASSUME NEW lines \in Seq(Lines)
    PROVE  Tells(ToMap(lines), lines, DOMAIN lines)
<1> DEFINE keys == {lines[n].key : n \in {m \in DOMAIN lines : lines[m].line = "field"}}
           of(key) == {n \in DOMAIN lines : IsField(lines[n], key)}
           map == [key \in keys |-> lines[Max(of(key))].value]
<1>1. ToMap(lines) = map
  BY DEF ToMap
<1>2. \A key : key \in DOMAIN map <=> \E m \in DOMAIN lines : IsField(lines[m], key)
  BY DEF IsField
<1>3. ASSUME NEW m \in DOMAIN lines, NEW key, IsField(lines[m], key),
             \A k \in DOMAIN lines : k > m => ~IsField(lines[k], key)
      PROVE  map[key] = lines[m].value
  <2>1. Len(lines) \in Nat /\ DOMAIN lines = 1..Len(lines)
    OBVIOUS
  <2>2. m \in of(key) /\ of(key) \in SUBSET (1..Len(lines))
    BY <1>3, <2>1
  <2>3. Max(of(key)) \in of(key) /\ m <= Max(of(key))
    <3> HIDE DEF of
    <3>1. QED
      BY <2>1, <2>2, Greatest
  <2>4. ~(Max(of(key)) > m)
    BY <1>3, <2>3
  <2>5. Max(of(key)) = m
    BY <2>1, <2>2, <2>3, <2>4
  <2>6. key \in keys
    BY <1>3 DEF IsField
  <2>7. QED
    BY <2>5, <2>6
<1>4. QED
  BY <1>1, <1>2, <1>3 DEF Tells

LEMMA MapOfNone == DOMAIN ToMap(<<>>) = {}
BY DEF ToMap

LEMMA MapOfMore ==
    ASSUME NEW lines \in Seq(Lines), NEW l \in Lines
    PROVE  /\ \A key : key \in DOMAIN ToMap(Append(lines, l))
                           <=> key \in DOMAIN ToMap(lines) \/ IsField(l, key)
           /\ \A key \in DOMAIN ToMap(lines) :
                  ~IsField(l, key) => ToMap(Append(lines, l))[key] = ToMap(lines)[key]
           /\ \A key : IsField(l, key) => ToMap(Append(lines, l))[key] = l.value
<1> DEFINE more == Append(lines, l)
<1>1. /\ Len(lines) \in Nat /\ DOMAIN lines = 1..Len(lines)
      /\ more \in Seq(Lines) /\ DOMAIN more = 1..(Len(lines) + 1)
      /\ \A n \in DOMAIN lines : more[n] = lines[n]
      /\ more[Len(lines) + 1] = l
  OBVIOUS
<1> HIDE DEF more
<1>2. Tells(ToMap(lines), lines, DOMAIN lines) /\ Tells(ToMap(more), more, DOMAIN more)
  BY <1>1, MapTells
<1>3. \A key : (\E n \in DOMAIN more : IsField(more[n], key))
                   <=> (\E n \in DOMAIN lines : IsField(lines[n], key)) \/ IsField(l, key)
  BY <1>1
<1>4. ASSUME NEW key \in DOMAIN ToMap(lines), ~IsField(l, key)
      PROVE  ToMap(more)[key] = ToMap(lines)[key]
  <2> DEFINE of == {n \in DOMAIN lines : IsField(lines[n], key)}
  <2>1. of # {} /\ of \in SUBSET (1..Len(lines))
    BY <1>1, <1>2, <1>4 DEF Tells
  <2>2. PICK m \in of : \A k \in of : k <= m
    <3> HIDE DEF of
    <3>1. QED
      BY <1>1, <2>1, Greatest
  <2>3. \A k \in DOMAIN lines : k > m => ~IsField(lines[k], key)
    BY <1>1, <2>2
  <2>4. \A k \in DOMAIN more : k > m => ~IsField(more[k], key)
    BY <1>1, <1>4, <2>3
  <2>5. m \in DOMAIN more /\ more[m] = lines[m]
    BY <1>1
  <2>6. ToMap(lines)[key] = lines[m].value
    BY <1>2, <2>3 DEF Tells
  <2>7. ToMap(more)[key] = more[m].value
    BY <1>2, <2>4, <2>5 DEF Tells
  <2>8. QED
    BY <2>5, <2>6, <2>7
<1>5. ASSUME NEW key, IsField(l, key)
      PROVE  ToMap(more)[key] = l.value
  <2>1. Len(lines) + 1 \in DOMAIN more /\ \A k \in DOMAIN more : ~(k > Len(lines) + 1)
    BY <1>1
  <2>2. QED
    BY <1>1, <1>2, <1>5, <2>1 DEF Tells
<1>6. QED
  BY <1>2, <1>3, <1>4, <1>5 DEF Tells, more

-----------------------------------------------------------------------------
(* The reader *)

Readers == [blocks : Seq(Blocks), kind : Kinds \cup {NoKind}, lines : Seq(Lines)]

\* The lines below the header at h, among the first n.
Under(lines, h, n) == {m \in (h + 1)..n : \A k \in (h + 1)..m : lines[k].line # "header"}

\* Of the first n lines: one block for each header, in their order, with what is below it.
Has(blocks, lines, n, at) ==
    /\ \A b \in DOMAIN blocks :
           /\ at[b] \in 1..n
           /\ lines[at[b]].line = "header" /\ lines[at[b]].kind = blocks[b].kind
           /\ Tells(ToMap(blocks[b].lines), lines, Under(lines, at[b], n))
    /\ \A b, d \in DOMAIN blocks : b < d => at[b] < at[d]
    /\ \A h \in 1..n : lines[h].line = "header" => \E b \in DOMAIN blocks : at[b] = h

\* A further line that says nothing of a key.
LEMMA TellsMore ==
    ASSUME NEW lines \in Seq(Lines), NEW n \in 1..Len(lines), NEW R \in SUBSET (1..(n - 1)),
           NEW map, Tells(map, lines, R), lines[n].line # "field"
    PROVE  Tells(map, lines, R \cup {n})
<1>1. \A key : ~IsField(lines[n], key)
  BY DEF IsField
<1>2. \A key : key \in DOMAIN map <=> \E m \in R \cup {n} : IsField(lines[m], key)
  BY <1>1 DEF Tells
<1>3. ASSUME NEW m \in R \cup {n}, NEW key, IsField(lines[m], key),
             \A k \in R \cup {n} : k > m => ~IsField(lines[k], key)
      PROVE  map[key] = lines[m].value
  <2>1. m \in R
    BY <1>1, <1>3
  <2>2. QED
    BY <1>3, <2>1 DEF Tells
<1>4. QED
  BY <1>2, <1>3 DEF Tells

\* A further line that the block holds too.
LEMMA TellsField ==
    ASSUME NEW lines \in Seq(Lines), NEW n \in 1..Len(lines), NEW R \in SUBSET (1..(n - 1)),
           NEW held \in Seq(Lines), Tells(ToMap(held), lines, R)
    PROVE  Tells(ToMap(Append(held, lines[n])), lines, R \cup {n})
<1> DEFINE map == ToMap(held)
           more == ToMap(Append(held, lines[n]))
<1>1. lines[n] \in Lines /\ n \in Nat
  OBVIOUS
<1>2. /\ \A key : key \in DOMAIN more <=> key \in DOMAIN map \/ IsField(lines[n], key)
      /\ \A key \in DOMAIN map : ~IsField(lines[n], key) => more[key] = map[key]
      /\ \A key : IsField(lines[n], key) => more[key] = lines[n].value
  BY <1>1, MapOfMore
<1> HIDE DEF map, more
<1>3. \A key : key \in DOMAIN more <=> \E m \in R \cup {n} : IsField(lines[m], key)
  BY <1>2 DEF Tells, map
<1>4. ASSUME NEW m \in R \cup {n}, NEW key, IsField(lines[m], key),
             \A k \in R \cup {n} : k > m => ~IsField(lines[k], key)
      PROVE  more[key] = lines[m].value
  <2>1. CASE m = n
    BY <1>2, <1>4, <2>1
  <2>2. CASE m # n
    <3>1. m \in R /\ n > m
      BY <2>2
    <3>2. ~IsField(lines[n], key)
      BY <1>4, <3>1
    <3>3. key \in DOMAIN map /\ map[key] = lines[m].value
      BY <1>4, <3>1 DEF Tells, map
    <3>4. QED
      BY <1>2, <3>2, <3>3
  <2>3. QED
    BY <2>1, <2>2
<1>5. QED
  BY <1>3, <1>4 DEF Tells, more

\* One more line is under a header, or a header has come between.
LEMMA UnderMore ==
    ASSUME NEW lines, NEW n \in Nat, n >= 1, NEW h \in 1..(n - 1)
    PROVE  Under(lines, h, n) =
               IF \E k \in (h + 1)..n : lines[k].line = "header"
               THEN Under(lines, h, n - 1) ELSE Under(lines, h, n - 1) \cup {n}
<1>1. \A m \in (h + 1)..n : m \in (h + 1)..(n - 1) \/ m = n
  OBVIOUS
<1>2. \A m \in (h + 1)..(n - 1) : m \in (h + 1)..n
  OBVIOUS
<1>3. n \in (h + 1)..n
  OBVIOUS
<1>4. QED
  BY <1>1, <1>2, <1>3 DEF Under

LEMMA UnderSelf ==
    ASSUME NEW lines, NEW n \in Nat
    PROVE  Under(lines, n, n) = {}
BY DEF Under

\* A line that is neither a header nor a field changes nothing.
LEMMA HasPassed ==
    ASSUME NEW lines \in Seq(Lines), NEW n \in 1..Len(lines), NEW blocks \in Seq(Blocks),
           NEW at, Has(blocks, lines, n - 1, at), lines[n].line # "header",
           lines[n].line # "field" \/ blocks = <<>>
    PROVE  Has(blocks, lines, n, at)
<1>1. n \in Nat /\ n >= 1 /\ n - 1 \in Nat
  OBVIOUS
<1>2. ASSUME NEW b \in DOMAIN blocks
      PROVE  Tells(ToMap(blocks[b].lines), lines, Under(lines, at[b], n))
  <2>1. at[b] \in 1..(n - 1) /\ Tells(ToMap(blocks[b].lines), lines, Under(lines, at[b], n - 1))
    BY DEF Has
  <2>2. \/ Under(lines, at[b], n) = Under(lines, at[b], n - 1)
        \/ Under(lines, at[b], n) = Under(lines, at[b], n - 1) \cup {n}
    BY <1>1, <2>1, UnderMore
  <2>3. Under(lines, at[b], n - 1) \in SUBSET (1..(n - 1))
    BY <2>1 DEF Under
  <2>4. lines[n].line # "field"
    OBVIOUS
  <2>5. QED
    BY <2>1, <2>2, <2>3, <2>4, TellsMore
<1>3. \A h \in 1..n : lines[h].line = "header" => h \in 1..(n - 1)
  BY <1>1
<1>4. \A b \in DOMAIN blocks : at[b] \in 1..n
  BY <1>1 DEF Has
<1>5. QED
  BY <1>2, <1>3, <1>4 DEF Has

\* A header begins a block.
LEMMA HasHeader ==
    ASSUME NEW lines \in Seq(Lines), NEW n \in 1..Len(lines), NEW blocks \in Seq(Blocks),
           NEW at, Has(blocks, lines, n - 1, at), lines[n].line = "header"
    PROVE  \E to : Has(Append(blocks, [kind |-> lines[n].kind, lines |-> <<>>]), lines, n, to)
<1> DEFINE last == Len(blocks) + 1
           begun == [kind |-> lines[n].kind, lines |-> <<>>]
           more == Append(blocks, begun)
           to == [b \in 1..last |-> IF b = last THEN n ELSE at[b]]
<1>1. n \in Nat /\ n >= 1 /\ Len(blocks) \in Nat /\ DOMAIN blocks = 1..Len(blocks)
  OBVIOUS
<1>2. /\ DOMAIN more = 1..last
      /\ \A b \in DOMAIN blocks : more[b] = blocks[b]
      /\ more[last] = begun
  <2>1. begun \in Blocks
    <3>1. lines[n] \in Lines
      OBVIOUS
    <3>2. lines[n].kind \in Kinds
      BY <3>1 DEF Lines
    <3>3. QED
      BY <3>2 DEF Blocks
  <2> HIDE DEF begun
  <2>2. QED
    BY <2>1
<1>3. to[last] = n /\ \A b \in DOMAIN blocks : to[b] = at[b]
  BY <1>1
<1>4. DOMAIN more = DOMAIN blocks \cup {last} /\ last \notin DOMAIN blocks
      /\ last \in Nat /\ \A b \in DOMAIN blocks : b < last /\ ~(last < b)
  BY <1>1, <1>2
<1>5. begun.kind = lines[n].kind /\ DOMAIN ToMap(begun.lines) = {}
  BY MapOfNone
<1> HIDE DEF more, begun, to, last
<1>6. \A b \in DOMAIN blocks :
          /\ at[b] \in 1..(n - 1) /\ lines[at[b]].line = "header"
          /\ lines[at[b]].kind = blocks[b].kind
          /\ Tells(ToMap(blocks[b].lines), lines, Under(lines, at[b], n - 1))
  BY DEF Has
<1>7. ASSUME NEW b \in DOMAIN more
      PROVE  /\ to[b] \in 1..n
             /\ lines[to[b]].line = "header" /\ lines[to[b]].kind = more[b].kind
             /\ Tells(ToMap(more[b].lines), lines, Under(lines, to[b], n))
  <2>1. CASE b \in DOMAIN blocks
    <3>1. at[b] \in 1..(n - 1) /\ at[b] \in 1..n /\ n \in (at[b] + 1)..n
      BY <1>1, <1>6, <2>1
    <3>2. Under(lines, at[b], n) = Under(lines, at[b], n - 1)
      BY <1>1, <3>1, UnderMore
    <3>3. QED
      BY <1>2, <1>3, <1>6, <2>1, <3>1, <3>2
  <2>2. CASE b = last
    <3>1. Under(lines, n, n) = {}
      BY <1>1, UnderSelf
    <3>2. Tells(ToMap(begun.lines), lines, {})
      BY <1>5 DEF Tells
    <3>3. n \in 1..n
      BY <1>1
    <3>4. QED
      BY <1>2, <1>3, <1>5, <2>2, <3>1, <3>2, <3>3
  <2>3. QED
    BY <1>4, <2>1, <2>2
<1>8. ASSUME NEW b \in DOMAIN more, NEW d \in DOMAIN more, b < d
      PROVE  to[b] < to[d]
  <2>1. b \in DOMAIN blocks
    BY <1>4, <1>8
  <2>2. CASE d \in DOMAIN blocks
    BY <1>3, <1>8, <2>1, <2>2 DEF Has
  <2>3. CASE d = last
    BY <1>1, <1>3, <1>6, <2>1, <2>3
  <2>4. QED
    BY <1>4, <2>2, <2>3
<1>9. ASSUME NEW h \in 1..n, lines[h].line = "header"
      PROVE  \E b \in DOMAIN more : to[b] = h
  <2>1. CASE h = n
    BY <1>3, <1>4, <2>1
  <2>2. CASE h # n
    <3>1. h \in 1..(n - 1)
      BY <1>1, <2>2
    <3>2. PICK b \in DOMAIN blocks : at[b] = h
      BY <1>9, <3>1 DEF Has
    <3>3. QED
      BY <1>3, <1>4, <3>2
  <2>3. QED
    BY <2>1, <2>2
<1>10. Has(more, lines, n, to)
  BY <1>7, <1>8, <1>9 DEF Has
<1>11. QED
  BY <1>10 DEF more, begun

\* A line of the block that is being read.
LEMMA HasLine ==
    ASSUME NEW lines \in Seq(Lines), NEW n \in 1..Len(lines), NEW blocks \in Seq(Blocks),
           NEW kind \in Kinds, NEW held \in Seq(Lines), NEW at, lines[n].line # "header",
           Has(Append(blocks, [kind |-> kind, lines |-> held]), lines, n - 1, at)
    PROVE  Has(Append(blocks, [kind |-> kind, lines |-> Append(held, lines[n])]), lines, n, at)
<1> DEFINE last == Len(blocks) + 1
           before == [kind |-> kind, lines |-> held]
           after == [kind |-> kind, lines |-> Append(held, lines[n])]
           old == Append(blocks, before)
           new == Append(blocks, after)
<1>1. n \in Nat /\ n >= 1 /\ Len(blocks) \in Nat /\ DOMAIN blocks = 1..Len(blocks)
      /\ last \in Nat /\ last >= 1
  OBVIOUS
<1>2. before \in Blocks /\ after \in Blocks
  BY DEF Blocks
<1>3. /\ before.kind = kind /\ before.lines = held
      /\ after.kind = kind /\ after.lines = Append(held, lines[n])
  OBVIOUS
<1> HIDE DEF before, after
<1>4. /\ DOMAIN old = 1..last /\ DOMAIN new = 1..last
      /\ \A b \in 1..last : b # last => old[b] = new[b]
      /\ old[last] = before /\ new[last] = after
  BY <1>1, <1>2
<1> HIDE DEF old, new, last
<1>5. Has(old, lines, n - 1, at)
  BY DEF old, before
<1>6. \A b \in 1..last : new[b].kind = old[b].kind
  BY <1>3, <1>4
<1>7. \A b \in 1..last : at[b] \in 1..(n - 1) /\ at[b] \in 1..n
  <2>1. \A b \in 1..last : at[b] \in 1..(n - 1)
    BY <1>4, <1>5 DEF Has
  <2>2. QED
    BY <1>1, <2>1
<1>8. \A h \in 1..n : lines[h].line = "header" => \E b \in 1..last : at[b] = h
  <2>1. \A h \in 1..n : lines[h].line = "header" => h \in 1..(n - 1)
    BY <1>1
  <2>2. QED
    BY <1>4, <1>5, <2>1 DEF Has
<1>9. ASSUME NEW b \in 1..last, b # last
      PROVE  Tells(ToMap(new[b].lines), lines, Under(lines, at[b], n))
  <2>1. b < last /\ last \in 1..last
    BY <1>1, <1>9
  <2>2. at[b] < at[last] /\ lines[at[last]].line = "header"
    BY <1>4, <1>5, <2>1 DEF Has
  <2>3. at[last] \in (at[b] + 1)..n
    BY <1>1, <1>7, <2>1, <2>2
  <2>4. Under(lines, at[b], n) = Under(lines, at[b], n - 1)
    BY <1>1, <1>7, <2>2, <2>3, UnderMore
  <2>5. QED
    BY <1>4, <1>5, <1>9, <2>4 DEF Has
<1>10. Tells(ToMap(new[last].lines), lines, Under(lines, at[last], n))
  <2>1. last \in 1..last
    BY <1>1
  <2>2. ASSUME NEW h \in (at[last] + 1)..n
        PROVE  lines[h].line # "header"
    <3>1. SUFFICES ASSUME lines[h].line = "header" PROVE FALSE
      OBVIOUS
    <3>2. h \in 1..n /\ h > at[last]
      BY <1>1, <1>7, <2>1, <2>2
    <3>3. PICK b \in 1..last : at[b] = h
      BY <1>8, <3>1, <3>2
    <3>4. b = last \/ b < last
      BY <1>1, <3>3
    <3>5. b = last \/ at[b] < at[last]
      BY <1>4, <1>5, <2>1, <3>4 DEF Has
    <3>6. QED
      BY <1>7, <2>1, <3>2, <3>3, <3>5
  <2>3. Under(lines, at[last], n) = Under(lines, at[last], n - 1) \cup {n}
    BY <1>1, <1>7, <2>1, <2>2, UnderMore
  <2>4. Under(lines, at[last], n - 1) \in SUBSET (1..(n - 1))
    BY <1>7, <2>1 DEF Under
  <2>5. Tells(ToMap(held), lines, Under(lines, at[last], n - 1))
    BY <1>3, <1>4, <1>5, <2>1 DEF Has
  <2>6. Tells(ToMap(Append(held, lines[n])), lines, Under(lines, at[last], n - 1) \cup {n})
    BY <2>4, <2>5, TellsField
  <2>7. QED
    BY <1>3, <1>4, <2>3, <2>6
<1>11. QED
  <2>1. \A b, d \in 1..last : b < d => at[b] < at[d]
    BY <1>4, <1>5 DEF Has
  <2>2. \A b \in 1..last : lines[at[b]].line = "header" /\ lines[at[b]].kind = new[b].kind
    BY <1>4, <1>5, <1>6 DEF Has
  <2>3. Has(new, lines, n, at)
    BY <1>4, <1>7, <1>8, <1>9, <1>10, <2>1, <2>2 DEF Has
  <2>4. QED
    BY <2>3 DEF new, after

\* The reader, after n lines.
Read(lines, n, reader) ==
    /\ reader \in Readers
    /\ reader.kind = NoKind => reader.blocks = <<>>
    /\ \E at : Has(Closed(reader), lines, n, at)

LEMMA ClosedType ==
    ASSUME NEW reader \in Readers
    PROVE  Closed(reader) \in Seq(Blocks)
<1>1. /\ reader.blocks \in Seq(Blocks) /\ reader.kind \in Kinds \cup {NoKind}
      /\ reader.lines \in Seq(Lines)
  BY DEF Readers
<1>2. reader.kind # NoKind => [kind |-> reader.kind, lines |-> reader.lines] \in Blocks
  BY <1>1 DEF Blocks
<1>3. QED
  BY <1>1, <1>2 DEF Closed

LEMMA ReadFirst ==
    ASSUME NEW lines \in Seq(Lines)
    PROVE  Read(lines, 0, NothingRead)
<1>1. NothingRead \in Readers /\ NothingRead.kind = NoKind /\ NothingRead.blocks = <<>>
  <2>1. <<>> \in Seq(Blocks) /\ <<>> \in Seq(Lines)
    OBVIOUS
  <2>2. NothingRead = [blocks |-> <<>>, kind |-> NoKind, lines |-> <<>>]
    BY DEF NothingRead
  <2>3. QED
    BY <2>1, <2>2 DEF Readers
<1>2. Closed(NothingRead) = <<>>
  BY <1>1 DEF Closed
<1>3. Has(<<>>, lines, 0, <<>>)
  BY DEF Has
<1>4. QED
  BY <1>1, <1>2, <1>3 DEF Read

LEMMA ReadNext ==
    ASSUME NEW lines \in Seq(Lines), NEW n \in 1..Len(lines), NEW reader,
           Read(lines, n - 1, reader)
    PROVE  Read(lines, n, ReadLine(reader, lines[n]))
<1> DEFINE l == lines[n]
           next == ReadLine(reader, l)
<1>1. /\ reader.blocks \in Seq(Blocks) /\ reader.kind \in Kinds \cup {NoKind}
      /\ reader.lines \in Seq(Lines) /\ Closed(reader) \in Seq(Blocks)
      /\ reader.kind = NoKind => reader.blocks = <<>>
      /\ reader = [blocks |-> reader.blocks, kind |-> reader.kind, lines |-> reader.lines]
  BY ClosedType DEF Read, Readers
<1>2. PICK at : Has(Closed(reader), lines, n - 1, at)
  BY DEF Read
<1>3. l \in Lines
  OBVIOUS
<1>4. CASE l.line # "header" /\ (l.line = "noise" \/ reader.kind = NoKind)
  <2>1. next = reader
    BY <1>4 DEF ReadLine
  <2>2. l.line # "field" \/ Closed(reader) = <<>>
    BY <1>1, <1>4 DEF Closed
  <2>3. Has(Closed(reader), lines, n, at)
    BY <1>1, <1>2, <1>4, <2>2, HasPassed
  <2>4. QED
    BY <2>1, <2>3 DEF Read
<1>5. CASE l.line = "header"
  <2>1. next = [blocks |-> Closed(reader), kind |-> l.kind, lines |-> <<>>]
    BY <1>5 DEF ReadLine
  <2>2. l.kind \in Kinds /\ l.kind # NoKind
    BY <1>3, <1>5, NoKindIsNone DEF Lines
  <2>3. next \in Readers
    BY <1>1, <2>1, <2>2 DEF Readers
  <2>4. Closed(next) = Append(Closed(reader), [kind |-> l.kind, lines |-> <<>>])
    BY <2>1, <2>2 DEF Closed
  <2>5. \E to : Has(Closed(next), lines, n, to)
    BY <1>1, <1>2, <1>5, <2>4, HasHeader
  <2>6. next.kind # NoKind
    BY <2>1, <2>2
  <2>7. QED
    BY <2>3, <2>5, <2>6 DEF Read
<1>6. CASE l.line \notin {"header", "noise"} /\ reader.kind # NoKind
  <2>1. next = [reader EXCEPT !.lines = Append(@, l)]
    BY <1>6 DEF ReadLine
  <2>2. next = [blocks |-> reader.blocks, kind |-> reader.kind,
                lines |-> Append(reader.lines, l)]
    BY <1>1, <2>1
  <2>3. next \in Readers /\ next.kind # NoKind
    BY <1>1, <1>3, <1>6, <2>2 DEF Readers
  <2>4. Closed(reader) = Append(reader.blocks, [kind |-> reader.kind, lines |-> reader.lines])
    BY <1>6 DEF Closed
  <2>5. Closed(next) = Append(reader.blocks,
                              [kind |-> reader.kind, lines |-> Append(reader.lines, l)])
    BY <1>6, <2>2 DEF Closed
  <2>6. reader.kind \in Kinds
    BY <1>1, <1>6
  <2>7. Has(Closed(next), lines, n, at)
    BY <1>1, <1>2, <1>6, <2>4, <2>5, <2>6, HasLine
  <2>8. QED
    BY <2>3, <2>7 DEF Read
<1>7. QED
  BY <1>4, <1>5, <1>6

\* What parse_blocks makes of a text.
LEMMA BlocksOfText ==
    ASSUME NEW lines \in Seq(Lines)
    PROVE  /\ ParseBlocks(lines) \in Seq(Blocks)
           /\ \E at : Has(ParseBlocks(lines), lines, Len(lines), at)
<1>1. Len(lines) \in Nat
  OBVIOUS
<1>2. /\ Reader(lines)[0] = NothingRead
      /\ \A n \in 1..Len(lines) : Reader(lines)[n] = ReadLine(Reader(lines)[n - 1], lines[n])
  BY <1>1, ReaderSteps
<1> DEFINE S == {n \in Nat : n <= Len(lines) => Read(lines, n, Reader(lines)[n])}
<1>3. 0 \in S
  BY <1>2, ReadFirst
<1>4. ASSUME NEW n \in Nat, n \in S
      PROVE  n + 1 \in S
  <2>1. ASSUME n + 1 <= Len(lines)
        PROVE  Read(lines, n + 1, Reader(lines)[n + 1])
    <3>1. n + 1 \in 1..Len(lines) /\ (n + 1) - 1 = n /\ n <= Len(lines)
      BY <1>1, <2>1
    <3>2. Read(lines, (n + 1) - 1, Reader(lines)[n])
      BY <1>4, <3>1
    <3>3. Reader(lines)[n + 1] = ReadLine(Reader(lines)[n], lines[n + 1])
      BY <1>2, <3>1
    <3>4. QED
      BY <3>1, <3>2, <3>3, ReadNext
  <2>2. QED
    BY <2>1
<1> HIDE DEF S
<1>5. Nat \subseteq S
  BY <1>3, <1>4, UpTo
<1>6. Read(lines, Len(lines), Reader(lines)[Len(lines)])
  BY <1>1, <1>5 DEF S
<1>7. QED
  BY <1>6, ClosedType DEF Read, ParseBlocks

-----------------------------------------------------------------------------
(* The datasets *)

\* The first n blocks hold no dataset twice, and none that does not parse.
Usable(blocks, n) ==
    \A b \in 1..n : blocks[b].kind \in Datasets =>
        /\ BlockParses(blocks[b].kind, ToMap(blocks[b].lines))
        /\ \A d \in 1..n : d # b => blocks[d].kind # blocks[b].kind

\* What the loop has made of them.
Parsed(blocks, n, parse) ==
    /\ parse = [error |-> parse.error, found |-> parse.found]
    /\ parse.error # "MissingDataset"
    /\ parse.error = "none" <=> Usable(blocks, n)
    /\ parse.error = "none" =>
           /\ \A kind : kind \in DOMAIN parse.found
                            <=> kind \in Datasets /\ \E b \in 1..n : blocks[b].kind = kind
           /\ \A b \in 1..n : blocks[b].kind \in Datasets =>
                  parse.found[blocks[b].kind] = ToMap(blocks[b].lines)

LEMMA ParsedNext ==
    ASSUME NEW blocks, NEW n \in Nat, n >= 1, NEW parse, Parsed(blocks, n - 1, parse)
    PROVE  Parsed(blocks, n, TakeBlock(parse, blocks[n]))
<1> DEFINE block == blocks[n]
           map == ToMap(block.lines)
           next == TakeBlock(parse, block)
<1>1. /\ parse = [error |-> parse.error, found |-> parse.found]
      /\ parse.error # "MissingDataset"
      /\ parse.error = "none" <=> Usable(blocks, n - 1)
  BY DEF Parsed
<1>2. \A b : b \in 1..n <=> b \in 1..(n - 1) \/ b = n
  OBVIOUS
<1>3. n \notin 1..(n - 1)
  OBVIOUS
<1>4. parse.error = "none" =>
          /\ \A kind : kind \in DOMAIN parse.found
                 <=> kind \in Datasets /\ \E b \in 1..(n - 1) : blocks[b].kind = kind
          /\ \A b \in 1..(n - 1) : blocks[b].kind \in Datasets =>
                 parse.found[blocks[b].kind] = ToMap(blocks[b].lines)
  BY DEF Parsed
<1> HIDE DEF block, map
<1>5. CASE parse.error # "none"
  <2>1. next = parse
    BY <1>5 DEF TakeBlock
  <2>2. ~Usable(blocks, n)
    BY <1>1, <1>2, <1>5 DEF Usable
  <2>3. QED
    BY <1>1, <1>5, <2>1, <2>2 DEF Parsed, block
<1>6. CASE parse.error = "none" /\ block.kind \notin Datasets
  <2>1. next = parse
    BY <1>6 DEF TakeBlock
  <2>2. Usable(blocks, n)
    BY <1>1, <1>2, <1>6 DEF Usable, block
  <2>3. QED
    BY <1>1, <1>2, <1>4, <1>6, <2>1, <2>2 DEF Parsed, block
<1>7. CASE parse.error = "none" /\ block.kind \in Datasets /\ block.kind \in DOMAIN parse.found
  <2>1. next = [parse EXCEPT !.error = "DuplicateDataset"]
    BY <1>7 DEF TakeBlock
  <2>2. next = [error |-> "DuplicateDataset", found |-> parse.found]
    BY <1>1, <2>1
  <2>3. ~Usable(blocks, n)
    <3>1. PICK b \in 1..(n - 1) : blocks[b].kind = block.kind
      BY <1>4, <1>7
    <3>2. b \in 1..n /\ n \in 1..n /\ b # n
      BY <1>2, <1>3
    <3>3. QED
      BY <1>7, <3>1, <3>2 DEF Usable, block
  <2>4. QED
    BY <2>2, <2>3 DEF Parsed, block
<1>8. CASE /\ parse.error = "none" /\ block.kind \in Datasets
           /\ block.kind \notin DOMAIN parse.found /\ ~BlockParses(block.kind, map)
  <2>1. next = [parse EXCEPT !.error = "DatasetError"]
    BY <1>8 DEF TakeBlock, map
  <2>2. next = [error |-> "DatasetError", found |-> parse.found]
    BY <1>1, <2>1
  <2>3. ~Usable(blocks, n)
    BY <1>2, <1>8 DEF Usable, block, map
  <2>4. QED
    BY <2>2, <2>3 DEF Parsed, block
<1>9. CASE /\ parse.error = "none" /\ block.kind \in Datasets
           /\ block.kind \notin DOMAIN parse.found /\ BlockParses(block.kind, map)
  <2> DEFINE found == [k \in DOMAIN parse.found \cup {block.kind} |->
                          IF k = block.kind THEN map ELSE parse.found[k]]
  <2>1. next = [parse EXCEPT !.found = found]
    BY <1>9 DEF TakeBlock, map
  <2>2. next = [error |-> "none", found |-> found]
    BY <1>1, <1>9, <2>1
  <2>3. \A b \in 1..(n - 1) : blocks[b].kind # block.kind
    BY <1>4, <1>9
  <2>4. Usable(blocks, n)
    BY <1>1, <1>2, <1>9, <2>3 DEF Usable, block, map
  <2>5. \A kind : kind \in DOMAIN found
            <=> kind \in Datasets /\ \E b \in 1..n : blocks[b].kind = kind
    BY <1>2, <1>4, <1>9 DEF block
  <2>6. ASSUME NEW b \in 1..n, blocks[b].kind \in Datasets
        PROVE  found[blocks[b].kind] = ToMap(blocks[b].lines)
    <3>1. CASE b = n
      BY <3>1 DEF block, map
    <3>2. CASE b \in 1..(n - 1)
      <4>1. blocks[b].kind # block.kind /\ blocks[b].kind \in DOMAIN parse.found
        BY <1>4, <1>9, <2>3, <2>6, <3>2
      <4>2. found[blocks[b].kind] = parse.found[blocks[b].kind]
        BY <4>1
      <4>3. QED
        BY <1>4, <1>9, <2>6, <3>2, <4>2
    <3>3. QED
      BY <1>2, <3>1, <3>2
  <2> HIDE DEF found
  <2>7. next.error = "none" /\ next.found = found
        /\ next = [error |-> next.error, found |-> next.found]
    BY <2>2
  <2>8. QED
    BY <2>4, <2>5, <2>6, <2>7 DEF Parsed, block
<1>10. QED
  BY <1>5, <1>6, <1>7, <1>8, <1>9

LEMMA ParsedAll ==
    ASSUME NEW blocks \in Seq(Blocks)
    PROVE  Parsed(blocks, Len(blocks), TakeBlocks(blocks)[Len(blocks)])
<1>1. Len(blocks) \in Nat
  OBVIOUS
<1> DEFINE parse == TakeBlocks(blocks)
<1>2. /\ parse[0] = NothingFound
      /\ \A n \in 1..Len(blocks) : parse[n] = TakeBlock(parse[n - 1], blocks[n])
  BY <1>1, TakingSteps
<1> HIDE DEF parse
<1> DEFINE S == {n \in Nat : n <= Len(blocks) => Parsed(blocks, n, parse[n])}
<1>3. 0 \in S
  <2>1. Parsed(blocks, 0, NothingFound)
    BY DEF Parsed, NothingFound, Usable
  <2>2. QED
    BY <1>2, <2>1
<1>4. ASSUME NEW n \in Nat, n \in S
      PROVE  n + 1 \in S
  <2>1. ASSUME n + 1 <= Len(blocks)
        PROVE  Parsed(blocks, n + 1, parse[n + 1])
    <3>1. n + 1 \in 1..Len(blocks) /\ (n + 1) - 1 = n /\ n <= Len(blocks) /\ n + 1 >= 1
          /\ n + 1 \in Nat
      BY <1>1, <2>1
    <3>2. Parsed(blocks, (n + 1) - 1, parse[n])
      BY <1>4, <3>1
    <3>3. parse[n + 1] = TakeBlock(parse[n], blocks[n + 1])
      BY <1>2, <3>1
    <3>4. QED
      BY <3>1, <3>2, <3>3, ParsedNext
  <2>2. QED
    BY <2>1
<1> HIDE DEF S
<1>5. Nat \subseteq S
  BY <1>3, <1>4, UpTo
<1>6. QED
  BY <1>1, <1>5 DEF S, parse

-----------------------------------------------------------------------------
(* The parser says what the text does *)

LEMMA KeyIsTold ==
    ASSUME NEW lines \in Seq(Lines), NEW h \in 1..Len(lines), NEW map, NEW key,
           key \in DOMAIN map, Tells(map, lines, Below(lines, h))
    PROVE  \E m \in Below(lines, h) :
               /\ m \in DOMAIN lines /\ IsField(lines[m], key) /\ map[key] = lines[m].value
               /\ \A k \in Below(lines, h) : k > m => ~IsField(lines[k], key)
<1> DEFINE places == Below(lines, h)
           of == {m \in places : IsField(lines[m], key)}
<1>1. Len(lines) \in Nat /\ DOMAIN lines = 1..Len(lines) /\ places \in SUBSET (1..Len(lines))
  <2>1. Len(lines) \in Nat /\ h \in Nat /\ h >= 1 /\ DOMAIN lines = 1..Len(lines)
    OBVIOUS
  <2>2. \A m \in (h + 1)..Len(lines) : m \in 1..Len(lines)
    BY <2>1
  <2>3. QED
    BY <2>1, <2>2 DEF Below
<1> HIDE DEF places
<1>2. Tells(map, lines, places)
  BY DEF places
<1>3. of # {} /\ of \in SUBSET (1..Len(lines))
  BY <1>1, <1>2 DEF Tells
<1>4. PICK m \in of : \A k \in of : k <= m
  <2> HIDE DEF of
  <2>1. QED
    BY <1>1, <1>3, Greatest
<1>5. \A k \in places : k > m => ~IsField(lines[k], key)
  BY <1>1, <1>4
<1>6. map[key] = lines[m].value
  BY <1>2, <1>5 DEF Tells
<1>7. QED
  BY <1>1, <1>5, <1>6 DEF places

LEMMA GivesIsTold ==
    ASSUME NEW lines \in Seq(Lines), NEW h \in 1..Len(lines), NEW map, NEW key, NEW type,
           Tells(map, lines, Below(lines, h))
    PROVE  Gives(lines, h, key, type) <=> key \in DOMAIN map /\ Parses(type, map[key])
<1>1. ASSUME Gives(lines, h, key, type)
      PROVE  key \in DOMAIN map /\ Parses(type, map[key])
  <2>1. PICK m \in Below(lines, h) :
            /\ IsField(lines[m], key) /\ Parses(type, lines[m].value)
            /\ \A k \in Below(lines, h) : k > m => ~IsField(lines[k], key)
    BY <1>1 DEF Gives
  <2>2. key \in DOMAIN map /\ map[key] = lines[m].value
    BY <2>1 DEF Tells
  <2>3. QED
    BY <2>1, <2>2
<1>2. ASSUME key \in DOMAIN map, Parses(type, map[key])
      PROVE  Gives(lines, h, key, type)
  <2>1. PICK m \in Below(lines, h) :
            /\ m \in DOMAIN lines /\ IsField(lines[m], key) /\ map[key] = lines[m].value
            /\ \A k \in Below(lines, h) : k > m => ~IsField(lines[k], key)
    BY <1>2, KeyIsTold
  <2>2. QED
    BY <1>2, <2>1 DEF Gives
<1>3. QED
  BY <1>1, <1>2

LEMMA CompleteIsParsed ==
    ASSUME NEW lines \in Seq(Lines), NEW h \in 1..Len(lines), NEW map, NEW kind,
           Tells(map, lines, Below(lines, h))
    PROVE  Complete(lines, kind, h) <=> BlockParses(kind, map)
BY GivesIsTold DEF Complete, BlockParses

\* Just one block of the kind, and it parses.
OneBlock(blocks, kind) ==
    \E b \in DOMAIN blocks :
        /\ blocks[b].kind = kind /\ BlockParses(kind, ToMap(blocks[b].lines))
        /\ \A d \in DOMAIN blocks : d # b => blocks[d].kind # kind

\* One block for each answer.
LEMMA AnswersAreBlocks ==
    ASSUME NEW lines \in Seq(Lines), NEW blocks \in Seq(Blocks), NEW at, NEW kind,
           Has(blocks, lines, Len(lines), at)
    PROVE  /\ HeadersOf(lines, kind) = {} <=> \A b \in DOMAIN blocks : blocks[b].kind # kind
           /\ AnsweredOnce(lines, kind) <=> OneBlock(blocks, kind)
<1>1. Len(lines) \in Nat /\ DOMAIN lines = 1..Len(lines)
      /\ Len(blocks) \in Nat /\ DOMAIN blocks = 1..Len(blocks)
  OBVIOUS
<1>2. \A b \in DOMAIN blocks : at[b] \in DOMAIN lines
          /\ lines[at[b]].line = "header" /\ lines[at[b]].kind = blocks[b].kind
  BY <1>1 DEF Has
<1>3. \A b, d \in DOMAIN blocks : b # d => at[b] # at[d]
  <2>1. ASSUME NEW b \in DOMAIN blocks, NEW d \in DOMAIN blocks, b # d
        PROVE  at[b] # at[d]
    <3>1. b < d \/ d < b
      BY <1>1, <2>1
    <3>2. at[b] < at[d] \/ at[d] < at[b]
      BY <3>1 DEF Has
    <3>3. QED
      BY <1>1, <1>2, <3>2
  <2>2. QED
    BY <2>1
<1>4. \A h \in DOMAIN lines : lines[h].line = "header" => \E b \in DOMAIN blocks : at[b] = h
  BY <1>1 DEF Has
<1>5. \A b \in DOMAIN blocks :
          Complete(lines, kind, at[b]) <=> BlockParses(kind, ToMap(blocks[b].lines))
  <2>1. ASSUME NEW b \in DOMAIN blocks
        PROVE  Complete(lines, kind, at[b]) <=> BlockParses(kind, ToMap(blocks[b].lines))
    <3>1. Under(lines, at[b], Len(lines)) = Below(lines, at[b])
      BY DEF Under, Below
    <3>2. Tells(ToMap(blocks[b].lines), lines, Below(lines, at[b]))
      BY <3>1 DEF Has
    <3>3. at[b] \in 1..Len(lines)
      BY <1>1, <1>2
    <3>4. QED
      BY <3>2, <3>3, CompleteIsParsed
  <2>2. QED
    BY <2>1
<1>6. HeadersOf(lines, kind) = {at[b] : b \in {d \in DOMAIN blocks : blocks[d].kind = kind}}
  <2>1. ASSUME NEW b \in DOMAIN blocks, blocks[b].kind = kind
        PROVE  at[b] \in HeadersOf(lines, kind)
    BY <1>2, <2>1 DEF HeadersOf
  <2>2. ASSUME NEW h \in HeadersOf(lines, kind)
        PROVE  \E b \in DOMAIN blocks : blocks[b].kind = kind /\ at[b] = h
    <3>1. h \in DOMAIN lines /\ lines[h].line = "header" /\ lines[h].kind = kind
      BY DEF HeadersOf
    <3>2. PICK b \in DOMAIN blocks : at[b] = h
      BY <1>4, <3>1
    <3>3. QED
      BY <1>2, <3>1, <3>2
  <2>3. QED
    BY <2>1, <2>2
<1>7. HeadersOf(lines, kind) = {} <=> \A b \in DOMAIN blocks : blocks[b].kind # kind
  BY <1>6
<1>8. ASSUME AnsweredOnce(lines, kind)
      PROVE  OneBlock(blocks, kind)
  <2>1. PICK h : HeadersOf(lines, kind) = {h} /\ Complete(lines, kind, h)
    BY <1>8 DEF AnsweredOnce
  <2>2. PICK b \in DOMAIN blocks : blocks[b].kind = kind /\ at[b] = h
    BY <1>6, <2>1
  <2>3. \A d \in DOMAIN blocks : blocks[d].kind = kind => at[d] = h
    BY <1>6, <2>1
  <2>4. QED
    BY <1>3, <1>5, <2>1, <2>2, <2>3 DEF OneBlock
<1>9. ASSUME OneBlock(blocks, kind)
      PROVE  AnsweredOnce(lines, kind)
  <2>1. PICK b \in DOMAIN blocks :
            /\ blocks[b].kind = kind /\ BlockParses(kind, ToMap(blocks[b].lines))
            /\ \A d \in DOMAIN blocks : d # b => blocks[d].kind # kind
    BY <1>9 DEF OneBlock
  <2>2. HeadersOf(lines, kind) = {at[b]}
    BY <1>6, <2>1
  <2>3. Complete(lines, kind, at[b])
    BY <1>5, <2>1
  <2>4. QED
    BY <2>2, <2>3 DEF AnsweredOnce
<1>10. QED
  BY <1>7, <1>8, <1>9

LEMMA PortStateIsAField ==
    /\ "PORT_DATA_SET" \in Datasets
    /\ \E f \in DOMAIN Fields["PORT_DATA_SET"] : Fields["PORT_DATA_SET"][f][1] = "portState"
<1>1. 2 \in DOMAIN Fields["PORT_DATA_SET"] /\ Fields["PORT_DATA_SET"][2][1] = "portState"
  BY DEF Fields
<1>2. QED
  BY <1>1 DEF Fields, Datasets

\* parse_pmc_output returns a snapshot exactly for a text with one complete answer for each
\* dataset, says that a dataset is missing only when one is and no answer is damaged or
\* repeated, and takes the state of the port from a line of the text, whatever the text.
THEOREM ParserIsRight ==
    ASSUME NEW lines \in Seq(Lines), NEW parsed, parsed = ParsePmcOutput(lines)
    PROVE  /\ parsed.error = "none" <=> \A kind \in Datasets : AnsweredOnce(lines, kind)
           /\ parsed.error = "MissingDataset" =>
                  /\ \E kind \in Datasets : HeadersOf(lines, kind) = {}
                  /\ \A kind \in Datasets :
                         HeadersOf(lines, kind) # {} => AnsweredOnce(lines, kind)
           /\ parsed.error = "none" =>
                  \E m \in DOMAIN lines :
                      /\ IsField(lines[m], "portState")
                      /\ parsed.found["PORT_DATA_SET"]["portState"] = lines[m].value
<1> DEFINE blocks == ParseBlocks(lines)
           taken == TakeBlocks(blocks)[Len(blocks)]
<1>1. blocks \in Seq(Blocks)
  BY BlocksOfText
<1>2. PICK at : Has(blocks, lines, Len(lines), at)
  BY BlocksOfText
<1>3. Parsed(blocks, Len(blocks), taken)
  BY <1>1, ParsedAll
<1>4. Taken(lines) = taken
  BY DEF Taken
<1>5. DOMAIN blocks = 1..Len(blocks)
  BY <1>1
<1> HIDE DEF blocks, taken
<1>6. \A kind : AnsweredOnce(lines, kind) <=> OneBlock(blocks, kind)
  BY <1>1, <1>2, AnswersAreBlocks
<1>7. \A kind : HeadersOf(lines, kind) = {} <=> \A b \in DOMAIN blocks : blocks[b].kind # kind
  BY <1>1, <1>2, AnswersAreBlocks
<1>8. /\ taken = [error |-> taken.error, found |-> taken.found]
      /\ taken.error # "MissingDataset"
      /\ taken.error = "none" <=> Usable(blocks, Len(blocks))
  BY <1>3 DEF Parsed
<1>9. taken.error = "none" =>
          /\ \A kind : kind \in DOMAIN taken.found
                 <=> kind \in Datasets /\ \E b \in DOMAIN blocks : blocks[b].kind = kind
          /\ \A b \in DOMAIN blocks : blocks[b].kind \in Datasets =>
                 taken.found[blocks[b].kind] = ToMap(blocks[b].lines)
  BY <1>3, <1>5 DEF Parsed
<1>10. Usable(blocks, Len(blocks)) <=>
           \A b \in DOMAIN blocks :
               blocks[b].kind \in Datasets => OneBlock(blocks, blocks[b].kind)
  BY <1>5 DEF Usable, OneBlock
<1>11. CASE taken.error = "none" /\ DOMAIN taken.found # Datasets
  <2>1. parsed = [taken EXCEPT !.error = "MissingDataset"]
    BY <1>4, <1>11 DEF ParsePmcOutput
  <2>2. parsed.error = "MissingDataset"
    BY <1>8, <2>1
  <2>3. PICK kind \in Datasets : \A b \in DOMAIN blocks : blocks[b].kind # kind
    BY <1>9, <1>11
  <2>4. ~AnsweredOnce(lines, kind) /\ HeadersOf(lines, kind) = {}
    BY <1>6, <1>7, <2>3 DEF OneBlock
  <2>5. ASSUME NEW other \in Datasets, HeadersOf(lines, other) # {}
        PROVE  AnsweredOnce(lines, other)
    <3>1. PICK b \in DOMAIN blocks : blocks[b].kind = other
      BY <1>7, <2>5
    <3>2. OneBlock(blocks, other)
      BY <1>8, <1>10, <1>11, <3>1
    <3>3. QED
      BY <1>6, <3>2
  <2>6. QED
    BY <2>2, <2>4, <2>5
<1>12. CASE taken.error = "none" /\ DOMAIN taken.found = Datasets
  <2>1. parsed = taken
    BY <1>4, <1>12 DEF ParsePmcOutput
  <2>2. ASSUME NEW kind \in Datasets
        PROVE  /\ AnsweredOnce(lines, kind)
               /\ \E b \in DOMAIN blocks : blocks[b].kind = kind
                      /\ BlockParses(kind, ToMap(blocks[b].lines))
    <3>1. PICK b \in DOMAIN blocks : blocks[b].kind = kind
      BY <1>9, <1>12
    <3>2. OneBlock(blocks, kind)
      BY <1>8, <1>10, <1>12, <3>1
    <3>3. QED
      BY <1>6, <3>2 DEF OneBlock
  <2>3. PICK b \in DOMAIN blocks : blocks[b].kind = "PORT_DATA_SET"
            /\ BlockParses("PORT_DATA_SET", ToMap(blocks[b].lines))
    BY <2>2, PortStateIsAField
  <2>4. taken.found["PORT_DATA_SET"] = ToMap(blocks[b].lines)
    BY <1>9, <1>12, <2>3, PortStateIsAField
  <2>5. "portState" \in DOMAIN ToMap(blocks[b].lines)
    BY <2>3, PortStateIsAField DEF BlockParses
  <2>6. Tells(ToMap(blocks[b].lines), lines, Below(lines, at[b])) /\ at[b] \in 1..Len(lines)
    <3>1. Under(lines, at[b], Len(lines)) = Below(lines, at[b])
      BY DEF Under, Below
    <3>2. Tells(ToMap(blocks[b].lines), lines, Under(lines, at[b], Len(lines)))
      BY <1>2 DEF Has
    <3>3. at[b] \in 1..Len(lines)
      BY <1>2 DEF Has
    <3>4. QED
      BY <3>1, <3>2, <3>3
  <2>7. \E m \in DOMAIN lines : IsField(lines[m], "portState")
            /\ ToMap(blocks[b].lines)["portState"] = lines[m].value
    BY <2>5, <2>6, KeyIsTold
  <2>8. QED
    BY <1>12, <2>1, <2>2, <2>4, <2>7
<1>13. CASE taken.error # "none"
  <2>1. parsed = taken
    BY <1>4, <1>13 DEF ParsePmcOutput
  <2>2. PICK b \in DOMAIN blocks :
            blocks[b].kind \in Datasets /\ ~OneBlock(blocks, blocks[b].kind)
    BY <1>8, <1>10, <1>13
  <2>3. ~AnsweredOnce(lines, blocks[b].kind)
    BY <1>6, <2>2
  <2>4. QED
    BY <1>8, <1>13, <2>1, <2>2, <2>3
<1>14. QED
  BY <1>11, <1>12, <1>13

-----------------------------------------------------------------------------
(* What ptp4l answers *)

SaysSlave(lines) ==
    \E m \in DOMAIN lines : IsField(lines[m], "portState") /\ lines[m].value = "SLAVE"

LEMMA FieldTypes ==
    ASSUME NEW kind \in Datasets
    PROVE  /\ Len(Fields[kind]) \in Nat /\ DOMAIN Fields[kind] = 1..Len(Fields[kind])
           /\ \A f \in DOMAIN Fields[kind] :
                  /\ Fields[kind][f][1] \in Named(1) /\ Fields[kind][f][2] \in Named(2)
                  /\ Fields[kind][f][1] = "portState" => Fields[kind][f][2] # "flag"
<1>1. Len(Fields[kind]) \in Nat /\ DOMAIN Fields[kind] = 1..Len(Fields[kind])
  BY DEF Fields, Datasets
<1>2. \A f \in DOMAIN Fields[kind] :
          Fields[kind][f][1] = "portState" => Fields[kind][f][2] # "flag"
  BY DEF Fields, Datasets
<1>3. QED
  BY <1>1, <1>2 DEF Named

\* Every line of two outputs one after the other is a line of one of them.
LEMMA Joins ==
    ASSUME NEW S, NEW s \in Seq(S), NEW t \in Seq(S)
    PROVE  /\ s \o t \in Seq(S)
           /\ \A m \in DOMAIN (s \o t) : \/ \E k \in DOMAIN s : (s \o t)[m] = s[k]
                                        \/ \E k \in DOMAIN t : (s \o t)[m] = t[k]
<1>1. /\ Len(s) \in Nat /\ Len(t) \in Nat /\ DOMAIN s = 1..Len(s) /\ DOMAIN t = 1..Len(t)
      /\ s \o t \in Seq(S) /\ Len(s \o t) = Len(s) + Len(t)
      /\ DOMAIN (s \o t) = 1..(Len(s) + Len(t))
  OBVIOUS
<1>2. ASSUME NEW m \in 1..(Len(s) + Len(t))
      PROVE  \/ m \in DOMAIN s /\ (s \o t)[m] = s[m]
             \/ m - Len(s) \in DOMAIN t /\ (s \o t)[m] = t[m - Len(s)]
  OBVIOUS
<1>3. QED
  BY <1>1, <1>2

LEMMA WholeLines ==
    ASSUME NEW kind \in Datasets, NEW state \in PortStates
    PROVE  /\ Whole(kind, state) \in Seq(Lines)
           /\ SaysSlave(Whole(kind, state)) => state = "SLAVE"
<1> DEFINE value(key, type) ==
               CASE key = "portState" -> state
                 [] type = "flag" -> "true"
                 [] OTHER -> type
           fields == Fields[kind]
           line == [n \in DOMAIN fields |-> Field(fields[n][1], value(fields[n][1], fields[n][2]))]
           start == <<Noise, Header(kind)>>
<1>1. Whole(kind, state) = start \o line
  BY DEF Whole
<1>2. Len(fields) \in Nat /\ DOMAIN fields = 1..Len(fields)
  BY FieldTypes
<1>3. ASSUME NEW n \in DOMAIN fields
      PROVE  /\ line[n] = Field(fields[n][1], value(fields[n][1], fields[n][2]))
             /\ line[n] \in Lines /\ line[n].key = fields[n][1]
             /\ line[n].key = "portState" => line[n].value = state
  <2>1. fields[n][1] \in Keys /\ fields[n][2] \in Values
    BY FieldTypes DEF Keys, Values
  <2>2. value(fields[n][1], fields[n][2]) \in Values
    BY <2>1 DEF Values
  <2> HIDE DEF value
  <2>3. line[n] = Field(fields[n][1], value(fields[n][1], fields[n][2]))
    OBVIOUS
  <2>4. line[n] \in Lines
    BY <2>1, <2>2, <2>3 DEF Field, Lines
  <2>5. line[n].key = fields[n][1] /\ line[n].value = value(fields[n][1], fields[n][2])
    BY <2>3 DEF Field
  <2>6. fields[n][1] = "portState" => value(fields[n][1], fields[n][2]) = state
    BY FieldTypes DEF value
  <2>7. QED
    BY <2>3, <2>4, <2>5, <2>6
<1>4. start \in Seq(Lines) /\ \A k \in DOMAIN start : start[k] = Noise \/ start[k] = Header(kind)
  <2>1. Noise \in Lines /\ Header(kind) \in Lines
    BY DEF Noise, Header, Lines, Kinds
  <2>2. QED
    BY <2>1
<1> HIDE DEF value, start, fields
<1>5. line \in Seq(Lines) /\ DOMAIN line = DOMAIN fields
  BY <1>2, <1>3
<1> HIDE DEF line
<1>6. start \o line \in Seq(Lines)
  BY <1>4, <1>5, Joins
<1>7. ASSUME NEW m \in DOMAIN (start \o line), IsField((start \o line)[m], "portState")
      PROVE  (start \o line)[m].value = state
  <2>1. \/ \E k \in DOMAIN start : (start \o line)[m] = start[k]
        \/ \E k \in DOMAIN line : (start \o line)[m] = line[k]
    BY <1>4, <1>5, Joins
  <2>2. PICK k \in DOMAIN fields : (start \o line)[m] = line[k]
    BY <1>4, <1>5, <1>7, <2>1 DEF IsField, Noise, Header
  <2>3. QED
    BY <1>3, <1>7, <2>2 DEF IsField
<1>8. QED
  BY <1>1, <1>6, <1>7 DEF SaysSlave

\* What is left of an output without one line is some of its lines.
LEMMA Removes ==
    ASSUME NEW S, NEW s \in Seq(S), NEW n \in DOMAIN s
    PROVE  /\ RemoveAt(s, n) \in Seq(S)
           /\ \A m \in DOMAIN RemoveAt(s, n) : \E k \in DOMAIN s : RemoveAt(s, n)[m] = s[k]
<1> DEFINE before == SubSeq(s, 1, n - 1)
           after == SubSeq(s, n + 1, Len(s))
<1>1. RemoveAt(s, n) = before \o after
  BY DEF RemoveAt
<1>2. n \in 1..Len(s) /\ Len(s) \in Nat /\ DOMAIN s = 1..Len(s)
  OBVIOUS
<1>3. before \in Seq(S) /\ \A k \in DOMAIN before : \E j \in DOMAIN s : before[k] = s[j]
  <2>1. /\ before \in Seq(S) /\ DOMAIN before = 1..(n - 1)
        /\ \A k \in 1..(n - 1) : before[k] = s[k]
    BY <1>2
  <2>2. QED
    BY <1>2, <2>1
<1>4. after \in Seq(S) /\ \A k \in DOMAIN after : \E j \in DOMAIN s : after[k] = s[j]
  <2>1. /\ after \in Seq(S) /\ DOMAIN after = 1..(Len(s) - n)
        /\ \A k \in 1..(Len(s) - n) : after[k] = s[n + k]
    BY <1>2
  <2>2. \A k \in 1..(Len(s) - n) : n + k \in DOMAIN s
    BY <1>2
  <2>3. QED
    BY <2>1, <2>2
<1> HIDE DEF before, after
<1>5. /\ before \o after \in Seq(S)
      /\ \A m \in DOMAIN (before \o after) :
             \/ \E k \in DOMAIN before : (before \o after)[m] = before[k]
             \/ \E k \in DOMAIN after : (before \o after)[m] = after[k]
  BY <1>3, <1>4, Joins
<1>6. QED
  BY <1>1, <1>3, <1>4, <1>5

\* Whatever is missing or damaged in an answer, only a port that is SLAVE says so.
LEMMA AnswersType ==
    ASSUME NEW state \in PortStates, NEW block \in Answers[state]
    PROVE  block \in Seq(Lines) /\ (SaysSlave(block) => state = "SLAVE")
<1> DEFINE whole == {Whole(kind, state) : kind \in Datasets}
           lacking == UNION {Lacks(b, key) : b \in whole, key \in Missable}
           garbled == {Garbles(b, key) : b \in whole, key \in Fragile}
           other == <<Header("other"), Field("portState", "junk")>>
<1>1. \/ block \in whole
      \/ \E b \in whole, key \in Missable : block \in Lacks(b, key)
      \/ \E b \in whole, key \in Fragile : block = Garbles(b, key)
      \/ block = other
  <2>1. Answers[state] = whole \cup lacking \cup garbled \cup {other}
    BY DEF Answers
  <2> HIDE DEF whole
  <2>2. block \in lacking => \E b \in whole, key \in Missable : block \in Lacks(b, key)
    OBVIOUS
  <2>3. block \in garbled => \E b \in whole, key \in Fragile : block = Garbles(b, key)
    OBVIOUS
  <2> HIDE DEF lacking, garbled, other
  <2>4. block \in whole \/ block \in lacking \/ block \in garbled \/ block = other
    BY <2>1
  <2>5. QED
    BY <2>2, <2>3, <2>4
<1>2. \A b \in whole : b \in Seq(Lines) /\ (SaysSlave(b) => state = "SLAVE")
  BY WholeLines
<1> HIDE DEF whole
<1>3. ASSUME NEW b \in whole, NEW key, block \in Lacks(b, key)
      PROVE  block \in Seq(Lines) /\ (SaysSlave(block) => state = "SLAVE")
  <2>1. PICK n \in DOMAIN b : block = RemoveAt(b, n)
    BY <1>3 DEF Lacks
  <2>2. b \in Seq(Lines)
    BY <1>2
  <2>3. block \in Seq(Lines) /\ \A m \in DOMAIN block : \E k \in DOMAIN b : block[m] = b[k]
    BY <2>1, <2>2, Removes
  <2>4. SaysSlave(block) => SaysSlave(b)
    BY <2>3 DEF SaysSlave
  <2>5. QED
    BY <1>2, <2>3, <2>4
<1>4. ASSUME NEW b \in whole, NEW key, block = Garbles(b, key)
      PROVE  block \in Seq(Lines) /\ (SaysSlave(block) => state = "SLAVE")
  <2>1. Len(b) \in Nat /\ DOMAIN b = 1..Len(b) /\ \A m \in DOMAIN b : b[m] \in Lines
    BY <1>2
  <2>2. DOMAIN block = DOMAIN b
        /\ \A m \in DOMAIN b : block[m] = IF IsField(b[m], key) THEN Field(key, "junk") ELSE b[m]
    BY <1>4 DEF Garbles
  <2>3. ASSUME NEW m \in DOMAIN b
        PROVE  block[m] \in Lines
    <3>1. CASE IsField(b[m], key)
      <4>1. b[m].line = "field" /\ key = b[m].key
        BY <3>1 DEF IsField
      <4>2. key \in Keys
        BY <2>1, <4>1 DEF Lines
      <4>3. QED
        BY <2>2, <3>1, <4>2 DEF Field, Lines, Values
    <3>2. CASE ~IsField(b[m], key)
      BY <2>1, <2>2, <3>2
    <3>3. QED
      BY <3>1, <3>2
  <2>4. block \in Seq(Lines)
    <3>1. block = [m \in 1..Len(b) |-> block[m]]
      BY <1>4, <2>1 DEF Garbles
    <3>2. QED
      BY <2>1, <2>3, <3>1
  <2>5. SaysSlave(block) => SaysSlave(b)
    <3>1. Field(key, "junk").value # "SLAVE"
      BY DEF Field
    <3>2. QED
      BY <2>2, <3>1 DEF SaysSlave
  <2>6. QED
    BY <1>2, <2>4, <2>5
<1>5. other \in Seq(Lines) /\ ~SaysSlave(other)
  <2>1. "portState" \in Keys
    BY PortStateIsAField DEF Keys, Named
  <2>2. Header("other") \in Lines /\ Field("portState", "junk") \in Lines
    BY <2>1 DEF Header, Field, Lines, Kinds, Values
  <2>3. other \in Seq(Lines) /\ DOMAIN other = 1..2
        /\ other[1] = Header("other") /\ other[2] = Field("portState", "junk")
    BY <2>2
  <2>4. QED
    BY <2>3 DEF SaysSlave, IsField, Header, Field
<1>6. QED
  BY <1>1, <1>2, <1>3, <1>4, <1>5

-----------------------------------------------------------------------------
(* Queries *)

QueryTypes ==
    /\ query \in [Instances -> Queries] /\ result \in [Instances -> Results]
    /\ port \in [Instances -> PortStates] /\ wasSlave \in [Instances -> BOOLEAN]
    /\ text \in [Instances -> Seq(Lines)]

\* There is an output only while pmc runs, and when it, or the port, says SLAVE, that
\* has been noted.
Remembers ==
    \A i \in Instances :
        /\ query[i] # "pmc" => text[i] = <<>>
        /\ query[i] = "pmc" /\ (port[i] = "SLAVE" \/ SaysSlave(text[i])) => wasSlave[i]

LEMMA QueryStarts == QueriesInit => QueryTypes /\ Remembers
<1> SUFFICES ASSUME QueriesInit PROVE QueryTypes /\ Remembers
  OBVIOUS
<1>1. query \in [Instances -> Queries] /\ result \in [Instances -> Results]
  BY DEF QueriesInit, InstanceInit, Queries, Results
<1>2. /\ port \in [Instances -> PortStates] /\ wasSlave \in [Instances -> BOOLEAN]
      /\ text \in [Instances -> Seq(Lines)]
  <2>1. <<>> \in Seq(Lines)
    OBVIOUS
  <2>2. QED
    BY <2>1 DEF QueriesInit
<1>3. Remembers
  BY DEF QueriesInit, InstanceInit, Remembers
<1>4. QED
  BY <1>1, <1>2, <1>3 DEF QueryTypes

\* What the calls of an instance do to the place of its query and to its result, pmc or no
\* pmc.
LEMMA CallTypes ==
    ASSUME QueryTypes, [InstanceNext]_instanceVars
    PROVE  query' \in [Instances -> Queries] /\ result' \in [Instances -> Results]
<1> SUFFICES ASSUME query \in [Instances -> Queries], result \in [Instances -> Results],
                    InstanceNext
             PROVE  query' \in [Instances -> Queries] /\ result' \in [Instances -> Results]
  BY DEF QueryTypes, instanceVars
<1>1. ASSUME NEW i \in Instances,
             New(i) \/ NewFails(i) \/ Start(i) \/ StartFails(i) \/ Stop(i) \/ Drop(i)
               \/ ChildExits(i)
      PROVE  query' = query /\ (result' = result \/ \E r \in Results : Returns(i, r))
  BY <1>1 DEF New, NewFails, Start, StartFails, Stop, Drop, ChildExits, Results, Kills,
              KillFails
<1>2. ASSUME NEW i \in Instances,
             Snapshot(i) \/ PmcAnswers(i) \/ PmcFails(i) \/ Recheck(i)
      PROVE  /\ \E q \in Queries : query' = [query EXCEPT ![i] = q]
             /\ result' = result \/ \E r \in Results : Returns(i, r)
  <2>1. CASE Snapshot(i)
    BY <2>1 DEF Snapshot, EnsureRunning, NotRunning, Exited, TryWaitFails, Fails, Queries,
                Results
  <2>2. CASE PmcAnswers(i) \/ PmcFails(i)
    BY <2>2 DEF PmcAnswers, PmcFails, Queries, Results
  <2>3. CASE Recheck(i)
    BY <2>3 DEF Recheck, EnsureRunning, NotRunning, Exited, TryWaitFails, Fails, Queries,
                Results
  <2>4. QED
    BY <1>2, <2>1, <2>2, <2>3
<1>3. \A i \in Instances, r \in Results :
          Returns(i, r) => result' \in [Instances -> Results]
  BY DEF Returns
<1>4. PICK i \in Instances : Call(i) \/ ChildExits(i)
  BY DEF InstanceNext
<1>5. QED
  BY <1>1, <1>2, <1>3, <1>4 DEF Call

LEMMA QueriesKeepTypes ==
    ASSUME QueryTypes, [QueriesNext]_vars
    PROVE  QueryTypes'
<1>1. query' \in [Instances -> Queries] /\ result' \in [Instances -> Results]
  BY CallTypes, StepRefines
<1>2. CASE UNCHANGED vars
  BY <1>1, <1>2 DEF vars, queryVars, QueryTypes
<1>3. ASSUME NEW i \in Instances, Begins(i) \/ Others(i)
      PROVE  QueryTypes'
  <2>1. port' = port /\ text' = text /\ wasSlave' \in [Instances -> BOOLEAN]
    BY <1>3 DEF Begins, Others, queryVars, QueryTypes
  <2>2. QED
    BY <1>1, <2>1 DEF QueryTypes
<1>4. ASSUME NEW i \in Instances, Answer(i)
      PROVE  QueryTypes'
  <2>1. PICK block \in Answers[port[i]] : text' = [text EXCEPT ![i] = @ \o block]
    BY <1>4 DEF Answer
  <2>2. block \in Seq(Lines) /\ text[i] \in Seq(Lines)
    BY AnswersType DEF QueryTypes
  <2>3. text[i] \o block \in Seq(Lines)
    BY <2>2
  <2>4. text' \in [Instances -> Seq(Lines)]
    BY <2>1, <2>3 DEF QueryTypes
  <2>5. QED
    BY <1>1, <1>4, <2>4 DEF QueryTypes, Answer
<1>5. ASSUME NEW i \in Instances, PortMoves(i)
      PROVE  QueryTypes'
  <2>1. text' = text /\ port' \in [Instances -> PortStates]
    BY <1>5 DEF PortMoves, QueryTypes
  <2>2. wasSlave' \in [Instances -> BOOLEAN]
    BY <1>5 DEF PortMoves, QueryTypes
  <2>3. QED
    BY <1>1, <2>1, <2>2 DEF QueryTypes
<1>6. ASSUME NEW i \in Instances, PmcBreaks(i) \/ PmcRefuses(i) \/ PmcParsed(i)
      PROVE  QueryTypes'
  <2>1. Ends(i)
    BY <1>6 DEF PmcBreaks, PmcRefuses, PmcParsed
  <2>2. <<>> \in Seq(Lines)
    OBVIOUS
  <2>3. QED
    BY <1>1, <2>1, <2>2 DEF QueryTypes, Ends
<1>7. QED
  BY <1>2, <1>3, <1>4, <1>5, <1>6 DEF QueriesNext

\* A call on one instance leaves the others alone, and only Begins starts a run of pmc.
LEMMA OtherQueries ==
    ASSUME QueryTypes, NEW i \in Instances, Call(i) \/ ChildExits(i)
    PROVE  /\ \A j \in Instances : j # i => query'[j] = query[j]
           /\ Others(i) => query'[i] = query[i] \/ (query[i] # "pmc" /\ query'[i] = "idle")
<1>1. CASE query' = query
  BY <1>1
<1>2. CASE query' # query
  <2>1. Snapshot(i) \/ PmcAnswers(i) \/ PmcFails(i) \/ Recheck(i)
    BY <1>2 DEF Call, New, NewFails, Start, StartFails, Stop, Drop, ChildExits
  <2>2. \E q \in Queries : query' = [query EXCEPT ![i] = q]
    BY <2>1 DEF Snapshot, PmcAnswers, PmcFails, Recheck, EnsureRunning, NotRunning, Exited,
                TryWaitFails, Fails, Queries
  <2>3. \A j \in Instances : j # i => query'[j] = query[j]
    BY <2>2 DEF QueryTypes
  <2>4. ASSUME Others(i)
        PROVE  query[i] # "pmc" /\ query'[i] = "idle"
    <3>1. Recheck(i)
      BY <1>2, <2>4 DEF Others, New, NewFails, Start, StartFails, Stop, Drop, ChildExits
    <3>2. query[i] \in Blames /\ query' = [query EXCEPT ![i] = "idle"]
      BY <3>1 DEF Recheck, EnsureRunning, NotRunning, Exited, TryWaitFails, Fails
    <3>3. QED
      BY <3>2 DEF QueryTypes, Blames
  <2>5. QED
    BY <2>3, <2>4
<1>3. QED
  BY <1>1, <1>2

\* A port that is SLAVE is noted when the query begins and when the port moves, so that an
\* answer can say SLAVE only after it has been noted.
LEMMA QueriesRemember ==
    ASSUME QueryTypes, Remembers, [QueriesNext]_vars
    PROVE  Remembers'
<1> DEFINE Remembered(j) ==
               /\ query[j] # "pmc" => text[j] = <<>>
               /\ query[j] = "pmc" /\ (port[j] = "SLAVE" \/ SaysSlave(text[j])) => wasSlave[j]
<1>1. \A j \in Instances : Remembered(j)
  BY DEF Remembers
<1>2. ~SaysSlave(<<>>)
  BY DEF SaysSlave
<1>3. SUFFICES ASSUME NEW j \in Instances PROVE Remembered(j)'
  BY DEF Remembers
<1>4. ASSUME query'[j] = query[j], text'[j] = text[j], port'[j] = port[j],
             wasSlave'[j] = wasSlave[j]
      PROVE  Remembered(j)'
  BY <1>1, <1>4
<1>5. CASE UNCHANGED vars
  BY <1>4, <1>5 DEF vars, instanceVars, queryVars
<1>6. ASSUME NEW i \in Instances, Begins(i)
      PROVE  Remembered(j)'
  <2>1. Call(i) /\ port' = port /\ text' = text
        /\ wasSlave' = [wasSlave EXCEPT ![i] = query'[i] = "pmc" /\ port[i] = "SLAVE"]
    BY <1>6 DEF Begins, Call
  <2>2. CASE j # i
    BY <1>4, <2>1, <2>2, OtherQueries DEF QueryTypes
  <2>3. CASE j = i
    <3>1. query[i] = "idle"
      BY <1>6 DEF Begins, Snapshot, Idle
    <3>2. text[i] = <<>>
      BY <1>1, <3>1
    <3>3. wasSlave'[i] = (query'[i] = "pmc" /\ port[i] = "SLAVE")
      BY <2>1 DEF QueryTypes
    <3>4. QED
      BY <1>2, <2>1, <2>3, <3>2, <3>3
  <2>4. QED
    BY <2>2, <2>3
<1>7. ASSUME NEW i \in Instances, Others(i)
      PROVE  Remembered(j)'
  <2>1. Call(i) \/ ChildExits(i)
    BY <1>7 DEF Others, Call
  <2>2. port' = port /\ text' = text /\ wasSlave' = wasSlave
    BY <1>7 DEF Others, queryVars
  <2>3. CASE query'[j] = query[j]
    BY <1>4, <2>2, <2>3
  <2>4. CASE query[j] # "pmc" /\ query'[j] = "idle"
    BY <1>1, <2>2, <2>4
  <2>5. QED
    BY <1>7, <2>1, <2>3, <2>4, OtherQueries
<1>8. ASSUME NEW i \in Instances, Answer(i)
      PROVE  Remembered(j)'
  <2>1. PICK block \in Answers[port[i]] : text' = [text EXCEPT ![i] = @ \o block]
    BY <1>8 DEF Answer
  <2>2. query' = query /\ port' = port /\ wasSlave' = wasSlave
    BY <1>8 DEF Answer, instanceVars
  <2>3. CASE j # i
    BY <1>4, <2>1, <2>2, <2>3 DEF QueryTypes
  <2>4. CASE j = i
    <3>1. block \in Seq(Lines) /\ (SaysSlave(block) => port[i] = "SLAVE")
          /\ text[i] \in Seq(Lines)
      BY AnswersType DEF QueryTypes
    <3>2. SaysSlave(text[i] \o block) => SaysSlave(text[i]) \/ SaysSlave(block)
      BY <3>1, Joins DEF SaysSlave
    <3>3. text'[i] = text[i] \o block
      BY <2>1 DEF QueryTypes
    <3>4. query[i] = "pmc"
      BY <1>8 DEF Answer
    <3>5. QED
      BY <1>1, <2>2, <2>4, <3>1, <3>2, <3>3, <3>4
  <2>5. QED
    BY <2>3, <2>4
<1>9. ASSUME NEW i \in Instances, PortMoves(i)
      PROVE  Remembered(j)'
  <2>1. query' = query /\ text' = text
        /\ wasSlave' = [wasSlave EXCEPT ![i] = @ \/ (query[i] = "pmc" /\ port'[i] = "SLAVE")]
        /\ \E state \in PortStates : port' = [port EXCEPT ![i] = state]
    BY <1>9 DEF PortMoves, instanceVars
  <2>2. CASE j # i
    BY <1>4, <2>1, <2>2 DEF QueryTypes
  <2>3. CASE j = i
    <3>1. wasSlave'[i] = (wasSlave[i] \/ (query[i] = "pmc" /\ port'[i] = "SLAVE"))
      BY <2>1 DEF QueryTypes
    <3>2. QED
      BY <1>1, <2>1, <2>3, <3>1
  <2>4. QED
    BY <2>2, <2>3
<1>10. ASSUME NEW i \in Instances, PmcBreaks(i) \/ PmcRefuses(i) \/ PmcParsed(i)
       PROVE  Remembered(j)'
  <2>1. Call(i)
    BY <1>10, PmcEnds DEF Call
  <2>2. /\ text' = [text EXCEPT ![i] = <<>>] /\ wasSlave' = [wasSlave EXCEPT ![i] = FALSE]
        /\ port' = port
    BY <1>10 DEF PmcBreaks, PmcRefuses, PmcParsed, Ends
  <2>3. CASE j # i
    BY <1>4, <2>1, <2>2, <2>3, OtherQueries DEF QueryTypes
  <2>4. CASE j = i
    <3>1. query'[i] # "pmc"
      BY <1>10 DEF PmcBreaks, PmcRefuses, PmcParsed, Fails, Misses, QueryTypes
    <3>2. text'[i] = <<>>
      BY <2>2 DEF QueryTypes
    <3>3. QED
      BY <2>4, <3>1, <3>2
  <2>5. QED
    BY <2>3, <2>4
<1>11. QED
  BY <1>5, <1>6, <1>7, <1>8, <1>9, <1>10 DEF QueriesNext

\* An output exists only while pmc runs, and speaks of the time since the call began.
LEMMA QueryInvariance == QueriesSpec => [](QueryTypes /\ Remembers)
<1>1. QueriesInit => QueryTypes /\ Remembers
  BY QueryStarts
<1>2. QueryTypes /\ Remembers /\ [QueriesNext]_vars => (QueryTypes /\ Remembers)'
  BY QueriesKeepTypes, QueriesRemember
<1>3. QED
  BY <1>1, <1>2, PTL DEF QueriesSpec

\* The ways out of a query, and what is returned then.
LEMMA QueryOutcomes ==
    ASSUME QueryTypes, [QueriesNext]_vars, NEW i \in Instances, QueryEnds(i)
    PROVE  \/ PmcParsed(i)
           \/ query'[i] = "idle" /\ result'[i] \in {"Io", "Unusable"}
           \/ query'[i] = "CommandFailed"
<1>1. query[i] = "pmc" /\ query'[i] # "pmc"
  BY DEF QueryEnds
<1>2. query' # query
  BY <1>1
<1>3. PICK j \in Instances :
          \/ Begins(j) \/ Answer(j) \/ PortMoves(j)
          \/ PmcBreaks(j) \/ PmcRefuses(j) \/ PmcParsed(j) \/ Others(j)
  BY <1>2 DEF QueriesNext, vars, instanceVars
<1>4. ~Answer(j) /\ ~PortMoves(j)
  BY <1>2 DEF Answer, PortMoves, instanceVars
<1>5. Call(j) \/ ChildExits(j)
  BY <1>3, <1>4, PmcEnds DEF Begins, Others, Call
<1>6. j = i
  BY <1>1, <1>5, OtherQueries
<1>7. ~Begins(i) /\ ~Others(i)
  BY <1>1, <1>5, <1>6, OtherQueries DEF Begins, Snapshot, Idle
<1>8. CASE PmcBreaks(i)
  BY <1>8 DEF PmcBreaks, Fails, Returns, QueryTypes
<1>9. CASE PmcRefuses(i)
  BY <1>9 DEF PmcRefuses, QueryTypes
<1>10. QED
  BY <1>3, <1>4, <1>6, <1>7, <1>8, <1>9

\* What a parsed output makes of the query.
LEMMA ParsedOutcome ==
    ASSUME QueryTypes, NEW i \in Instances, PmcParsed(i),
           NEW parsed, parsed = ParsePmcOutput(text[i])
    PROVE  \/ parsed.error = "MissingDataset" /\ query'[i] = "NotReady"
           \/ /\ parsed.error # "MissingDataset"
              /\ query'[i] = "idle" /\ result'[i] = Verdict(parsed)
BY DEF PmcParsed, Misses, Returns, QueryTypes

\* A snapshot is returned exactly for a complete set of answers, and "still initializing" is
\* said of silence only: for any number of answers, in any order, with any key missing or
\* any value damaged.
THEOREM AnswersAreWhole == QueriesSpec => WholeAnswers
<1> DEFINE WholeStep ==
        \A i \in Instances : QueryEnds(i) =>
            /\ PmcParsed(i) =>
                   ((query'[i] = "idle" /\ result'[i] \in Snapshots)
                        <=> \A kind \in Datasets : AnsweredOnce(text[i], kind))
            /\ query'[i] = "NotReady" =>
                   /\ \E kind \in Datasets : HeadersOf(text[i], kind) = {}
                   /\ \A kind \in Datasets :
                          HeadersOf(text[i], kind) # {} => AnsweredOnce(text[i], kind)
<1>1. ASSUME QueryTypes, [QueriesNext]_vars
      PROVE  WholeStep
  <2> SUFFICES ASSUME NEW i \in Instances, QueryEnds(i)
               PROVE  /\ PmcParsed(i) =>
                             ((query'[i] = "idle" /\ result'[i] \in Snapshots)
                                  <=> \A kind \in Datasets : AnsweredOnce(text[i], kind))
                      /\ query'[i] = "NotReady" =>
                             /\ \E kind \in Datasets : HeadersOf(text[i], kind) = {}
                             /\ \A kind \in Datasets :
                                    HeadersOf(text[i], kind) # {}
                                        => AnsweredOnce(text[i], kind)
    OBVIOUS
  <2> DEFINE parsed == ParsePmcOutput(text[i])
  <2>1. text[i] \in Seq(Lines)
    BY <1>1 DEF QueryTypes
  <2>2. /\ parsed.error = "none" <=> \A kind \in Datasets : AnsweredOnce(text[i], kind)
        /\ parsed.error = "MissingDataset" =>
               /\ \E kind \in Datasets : HeadersOf(text[i], kind) = {}
               /\ \A kind \in Datasets :
                      HeadersOf(text[i], kind) # {} => AnsweredOnce(text[i], kind)
    BY <2>1, ParserIsRight
  <2>3. PmcParsed(i) => \/ parsed.error = "MissingDataset" /\ query'[i] = "NotReady"
                        \/ /\ parsed.error # "MissingDataset"
                           /\ query'[i] = "idle" /\ result'[i] = Verdict(parsed)
    BY <1>1, ParsedOutcome
  <2>4. Verdict(parsed) \in Snapshots <=> parsed.error = "none"
    BY DEF Verdict, Snapshots
  <2>5. query'[i] = "NotReady" => PmcParsed(i)
    BY <1>1, QueryOutcomes
  <2> HIDE DEF parsed
  <2>6. PmcParsed(i) =>
            ((query'[i] = "idle" /\ result'[i] \in Snapshots) <=> parsed.error = "none")
    BY <2>3, <2>4
  <2>7. QED
    BY <2>2, <2>3, <2>5, <2>6
<1>2. QED
  BY <1>1, QueryInvariance, PTL DEF QueriesSpec, WholeAnswers

\* "Synchronized" is never made up: the line that says SLAVE was printed while the port was.
THEOREM SynchronizedIsTrue == QueriesSpec => SynchronizedWasTrue
<1> DEFINE TrueStep ==
        \A i \in Instances :
            QueryEnds(i) /\ query'[i] = "idle" /\ result'[i] = "Synchronized" => wasSlave[i]
<1>1. ASSUME QueryTypes, Remembers, [QueriesNext]_vars
      PROVE  TrueStep
  <2> SUFFICES ASSUME NEW i \in Instances, QueryEnds(i), query'[i] = "idle",
                      result'[i] = "Synchronized"
               PROVE  wasSlave[i]
    OBVIOUS
  <2> DEFINE parsed == ParsePmcOutput(text[i])
  <2>1. PmcParsed(i)
    BY <1>1, QueryOutcomes
  <2>2. Verdict(parsed) = "Synchronized"
    BY <1>1, <2>1, ParsedOutcome
  <2>3. parsed.error = "none" /\ parsed.found["PORT_DATA_SET"]["portState"] = "SLAVE"
    BY <2>2 DEF Verdict, IsSynchronized
  <2>4. text[i] \in Seq(Lines)
    BY <1>1 DEF QueryTypes
  <2>5. \E m \in DOMAIN text[i] :
            /\ IsField(text[i][m], "portState")
            /\ parsed.found["PORT_DATA_SET"]["portState"] = text[i][m].value
    BY <2>3, <2>4, ParserIsRight
  <2>6. SaysSlave(text[i])
    BY <2>3, <2>5 DEF SaysSlave
  <2>7. query[i] = "pmc"
    BY DEF QueryEnds
  <2>8. QED
    BY <1>1, <2>6, <2>7 DEF Remembers
<1>2. QED
  BY <1>1, QueryInvariance, PTL DEF QueriesSpec, SynchronizedWasTrue
===============================================================================
