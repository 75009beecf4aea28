------------------------ MODULE PdoConnectionProofs ------------------------
(***************************************************************************)
(* Proofs about one connection (PdoConnection), whatever its statements do *)
(* the transaction methods keep the work of the session, drop it, restore  *)
(* it from a savepoint or make it durable, and never invent any.           *)
(***************************************************************************)
EXTENDS PdoConnection, WellFoundedInduction, TLAPS

\* A non-empty set of positions of a sequence has a last one.
LEMMA LastPosition ==
    ASSUME NEW n \in Nat, NEW at, at \subseteq 1 .. n, at # {}
    PROVE  \E m \in at : \A i \in at : m >= i
<1> DEFINE Mirror == {n - i : i \in at}
           Less == OpToRel(<, Nat)
<1>1. Mirror \subseteq Nat /\ Mirror # {}
  <2>1. \A i \in at : i \in Nat /\ n - i \in Nat
    OBVIOUS
  <2>2. Mirror \subseteq Nat
    BY <2>1
  <2>3. PICK i \in at : TRUE
    OBVIOUS
  <2>4. n - i \in Mirror
    OBVIOUS
  <2> QED BY <2>2, <2>4
<1>2. \E x \in Mirror : \A y \in Mirror : ~ (<<y, x>> \in Less)
  <2>1. IsWellFoundedOn(Less, Nat)
    BY NatLessThanWellFounded
  <2> HIDE DEF Mirror, Less
  <2> QED BY <1>1, <2>1, WFMin
<1>3. PICK m \in at : \A y \in Mirror : ~ (<<y, n - m>> \in Less)
  BY <1>2
<1>4. \A i \in at : ~ (n - i < n - m)
  <2> SUFFICES ASSUME NEW i \in at, n - i < n - m PROVE FALSE
    OBVIOUS
  <2>1. <<n - i, n - m>> \in Less
    BY DEF OpToRel
  <2> QED BY <2>1, <1>3
<1> QED BY <1>4

\* The newest savepoint with a given name is found among the savepoints.
LEMMA PointIndexRange ==
    ASSUME NEW S, NEW points \in Seq(S), NEW name
    PROVE  PointIndex(points, name) \in 0 .. Len(points)
<1> DEFINE at == {i \in 1 .. Len(points) : points[i].name = name}
<1>1. CASE at = {}
  BY <1>1 DEF PointIndex, SelectLastInSeq
<1>2. CASE at # {}
  <2>1. PointIndex(points, name) = Max(at)
    BY <1>2 DEF PointIndex, SelectLastInSeq
  <2>2. \E m \in at : \A i \in at : m >= i
    <3>1. at \subseteq 1 .. Len(points) /\ Len(points) \in Nat
      OBVIOUS
    <3> HIDE DEF at
    <3> QED BY <1>2, <3>1, LastPosition
  <2>3. Max(at) \in at
    BY <2>2 DEF Max
  <2> QED BY <2>1, <2>3
<1> QED BY <1>1, <1>2

\* It is the last of that name, and there is none when it is not found.
LEMMA PointIndexFinds ==
    ASSUME NEW S, NEW points \in Seq(S), NEW name
    PROVE  /\ PointIndex(points, name) = 0 =>
                 \A i \in 1 .. Len(points) : points[i].name # name
           /\ PointIndex(points, name) > 0 =>
                 /\ PointIndex(points, name) \in 1 .. Len(points)
                 /\ points[PointIndex(points, name)].name = name
                 /\ \A i \in 1 .. Len(points) :
                       points[i].name = name => i <= PointIndex(points, name)
<1> DEFINE at == {i \in 1 .. Len(points) : points[i].name = name}
<1>1. CASE at = {}
  BY <1>1 DEF PointIndex, SelectLastInSeq
<1>2. CASE at # {}
  <2>1. PointIndex(points, name) = Max(at)
    BY <1>2 DEF PointIndex, SelectLastInSeq
  <2>2. \E m \in at : \A i \in at : m >= i
    <3>1. at \subseteq 1 .. Len(points) /\ Len(points) \in Nat
      OBVIOUS
    <3> HIDE DEF at
    <3> QED BY <1>2, <3>1, LastPosition
  <2>3. Max(at) \in at /\ \A i \in at : Max(at) >= i
    BY <2>2 DEF Max
  <2>4. PointIndex(points, name) \in at /\ \A i \in at : PointIndex(points, name) >= i
    BY <2>1, <2>3
  <2> QED BY <2>4
<1> QED BY <1>1, <1>2

LEMMA PointIndexIs ==
    ASSUME NEW S, NEW points \in Seq(S), NEW name, NEW k \in 1 .. Len(points),
           points[k].name = name,
           \A i \in 1 .. Len(points) : points[i].name = name => i <= k
    PROVE  PointIndex(points, name) = k
<1> DEFINE found == PointIndex(points, name)
<1>1. found \in 0 .. Len(points)
  BY PointIndexRange
<1>2. found # 0
  BY PointIndexFinds
<1>3. found \in 1 .. Len(points) /\ points[found].name = name /\ k <= found
  BY <1>1, <1>2, PointIndexFinds
<1> HIDE DEF found
<1>4. found <= k
  BY <1>3
<1> QED BY <1>3, <1>4 DEF found

----------------------------------------------------------------------------
(* The savepoints of nested scopes.  A scope finds its savepoint by a name *)
(* which is its level; other savepoints may be left of scopes that ended.  *)

PointWork(points, name) == points[PointIndex(points, name)].work

\* Every one of the names has a savepoint, deeper ones later ones.
Marks(points, names) ==
    /\ \A i \in names : PointIndex(points, i) > 0
    /\ \A i, j \in names : i < j => PointIndex(points, i) < PointIndex(points, j)

\* Work only grew from one savepoint to the next and since the last.
Growing(points, work) ==
    /\ \A k \in 1 .. Len(points) : points[k].work \subseteq work
    /\ \A k, l \in 1 .. Len(points) : k <= l => points[k].work \subseteq points[l].work

\* Savepoints that are dropped from a position on leave the others alone.
LEMMA PointsCut ==
    ASSUME NEW S, NEW points \in Seq(S), NEW m \in 0 .. Len(points), NEW cut \in Seq(S),
           Len(cut) = m, \A i \in 1 .. m : cut[i] = points[i]
    PROVE  \A name : PointIndex(points, name) \in 1 .. m =>
              /\ PointIndex(cut, name) = PointIndex(points, name)
              /\ PointWork(cut, name) = PointWork(points, name)
<1>1. cut \in Seq(S) /\ Len(cut) = m /\ \A i \in 1 .. m : cut[i] = points[i]
  OBVIOUS
<1>2. ASSUME NEW name, PointIndex(points, name) \in 1 .. m
      PROVE  /\ PointIndex(cut, name) = PointIndex(points, name)
             /\ PointWork(cut, name) = PointWork(points, name)
  <2> DEFINE at == PointIndex(points, name)
  <2>1. /\ at \in 1 .. m /\ points[at].name = name
        /\ \A i \in 1 .. Len(points) : points[i].name = name => i <= at
    BY <1>2, PointIndexFinds
  <2> HIDE DEF at
  <2>2. at \in 1 .. Len(cut) /\ cut[at].name = name
    BY <1>1, <2>1
  <2>3. \A i \in 1 .. Len(cut) : cut[i].name = name => i <= at
    BY <1>1, <2>1
  <2>4. PointIndex(cut, name) = at
    BY <1>1, <2>2, <2>3, PointIndexIs
  <2>5. cut[at] = points[at]
    BY <1>1, <2>1
  <2> QED BY <2>4, <2>5 DEF at, PointWork
<1> QED BY <1>1, <1>2

\* A savepoint that is deleted, or added, leaves those of other names in order.
LEMMA PointsWithout ==
    ASSUME NEW S, NEW points \in Seq(S), NEW old \in 1 .. Len(points),
           NEW rest, rest = RemoveAt(points, old)
    PROVE  /\ rest \in Seq(S) /\ Len(rest) = Len(points) - 1
           /\ \A i \in 1 .. Len(rest) :
                 rest[i] = IF i < old THEN points[i] ELSE points[i + 1]
           /\ \A name :
                 PointIndex(points, name) > 0 /\ name # points[old].name =>
                    /\ PointIndex(rest, name) = IF PointIndex(points, name) < old
                                                THEN PointIndex(points, name)
                                                ELSE PointIndex(points, name) - 1
                    /\ PointIndex(points, name) # old
                    /\ PointWork(rest, name) = PointWork(points, name)
<1>1. /\ rest \in Seq(S) /\ Len(rest) = Len(points) - 1
      /\ \A i \in 1 .. Len(rest) :
            rest[i] = IF i < old THEN points[i] ELSE points[i + 1]
  <2> DEFINE left  == SubSeq(points, 1, old - 1)
             right == SubSeq(points, old + 1, Len(points))
  <2>1. left \in Seq(S) /\ Len(left) = old - 1 /\ \A i \in 1 .. (old - 1) : left[i] = points[i]
    OBVIOUS
  <2>2. /\ right \in Seq(S) /\ Len(right) = Len(points) - old
        /\ \A i \in 1 .. (Len(points) - old) : right[i] = points[old + i]
    OBVIOUS
  <2>3. rest = left \o right
    BY DEF RemoveAt
  <2> HIDE DEF left, right
  <2>4. rest \in Seq(S) /\ Len(rest) = Len(points) - 1
    <3>1. rest \in Seq(S) /\ Len(rest) = Len(left) + Len(right)
      <4>1. left \in Seq(S) /\ right \in Seq(S)
        BY <2>1, <2>2
      <4>2. left \o right \in Seq(S)
        BY <4>1
      <4>3. Len(left \o right) = Len(left) + Len(right)
        BY <4>1
      <4> QED BY <2>3, <4>2, <4>3
    <3>2. Len(points) \in Nat
      OBVIOUS
    <3> QED BY <2>1, <2>2, <3>1, <3>2
  <2>5. ASSUME NEW i \in 1 .. Len(rest)
        PROVE  rest[i] = IF i < old THEN points[i] ELSE points[i + 1]
    <3>1. CASE i < old
      <4>1. rest[i] = left[i]
        BY <2>1, <2>2, <2>3, <2>4, <3>1
      <4> QED BY <2>1, <3>1, <4>1
    <3>2. CASE i >= old
      <4>1. rest[i] = right[i - (old - 1)]
        BY <2>1, <2>2, <2>3, <2>4, <3>2
      <4>2. i - (old - 1) \in 1 .. (Len(points) - old) /\ old + (i - (old - 1)) = i + 1
        BY <2>4, <3>2
      <4>3. right[i - (old - 1)] = points[i + 1]
        BY <2>2, <4>2
      <4> QED BY <3>2, <4>1, <4>3
    <3> QED BY <3>1, <3>2
  <2> QED BY <2>4, <2>5
<1>2. ASSUME NEW name, PointIndex(points, name) > 0, name # points[old].name
      PROVE  /\ PointIndex(rest, name) = IF PointIndex(points, name) < old
                                         THEN PointIndex(points, name)
                                         ELSE PointIndex(points, name) - 1
             /\ PointIndex(points, name) # old
             /\ PointWork(rest, name) = PointWork(points, name)
  <2> DEFINE at == PointIndex(points, name)
             to == IF at < old THEN at ELSE at - 1
  <2>1. /\ at \in 1 .. Len(points) /\ points[at].name = name
        /\ \A i \in 1 .. Len(points) : points[i].name = name => i <= at
    BY <1>2, PointIndexFinds
  <2> HIDE DEF at
  <2>2. at # old
    BY <1>2, <2>1
  <2>3. to \in 1 .. Len(rest) /\ rest[to] = points[at]
    BY <1>1, <2>1, <2>2
  <2>4. ASSUME NEW i \in 1 .. Len(rest), rest[i].name = name PROVE i <= to
    <3>1. CASE i < old
      <4>1. points[i].name = name
        BY <1>1, <2>4, <3>1
      <4> QED BY <1>1, <2>1, <2>2, <3>1, <4>1
    <3>2. CASE i >= old
      <4>1. points[i + 1].name = name /\ i + 1 \in 1 .. Len(points)
        BY <1>1, <2>4, <3>2
      <4> QED BY <1>1, <2>1, <2>2, <3>2, <4>1
    <3> QED BY <1>1, <3>1, <3>2
  <2>5. PointIndex(rest, name) = to
    <3>1. rest[to].name = name
      BY <2>1, <2>3
    <3> HIDE DEF to
    <3> QED BY <1>1, <2>3, <2>4, <3>1, PointIndexIs
  <2> QED BY <2>2, <2>3, <2>5 DEF at, PointWork
<1> QED BY <1>1, <1>2

LEMMA PointsAdded ==
    ASSUME NEW S, NEW points \in Seq(S), NEW p, NEW more \in Seq(S),
           Len(more) = Len(points) + 1,
           \A i \in 1 .. Len(points) : more[i] = points[i],
           more[Len(points) + 1] = p
    PROVE  /\ PointIndex(more, p.name) = Len(points) + 1
           /\ PointWork(more, p.name) = p.work
           /\ \A name : name # p.name /\ PointIndex(points, name) > 0 =>
                 /\ PointIndex(more, name) = PointIndex(points, name)
                 /\ PointIndex(points, name) \in 1 .. Len(points)
                 /\ PointWork(more, name) = PointWork(points, name)
<1>1. /\ more \in Seq(S) /\ Len(more) = Len(points) + 1
      /\ \A i \in 1 .. Len(points) : more[i] = points[i]
      /\ more[Len(points) + 1] = p
  OBVIOUS
<1>2. PointIndex(more, p.name) = Len(points) + 1
  <2> DEFINE k == Len(points) + 1
  <2>1. k \in 1 .. Len(more) /\ more[k].name = p.name
    BY <1>1
  <2>2. \A i \in 1 .. Len(more) : i <= k
    BY <1>1
  <2> HIDE DEF k
  <2>3. PointIndex(more, p.name) = k
    BY <1>1, <2>1, <2>2, PointIndexIs
  <2> QED BY <2>3 DEF k
<1>3. ASSUME NEW name, name # p.name, PointIndex(points, name) > 0
      PROVE  /\ PointIndex(more, name) = PointIndex(points, name)
             /\ PointIndex(points, name) \in 1 .. Len(points)
             /\ PointWork(more, name) = PointWork(points, name)
  <2> DEFINE at == PointIndex(points, name)
  <2>1. /\ at \in 1 .. Len(points) /\ points[at].name = name
        /\ \A i \in 1 .. Len(points) : points[i].name = name => i <= at
    BY <1>3, PointIndexFinds
  <2> HIDE DEF at
  <2>2. at \in 1 .. Len(more) /\ more[at] = points[at]
    BY <1>1, <2>1
  <2>3. \A i \in 1 .. Len(more) : more[i].name = name => i <= at
    <3> SUFFICES ASSUME NEW i \in 1 .. Len(more), more[i].name = name PROVE i <= at
      OBVIOUS
    <3>1. i # Len(points) + 1
      BY <1>1, <1>3
    <3>2. i \in 1 .. Len(points)
      BY <1>1, <3>1
    <3> QED BY <1>1, <2>1, <3>2
  <2>4. PointIndex(more, name) = at
    BY <1>1, <2>1, <2>2, <2>3, PointIndexIs
  <2> QED BY <2>1, <2>2, <2>4 DEF at, PointWork
<1> QED BY <1>1, <1>2, <1>3 DEF PointWork

\* The savepoints of names have the same work in both.
SameWork(points, after, names) ==
    \A i \in names : PointWork(after, i) = PointWork(points, i)

\* A level deeper than all of names.
Under(names, name) == names \in SUBSET Nat /\ \A i \in names : i < name

\* SAVEPOINT: a scope deeper than those that have savepoints gets its own,
\* whichever way the server treats an older one of the same name.
LEMMA SavepointMarks ==
    ASSUME NEW S, NEW c, c.points \in Seq(S), NEW name, name \in Nat,
           [name |-> name, work |-> c.work] \in S, NEW names,
           Under(names, name), Marks(c.points, names)
    PROVE  /\ Marks(PointsWith(c, name), names \cup {name})
           /\ PointWork(PointsWith(c, name), name) = c.work
           /\ SameWork(c.points, PointsWith(c, name), names)
           /\ Growing(c.points, c.work) => Growing(PointsWith(c, name), c.work)
<1>9. names \in SUBSET Nat /\ name \notin names /\ \A i \in names : i < name
  BY DEF Under
<1> DEFINE old  == PointIndex(c.points, name)
           p    == [name |-> name, work |-> c.work]
           rest == RemoveAt(c.points, old)
           kept == IF c.dialect = "mysql" /\ old > 0 THEN rest ELSE c.points
           after == PointsWith(c, name)
<1>1. after = Append(kept, p) /\ p \in S /\ p.name = name /\ p.work = c.work
  BY DEF PointsWith
<1>2. old > 0 => old \in 1 .. Len(c.points) /\ c.points[old].name = name
  BY PointIndexFinds
<1>3. \A i \in names : /\ PointIndex(c.points, i) \in 1 .. Len(c.points)
                       /\ PointIndex(c.points, i) > 0 /\ i # name
  BY <1>9, PointIndexFinds DEF Marks
<1> HIDE DEF p, old, after
<1>4. /\ kept \in Seq(S)
      /\ \A i \in names : PointWork(kept, i) = PointWork(c.points, i)
      /\ Marks(kept, names)
      /\ Growing(c.points, c.work) => Growing(kept, c.work)
  <2>1. CASE ~ (c.dialect = "mysql" /\ old > 0)
    BY <2>1
  <2>2. CASE c.dialect = "mysql" /\ old > 0
    <3> HIDE DEF rest
    <3>1. kept = rest
      BY <2>2
    <3>2. /\ rest \in Seq(S) /\ Len(rest) = Len(c.points) - 1
          /\ \A i \in 1 .. Len(rest) :
                rest[i] = IF i < old THEN c.points[i] ELSE c.points[i + 1]
      BY <1>2, <2>2, PointsWithout DEF rest
    <3>6. \A other :
             PointIndex(c.points, other) > 0 /\ other # c.points[old].name =>
                /\ PointIndex(rest, other) = IF PointIndex(c.points, other) < old
                                             THEN PointIndex(c.points, other)
                                             ELSE PointIndex(c.points, other) - 1
                /\ PointIndex(c.points, other) # old
                /\ PointWork(rest, other) = PointWork(c.points, other)
      BY <1>2, <2>2, PointsWithout DEF rest
    <3>3. \A i \in names :
             /\ PointIndex(rest, i) = IF PointIndex(c.points, i) < old
                                      THEN PointIndex(c.points, i)
                                      ELSE PointIndex(c.points, i) - 1
             /\ PointIndex(c.points, i) # old
             /\ PointWork(rest, i) = PointWork(c.points, i)
      BY <1>2, <1>3, <2>2, <3>6
    <3>4. Marks(rest, names)
      <4>1. \A i \in names : PointIndex(rest, i) > 0
        BY <1>2, <1>3, <2>2, <3>3
      <4>2. ASSUME NEW i \in names, NEW j \in names, i < j
            PROVE  PointIndex(rest, i) < PointIndex(rest, j)
        <5>1. PointIndex(c.points, i) < PointIndex(c.points, j)
          BY <4>2 DEF Marks
        <5>2. /\ PointIndex(rest, i) = IF PointIndex(c.points, i) < old
                                       THEN PointIndex(c.points, i)
                                       ELSE PointIndex(c.points, i) - 1
              /\ PointIndex(rest, j) = IF PointIndex(c.points, j) < old
                                       THEN PointIndex(c.points, j)
                                       ELSE PointIndex(c.points, j) - 1
              /\ PointIndex(c.points, i) # old /\ PointIndex(c.points, j) # old
          BY <3>3
        <5>3. /\ PointIndex(c.points, i) \in 1 .. Len(c.points)
              /\ PointIndex(c.points, j) \in 1 .. Len(c.points)
              /\ old \in 1 .. Len(c.points)
          BY <1>2, <1>3, <2>2
        <5> QED BY <5>1, <5>2, <5>3
      <4> QED BY <4>1, <4>2 DEF Marks
    <3>5. Growing(c.points, c.work) => Growing(rest, c.work)
      <4> SUFFICES ASSUME Growing(c.points, c.work) PROVE Growing(rest, c.work)
        OBVIOUS
      <4>1. old \in 1 .. Len(c.points) /\ Len(c.points) \in Nat
        BY <1>2, <2>2
      <4> DEFINE from(i) == IF i < old THEN i ELSE i + 1
      <4>2. \A i \in 1 .. Len(rest) : from(i) \in 1 .. Len(c.points) /\ rest[i] = c.points[from(i)]
        BY <3>2, <4>1
      <4>3. \A i, j \in 1 .. Len(rest) : i <= j => from(i) <= from(j)
        BY <3>2, <4>1
      <4> HIDE DEF from
      <4> QED BY <4>2, <4>3 DEF Growing
    <3> QED BY <3>1, <3>2, <3>3, <3>4, <3>5
  <2> QED BY <2>1, <2>2
<1> HIDE DEF kept
<1>0. /\ kept \in Seq(S) /\ after \in Seq(S)
      /\ Len(after) = Len(kept) + 1
      /\ \A i \in 1 .. Len(kept) : after[i] = kept[i]
      /\ after[Len(kept) + 1] = p
  <2>1. kept \in Seq(S) /\ p \in S
    BY <1>1, <1>4
  <2> QED BY <1>1, <2>1
<1>5. /\ PointIndex(after, p.name) = Len(kept) + 1
      /\ PointWork(after, p.name) = p.work
      /\ \A other : other # p.name /\ PointIndex(kept, other) > 0 =>
            /\ PointIndex(after, other) = PointIndex(kept, other)
            /\ PointIndex(kept, other) \in 1 .. Len(kept)
            /\ PointWork(after, other) = PointWork(kept, other)
  BY <1>0, PointsAdded
<1>6. \A i \in names :
         /\ PointIndex(after, i) = PointIndex(kept, i)
         /\ PointIndex(kept, i) \in 1 .. Len(kept)
         /\ PointWork(after, i) = PointWork(kept, i)
  BY <1>1, <1>3, <1>4, <1>5 DEF Marks
<1>7. Marks(after, names \cup {name})
  <2>1. Len(kept) \in Nat
    BY <1>4
  <2>2. \A i \in names \cup {name} : PointIndex(after, i) > 0
    BY <1>1, <1>5, <1>6, <2>1
  <2>3. \A i, j \in names : i < j => PointIndex(after, i) < PointIndex(after, j)
    BY <1>4, <1>6 DEF Marks
  <2>4. \A i \in names : PointIndex(after, i) < PointIndex(after, name)
    BY <1>1, <1>5, <1>6, <2>1
  <2>5. \A i \in names : ~ (name < i) /\ ~ (name < name)
    <3> SUFFICES ASSUME NEW i \in names PROVE ~ (name < i) /\ ~ (name < name)
      OBVIOUS
    <3>1. i \in Nat /\ i < name
      BY <1>9
    <3> QED BY <3>1
  <2> QED BY <2>2, <2>3, <2>4, <2>5 DEF Marks
<1>8. Growing(c.points, c.work) => Growing(after, c.work)
  <2> SUFFICES ASSUME Growing(kept, c.work) PROVE Growing(after, c.work)
    BY <1>4
  <2>1. Len(kept) \in Nat
    BY <1>4
  <2>2. \A k \in 1 .. Len(after) : k \in 1 .. Len(kept) \/ k = Len(kept) + 1
    BY <1>0, <2>1
  <2>3. \A k \in 1 .. Len(after) : after[k].work \subseteq c.work
    BY <1>0, <1>1, <2>2 DEF Growing
  <2>4. ASSUME NEW k \in 1 .. Len(after), NEW l \in 1 .. Len(after), k <= l
        PROVE  after[k].work \subseteq after[l].work
    <3>1. CASE l = Len(kept) + 1
      BY <1>0, <1>1, <2>3, <3>1
    <3>2. CASE l \in 1 .. Len(kept)
      <4>1. k \in 1 .. Len(kept)
        BY <2>1, <2>4, <3>2
      <4> QED BY <1>0, <2>4, <3>2, <4>1 DEF Growing
    <3> QED BY <2>2, <3>1, <3>2
  <2> QED BY <2>3, <2>4 DEF Growing
<1> QED BY <1>1, <1>3, <1>4, <1>5, <1>6, <1>7, <1>8 DEF after, SameWork

\* RELEASE and ROLLBACK TO: the scopes that a scope is inside keep theirs, and
\* after ROLLBACK TO the scope itself does.
LEMMA CutMarks ==
    ASSUME NEW S, NEW c, c.points \in Seq(S), NEW names, names \in SUBSET Nat,
           Marks(c.points, names), NEW name, name \in names
    PROVE  /\ Marks(PointsReleased(c, name), {i \in names : i < name})
           /\ SameWork(c.points, PointsReleased(c, name), {i \in names : i < name})
           /\ Growing(c.points, c.work) => Growing(PointsReleased(c, name), c.work)
           /\ Marks(PointsRestored(c, name), {i \in names : i <= name})
           /\ SameWork(c.points, PointsRestored(c, name), {i \in names : i <= name})
           /\ Growing(c.points, c.work) => Growing(PointsRestored(c, name), WorkAt(c, name))
<1> DEFINE points == c.points
<1>0. points \in Seq(S) /\ names \in SUBSET Nat /\ Marks(points, names) /\ name \in names
  OBVIOUS
<1> HIDE DEF points
<1> DEFINE at == PointIndex(points, name)
           one == SubSeq(points, 1, at - 1)
           two == SubSeq(points, 1, at)
<1>1. at \in 1 .. Len(points) /\ Len(points) \in Nat
  BY <1>0, PointIndexFinds DEF Marks
<1>2. \A i \in names : /\ i \in Nat
                       /\ PointIndex(points, i) \in 1 .. Len(points)
                       /\ i < name => PointIndex(points, i) < at
  <2> SUFFICES ASSUME NEW i \in names
               PROVE  /\ PointIndex(points, i) \in 1 .. Len(points)
                      /\ i < name => PointIndex(points, i) < at
    BY <1>0
  <2>1. PointIndex(points, i) > 0 /\ (i < name => PointIndex(points, i) < at)
    BY <1>0 DEF Marks
  <2> QED BY <1>0, <2>1, PointIndexFinds
<1> HIDE DEF at
<1>3. /\ one \in Seq(S) /\ Len(one) = at - 1
      /\ \A i \in 1 .. (at - 1) : one[i] = points[i]
      /\ \A other : PointIndex(points, other) \in 1 .. (at - 1) =>
            /\ PointIndex(one, other) = PointIndex(points, other)
            /\ PointWork(one, other) = PointWork(points, other)
  <2>1. at - 1 \in 0 .. Len(points)
    BY <1>1
  <2>2. /\ one \in Seq(S) /\ Len(one) = at - 1
        /\ \A i \in 1 .. (at - 1) : one[i] = points[i]
    BY <1>0, <1>1
  <2> HIDE DEF one
  <2> QED BY <1>0, <2>1, <2>2, PointsCut
<1>4. /\ two \in Seq(S) /\ Len(two) = at
      /\ \A i \in 1 .. at : two[i] = points[i]
      /\ \A other : PointIndex(points, other) \in 1 .. at =>
            /\ PointIndex(two, other) = PointIndex(points, other)
            /\ PointWork(two, other) = PointWork(points, other)
  <2>1. at \in 0 .. Len(points)
    BY <1>1
  <2>2. /\ two \in Seq(S) /\ Len(two) = at
        /\ \A i \in 1 .. at : two[i] = points[i]
    BY <1>0, <1>1
  <2> HIDE DEF two
  <2> QED BY <1>0, <2>1, <2>2, PointsCut
<1> HIDE DEF one, two
<1>5. \A i \in names : i < name => /\ PointIndex(one, i) = PointIndex(points, i)
                                   /\ PointWork(one, i) = PointWork(points, i)
  <2> SUFFICES ASSUME NEW i \in names, i < name
               PROVE  PointIndex(points, i) \in 1 .. (at - 1)
    BY <1>3
  <2> QED BY <1>1, <1>2
<1>6. \A i \in names : i <= name => /\ PointIndex(two, i) = PointIndex(points, i)
                                    /\ PointWork(two, i) = PointWork(points, i)
  <2> SUFFICES ASSUME NEW i \in names, i <= name
               PROVE  PointIndex(points, i) \in 1 .. at
    BY <1>4
  <2>1. i \in Nat /\ name \in Nat
    BY <1>0
  <2>2. CASE i = name
    BY <1>1, <2>2 DEF at
  <2>3. CASE i < name
    BY <1>1, <1>2, <2>3
  <2> QED BY <2>1, <2>2, <2>3
<1>7. Marks(one, {i \in names : i < name})
  BY <1>0, <1>5 DEF Marks
<1>8. Marks(two, {i \in names : i <= name})
  BY <1>0, <1>6 DEF Marks
<1>9. ASSUME NEW work, Growing(points, work) PROVE Growing(one, work)
  <2>1. \A k \in 1 .. Len(one) : k \in 1 .. Len(points) /\ one[k] = points[k]
    BY <1>1, <1>3
  <2> QED BY <1>9, <2>1 DEF Growing
<1>10. ASSUME NEW work, Growing(points, work) PROVE Growing(two, PointWork(points, name))
  <2>1. \A k \in 1 .. Len(two) : k \in 1 .. Len(points) /\ two[k] = points[k] /\ k <= at
    BY <1>1, <1>4
  <2>2. PointWork(points, name) = points[at].work
    BY DEF at, PointWork
  <2> QED BY <1>1, <1>10, <2>1, <2>2 DEF Growing
<1>11. /\ one = PointsReleased(c, name) /\ two = PointsRestored(c, name)
       /\ PointWork(points, name) = WorkAt(c, name)
  BY DEF one, two, at, points, PointsReleased, PointsRestored, PointWork, WorkAt
<1>12. /\ SameWork(points, one, {i \in names : i < name})
       /\ SameWork(points, two, {i \in names : i <= name})
  BY <1>5, <1>6 DEF SameWork
<1> QED
  BY <1>7, <1>8, <1>9, <1>10, <1>11, <1>12 DEF points

----------------------------------------------------------------------------
(* Sessions whose work, now and at every savepoint, is in a set W: what    *)
(* the transaction methods never leave, because they invent no work.       *)

PointOf(W) == [name : Nat, work : W]

ConnectionOf(W) ==
    [open : BOOLEAN, level : Nat, savepoints : BOOLEAN, dialect : Dialects,
     active : BOOLEAN, work : W, points : Seq(PointOf(W))]

\* A session outside a transaction has done nothing.
Session(W) ==
    {c \in ConnectionOf(W) : c.active \/ (c.work = {} /\ c.points = <<>>)}

\* From c to r: a session over W again, and all of the work made durable or
\* none.
Steady(W, c, r) ==
    /\ r.conn \in Session(W)
    /\ r.made = {} \/ (r.made = c.work /\ r.conn.work = {} /\ r.conn.points = <<>>)

\* The server's savepoints hold work that was done.
LEMMA PointsSteady ==
    ASSUME NEW W, NEW c \in ConnectionOf(W), NEW name \in Nat
    PROVE  /\ PointsWith(c, name) \in Seq(PointOf(W))
           /\ PointsReleased(c, name) \in Seq(PointOf(W))
           /\ PointsRestored(c, name) \in Seq(PointOf(W))
           /\ PointIndex(c.points, name) \in Nat
           /\ PointIndex(c.points, name) > 0 => WorkAt(c, name) \in W
<1> DEFINE old == PointIndex(c.points, name)
<1>1. c.points \in Seq(PointOf(W)) /\ c.work \in W
  BY DEF ConnectionOf
<1>2. old \in 0 .. Len(c.points)
  BY <1>1, PointIndexRange
<1> HIDE DEF old
<1>3. SubSeq(c.points, 1, old - 1) \in Seq(PointOf(W))
  BY <1>1, <1>2
<1>4. SubSeq(c.points, 1, old) \in Seq(PointOf(W))
  BY <1>1, <1>2
<1>5. old > 0 => RemoveAt(c.points, old) \in Seq(PointOf(W))
  <2>1. SubSeq(c.points, old + 1, Len(c.points)) \in Seq(PointOf(W))
    BY <1>1, <1>2
  <2> QED BY <1>3, <2>1 DEF RemoveAt
<1>6. [name |-> name, work |-> c.work] \in PointOf(W)
  BY <1>1 DEF PointOf
<1>7. old > 0 => c.points[old].work \in W
  <2>1. old > 0 => c.points[old] \in PointOf(W)
    BY <1>1, <1>2
  <2> QED BY <2>1 DEF PointOf
<1> QED
  BY <1>1, <1>2, <1>3, <1>4, <1>5, <1>6, <1>7
     DEF PointsWith, PointsReleased, PointsRestored, WorkAt, old

LEMMA IdleSession ==
    ASSUME NEW W, {} \in W, NEW c \in ConnectionOf(W)
    PROVE  /\ Idle(c) \in Session(W)
           /\ Idle(c).work = {} /\ Idle(c).points = <<>>
<1>1. <<>> \in Seq(PointOf(W))
  OBVIOUS
<1> QED
  BY <1>1 DEF Idle, ConnectionOf, Session

\* A session with another level, or with other savepoints.
LEMMA SessionWith ==
    ASSUME NEW W, NEW c \in Session(W)
    PROVE  /\ Deeper(c) \in Session(W) /\ Deeper(c).work = c.work
           /\ c.level > 0 => Shallower(c) \in Session(W) /\ Shallower(c).work = c.work
           /\ \A points \in Seq(PointOf(W)) : c.active =>
                 [c EXCEPT !.points = points] \in Session(W)
           /\ \A work \in W, points \in Seq(PointOf(W)) : c.active =>
                 [c EXCEPT !.work = work, !.points = points] \in Session(W)
<1> USE DEF Session, ConnectionOf
<1>1. Deeper(c) \in Session(W) /\ Deeper(c).work = c.work
  BY DEF Deeper
<1>2. c.level > 0 => Shallower(c) \in Session(W) /\ Shallower(c).work = c.work
  BY DEF Shallower
<1>3. ASSUME NEW points \in Seq(PointOf(W)), c.active
      PROVE  [c EXCEPT !.points = points] \in Session(W)
  BY <1>3
<1>4. ASSUME NEW work \in W, NEW points \in Seq(PointOf(W)), c.active
      PROVE  [c EXCEPT !.work = work, !.points = points] \in Session(W)
  BY <1>4
<1> QED
  BY <1>1, <1>2, <1>3, <1>4

LEMMA RefusalSteady ==
    ASSUME NEW W, NEW c \in Session(W), NEW ret
    PROVE  Steady(W, c, Result(c, {}, ret))
BY DEF Steady, Result

LEMMA ServerSteady ==
    ASSUME NEW W, {} \in W, NEW c \in Session(W), NEW outcome \in Outcomes
    PROVE  /\ Steady(W, c, ServerBegin(c, outcome))
           /\ Steady(W, c, ServerCommit(c, outcome))
           /\ Steady(W, c, ServerRollback(c, outcome))
<1>1. Idle(c) \in Session(W) /\ Idle(c).work = {} /\ Idle(c).points = <<>>
  BY IdleSession DEF Session
<1>2. [Idle(c) EXCEPT !.active = TRUE] \in Session(W)
  BY <1>1 DEF Session, ConnectionOf
<1>3. Steady(W, c, ServerBegin(c, outcome))
  BY <1>2 DEF ServerBegin, Steady, Result
<1>4. Steady(W, c, ServerCommit(c, outcome))
  BY <1>1 DEF ServerCommit, Steady, Result, Outcomes
<1>5. Steady(W, c, ServerRollback(c, outcome))
  BY <1>1 DEF ServerRollback, Steady, Result
<1> QED
  BY <1>3, <1>4, <1>5

LEMMA SavepointsSteady ==
    ASSUME NEW W, NEW c \in Session(W), NEW name \in Nat, NEW outcome
    PROVE  /\ Steady(W, c, CreateSavepoint(c, name, outcome))
           /\ Steady(W, c, ReleaseSavepoint(c, name, outcome))
           /\ Steady(W, c, RollbackSavepoint(c, name, outcome))
<1>1. c \in ConnectionOf(W)
  BY DEF Session
<1>2. PointIndex(c.points, name) > 0 => c.active
  <2>1. c.points = <<>> => PointIndex(c.points, name) \in 0 .. 0
    BY <1>1, PointIndexRange, Len(<<>>) = 0 DEF ConnectionOf
  <2> QED
    BY <2>1 DEF Session
<1>3. Steady(W, c, CreateSavepoint(c, name, outcome))
  <2>1. c.active => [c EXCEPT !.points = PointsWith(c, name)] \in Session(W)
    BY <1>1, PointsSteady, SessionWith
  <2> QED
    BY <2>1, RefusalSteady DEF CreateSavepoint, RefusalOf, Steady, Result
<1>4. Steady(W, c, ReleaseSavepoint(c, name, outcome))
  <2>1. CASE PointIndex(c.points, name) > 0
    BY <1>1, <1>2, <2>1, PointsSteady, SessionWith
       DEF ReleaseSavepoint, RefusalOf, Steady, Result
  <2>2. CASE PointIndex(c.points, name) = 0
    BY <2>2 DEF ReleaseSavepoint, RefusalOf, Steady, Result
  <2> QED
    BY <1>1, <2>1, <2>2, PointsSteady
<1>5. Steady(W, c, RollbackSavepoint(c, name, outcome))
  <2>1. CASE PointIndex(c.points, name) > 0
    BY <1>1, <1>2, <2>1, PointsSteady, SessionWith
       DEF RollbackSavepoint, RefusalOf, Steady, Result
  <2>2. CASE PointIndex(c.points, name) = 0
    BY <2>2 DEF RollbackSavepoint, RefusalOf, Steady, Result
  <2> QED
    BY <1>1, <2>1, <2>2, PointsSteady
<1> QED
  BY <1>3, <1>4, <1>5

\* begin(), commit() and rollback(): whatever the setting, the nesting and the
\* outcome, the session's work stays what it was, goes back to what it was at
\* a savepoint, or ends.
LEMMA MethodsSteady ==
    ASSUME NEW W, {} \in W, NEW c \in Session(W), NEW nesting, NEW outcome \in Outcomes
    PROVE  /\ Steady(W, c, Begin(c, nesting, outcome))
           /\ Steady(W, c, Commit(c, nesting, outcome))
           /\ Steady(W, c, Rollback(c, nesting, outcome))
<1>1. c.level \in Nat /\ c.open \in BOOLEAN
  BY DEF Session, ConnectionOf
<1>2. Deeper(c) \in Session(W) /\ Deeper(c).work = c.work
  BY SessionWith
<1>3. c.level > 0 => Shallower(c) \in Session(W) /\ Shallower(c).work = c.work
  BY SessionWith
<1>4. \A ret : /\ Steady(W, c, Result(c, {}, ret))
               /\ Steady(W, c, Result(Deeper(c), {}, ret))
               /\ c.level > 0 => Steady(W, c, Result(Shallower(c), {}, ret))
  BY <1>2, <1>3 DEF Steady, Result
<1>5. \A d, r : d.work = c.work /\ Steady(W, d, r) => Steady(W, c, r)
  BY DEF Steady
<1>6. Steady(W, c, Begin(c, nesting, outcome))
  <2>1. /\ Steady(W, c, ServerBegin(Deeper(c), outcome))
        /\ Steady(W, c, CreateSavepoint(Deeper(c), c.level + 1, outcome))
    BY <1>1, <1>2, <1>5, ServerSteady, SavepointsSteady
  <2> QED
    BY <1>1, <1>4, <2>1 DEF Begin
<1>7. ASSUME c.level > 0
      PROVE  /\ Steady(W, c, ServerCommit(Shallower(c), outcome))
             /\ Steady(W, c, ReleaseSavepoint(Shallower(c), c.level, outcome))
             /\ Steady(W, c, ServerRollback(Shallower(c), outcome))
             /\ Steady(W, c, RollbackSavepoint(Shallower(c), c.level, outcome))
  BY <1>1, <1>3, <1>5, <1>7, ServerSteady, SavepointsSteady
<1>8. Steady(W, c, Commit(c, nesting, outcome))
  BY <1>1, <1>4, <1>7 DEF Commit
<1>9. Steady(W, c, Rollback(c, nesting, outcome))
  BY <1>1, <1>4, <1>7 DEF Rollback
<1> QED
  BY <1>6, <1>8, <1>9

----------------------------------------------------------------------------
(* The counter *)

\* begin() counts one more whatever happens to its command, commit() and
\* rollback() one less; none of them drops the connection.
LEMMA MethodsCount ==
    ASSUME NEW W, {} \in W, NEW c \in Session(W), c.open, NEW nesting,
           NEW outcome \in Outcomes
    PROVE  /\ LET r == Begin(c, nesting, outcome)
              IN  r.conn.level = c.level + 1 /\ r.conn.open
           /\ c.level > 0 =>
                 /\ LET r == Commit(c, nesting, outcome)
                    IN  r.conn.level = c.level - 1 /\ r.conn.open
                 /\ LET r == Rollback(c, nesting, outcome)
                    IN  r.conn.level = c.level - 1 /\ r.conn.open
           /\ c.level = 0 =>
                 /\ Commit(c, nesting, outcome) = Result(c, {}, "throw")
                 /\ Rollback(c, nesting, outcome) = Result(c, {}, "throw")
<1>1. c \in ConnectionOf(W) /\ c.level \in Nat
  BY DEF Session, ConnectionOf
<1>2. /\ Deeper(c) \in ConnectionOf(W) /\ Deeper(c).level = c.level + 1 /\ Deeper(c).open
      /\ c.level > 0 => /\ Shallower(c) \in ConnectionOf(W)
                        /\ Shallower(c).level = c.level - 1 /\ Shallower(c).open
  BY <1>1 DEF ConnectionOf, Deeper, Shallower
<1>3. ASSUME NEW d \in ConnectionOf(W), d.open, NEW name
      PROVE  \A r \in {ServerBegin(d, outcome), ServerCommit(d, outcome),
                       ServerRollback(d, outcome), CreateSavepoint(d, name, outcome),
                       ReleaseSavepoint(d, name, outcome),
                       RollbackSavepoint(d, name, outcome)} :
                 r.conn.level = d.level /\ r.conn.open
  <2>1. /\ \A points : /\ [d EXCEPT !.points = points].level = d.level
                       /\ [d EXCEPT !.points = points].open = d.open
        /\ \A work, points :
              /\ [d EXCEPT !.work = work, !.points = points].level = d.level
              /\ [d EXCEPT !.work = work, !.points = points].open = d.open
        /\ Idle(d).level = d.level /\ Idle(d).open = d.open
        /\ [Idle(d) EXCEPT !.active = TRUE].level = d.level
        /\ [Idle(d) EXCEPT !.active = TRUE].open = d.open
    BY <1>3 DEF ConnectionOf, Idle
  <2>2. /\ ServerBegin(d, outcome).conn.level = d.level
        /\ ServerBegin(d, outcome).conn.open
    BY <1>3, <2>1 DEF ServerBegin, Result
  <2>3. /\ ServerCommit(d, outcome).conn.level = d.level
        /\ ServerCommit(d, outcome).conn.open
    BY <1>3, <2>1 DEF ServerCommit, Result, Outcomes
  <2>4. /\ ServerRollback(d, outcome).conn.level = d.level
        /\ ServerRollback(d, outcome).conn.open
    BY <1>3, <2>1 DEF ServerRollback, Result
  <2>5. /\ CreateSavepoint(d, name, outcome).conn.level = d.level
        /\ CreateSavepoint(d, name, outcome).conn.open
    BY <1>3, <2>1 DEF CreateSavepoint, RefusalOf, Result
  <2>6. d.points \in Seq(PointOf(W))
    BY DEF ConnectionOf
  <2>7. PointIndex(d.points, name) > 0 \/ PointIndex(d.points, name) = 0
    BY <2>6, PointIndexRange
  <2>8. /\ ReleaseSavepoint(d, name, outcome).conn.level = d.level
        /\ ReleaseSavepoint(d, name, outcome).conn.open
    BY <1>3, <2>1, <2>7 DEF ReleaseSavepoint, RefusalOf, Result
  <2>9. /\ RollbackSavepoint(d, name, outcome).conn.level = d.level
        /\ RollbackSavepoint(d, name, outcome).conn.open
    BY <1>3, <2>1, <2>7 DEF RollbackSavepoint, RefusalOf, Result
  <2> QED
    BY <2>2, <2>3, <2>4, <2>5, <2>8, <2>9
<1>4. LET r == Begin(c, nesting, outcome)
      IN  r.conn.level = c.level + 1 /\ r.conn.open
  BY <1>1, <1>2, <1>3 DEF Begin, Result
<1>5. c.level > 0 => LET r == Commit(c, nesting, outcome)
                     IN  r.conn.level = c.level - 1 /\ r.conn.open
  BY <1>1, <1>2, <1>3 DEF Commit, Result
<1>6. c.level > 0 => LET r == Rollback(c, nesting, outcome)
                     IN  r.conn.level = c.level - 1 /\ r.conn.open
  BY <1>1, <1>2, <1>3 DEF Rollback, Result
<1>7. c.level = 0 => /\ Commit(c, nesting, outcome) = Result(c, {}, "throw")
                     /\ Rollback(c, nesting, outcome) = Result(c, {}, "throw")
  BY <1>1 DEF Commit, Rollback
<1> QED
  BY <1>4, <1>5, <1>6, <1>7

----------------------------------------------------------------------------
(* A server that answers: the session has a transaction exactly when the   *)
(* counter says so.                                                        *)

Counted(c) == IF c.open THEN (c.active <=> c.level > 0) ELSE ~c.active

\* The calls keep that when their commands work.
LEMMA CallsCounted ==
    ASSUME NEW W, {} \in W, NEW c \in Session(W), Counted(c), NEW nesting
    PROVE  /\ Counted(Begin(c, nesting, "ok").conn)
           /\ Counted(Commit(c, nesting, "ok").conn)
           /\ Counted(Rollback(c, nesting, "ok").conn)
<1>1. c \in ConnectionOf(W) /\ c.level \in Nat /\ c.open \in BOOLEAN /\ c.active \in BOOLEAN
  BY DEF Session, ConnectionOf
<1>2. CASE ~c.open
  BY <1>2 DEF Begin, Commit, Rollback, Result
<1>3. CASE c.open
  <2> DEFINE up == Deeper(c)
             low == Shallower(c)
  <2>1. /\ up \in ConnectionOf(W) /\ up.open /\ up.level = c.level + 1 /\ (up.active <=> c.active)
        /\ c.level > 0 => /\ low \in ConnectionOf(W) /\ low.open
                          /\ low.level = c.level - 1 /\ (low.active <=> c.active)
    BY <1>1, <1>3 DEF ConnectionOf, Deeper, Shallower
  <2> HIDE DEF up, low
  <2>2. (c.active <=> c.level > 0)
    BY <1>3 DEF Counted
  \* What the server does to the flag.
  <2>3. ASSUME NEW d \in ConnectionOf(W), d.open, NEW name
        PROVE  /\ ~d.active => ServerBegin(d, "ok").conn.active
               /\ d.active => ~ServerCommit(d, "ok").conn.active
               /\ d.active => ~ServerRollback(d, "ok").conn.active
               /\ (CreateSavepoint(d, name, "ok").conn.active <=> d.active)
               /\ (ReleaseSavepoint(d, name, "ok").conn.active <=> d.active)
               /\ (RollbackSavepoint(d, name, "ok").conn.active <=> d.active)
    <3>1. /\ \A points : ([d EXCEPT !.points = points].active <=> d.active)
          /\ \A work, points : ([d EXCEPT !.work = work, !.points = points].active <=> d.active)
          /\ ~Idle(d).active /\ [Idle(d) EXCEPT !.active = TRUE].active
      BY DEF ConnectionOf, Idle
    <3>2. PointIndex(d.points, name) > 0 \/ PointIndex(d.points, name) = 0
      BY PointIndexRange DEF ConnectionOf
    <3>3. d.active \in BOOLEAN /\ d.open = TRUE
      BY <2>3 DEF ConnectionOf
    <3>4. ~d.active => ServerBegin(d, "ok").conn.active
      BY <3>1 DEF ServerBegin, Result
    <3>5. d.active => ~ServerCommit(d, "ok").conn.active
      BY <3>1 DEF ServerCommit, Result
    <3>6. d.active => ~ServerRollback(d, "ok").conn.active
      BY <3>1 DEF ServerRollback, Result
    <3>7. CreateSavepoint(d, name, "ok").conn.active <=> d.active
      BY <3>1, <3>3 DEF CreateSavepoint, RefusalOf, Refused, Result
    <3>8. ReleaseSavepoint(d, name, "ok").conn.active <=> d.active
      BY <3>1, <3>2, <3>3 DEF ReleaseSavepoint, RefusalOf, Refused, Result
    <3>9. RollbackSavepoint(d, name, "ok").conn.active <=> d.active
      BY <3>1, <3>2, <3>3 DEF RollbackSavepoint, RefusalOf, Refused, Result
    <3> QED BY <3>4, <3>5, <3>6, <3>7, <3>8, <3>9
  <2>4. "ok" \in Outcomes
    BY DEF Outcomes
  <2>5. ASSUME NEW r, r = Begin(c, nesting, "ok") PROVE Counted(r.conn)
    <3>1. r.conn.level = c.level + 1 /\ r.conn.open
      BY <1>3, <2>4, <2>5, MethodsCount
    <3>2. r.conn.active
      <4>1. CASE c.level = 0
        <5>1. r = ServerBegin(up, "ok")
          BY <1>3, <2>5, <4>1 DEF Begin, up
        <5> QED BY <2>1, <2>2, <2>3, <4>1, <5>1
      <4>2. CASE c.level > 0 /\ ~UsesSavepoint(c, nesting)
        <5>1. r.conn = up
          BY <1>3, <2>5, <4>2 DEF Begin, Result, up
        <5> QED BY <2>1, <2>2, <4>2, <5>1
      <4>3. CASE c.level > 0 /\ UsesSavepoint(c, nesting)
        <5>1. r = CreateSavepoint(up, c.level + 1, "ok")
          BY <1>3, <2>5, <4>3 DEF Begin, up
        <5> QED BY <2>1, <2>2, <2>3, <4>3, <5>1
      <4> QED BY <1>1, <4>1, <4>2, <4>3
    <3>3. r.conn.active \in BOOLEAN
      BY <2>4, <2>5, MethodsSteady DEF Steady, Session, ConnectionOf
    <3> QED BY <1>1, <3>1, <3>2, <3>3 DEF Counted
  <2>6. ASSUME NEW r \in {Commit(c, nesting, "ok"), Rollback(c, nesting, "ok")}
        PROVE  Counted(r.conn)
    <3>1. CASE c.level = 0
      BY <1>1, <1>3, <2>6, <3>1 DEF Commit, Rollback, Result
    <3>2. CASE c.level > 0
      <4>1. r.conn.level = c.level - 1 /\ r.conn.open
        BY <1>3, <2>4, <2>6, <3>2, MethodsCount
      <4>2. r.conn.active \in BOOLEAN
        BY <2>4, <2>6, MethodsSteady DEF Steady, Session, ConnectionOf
      <4>3. CASE c.level = 1
        <5>1. ~r.conn.active
          <6>1. r \in {ServerCommit(low, "ok"), ServerRollback(low, "ok")}
            BY <1>3, <2>6, <4>3 DEF Commit, Rollback, low
          <6> QED BY <2>1, <2>2, <2>3, <4>3, <6>1
        <5> QED BY <4>1, <4>3, <5>1 DEF Counted
      <4>4. CASE c.level > 1
        <5>1. r.conn.active
          <6>1. CASE ~UsesSavepoint(c, nesting)
            <7>1. r.conn = low
              BY <1>3, <2>6, <4>4, <6>1 DEF Commit, Rollback, Result, low
            <7> QED BY <1>1, <2>1, <2>2, <4>4, <7>1
          <6>2. CASE UsesSavepoint(c, nesting)
            <7>1. r \in {ReleaseSavepoint(low, c.level, "ok"), RollbackSavepoint(low, c.level, "ok")}
              BY <1>3, <2>6, <4>4, <6>2 DEF Commit, Rollback, low
            <7> QED BY <1>1, <2>1, <2>2, <2>3, <4>4, <7>1
          <6> QED BY <6>1, <6>2
        <5> QED BY <1>1, <4>1, <4>2, <4>4, <5>1 DEF Counted
      <4> QED BY <1>1, <3>2, <4>3, <4>4
    <3> QED BY <1>1, <3>1, <3>2
  <2> QED BY <2>5, <2>6
<1> QED BY <1>1, <1>2, <1>3

\* commit() makes durable the whole work of the session or none, and ends the
\* transaction when it does.
LEMMA CommitMakes ==
    ASSUME NEW W, {} \in W, NEW c \in Session(W), NEW nesting,
           NEW outcome \in Outcomes, Commit(c, nesting, outcome).made # {}
    PROVE  /\ c.active /\ ~Commit(c, nesting, outcome).conn.active
           /\ Commit(c, nesting, outcome).made = c.work
<1> DEFINE low == Shallower(c)
<1>1. c.level \in Nat /\ c \in ConnectionOf(W)
  BY DEF Session, ConnectionOf
<1>2. c.level > 0 => low \in ConnectionOf(W) /\ (low.active <=> c.active) /\ low.work = c.work
  BY <1>1 DEF ConnectionOf, Shallower
<1>3. CASE c.open /\ c.level = 1
  <2>1. Commit(c, nesting, outcome) = ServerCommit(low, outcome)
    BY <1>3 DEF Commit
  <2>2. ~Idle(low).active
    BY <1>2, <1>3 DEF Idle, ConnectionOf
  <2>3. ServerCommit(low, outcome).made # {}
    BY <2>1
  <2> HIDE DEF low
  <2>4. low.active
    BY <2>3 DEF ServerCommit, Result
  <2>5. ServerCommit(low, outcome) = Result(Idle(low), low.work, "true")
    BY <2>3, <2>4 DEF ServerCommit, Result, Outcomes
  <2> QED BY <1>2, <1>3, <2>1, <2>2, <2>4, <2>5 DEF Result
<1>4. CASE ~c.open \/ c.level = 0
  BY <1>1, <1>4 DEF Commit, Result
<1>5. CASE c.open /\ c.level > 1 /\ ~UsesSavepoint(c, nesting)
  BY <1>1, <1>5 DEF Commit, Result
<1>6. CASE c.open /\ c.level > 1 /\ UsesSavepoint(c, nesting)
  <2>1. Commit(c, nesting, outcome) = ReleaseSavepoint(low, c.level, outcome)
    BY <1>1, <1>6 DEF Commit
  <2>2. PointIndex(low.points, c.level) > 0 \/ PointIndex(low.points, c.level) = 0
    <3>1. low.points \in Seq(PointOf(W))
      BY <1>1, <1>2, <1>6 DEF ConnectionOf
    <3> QED BY <3>1, PointIndexRange
  <2> QED BY <2>1, <2>2 DEF ReleaseSavepoint, RefusalOf, Result
<1> QED BY <1>1, <1>3, <1>4, <1>5, <1>6

----------------------------------------------------------------------------
(* What exactly a method does whose command works: the server accepts it,  *)
(* or the method needs none and returns.                                   *)

Worked(outcome, r) == outcome = "ok" \/ (outcome # "veto" /\ r.ret # "throw")

\* The server's transaction is the one that the adapter counts.
InStep(c) == c.open /\ (c.active <=> c.level > 0)

LEMMA BeginWorks ==
    ASSUME NEW W, {} \in W, NEW c \in Session(W), InStep(c), NEW nesting,
           NEW outcome \in Outcomes, NEW r, r = Begin(c, nesting, outcome), Worked(outcome, r)
    PROVE  /\ r.made = {} /\ InStep(r.conn)
           /\ r.conn.level = c.level + 1
           /\ (r.conn.savepoints <=> c.savepoints)
           /\ r.conn.work = c.work
           /\ r.conn.points = IF c.level = 0 THEN <<>>
                              ELSE IF UsesSavepoint(c, nesting)
                                   THEN PointsWith(c, c.level + 1) ELSE c.points
<1> DEFINE up == Deeper(c)
<1>1. c \in ConnectionOf(W) /\ c.level \in Nat /\ c.open /\ (c.active <=> c.level > 0)
  BY DEF Session, ConnectionOf, InStep
<1>2. /\ up \in ConnectionOf(W) /\ up.open /\ up.level = c.level + 1
      /\ (up.active <=> c.active) /\ (up.savepoints <=> c.savepoints)
      /\ up.work = c.work /\ up.points = c.points /\ up.dialect = c.dialect
  BY <1>1 DEF ConnectionOf, Deeper
<1> HIDE DEF up
<1>3. CASE c.level = 0
  <2>1. r = ServerBegin(up, outcome)
    BY <1>1, <1>3 DEF Begin, up
  <2>2. outcome \in {"ok", "veto"} \/ r = Result(up, {}, "throw")
    BY <2>1 DEF ServerBegin
  <2>3. outcome = "ok"
    BY <2>2 DEF Result, Worked
  <2> DEFINE begun == [Idle(up) EXCEPT !.active = TRUE]
  <2>4. r = Result(begun, {}, "true")
    BY <1>1, <1>2, <1>3, <2>1, <2>3 DEF ServerBegin
  <2>5. /\ begun.open /\ begun.active /\ begun.level = up.level
        /\ (begun.savepoints <=> up.savepoints) /\ begun.work = {} /\ begun.points = <<>>
    BY <1>2 DEF Idle, ConnectionOf
  <2>6. c.work = {}
    BY <1>1, <1>3 DEF Session
  <2>7. r.conn = begun /\ r.made = {}
    BY <2>4 DEF Result
  <2> HIDE DEF begun
  <2> QED BY <1>1, <1>2, <1>3, <2>5, <2>6, <2>7 DEF InStep
<1>4. CASE c.level > 0 /\ ~UsesSavepoint(c, nesting)
  <2>1. r.conn = up /\ r.made = {}
    BY <1>1, <1>4 DEF Begin, Result, up
  <2> QED BY <1>1, <1>2, <1>4, <2>1 DEF InStep
<1>5. CASE c.level > 0 /\ UsesSavepoint(c, nesting)
  <2> DEFINE points == PointsWith(c, c.level + 1)
             marked == [up EXCEPT !.points = points]
  <2>1. r = CreateSavepoint(up, c.level + 1, outcome)
    BY <1>1, <1>5 DEF Begin, up
  <2>2. outcome = "ok" \/ r = RefusalOf(up, outcome)
    BY <2>1 DEF CreateSavepoint, Refused
  <2>3. outcome = "ok"
    BY <2>2 DEF RefusalOf, Result, Worked
  <2>4. PointsWith(up, c.level + 1) = points
    BY <1>2 DEF PointsWith
  <2>5. r.conn = marked /\ r.made = {}
    BY <1>1, <1>2, <1>5, <2>1, <2>3, <2>4 DEF CreateSavepoint, Refused, Result
  <2> HIDE DEF points
  <2>6. /\ (marked.open <=> up.open) /\ (marked.active <=> up.active) /\ marked.level = up.level
        /\ (marked.savepoints <=> up.savepoints) /\ marked.work = up.work
        /\ marked.points = points
    BY <1>2 DEF ConnectionOf
  <2> HIDE DEF marked
  <2>7. r.conn.level > 0
    BY <1>1, <1>2, <2>5, <2>6
  <2> QED BY <1>1, <1>2, <1>5, <2>5, <2>6, <2>7 DEF InStep, points
<1> QED BY <1>1, <1>3, <1>4, <1>5

LEMMA CommitWorks ==
    ASSUME NEW W, {} \in W, NEW c \in Session(W), InStep(c), c.level > 0, NEW nesting,
           c.level > 1 /\ UsesSavepoint(c, nesting) => PointIndex(c.points, c.level) > 0,
           NEW outcome \in Outcomes, NEW r, r = Commit(c, nesting, outcome),
           Worked(outcome, r)
    PROVE  /\ InStep(r.conn)
           /\ r.conn.level = c.level - 1
           /\ (r.conn.savepoints <=> c.savepoints)
           /\ r.made = IF c.level = 1 THEN c.work ELSE {}
           /\ r.conn.work = IF c.level = 1 THEN {} ELSE c.work
           /\ r.conn.points = IF c.level = 1 THEN <<>>
                              ELSE IF UsesSavepoint(c, nesting)
                                   THEN PointsReleased(c, c.level) ELSE c.points
<1> DEFINE low == Shallower(c)
<1>1. c \in ConnectionOf(W) /\ c.level \in Nat /\ c.open /\ c.active
  BY DEF Session, ConnectionOf, InStep
<1>2. /\ low \in ConnectionOf(W) /\ low.open /\ low.level = c.level - 1
      /\ low.active /\ (low.savepoints <=> c.savepoints)
      /\ low.work = c.work /\ low.points = c.points
  BY <1>1 DEF ConnectionOf, Shallower
<1> HIDE DEF low
<1>3. CASE c.level = 1
  <2> DEFINE ended == Idle(low)
  <2>1. r = ServerCommit(low, outcome)
    BY <1>1, <1>3 DEF Commit, low
  <2>2. r = Result(ended, low.work, "true")
    BY <1>2, <2>1 DEF ServerCommit, Worked, Outcomes, Result
  <2>3. /\ ended.open /\ ~ended.active /\ ended.level = low.level
        /\ (ended.savepoints <=> low.savepoints) /\ ended.work = {} /\ ended.points = <<>>
    BY <1>2 DEF Idle, ConnectionOf
  <2>4. r.conn = ended /\ r.made = low.work
    BY <2>2 DEF Result
  <2> HIDE DEF ended
  <2> QED BY <1>1, <1>2, <1>3, <2>3, <2>4 DEF InStep
<1>4. CASE c.level > 1 /\ ~UsesSavepoint(c, nesting)
  <2>1. r.conn = low /\ r.made = {}
    BY <1>1, <1>4 DEF Commit, Result, low
  <2> QED BY <1>1, <1>2, <1>4, <2>1 DEF InStep
<1>5. CASE c.level > 1 /\ UsesSavepoint(c, nesting)
  <2> DEFINE points == PointsReleased(c, c.level)
             work   == c.work
             after  == [low EXCEPT !.points = points]
  <2>1. r = ReleaseSavepoint(low, c.level, outcome)
    BY <1>1, <1>5 DEF Commit, low
  <2>2. outcome = "ok" \/ r = RefusalOf(low, outcome)
    BY <2>1 DEF ReleaseSavepoint, Refused
  <2>3. outcome = "ok"
    BY <2>2 DEF RefusalOf, Result, Worked
  <2>4. /\ PointsReleased(low, c.level) = points
        /\ low.work = work /\ PointIndex(low.points, c.level) > 0
    BY <1>2, <1>5 DEF PointsReleased, WorkAt
  <2>5. r.conn = after /\ r.made = {}
    BY <1>1, <1>2, <1>5, <2>1, <2>3, <2>4 DEF ReleaseSavepoint, Refused, Result
  <2> HIDE DEF points, work
  <2>6. /\ (after.open <=> low.open) /\ (after.active <=> low.active) /\ after.level = low.level
        /\ (after.savepoints <=> low.savepoints) /\ after.work = low.work
        /\ after.points = points
    BY <1>2 DEF ConnectionOf
  <2> HIDE DEF after
  <2>7. r.conn.level > 0
    BY <1>1, <1>2, <1>5, <2>5, <2>6
  <2> QED BY <1>1, <1>2, <1>5, <2>5, <2>6, <2>7 DEF InStep, points, work
<1> QED BY <1>1, <1>3, <1>4, <1>5

LEMMA RollbackWorks ==
    ASSUME NEW W, {} \in W, NEW c \in Session(W), InStep(c), c.level > 0, NEW nesting,
           c.level > 1 /\ UsesSavepoint(c, nesting) => PointIndex(c.points, c.level) > 0,
           NEW outcome \in Outcomes, NEW r, r = Rollback(c, nesting, outcome),
           Worked(outcome, r)
    PROVE  /\ InStep(r.conn)
           /\ r.conn.level = c.level - 1
           /\ (r.conn.savepoints <=> c.savepoints)
           /\ r.made = {}
           /\ c.level = 1 => r.conn.work = {} /\ r.conn.points = <<>>
           /\ c.level > 1 /\ UsesSavepoint(c, nesting) =>
                 /\ r.conn.work = WorkAt(c, c.level)
                 /\ r.conn.points = PointsRestored(c, c.level)
           /\ c.level > 1 /\ ~UsesSavepoint(c, nesting) =>
                 r.conn.work = c.work /\ r.conn.points = c.points
<1> DEFINE low == Shallower(c)
<1>1. c \in ConnectionOf(W) /\ c.level \in Nat /\ c.open /\ c.active
  BY DEF Session, ConnectionOf, InStep
<1>2. /\ low \in ConnectionOf(W) /\ low.open /\ low.level = c.level - 1
      /\ low.active /\ (low.savepoints <=> c.savepoints)
      /\ low.work = c.work /\ low.points = c.points
  BY <1>1 DEF ConnectionOf, Shallower
<1> HIDE DEF low
<1>3. CASE c.level = 1
  <2> DEFINE ended == Idle(low)
  <2>1. r = ServerRollback(low, outcome)
    BY <1>1, <1>3 DEF Rollback, low
  <2>2. r = Result(ended, {}, "true")
    BY <1>2, <2>1 DEF ServerRollback, Worked, Outcomes, Result
  <2>3. /\ ended.open /\ ~ended.active /\ ended.level = low.level
        /\ (ended.savepoints <=> low.savepoints) /\ ended.work = {} /\ ended.points = <<>>
    BY <1>2 DEF Idle, ConnectionOf
  <2>4. r.conn = ended /\ r.made = {}
    BY <2>2 DEF Result
  <2> HIDE DEF ended
  <2> QED BY <1>1, <1>2, <1>3, <2>3, <2>4 DEF InStep
<1>4. CASE c.level > 1 /\ ~UsesSavepoint(c, nesting)
  <2>1. r.conn = low /\ r.made = {}
    BY <1>1, <1>4 DEF Rollback, Result, low
  <2> QED BY <1>1, <1>2, <1>4, <2>1 DEF InStep
<1>5. CASE c.level > 1 /\ UsesSavepoint(c, nesting)
  <2> DEFINE points == PointsRestored(c, c.level)
             work   == WorkAt(c, c.level)
             after  == [low EXCEPT !.work = work, !.points = points]
  <2>1. r = RollbackSavepoint(low, c.level, outcome)
    BY <1>1, <1>5 DEF Rollback, low
  <2>2. outcome = "ok" \/ r = RefusalOf(low, outcome)
    BY <2>1 DEF RollbackSavepoint, Refused
  <2>3. outcome = "ok"
    BY <2>2 DEF RefusalOf, Result, Worked
  <2>4. /\ PointsRestored(low, c.level) = points
        /\ WorkAt(low, c.level) = work /\ PointIndex(low.points, c.level) > 0
    BY <1>2, <1>5 DEF PointsRestored, WorkAt
  <2>5. r.conn = after /\ r.made = {}
    BY <1>1, <1>2, <1>5, <2>1, <2>3, <2>4 DEF RollbackSavepoint, Refused, Result
  <2> HIDE DEF points, work
  <2>6. /\ (after.open <=> low.open) /\ (after.active <=> low.active) /\ after.level = low.level
        /\ (after.savepoints <=> low.savepoints) /\ after.work = work
        /\ after.points = points
    BY <1>2 DEF ConnectionOf
  <2> HIDE DEF after
  <2>7. r.conn.level > 0
    BY <1>1, <1>2, <1>5, <2>5, <2>6
  <2> QED BY <1>1, <1>2, <1>5, <2>5, <2>6, <2>7 DEF InStep, points, work
<1> QED BY <1>1, <1>3, <1>4, <1>5

\* begin() and commit() that do not throw keep what was done, in the open
\* transaction or durably.
LEMMA WorkKept ==
    ASSUME NEW W, {} \in W, NEW c \in Session(W), NEW nesting,
           NEW outcome \in Outcomes
    PROVE  /\ LET r == Begin(c, nesting, outcome)
              IN  r.ret # "throw" => r.made \cup r.conn.work = c.work
           /\ LET r == Commit(c, nesting, outcome)
              IN  r.ret # "throw" => r.made \cup r.conn.work = c.work
<1>1. /\ c \in ConnectionOf(W) /\ c.level \in Nat /\ c.open \in BOOLEAN
      /\ (c.active \/ c.work = {})
  BY DEF Session, ConnectionOf
<1> DEFINE up == Deeper(c)
           low == Shallower(c)
<1>2. up \in ConnectionOf(W) /\ up.work = c.work /\ (up.active <=> c.active)
  BY <1>1 DEF ConnectionOf, Deeper
<1>3. c.level > 0 => /\ low \in ConnectionOf(W) /\ low.work = c.work
                     /\ (low.active <=> c.active)
  BY <1>1 DEF ConnectionOf, Shallower
<1> HIDE DEF up, low
\* The commands.
<1>4. ASSUME NEW d \in ConnectionOf(W), NEW name
      PROVE  /\ ServerBegin(d, outcome).ret # "throw" /\ d.work = {} =>
                   /\ ServerBegin(d, outcome).made = {}
                   /\ ServerBegin(d, outcome).conn.work = {}
             /\ CreateSavepoint(d, name, outcome).made = {}
             /\ CreateSavepoint(d, name, outcome).conn.work = d.work
             /\ ServerCommit(d, outcome).ret # "throw" =>
                   /\ ServerCommit(d, outcome).made = d.work
                   /\ ServerCommit(d, outcome).conn.work = {}
             /\ ReleaseSavepoint(d, name, outcome).made = {}
             /\ ReleaseSavepoint(d, name, outcome).conn.work = d.work
  <2>0. /\ RefusalOf(d, outcome).made = {} /\ RefusalOf(d, outcome).conn = d
        /\ \A e, ret : Result(e, {}, ret).made = {} /\ Result(e, {}, ret).conn = e
    BY DEF RefusalOf, Result
  <2>1. Idle(d).work = {} /\ [Idle(d) EXCEPT !.active = TRUE].work = {}
    BY <1>4 DEF Idle, ConnectionOf
  <2>2. ServerBegin(d, outcome).ret # "throw" /\ d.work = {} =>
           ServerBegin(d, outcome).made = {} /\ ServerBegin(d, outcome).conn.work = {}
    BY <2>1 DEF ServerBegin, Result
  <2>3. /\ CreateSavepoint(d, name, outcome).made = {}
        /\ CreateSavepoint(d, name, outcome).conn.work = d.work
    <3> DEFINE points == PointsWith(d, name)
               marked == [d EXCEPT !.points = points]
    <3>1. marked.work = d.work
      BY DEF ConnectionOf
    <3>2. Refused(d, outcome) \/ (~Refused(d, outcome) /\ d.active)
                              \/ (~Refused(d, outcome) /\ ~d.active)
      OBVIOUS
    <3> HIDE DEF points, marked
    <3>3. CreateSavepoint(d, name, outcome) \in
             {RefusalOf(d, outcome), Result(marked, {}, "true"),
              Result(d, {}, "true"), Result(d, {}, "throw")}
      BY <3>2 DEF CreateSavepoint, points, marked
    <3> QED BY <2>0, <3>1, <3>3
  <2>4. ServerCommit(d, outcome).ret # "throw" =>
           ServerCommit(d, outcome).made = d.work /\ ServerCommit(d, outcome).conn.work = {}
    BY <2>1 DEF ServerCommit, Result, Outcomes
  <2>5. /\ ReleaseSavepoint(d, name, outcome).made = {}
        /\ ReleaseSavepoint(d, name, outcome).conn.work = d.work
    <3> DEFINE points == PointsReleased(d, name)
               marked == [d EXCEPT !.points = points]
    <3>1. marked.work = d.work
      BY DEF ConnectionOf
    <3>2. PointIndex(d.points, name) > 0 \/ PointIndex(d.points, name) = 0
      <4>1. d.points \in Seq(PointOf(W))
        BY DEF ConnectionOf
      <4> QED BY <4>1, PointIndexRange
    <3>3. Refused(d, outcome) \/ ~Refused(d, outcome)
      OBVIOUS
    <3> HIDE DEF points, marked
    <3>4. ReleaseSavepoint(d, name, outcome) \in
             {RefusalOf(d, outcome), Result(marked, {}, "true"),
              Result(d, {}, "throw")}
      BY <3>2, <3>3 DEF ReleaseSavepoint, points, marked
    <3> QED BY <2>0, <3>1, <3>4
  <2> QED BY <2>2, <2>3, <2>4, <2>5
<1>5. LET r == Begin(c, nesting, outcome)
      IN  r.ret # "throw" => r.made \cup r.conn.work = c.work
  <2>1. CASE ~c.open
    BY <2>1 DEF Begin, Result
  <2>2. CASE c.open /\ c.level = 0
    <3>1. Begin(c, nesting, outcome) = ServerBegin(up, outcome)
      BY <2>2 DEF Begin, up
    <3>2. c.active => ServerBegin(up, outcome).ret = "throw"
      BY <1>2 DEF ServerBegin, Result
    <3> QED BY <1>1, <1>2, <1>4, <3>1, <3>2
  <2>3. CASE c.open /\ c.level > 0 /\ ~UsesSavepoint(c, nesting)
    BY <1>2, <2>3 DEF Begin, up, Result
  <2>4. CASE c.open /\ c.level > 0 /\ UsesSavepoint(c, nesting)
    <3>1. Begin(c, nesting, outcome) = CreateSavepoint(up, c.level + 1, outcome)
      BY <2>4 DEF Begin, up
    <3> QED BY <1>2, <1>4, <3>1
  <2> QED BY <1>1, <2>1, <2>2, <2>3, <2>4
<1>6. LET r == Commit(c, nesting, outcome)
      IN  r.ret # "throw" => r.made \cup r.conn.work = c.work
  <2>1. CASE ~c.open \/ c.level = 0
    <3>1. Commit(c, nesting, outcome) \in {Result(c, {}, "false"), Result(c, {}, "throw")}
      BY <2>1 DEF Commit
    <3> QED BY <3>1 DEF Result
  <2>2. CASE c.open /\ c.level = 1
    <3>1. Commit(c, nesting, outcome) = ServerCommit(low, outcome)
      BY <2>2 DEF Commit, low
    <3> QED BY <1>3, <1>4, <2>2, <3>1
  <2>3. CASE c.open /\ c.level > 1 /\ ~UsesSavepoint(c, nesting)
    <3>1. Commit(c, nesting, outcome) = Result(low, {}, "false")
      BY <1>1, <2>3 DEF Commit, low
    <3> QED BY <1>1, <1>3, <2>3, <3>1 DEF Result
  <2>4. CASE c.open /\ c.level > 1 /\ UsesSavepoint(c, nesting)
    <3>1. Commit(c, nesting, outcome) = ReleaseSavepoint(low, c.level, outcome)
      BY <1>1, <2>4 DEF Commit, low
    <3> QED BY <1>1, <1>3, <1>4, <2>4, <3>1
  <2> QED BY <1>1, <2>1, <2>2, <2>3, <2>4
<1> QED BY <1>5, <1>6

\* No transaction goes on that the counter does not know of, unless a refused
\* COMMIT leaves one open.
LEMMA MethodsKnown ==
    ASSUME NEW W, {} \in W, NEW c \in Session(W), c.open, c.active => c.level > 0,
           NEW nesting, NEW outcome \in Outcomes, outcome # "busy"
    PROVE  /\ LET r == Begin(c, nesting, outcome) IN r.conn.active => r.conn.level > 0
           /\ LET r == Commit(c, nesting, outcome) IN r.conn.active => r.conn.level > 0
           /\ LET r == Rollback(c, nesting, outcome) IN r.conn.active => r.conn.level > 0
<1>1. c \in ConnectionOf(W) /\ c.level \in Nat
  BY DEF Session, ConnectionOf
<1> DEFINE low == Shallower(c)
<1>2. c.level > 0 => low \in ConnectionOf(W)
  BY <1>1 DEF ConnectionOf, Shallower
<1>3. low \in ConnectionOf(W) => ~Idle(low).active
  BY DEF Idle, ConnectionOf
<1>4. LET r == Begin(c, nesting, outcome) IN r.conn.active => r.conn.level > 0
  <2>1. Begin(c, nesting, outcome).conn.level = c.level + 1
    BY MethodsCount
  <2> QED BY <1>1, <2>1
<1> HIDE DEF low
<1>5. ASSUME c.level = 0
      PROVE  /\ Commit(c, nesting, outcome).conn = c
             /\ Rollback(c, nesting, outcome).conn = c
  <2>1. /\ Commit(c, nesting, outcome) = Result(c, {}, "throw")
        /\ Rollback(c, nesting, outcome) = Result(c, {}, "throw")
    BY <1>5, MethodsCount
  <2> QED BY <2>1 DEF Result
<1>6. ASSUME c.level = 1
      PROVE  /\ ~Commit(c, nesting, outcome).conn.active
             /\ ~Rollback(c, nesting, outcome).conn.active
  <2>1. /\ Commit(c, nesting, outcome) = ServerCommit(low, outcome)
        /\ Rollback(c, nesting, outcome) = ServerRollback(low, outcome)
    BY <1>6 DEF Commit, Rollback, low
  <2>2. low.active \in BOOLEAN /\ ~Idle(low).active
    BY <1>2, <1>3, <1>6 DEF ConnectionOf
  <2>3. ~ServerRollback(low, outcome).conn.active
    BY <2>2 DEF ServerRollback, Result
  <2>4. ~ServerCommit(low, outcome).conn.active
    <3>1. CASE low.active
      <4>1. ServerCommit(low, outcome) \in
               {Result(Idle(low), low.work, "true"), Result(Idle(low), {}, "throw")}
        BY <3>1 DEF ServerCommit, Outcomes
      <4> QED BY <2>2, <4>1 DEF Result
    <3>2. CASE ~low.active
      BY <3>2 DEF ServerCommit, Result
    <3> QED BY <3>1, <3>2
  <2> QED BY <2>1, <2>3, <2>4
<1>7. ASSUME c.level > 1
      PROVE  /\ Commit(c, nesting, outcome).conn.level > 0
             /\ Rollback(c, nesting, outcome).conn.level > 0
  <2>1. c.level > 0
    BY <1>1, <1>7
  <2>2. Commit(c, nesting, outcome).conn.level = c.level - 1
    BY <2>1, MethodsCount
  <2>3. Rollback(c, nesting, outcome).conn.level = c.level - 1
    BY <2>1, MethodsCount
  <2> QED BY <1>1, <1>7, <2>2, <2>3
<1>8. c.level = 0 \/ c.level = 1 \/ c.level > 1
  BY <1>1
<1>9. LET r == Commit(c, nesting, outcome) IN r.conn.active => r.conn.level > 0
  BY <1>5, <1>6, <1>7, <1>8
<1>10. LET r == Rollback(c, nesting, outcome) IN r.conn.active => r.conn.level > 0
  BY <1>5, <1>6, <1>7, <1>8
<1> QED BY <1>4, <1>9, <1>10

\* A session without a transaction gets none from a nested begin() or from
\* commit() and rollback().
LEMMA StaysIdle ==
    ASSUME NEW W, {} \in W, NEW c \in Session(W), c.open, ~c.active, c.level > 0,
           NEW nesting, NEW outcome \in Outcomes
    PROVE  /\ ~Begin(c, nesting, outcome).conn.active
           /\ ~Commit(c, nesting, outcome).conn.active
           /\ ~Rollback(c, nesting, outcome).conn.active
<1>1. c \in ConnectionOf(W) /\ c.level \in Nat /\ c.points = <<>>
  BY DEF Session, ConnectionOf
<1> DEFINE up == Deeper(c)
           low == Shallower(c)
<1>2. /\ up \in ConnectionOf(W) /\ ~up.active
      /\ low \in ConnectionOf(W) /\ ~low.active
  BY <1>1 DEF ConnectionOf, Deeper, Shallower
<1> HIDE DEF up, low
<1>3. ASSUME NEW d \in ConnectionOf(W), ~d.active, NEW name
      PROVE  /\ ~CreateSavepoint(d, name, outcome).conn.active
             /\ ~ServerCommit(d, outcome).conn.active
             /\ ~ServerRollback(d, outcome).conn.active
             /\ ~ReleaseSavepoint(d, name, outcome).conn.active
             /\ ~RollbackSavepoint(d, name, outcome).conn.active
  <2>1. RefusalOf(d, outcome).conn = d /\ \A made, ret : Result(d, made, ret).conn = d
    BY DEF RefusalOf, Result
  <2>2. PointIndex(d.points, name) > 0 \/ PointIndex(d.points, name) = 0
    <3>1. d.points \in Seq(PointOf(W))
      BY DEF ConnectionOf
    <3> QED BY <3>1, PointIndexRange
  <2>3. ~CreateSavepoint(d, name, outcome).conn.active
    <3>1. Refused(d, outcome) \/ ~Refused(d, outcome)
      OBVIOUS
    <3>2. CreateSavepoint(d, name, outcome) \in
             {RefusalOf(d, outcome), Result(d, {}, "true"), Result(d, {}, "throw")}
      BY <1>3, <3>1 DEF CreateSavepoint
    <3> QED BY <1>3, <2>1, <3>2
  <2>4. ~ServerCommit(d, outcome).conn.active /\ ~ServerRollback(d, outcome).conn.active
    <3>1. /\ ServerCommit(d, outcome) = Result(d, {}, "throw")
          /\ ServerRollback(d, outcome) = Result(d, {}, "throw")
      BY <1>3 DEF ServerCommit, ServerRollback
    <3> QED BY <1>3, <2>1, <3>1
  <2>5. ~ReleaseSavepoint(d, name, outcome).conn.active
    <3> DEFINE points == PointsReleased(d, name)
               after  == [d EXCEPT !.points = points]
    <3>1. ~after.active
      BY <1>3 DEF ConnectionOf
    <3>2. Refused(d, outcome) \/ ~Refused(d, outcome)
      OBVIOUS
    <3> HIDE DEF points, after
    <3>3. ReleaseSavepoint(d, name, outcome) \in
             {RefusalOf(d, outcome), Result(after, {}, "true"), Result(d, {}, "throw")}
      BY <2>2, <3>2 DEF ReleaseSavepoint, points, after
    <3> QED BY <1>3, <2>1, <3>1, <3>3 DEF Result
  <2>6. ~RollbackSavepoint(d, name, outcome).conn.active
    <3> DEFINE points == PointsRestored(d, name)
               work   == WorkAt(d, name)
               after  == [d EXCEPT !.work = work, !.points = points]
    <3>1. ~after.active
      BY <1>3 DEF ConnectionOf
    <3>2. Refused(d, outcome) \/ ~Refused(d, outcome)
      OBVIOUS
    <3> HIDE DEF points, work, after
    <3>3. RollbackSavepoint(d, name, outcome) \in
             {RefusalOf(d, outcome), Result(after, {}, "true"), Result(d, {}, "throw")}
      BY <2>2, <3>2 DEF RollbackSavepoint, points, work, after
    <3> QED BY <1>3, <2>1, <3>1, <3>3 DEF Result
  <2> QED BY <2>3, <2>4, <2>5, <2>6
<1>4. Result(up, {}, "false").conn = up /\ Result(low, {}, "false").conn = low
  BY DEF Result
<1>5. Begin(c, nesting, outcome) \in
         {Result(up, {}, "false"), CreateSavepoint(up, c.level + 1, outcome)}
  BY <1>1 DEF Begin, up
<1>6. Commit(c, nesting, outcome) \in
         {ServerCommit(low, outcome), Result(low, {}, "false"),
          ReleaseSavepoint(low, c.level, outcome)}
  BY <1>1 DEF Commit, low
<1>7. Rollback(c, nesting, outcome) \in
         {ServerRollback(low, outcome), Result(low, {}, "false"),
          RollbackSavepoint(low, c.level, outcome)}
  BY <1>1 DEF Rollback, low
<1> QED BY <1>2, <1>3, <1>4, <1>5, <1>6, <1>7

\* No transaction method touches the setting.
LEMMA MethodsSetting ==
    ASSUME NEW W, NEW c, c \in Session(W), c.open, NEW nesting, NEW outcome, outcome \in Outcomes
    PROVE  /\ Begin(c, nesting, outcome).conn.savepoints = c.savepoints
           /\ Commit(c, nesting, outcome).conn.savepoints = c.savepoints
           /\ Rollback(c, nesting, outcome).conn.savepoints = c.savepoints
<1>1. c \in ConnectionOf(W) /\ c.level \in Nat
  BY DEF Session, ConnectionOf
<1> DEFINE up == Deeper(c)
           low == Shallower(c)
<1>2. /\ up \in ConnectionOf(W) /\ up.savepoints = c.savepoints
      /\ c.level > 0 => low \in ConnectionOf(W) /\ low.savepoints = c.savepoints
  BY <1>1 DEF ConnectionOf, Deeper, Shallower
<1> HIDE DEF up, low
<1>3. ASSUME NEW d \in ConnectionOf(W), NEW name
      PROVE  \A r \in {ServerBegin(d, outcome), ServerCommit(d, outcome),
                       ServerRollback(d, outcome), CreateSavepoint(d, name, outcome),
                       ReleaseSavepoint(d, name, outcome),
                       RollbackSavepoint(d, name, outcome)} :
                 r.conn.savepoints = d.savepoints
  <2> DEFINE begun == [Idle(d) EXCEPT !.active = TRUE]
             one(points) == [d EXCEPT !.points = points]
             two(work, points) == [d EXCEPT !.work = work, !.points = points]
  <2>1. /\ Idle(d).savepoints = d.savepoints /\ begun.savepoints = d.savepoints
        /\ \A points : one(points).savepoints = d.savepoints
        /\ \A work, points : two(work, points).savepoints = d.savepoints
    BY DEF ConnectionOf, Idle
  <2> HIDE DEF begun, one, two
  <2>2. RefusalOf(d, outcome).conn = d /\ \A e, made, ret : Result(e, made, ret).conn = e
    BY DEF RefusalOf, Result
  <2>3. /\ Refused(d, outcome) \/ ~Refused(d, outcome)
        /\ PointIndex(d.points, name) > 0 \/ PointIndex(d.points, name) = 0
    <3>1. d.points \in Seq(PointOf(W))
      BY DEF ConnectionOf
    <3> QED BY <3>1, PointIndexRange
  <2>4. ServerBegin(d, outcome).conn.savepoints = d.savepoints
    <3>1. ServerBegin(d, outcome) \in {Result(begun, {}, "true"), Result(d, {}, "throw")}
      BY DEF ServerBegin, begun
    <3> QED BY <2>1, <2>2, <3>1
  <2>5. ServerCommit(d, outcome).conn.savepoints = d.savepoints
    BY <2>1, <2>2 DEF ServerCommit, Outcomes
  <2>6. ServerRollback(d, outcome).conn.savepoints = d.savepoints
    BY <2>1, <2>2 DEF ServerRollback
  <2>7. CreateSavepoint(d, name, outcome).conn.savepoints = d.savepoints
    <3>1. CreateSavepoint(d, name, outcome).conn \in {d, one(PointsWith(d, name))}
      BY <2>2, <2>3 DEF CreateSavepoint, one
    <3> QED BY <2>1, <3>1
  <2>8. ReleaseSavepoint(d, name, outcome).conn.savepoints = d.savepoints
    <3>1. ReleaseSavepoint(d, name, outcome).conn \in {d, one(PointsReleased(d, name))}
      BY <2>2, <2>3 DEF ReleaseSavepoint, one
    <3> QED BY <2>1, <3>1
  <2>9. RollbackSavepoint(d, name, outcome).conn.savepoints = d.savepoints
    <3>1. RollbackSavepoint(d, name, outcome).conn
             \in {d, two(WorkAt(d, name), PointsRestored(d, name))}
      BY <2>2, <2>3 DEF RollbackSavepoint, two
    <3> QED BY <2>1, <3>1
  <2> QED BY <2>4, <2>5, <2>6, <2>7, <2>8, <2>9
<1>4. /\ Result(up, {}, "false").conn = up /\ Result(low, {}, "false").conn = low
      /\ Result(c, {}, "throw").conn = c
  BY DEF Result
<1>5. Begin(c, nesting, outcome) \in
         {ServerBegin(up, outcome), Result(up, {}, "false"),
          CreateSavepoint(up, c.level + 1, outcome)}
  BY <1>1 DEF Begin, up
<1>6. CASE c.level > 0
  <2>1. Commit(c, nesting, outcome) \in
           {ServerCommit(low, outcome), Result(low, {}, "false"),
            ReleaseSavepoint(low, c.level, outcome)}
    BY <1>1, <1>6 DEF Commit, low
  <2>2. Rollback(c, nesting, outcome) \in
           {ServerRollback(low, outcome), Result(low, {}, "false"),
            RollbackSavepoint(low, c.level, outcome)}
    BY <1>1, <1>6 DEF Rollback, low
  <2> QED BY <1>2, <1>3, <1>4, <1>5, <1>6, <2>1, <2>2
<1>7. CASE c.level = 0
  <2>1. /\ Commit(c, nesting, outcome) = Result(c, {}, "throw")
        /\ Rollback(c, nesting, outcome) = Result(c, {}, "throw")
    BY <1>7 DEF Commit, Rollback
  <2> QED BY <1>2, <1>3, <1>4, <1>5, <2>1
<1> QED BY <1>1, <1>6, <1>7

----------------------------------------------------------------------------
(* The savepoints *)

\* The server's savepoints are ones that were set, and none is altered.
LEMMA PointsKept ==
    ASSUME NEW P, NEW c, c.points \in Seq(P), NEW name
    PROVE  /\ [name |-> name, work |-> c.work] \in P => PointsWith(c, name) \in Seq(P)
           /\ PointsReleased(c, name) \in Seq(P)
           /\ PointsRestored(c, name) \in Seq(P)
<1> DEFINE old == PointIndex(c.points, name)
<1>1. old \in 0 .. Len(c.points)
  BY PointIndexRange
<1> HIDE DEF old
<1>2. SubSeq(c.points, 1, old - 1) \in Seq(P) /\ SubSeq(c.points, 1, old) \in Seq(P)
  BY <1>1
<1>3. old > 0 => RemoveAt(c.points, old) \in Seq(P)
  <2>1. SubSeq(c.points, old + 1, Len(c.points)) \in Seq(P)
    BY <1>1
  <2> QED BY <1>2, <2>1 DEF RemoveAt
<1> QED
  BY <1>2, <1>3 DEF PointsWith, PointsReleased, PointsRestored, old

\* The only savepoint that a method sets is that of begin(), named by the
\* level it reaches.
LEMMA MethodsPoints ==
    ASSUME NEW W, NEW c \in ConnectionOf(W), NEW P, c.points \in Seq(P),
           NEW nesting, NEW outcome \in Outcomes
    PROVE  /\ (c.level > 0 => [name |-> c.level + 1, work |-> c.work] \in P) =>
                  Begin(c, nesting, outcome).conn.points \in Seq(P)
           /\ Commit(c, nesting, outcome).conn.points \in Seq(P)
           /\ Rollback(c, nesting, outcome).conn.points \in Seq(P)
<1> DEFINE up == Deeper(c)
           low == Shallower(c)
<1>1. c.level \in Nat
  BY DEF ConnectionOf
<1>2. /\ up \in ConnectionOf(W) /\ up.points = c.points /\ up.work = c.work
      /\ c.level > 0 => low \in ConnectionOf(W) /\ low.points = c.points
  BY <1>1 DEF ConnectionOf, Deeper, Shallower
<1> HIDE DEF up, low
<1>3. ASSUME NEW d \in ConnectionOf(W), d.points \in Seq(P), NEW name
      PROVE  /\ ServerBegin(d, outcome).conn.points \in Seq(P)
             /\ ServerCommit(d, outcome).conn.points \in Seq(P)
             /\ ServerRollback(d, outcome).conn.points \in Seq(P)
             /\ [name |-> name, work |-> d.work] \in P =>
                    CreateSavepoint(d, name, outcome).conn.points \in Seq(P)
             /\ ReleaseSavepoint(d, name, outcome).conn.points \in Seq(P)
             /\ RollbackSavepoint(d, name, outcome).conn.points \in Seq(P)
  <2>1. /\ \A points : [d EXCEPT !.points = points].points = points
        /\ \A work, points : [d EXCEPT !.work = work, !.points = points].points = points
        /\ Idle(d).points = <<>> /\ [Idle(d) EXCEPT !.active = TRUE].points = <<>>
    BY DEF ConnectionOf, Idle
  <2>2. <<>> \in Seq(P)
    OBVIOUS
  <2>3. PointIndex(d.points, name) > 0 \/ PointIndex(d.points, name) = 0
    BY <1>3, PointIndexRange
  <2>10. /\ [name |-> name, work |-> d.work] \in P => PointsWith(d, name) \in Seq(P)
         /\ PointsReleased(d, name) \in Seq(P) /\ PointsRestored(d, name) \in Seq(P)
    BY <1>3, PointsKept
  <2>11. \A q \in Seq(P) :
            /\ [d EXCEPT !.points = q].points \in Seq(P)
            /\ \A work : [d EXCEPT !.work = work, !.points = q].points \in Seq(P)
    BY <2>1
  <2>4. ServerBegin(d, outcome).conn.points \in Seq(P)
    BY <1>3, <2>1, <2>2 DEF ServerBegin, Result
  <2>5. ServerCommit(d, outcome).conn.points \in Seq(P)
    BY <1>3, <2>1, <2>2 DEF ServerCommit, Result, Outcomes
  <2>6. ServerRollback(d, outcome).conn.points \in Seq(P)
    BY <1>3, <2>1, <2>2 DEF ServerRollback, Result
  <2>7. [name |-> name, work |-> d.work] \in P =>
            CreateSavepoint(d, name, outcome).conn.points \in Seq(P)
    BY <1>3, <2>10, <2>11 DEF CreateSavepoint, RefusalOf, Result
  <2>8. ReleaseSavepoint(d, name, outcome).conn.points \in Seq(P)
    BY <1>3, <2>3, <2>10, <2>11 DEF ReleaseSavepoint, RefusalOf, Result
  <2>9. RollbackSavepoint(d, name, outcome).conn.points \in Seq(P)
    BY <1>3, <2>3, <2>10, <2>11 DEF RollbackSavepoint, RefusalOf, Result
  <2> QED BY <2>4, <2>5, <2>6, <2>7, <2>8, <2>9
<1>4. ASSUME c.level > 0 => [name |-> c.level + 1, work |-> c.work] \in P
      PROVE  Begin(c, nesting, outcome).conn.points \in Seq(P)
  BY <1>1, <1>2, <1>3, <1>4 DEF Begin, Result, up
<1>5. Commit(c, nesting, outcome).conn.points \in Seq(P)
  <2>1. c.level > 0 => /\ ServerCommit(low, outcome).conn.points \in Seq(P)
                       /\ ReleaseSavepoint(low, c.level, outcome).conn.points \in Seq(P)
    BY <1>2, <1>3
  <2>2. \A ret : /\ Result(c, {}, ret).conn.points \in Seq(P)
                 /\ c.level > 0 => Result(low, {}, ret).conn.points \in Seq(P)
    BY <1>2 DEF Result
  <2> QED BY <1>1, <2>1, <2>2 DEF Commit, low
<1>6. Rollback(c, nesting, outcome).conn.points \in Seq(P)
  <2>1. c.level > 0 => /\ ServerRollback(low, outcome).conn.points \in Seq(P)
                       /\ RollbackSavepoint(low, c.level, outcome).conn.points \in Seq(P)
    BY <1>2, <1>3
  <2>2. \A ret : /\ Result(c, {}, ret).conn.points \in Seq(P)
                 /\ c.level > 0 => Result(low, {}, ret).conn.points \in Seq(P)
    BY <1>2 DEF Result
  <2> QED BY <1>1, <2>1, <2>2 DEF Rollback, low
<1> QED
  BY <1>4, <1>5, <1>6
============================================================================
