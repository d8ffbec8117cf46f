------------------------- MODULE SnapshotList_proofs -------------------------
(***************************************************************************)
(* Proofs about SnapshotList: its type invariant, and what a client that   *)
(* pages may miss or see twice, for any number of contents, page size and  *)
(* number of changes. What is listed is told from what is not by the       *)
(* position where the next page starts, which contents cross in one        *)
(* direction only as long as none is created, or none is deleted.          *)
(***************************************************************************)
EXTENDS SnapshotList, FiniteSetTheorems, TLAPS

(* While the client pages, what it has seen lies before its next page, as  *)
(* long as no content was created.                                         *)
SeenBefore ==
  ~grown /\ client = "paging" =>
    \A n \in contents : listed[n] > 0 => Position(n) < StartingIndex

(* What lies before its next page it has seen, as long as none was deleted.*)
BeforeSeen ==
  ~shrunk /\ client = "paging" =>
    \A n \in stayed : Position(n) < StartingIndex => listed[n] > 0

Typed == TypeOK /\ IsFiniteSet(contents)

IInv == Typed /\ SeenBefore /\ NoneRepeated /\ BeforeSeen /\ NoneSkipped

-----------------------------------------------------------------------------
(* Positions. *)

Rank(C, n) == Cardinality({m \in C : m <= n})

LEMMA RankFacts ==
  ASSUME NEW C \in SUBSET Nat, IsFiniteSet(C), NEW n \in Nat
  PROVE  /\ Rank(C, n) \in Nat /\ Rank(C, n) <= Cardinality(C) /\ Cardinality(C) \in Nat
         /\ n \in C => Rank(C, n) >= 1
         /\ \A D \in SUBSET C : Rank(D, n) <= Rank(C, n)
<1> DEFINE Upto(D) == {m \in D : m <= n}
<1>1. /\ IsFiniteSet(Upto(C)) /\ Cardinality(Upto(C)) <= Cardinality(C)
      /\ Cardinality(Upto(C)) \in Nat /\ Cardinality(C) \in Nat
  <2>1. Upto(C) \in SUBSET C
    OBVIOUS
  <2> HIDE DEF Upto
  <2> QED BY <2>1, FS_Subset, FS_CardinalityType
<1>2. ASSUME n \in C PROVE Cardinality(Upto(C)) >= 1
  <2>1. n \in Upto(C)
    BY <1>2
  <2> HIDE DEF Upto
  <2>2. Cardinality(Upto(C)) # 0
    BY <1>1, <2>1, FS_EmptySet
  <2> QED BY <1>1, <2>2
<1>3. ASSUME NEW D \in SUBSET C PROVE Cardinality(Upto(D)) <= Cardinality(Upto(C))
  <2>1. Upto(D) \in SUBSET Upto(C)
    OBVIOUS
  <2> HIDE DEF Upto
  <2> QED BY <1>1, <2>1, FS_Subset
<1> QED BY <1>1, <1>2, <1>3 DEF Rank

LEMMA PositionFacts ==
  ASSUME Typed
  PROVE  /\ \A n \in contents : /\ Position(n) \in Nat /\ Position(n) >= 1 /\ Position(n) <= Length
                                /\ n \in Names
         /\ Length \in Nat /\ StartingIndex \in Nat /\ StartingIndex >= 1 /\ Max_entries \in Nat
         /\ Page \subseteq contents
<1>1. contents \in SUBSET Nat /\ IsFiniteSet(contents) /\ contents \subseteq Names
  BY ListAssumption DEF Typed, TypeOK
<1>2. \A n \in contents : Position(n) = Rank(contents, n) /\ n \in Nat /\ n \in Names
  BY <1>1 DEF Position, Rank
<1>3. \A n \in contents : Position(n) \in Nat /\ Position(n) >= 1 /\ Position(n) <= Length
  BY <1>1, <1>2, RankFacts DEF Length
<1>4. Length \in Nat
  BY <1>1, FS_CardinalityType DEF Length
<1>5. StartingIndex \in Nat /\ StartingIndex >= 1 /\ Max_entries \in Nat
  BY <1>4, ListAssumption DEF Typed, TypeOK, StartingIndex, Max_entries
<1> QED BY <1>2, <1>3, <1>4, <1>5 DEF Page

(* Contents move back when others are deleted, and on when others appear.  *)
LEMMA PositionMoves ==
  ASSUME Typed, Typed', NEW n \in contents, n \in contents'
  PROVE  /\ contents' \subseteq contents => Position(n)' <= Position(n)
         /\ contents \subseteq contents' => Position(n) <= Position(n)'
         /\ Position(n) \in Nat /\ Position(n)' \in Nat
<1>1. /\ contents \in SUBSET Nat /\ IsFiniteSet(contents)
      /\ contents' \in SUBSET Nat /\ IsFiniteSet(contents') /\ n \in Nat
  BY ListAssumption DEF Typed, TypeOK
<1>2. Position(n) = Rank(contents, n) /\ Position(n)' = Rank(contents', n)
  BY DEF Position, Rank
<1> QED BY <1>1, <1>2, RankFacts

-----------------------------------------------------------------------------
(* The steps. *)

LEMMA TypedStep ==
  ASSUME Typed, [Next]_vars
  PROVE  Typed'
<1> USE ListAssumption
<1>1. CASE ListSnapshots
  <2>1. token' \in Nat
    BY <1>1, PositionFacts DEF Typed, TypeOK, ListSnapshots, Reply, NextToken
  <2>2. listed' \in [Names -> Nat]
    BY <1>1 DEF Typed, TypeOK, ListSnapshots, Reply
  <2> QED BY <1>1, <2>1, <2>2 DEF Typed, TypeOK, ListSnapshots, api
<1>2. CASE PanicOnStatus \/ ListFails
  BY <1>2 DEF Typed, TypeOK, PanicOnStatus, ListFails, api
<1>3. CASE StartOver
  BY <1>3 DEF Typed, TypeOK, StartOver
<1>4. ASSUME NEW n \in Names, Created(n) PROVE Typed'
  <2>1. IsFiniteSet(contents')
    BY <1>4, FS_AddElement DEF Typed, Created
  <2>2. changes' \in 0..MaxChanges
    BY <1>4 DEF Typed, TypeOK, Created
  <2> QED BY <1>4, <2>1, <2>2 DEF Typed, TypeOK, Created
<1>5. ASSUME NEW n \in Names, StatusSet(n) PROVE Typed'
  BY <1>5 DEF Typed, TypeOK, StatusSet
<1>6. ASSUME NEW n \in Names, Deleted(n) PROVE Typed'
  <2>1. IsFiniteSet(contents')
    BY <1>6, FS_RemoveElement DEF Typed, Deleted
  <2>2. changes' \in 0..MaxChanges
    BY <1>6 DEF Typed, TypeOK, Deleted
  <2> QED BY <1>6, <2>1, <2>2 DEF Typed, TypeOK, Deleted
<1>7. CASE UNCHANGED vars
  BY <1>7 DEF Typed, TypeOK, vars, api
<1> QED BY <1>1, <1>2, <1>3, <1>4, <1>5, <1>6, <1>7 DEF Next

(* A reply lists the contents from the position it starts at on, and the   *)
(* next one starts where it ends; the last one ends with the list.         *)
LEMMA Replied ==
  ASSUME Typed, Reply, StartingIndex <= Length
  PROVE  /\ \A n \in Names : listed'[n] = IF n \in Page THEN listed[n] + 1 ELSE listed[n]
         /\ \A n \in contents : n \in Page <=>
              StartingIndex <= Position(n) /\ (token' # 0 => Position(n) < token')
         /\ token' \in Nat /\ (token' # 0 => token' >= StartingIndex)
<1>1. /\ \A n \in contents : Position(n) \in Nat /\ Position(n) <= Length
      /\ Length \in Nat /\ StartingIndex \in Nat /\ StartingIndex >= 1 /\ Max_entries \in Nat
  BY PositionFacts
<1>2. \A n \in Names : listed'[n] = IF n \in Page THEN listed[n] + 1 ELSE listed[n]
  BY DEF Reply
<1>3. CASE StartingIndex + Max_entries <= Length
  <2>1. token' = StartingIndex + Max_entries
    BY <1>3 DEF Reply, NextToken
  <2> QED BY <1>1, <1>2, <2>1 DEF Page
<1>4. CASE ~(StartingIndex + Max_entries <= Length)
  <2>1. token' = 0
    BY <1>4 DEF Reply, NextToken
  <2> QED BY <1>1, <1>2, <1>4, <2>1 DEF Page
<1> QED BY <1>3, <1>4

LEMMA SeenStep ==
  ASSUME Typed, SeenBefore, NoneRepeated, [Next]_vars
  PROVE  SeenBefore' /\ NoneRepeated'
<1>1. Typed' /\ listed \in [Names -> Nat] /\ contents \subseteq Names /\ contents' \subseteq Names
  BY TypedStep DEF Typed, TypeOK
<1>2. CASE ListSnapshots /\ StartingIndex <= Length
  <2>1. /\ Reply /\ UNCHANGED <<contents, grown>> /\ client = "paging"
        /\ client' = IF token' = 0 THEN "finished" ELSE "paging"
    BY <1>2, PositionFacts DEF ListSnapshots, Requesting, api
  <2>2. \A n \in Names : listed'[n] = IF n \in Page THEN listed[n] + 1 ELSE listed[n]
    BY <1>2, <2>1, Replied
  <2>3. ASSUME ~grown, NEW n \in Names PROVE listed'[n] <= 1
    <3>1. listed[n] \in Nat /\ listed[n] <= 1
      BY <1>1, <2>3 DEF NoneRepeated
    <3>2. CASE n \in Page
      <4>1. n \in contents /\ ~(Position(n) < StartingIndex)
        BY <3>2, PositionFacts DEF Page
      <4>2. listed[n] = 0
        BY <2>1, <2>3, <3>1, <4>1 DEF SeenBefore
      <4> QED BY <2>2, <3>2, <4>2
    <3>3. CASE n \notin Page
      BY <2>2, <3>1, <3>3
    <3> QED BY <3>2, <3>3
  <2>4. ASSUME ~grown, token' # 0, NEW n \in contents, listed'[n] > 0
        PROVE  Position(n) < token'
    <3>1. /\ n \in Page <=> StartingIndex <= Position(n) /\ Position(n) < token'
          /\ token' \in Nat /\ token' >= StartingIndex
          /\ Position(n) \in Nat /\ StartingIndex \in Nat
      BY <1>2, <2>1, <2>4, Replied, PositionFacts
    <3>2. n \notin Page => Position(n) < StartingIndex
      BY <1>1, <2>1, <2>2, <2>4 DEF SeenBefore
    <3> QED BY <3>1, <3>2
  <2>5. SeenBefore'
    BY <2>1, <2>4 DEF SeenBefore, Position, StartingIndex
  <2> QED BY <2>1, <2>3, <2>5 DEF NoneRepeated
<1>3. CASE ListSnapshots /\ ~(StartingIndex <= Length)
  <2>1. StartingIndex > Length
    BY <1>3, PositionFacts
  <2>2. UNCHANGED <<listed, grown>> /\ client' = "finished"
    BY <1>3, <2>1 DEF ListSnapshots, api
  <2> QED BY <2>2 DEF SeenBefore, NoneRepeated
<1>4. CASE PanicOnStatus \/ ListFails
  BY <1>4 DEF PanicOnStatus, ListFails, api, SeenBefore, NoneRepeated
<1>5. CASE StartOver
  BY <1>1, <1>5 DEF StartOver, SeenBefore, NoneRepeated
<1>6. ASSUME NEW m \in Names, Created(m) PROVE SeenBefore' /\ NoneRepeated'
  BY <1>6 DEF Created, SeenBefore, NoneRepeated
<1>7. ASSUME NEW m \in Names, Deleted(m) PROVE SeenBefore' /\ NoneRepeated'
  <2>1. UNCHANGED <<listed, client, grown, token>> /\ contents' \subseteq contents
    BY <1>7 DEF Deleted
  <2>2. ASSUME ~grown, client = "paging", NEW n \in contents', listed[n] > 0
        PROVE  Position(n)' < StartingIndex
    <3>1. n \in contents /\ Position(n) < StartingIndex
      BY <2>1, <2>2 DEF SeenBefore
    <3>2. Position(n)' <= Position(n) /\ Position(n) \in Nat /\ Position(n)' \in Nat
      BY <1>1, <2>1, <2>2, <3>1, PositionMoves
    <3> QED BY <3>1, <3>2, PositionFacts
  <2>3. SeenBefore'
    BY <2>1, <2>2 DEF SeenBefore, StartingIndex
  <2> QED BY <2>1, <2>3 DEF NoneRepeated
<1>8. CASE (\E m \in Names : StatusSet(m)) \/ UNCHANGED vars
  BY <1>8 DEF StatusSet, vars, api, SeenBefore, NoneRepeated, Position, StartingIndex
<1> QED BY <1>2, <1>3, <1>4, <1>5, <1>6, <1>7, <1>8 DEF Next

LEMMA SkippedStep ==
  ASSUME Typed, BeforeSeen, NoneSkipped, [Next]_vars
  PROVE  BeforeSeen' /\ NoneSkipped'
<1>1. /\ Typed' /\ listed \in [Names -> Nat] /\ contents \subseteq Names
      /\ stayed \subseteq contents /\ stayed' \subseteq contents'
  BY TypedStep DEF Typed, TypeOK
<1>2. CASE ListSnapshots /\ StartingIndex <= Length
  <2>1. /\ Reply /\ UNCHANGED <<contents, stayed, shrunk>> /\ client = "paging"
        /\ client' = IF token' = 0 THEN "finished" ELSE "paging"
    BY <1>2, PositionFacts DEF ListSnapshots, Requesting, api
  <2>2. ASSUME ~shrunk, NEW n \in stayed, token' # 0 => Position(n) < token'
        PROVE  listed'[n] > 0
    <3>1. /\ n \in contents /\ n \in Names /\ listed[n] \in Nat
          /\ Position(n) \in Nat /\ StartingIndex \in Nat
      BY <1>1, PositionFacts
    <3>2. listed'[n] = IF n \in Page THEN listed[n] + 1 ELSE listed[n]
      BY <1>2, <2>1, <3>1, Replied
    <3>3. n \in Page \/ Position(n) < StartingIndex
      BY <1>2, <2>1, <2>2, <3>1, Replied
    <3>4. n \notin Page => listed[n] > 0
      BY <2>1, <2>2, <3>3 DEF BeforeSeen
    <3> QED BY <3>1, <3>2, <3>4
  <2>3. BeforeSeen'
    BY <2>1, <2>2 DEF BeforeSeen, Position, StartingIndex
  <2>4. NoneSkipped'
    BY <2>1, <2>2 DEF NoneSkipped
  <2> QED BY <2>3, <2>4
<1>3. CASE ListSnapshots /\ ~(StartingIndex <= Length)
  <2>1. StartingIndex > Length
    BY <1>3, PositionFacts
  <2>2. UNCHANGED <<listed, shrunk, stayed>> /\ client = "paging" /\ client' = "finished"
    BY <1>3, <2>1 DEF ListSnapshots, api, Requesting
  <2>3. \A n \in stayed : Position(n) < StartingIndex
    BY <1>1, <2>1, PositionFacts
  <2> QED BY <2>2, <2>3 DEF BeforeSeen, NoneSkipped
<1>4. CASE PanicOnStatus \/ ListFails
  BY <1>4 DEF PanicOnStatus, ListFails, BeforeSeen, NoneSkipped
<1>5. CASE StartOver
  <2>1. /\ stayed' = contents' /\ contents' = contents /\ token' = 0 /\ client' = "paging"
    BY <1>5 DEF StartOver
  <2>2. \A n \in contents' : ~(Position(n)' < 1)
    BY <2>1, PositionFacts DEF Position
  <2> QED BY <2>1, <2>2 DEF BeforeSeen, NoneSkipped, StartingIndex
<1>6. ASSUME NEW m \in Names, Created(m) PROVE BeforeSeen' /\ NoneSkipped'
  <2>1. UNCHANGED <<listed, client, shrunk, stayed, token>> /\ contents \subseteq contents'
    BY <1>6 DEF Created
  <2>2. ASSUME ~shrunk, client = "paging", NEW n \in stayed, Position(n)' < StartingIndex
        PROVE  listed[n] > 0
    <3>1. n \in contents /\ n \in contents'
      BY <1>1, <2>1
    <3>2. Position(n) <= Position(n)' /\ Position(n) \in Nat /\ Position(n)' \in Nat
      BY <1>1, <2>1, <3>1, PositionMoves
    <3>3. Position(n) < StartingIndex
      BY <2>2, <3>2, PositionFacts
    <3> QED BY <2>2, <3>3 DEF BeforeSeen
  <2>3. BeforeSeen'
    BY <2>1, <2>2 DEF BeforeSeen, StartingIndex
  <2> QED BY <2>1, <2>3 DEF NoneSkipped
<1>7. ASSUME NEW m \in Names, Deleted(m) PROVE BeforeSeen' /\ NoneSkipped'
  BY <1>7 DEF Deleted, BeforeSeen, NoneSkipped
<1>8. CASE (\E m \in Names : StatusSet(m)) \/ UNCHANGED vars
  BY <1>8 DEF StatusSet, vars, api, BeforeSeen, NoneSkipped, Position, StartingIndex
<1> QED BY <1>2, <1>3, <1>4, <1>5, <1>6, <1>7, <1>8 DEF Next

LEMMA Inductive == Spec => []IInv
<1>1. ASSUME Init PROVE IInv
  <2>1. Typed
    <3>1. /\ contents \subseteq Names /\ IsFiniteSet(contents)
          /\ bare \subseteq contents /\ stayed \subseteq contents
      BY <1>1 DEF Init
    <3>2. listed \in [Names -> Nat] /\ limit \in MaxEntries /\ token \in Nat
      BY <1>1 DEF Init
    <3>3. client = "paging" /\ grown \in BOOLEAN /\ shrunk \in BOOLEAN
      BY <1>1 DEF Init
    <3>4. changes \in 0..MaxChanges
      BY <1>1, ListAssumption DEF Init
    <3> QED BY <3>1, <3>2, <3>3, <3>4 DEF Typed, TypeOK
  <2>2. SeenBefore /\ NoneRepeated
    BY <1>1, <2>1 DEF Init, SeenBefore, NoneRepeated, Typed, TypeOK
  <2>3. StartingIndex = 1 /\ client = "paging"
    BY <1>1 DEF Init, StartingIndex
  <2>4. \A n \in stayed : ~(Position(n) < 1)
    BY <2>1, PositionFacts DEF Typed, TypeOK
  <2> QED BY <2>1, <2>2, <2>3, <2>4 DEF IInv, BeforeSeen, NoneSkipped
<1>2. IInv /\ [Next]_vars => IInv'
  BY TypedStep, SeenStep, SkippedStep DEF IInv
<1> QED BY <1>1, <1>2, PTL DEF Spec

(* Type correctness: a token is a position, or none.                       *)
THEOREM TypeCorrect == Spec => []TypeOK
<1>1. IInv => TypeOK
  BY DEF IInv, Typed
<1> QED BY <1>1, Inductive, PTL

(* A client that pages to the end has seen every content that was there    *)
(* all the time, if none was deleted meanwhile, whatever was created.      *)
THEOREM NoSnapshotIsSkipped == Spec => []NoneSkipped
<1>1. IInv => NoneSkipped
  BY DEF IInv
<1> QED BY <1>1, Inductive, PTL

(* It sees no content twice, if none was created meanwhile.                *)
THEOREM NoSnapshotIsRepeated == Spec => []NoneRepeated
<1>1. IInv => NoneRepeated
  BY DEF IInv
<1> QED BY <1>1, Inductive, PTL

=============================================================================
