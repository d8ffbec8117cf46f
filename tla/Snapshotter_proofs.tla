------------------------- MODULE Snapshotter_proofs -------------------------
(***************************************************************************)
(* Theorems on Snapshotter: its type invariant, that no entry of a snapshot*)
(* is torn, that what is missing is a tail of the walk, when nothing is    *)
(* missing, and that an extraction ends with exactly the archive. The      *)
(* strengthening says how the walk lays out the archive (every entry after *)
(* its folder, complete before the next one begins), that unchanged paths  *)
(* are found as soon as their folder is read, and what extraction has done *)
(* so far, whatever earlier attempts have left.                            *)
(***************************************************************************)
EXTENDS Snapshotter, WellFoundedInduction, TLAPS

Walking == pc \in {"readdir", "lstat", "open", "copy"}

Name(i) == archive[i].name

Has(f) == \E j \in 1..Len(archive) : Name(j) = f

(* Only the last entry can be short, and none is when the archive is kept. *)
CompleteInv ==
  /\ pc \in {"open", "copy"} => archive # <<>>
  /\ \A i \in 1..Len(archive) :
       (i < Len(archive) \/ pc \in {"extract", "restored", "refused"}) =>
         archive[i].bytes = archive[i].size

(* Entries come in the order of the walk, before what is to be visited.    *)
OrderInv ==
  /\ \A i, j \in 1..Len(archive) : i < j => Name(i) < Name(j)
  /\ \A i \in 1..Len(archive), f \in names : Name(i) < f
  /\ pc = "readdir" /\ folder = 0 => archive = <<>> /\ names = {}
  /\ pc = "readdir" => \A f \in names : folder < f
  /\ pc = "readdir" => \A i \in 1..Len(archive) : Name(i) < folder

HasFolder(f) == Parent[f] = 0 \/ Has(Parent[f])

(* The folder of an entry, and of a path to be visited, has an entry.      *)
ParentInv ==
  /\ \A i \in 1..Len(archive) : HasFolder(Name(i))
  /\ Walking => \A f \in names : HasFolder(f)
  /\ pc = "readdir" /\ folder # 0 => HasFolder(folder)

(* Paths that did not change are there, and so are their folders; they are *)
(* met when their folder has been read, and packed before any later path.  *)
SteadyInv ==
  /\ \A f \in Names : Exists(f) /\ Parent[f] # 0 => Exists(Parent[f])
  /\ \A f \in steady : Exists(f) /\ (Parent[f] # 0 => Parent[f] \in steady)
  /\ pc = "readdir" /\ folder = 0 => steady = {}
  /\ Walking =>
       \A f \in steady :
         HasFolder(f) =>
           \/ Has(f) \/ Parent[f] \in unread
           \/ f \in names \/ (pc = "readdir" /\ f = folder)
  /\ \A f \in steady, i \in 1..Len(archive) :
       f < Name(i) /\ HasFolder(f) => Has(f) \/ Parent[f] \in unread
  /\ errors = 0 => unread = {}

(* As long as no file grows or goes at the wrong time, the walk goes on.   *)
QuietInv ==
  /\ pc = "copy" => Exists(Last.name)
  /\ pc \in {"open", "copy"} /\ Last.name \in Links => Last.size = 0
  /\ Walking /\ ~disturbed => \A f \in names : Exists(f)
  /\ pc \in {"open", "copy"} /\ ~disturbed =>
       /\ Exists(Last.name)
       /\ Last.name \notin Links => size[Last.name] <= Last.size
  /\ /\ ~Walking /\ Written /\ ~disturbed /\ errors = 0
     /\ \A f \in Links : size[f] \in {0, Absent}
     => \A f \in steady : Has(f)

Unpacked == Len(archive) - Len(left)

(* What lies before `left` is unpacked; of the rest, and only of it, there *)
(* may be a part; there is nothing else.                                   *)
ExtractInv ==
  /\ pc # "refused"
  /\ pc \notin {"extract", "restored", "failed"} => left = <<>>
  /\ pc \notin {"extract", "restored"} => \A f \in Names : target[f] = Absent
  /\ pc \in {"extract", "restored"} =>
       /\ Len(left) <= Len(archive)
       /\ \A i \in 1..Len(left) : left[i] = archive[Unpacked + i]
       /\ \A i \in 1..Len(archive) :
            Name(i) \notin Links =>
              /\ i <= Unpacked => target[Name(i)] = archive[i].size
              /\ target[Name(i)] = Absent \/ target[Name(i)] <= archive[i].size
       /\ \A f \in Names :
            (f \in Links \/ \A i \in 1..Len(archive) : Name(i) # f) => target[f] = Absent
  /\ pc = "restored" => left = <<>>

IInv ==
  /\ TypeOK /\ CompleteInv /\ OrderInv /\ ParentInv /\ SteadyInv /\ QuietInv /\ ExtractInv

-----------------------------------------------------------------------------

LEMMA LeastNat ==
  ASSUME NEW S, S \subseteq Nat, S # {}
  PROVE  \E x \in S : \A y \in S : x <= y
<1> DEFINE R == OpToRel(<, Nat)
<1>1. IsWellFoundedOn(R, Nat)
  BY NatLessThanWellFounded
<1>2. \A x, y \in Nat : x < y => <<x, y>> \in R
  BY DEF OpToRel
<1> HIDE DEF R
<1>3. PICK x \in S : \A y \in S : ~ (<<y, x>> \in R)
  BY <1>1, WFMin, Zenon
<1>4. \A y \in S : ~ (y < x)
  BY <1>2, <1>3, Zenon
<1> QED BY <1>3, <1>4

LEMMA Constants ==
  /\ N \in Nat /\ MaxSize \in Nat /\ MaxChanges \in Nat /\ MaxErrors \in Nat /\ MaxCrashes \in Nat
  /\ Absent \in Nat /\ MaxSize < Absent
  /\ Names \subseteq Nat \ {0} /\ Folders \subseteq Names /\ Links \subseteq Names \ Folders
  /\ \A f \in Names : Parent[f] \in Folders \union {0} /\ Parent[f] \in Nat /\ Parent[f] < f
<1>1. N \in Nat /\ MaxSize \in Nat /\ MaxChanges \in Nat /\ MaxErrors \in Nat /\ MaxCrashes \in Nat
  BY SnapshotterAssumption
<1>2. Names \subseteq Nat \ {0} /\ Folders \subseteq Names /\ Links \subseteq Names \ Folders
  BY <1>1, SnapshotterAssumption DEF Names
<1>3. \A f \in Names : Parent[f] \in Folders \union {0} /\ Parent[f] < f
  BY SnapshotterAssumption DEF Names
<1>4. Absent \in Nat /\ MaxSize < Absent
  BY <1>1 DEF Absent
<1>5. \A f \in Names : Parent[f] \in Nat
  <2>1. Folders \union {0} \subseteq Nat
    BY <1>1, SnapshotterAssumption
  <2> QED BY <2>1, <1>3, Zenon
<1> QED BY <1>1, <1>2, <1>3, <1>4, <1>5

(* Unchanged paths below m that are not packed would have a first one, whose*)
(* folder is unchanged and comes before it: so it is enough to look at the  *)
(* paths whose folder is packed.                                            *)
LEMMA FirstMissing ==
  ASSUME TypeOK, SteadyInv, NEW m \in Nat,
         \A f \in steady : HasFolder(f) => Has(f) \/ m <= f
  PROVE  \A f \in steady : Has(f) \/ m <= f
<1> DEFINE S == {f \in steady : ~ Has(f) /\ f < m}
<1>1. CASE S = {}
  BY <1>1, Constants DEF TypeOK
<1>2. CASE S # {}
  <2>1. S \subseteq Nat
    BY Constants DEF TypeOK
  <2>2. PICK x \in S : \A y \in S : x <= y
    BY <1>2, <2>1, LeastNat
  <2>3. Parent[x] # 0 /\ ~ Has(Parent[x]) /\ Parent[x] \in steady
    BY <2>1, <2>2 DEF SteadyInv, HasFolder
  <2>4. Parent[x] < x /\ Parent[x] \in Nat /\ x \in Nat
    BY <2>1, <2>2, Constants DEF TypeOK
  <2> QED BY <2>2, <2>3, <2>4
<1> QED BY <1>1, <1>2

LEMMA InitInv == Init => IInv
<1> SUFFICES ASSUME Init PROVE IInv
  OBVIOUS
<1>1. TypeOK
  <2>1. target \in [Names -> 0..Absent]
    BY Constants DEF Init
  <2>2. archive \in Seq(Entries) /\ left \in Seq(Entries)
    BY DEF Init
  <2>3. changes \in 0..MaxChanges /\ errors \in 0..MaxErrors /\ crashes \in 0..MaxCrashes
    BY Constants DEF Init
  <2> QED BY <2>1, <2>2, <2>3 DEF Init, TypeOK
<1> QED
  BY <1>1 DEF Init, IInv, CompleteInv, OrderInv, ParentInv, SteadyInv, QuietInv, ExtractInv,
              Walking, Exists

-----------------------------------------------------------------------------

LEMMA EntryType ==
  ASSUME NEW f \in Names, NEW n \in 0..MaxSize, NEW b \in 0..MaxSize
  PROVE  [name |-> f, size |-> n, bytes |-> b] \in Entries
BY DEF Entries

LEMMA EntriesOf ==
  ASSUME NEW a \in Seq(Entries)
  PROVE  /\ Len(a) \in Nat
         /\ \A i \in 1..Len(a) :
              /\ a[i] \in Entries /\ a[i].name \in Names /\ a[i].name \in Nat
              /\ a[i].size \in 0..MaxSize /\ a[i].bytes \in 0..MaxSize
<1>1. Len(a) \in Nat /\ \A i \in 1..Len(a) : a[i] \in Entries
  OBVIOUS
<1>2. \A e \in Entries : e.name \in Names /\ e.size \in 0..MaxSize /\ e.bytes \in 0..MaxSize
  BY DEF Entries
<1>3. \A f \in Names : f \in Nat
  BY Constants
<1> QED BY <1>1, <1>2, <1>3

LEMMA ArchiveFacts ==
  ASSUME TypeOK
  PROVE  /\ Len(archive) \in Nat
         /\ \A i \in 1..Len(archive) :
              /\ archive[i] \in Entries /\ Name(i) \in Names /\ Name(i) \in Nat
              /\ archive[i].size \in 0..MaxSize /\ archive[i].bytes \in 0..MaxSize
BY EntriesOf DEF TypeOK, Name

(* The entry of path g is added, which comes after all there are, whose     *)
(* folder has one, and before which no unchanged path is left out.          *)
LEMMA Packs ==
  ASSUME TypeOK, CompleteInv, OrderInv, ParentInv, SteadyInv, Written,
         NEW e \in Entries, NEW g \in Names, e.name = g,
         archive' = Append(archive, e), steady' = steady,
         \A i \in 1..Len(archive) : Name(i) < g,
         HasFolder(g),
         \A f \in steady : HasFolder(f) => Has(f) \/ g <= f \/ Parent[f] \in unread
  PROVE  /\ archive' \in Seq(Entries) /\ archive' # <<>> /\ Last' = e
         /\ Len(archive') = Len(archive) + 1
         /\ \A i \in 1..Len(archive') : i < Len(archive') => archive'[i].bytes = archive'[i].size
         /\ \A f : Has(f)' <=> Has(f) \/ f = g
         /\ \A i, j \in 1..Len(archive') : i < j => Name(i)' < Name(j)'
         /\ \A i \in 1..Len(archive') : Name(i)' <= g
         /\ \A i \in 1..Len(archive') : HasFolder(Name(i))'
         /\ \A f \in steady', i \in 1..Len(archive') :
              f < Name(i)' /\ HasFolder(f)' => Has(f)' \/ Parent[f] \in unread
<1> DEFINE n == Len(archive)
<1>1. n \in Nat /\ \A i \in 1..n : archive[i] \in Entries /\ Name(i) \in Names
  BY ArchiveFacts
<1>2. /\ archive' \in Seq(Entries) /\ Len(archive') = n + 1 /\ archive'[n + 1] = e
      /\ \A i \in 1..n : archive'[i] = archive[i]
  <2>1. archive \in Seq(Entries)
    BY DEF TypeOK
  <2> QED BY <2>1
<1>3. /\ \A i \in 1..n : Name(i)' = Name(i)
      /\ archive'[n + 1].name = g
  BY <1>2 DEF Name
<1> HIDE DEF n
<1>4. \A i \in 1..n : archive[i].bytes = archive[i].size
  <2>1. n # 0 => archive[n].bytes = archive[n].size
    BY <1>1 DEF Written, Last, n
  <2> QED BY <1>1, <2>1 DEF CompleteInv, n
<1>5. archive' # <<>> /\ Last' = e
  BY <1>1, <1>2 DEF Last
<1>6. \A i \in 1..n + 1 : i < n + 1 => archive'[i].bytes = archive'[i].size
  BY <1>1, <1>2, <1>4
<1>7. \A f : Has(f)' <=> Has(f) \/ f = g
  BY <1>1, <1>2, <1>3 DEF Has, Name, n
<1>8. \A i, j \in 1..n + 1 : i < j => Name(i)' < Name(j)'
  BY <1>1, <1>3 DEF OrderInv, Name, n
<1>9. \A i \in 1..n + 1 : Name(i)' <= g
  <2>1. g \in Nat /\ \A i \in 1..n : Name(i) \in Nat
    BY <1>1, Constants
  <2>2. archive'[n + 1].name <= g
    BY <1>3, <2>1
  <2>3. \A i \in 1..n : archive'[i].name <= g
    BY <1>3, <2>1 DEF Name, n
  <2>4. \A i \in 1..n + 1 : i \in 1..n \/ i = n + 1
    BY <1>1
  <2> QED BY <2>2, <2>3, <2>4, Zenon DEF Name
<1>10. \A i \in 1..n + 1 : HasFolder(Name(i))'
  BY <1>1, <1>3, <1>7 DEF ParentInv, HasFolder, Name, n
<1>11. \A f \in steady', i \in 1..n + 1 :
         f < Name(i)' /\ HasFolder(f)' => Has(f)' \/ Parent[f] \in unread
  <2> SUFFICES ASSUME NEW f \in steady, NEW i \in 1..n + 1, f < Name(i)', HasFolder(f)',
                      Parent[f] \notin unread
               PROVE  Has(f)'
    OBVIOUS
  <2>1. f \in Names /\ f \in Nat /\ g \in Nat /\ Parent[f] \in Nat /\ Parent[f] < f
    BY Constants DEF TypeOK
  <2>2. Name(i)' \in Nat /\ Name(i)' <= g
    BY <1>1, <1>3, <1>9, Constants DEF Name, n
  <2>3. Parent[f] # g
    BY <2>1, <2>2
  <2>4. HasFolder(f)
    BY <1>7, <2>3 DEF HasFolder
  <2>5. ~ (g <= f)
    BY <2>1, <2>2
  <2> QED BY <1>7, <2>4, <2>5
<1> QED BY <1>2, <1>5, <1>6, <1>7, <1>8, <1>9, <1>10, <1>11 DEF n

-----------------------------------------------------------------------------

LEMMA ReaddirStep == ASSUME IInv, Readdir PROVE IInv'
<1> USE DEF Walking
<1>1. /\ TypeOK /\ CompleteInv /\ OrderInv /\ ParentInv /\ SteadyInv /\ QuietInv /\ ExtractInv
      /\ pc = "readdir"
      /\ UNCHANGED <<size, folder, disturbed, target, left, crashes, changes>>
  BY DEF IInv, Readdir, dest
<1>2. /\ names \subseteq names' /\ names' \subseteq Names
      /\ \A f \in names' \ names : Parent[f] = folder /\ Exists(f) /\ f > folder
      /\ unread \subseteq unread' /\ unread' \subseteq Folders \union {0}
      /\ \A f \in Names : Parent[f] = folder /\ Exists(f) => f \in names' \/ Parent[f] \in unread'
      /\ errors' \in 0..MaxErrors /\ (errors' = 0 => errors = 0 /\ unread' = unread)
  <2>1. CASE names' = names \union Children(folder) /\ UNCHANGED <<unread, errors>>
    BY <1>1, <2>1, Constants DEF TypeOK, Children
  <2>2. CASE Fails /\ unread' = unread \union {folder} /\ UNCHANGED names
    <3>1. errors' \in 0..MaxErrors /\ errors' # 0
      BY <1>1, <2>2, Constants DEF TypeOK, Fails
    <3> QED BY <1>1, <2>2, <3>1 DEF TypeOK
  <2> QED BY <2>1, <2>2 DEF Readdir, ReadNames
<1>3. CASE folder = 0
  <2>1. /\ archive = <<>> /\ names = {} /\ Written
        /\ archive' = archive /\ pc' = "lstat" /\ steady' = {f \in Names : Exists(f)}
    BY <1>1, <1>3 DEF OrderInv, Written, Readdir
  <2>2. TypeOK'
    BY <1>1, <1>2, <2>1 DEF TypeOK
  <2>3. Len(archive) = 0 /\ \A f : ~ Has(f) /\ ~ Has(f)'
    BY <2>1 DEF Has
  <2>4. CompleteInv' /\ OrderInv'
    BY <2>1, <2>3 DEF CompleteInv, OrderInv
  <2>5. ParentInv'
    BY <1>2, <1>3, <2>1, <2>3 DEF ParentInv, HasFolder
  <2>6. SteadyInv'
    <3>1. \A f \in Names : Exists(f) /\ Parent[f] # 0 => Exists(Parent[f]) /\ Parent[f] \in Names
      BY <1>1, Constants DEF SteadyInv
    <3> QED BY <1>1, <1>2, <1>3, <2>1, <2>3, <3>1 DEF SteadyInv, HasFolder, Exists
  <2>7. QuietInv'
    BY <1>1, <1>2, <2>1 DEF QuietInv, Exists
  <2>8. ExtractInv'
    BY <1>1, <2>1 DEF ExtractInv
  <2> QED BY <2>2, <2>4, <2>5, <2>6, <2>7, <2>8 DEF IInv
<1>4. CASE folder # 0 /\ Written
  <2> DEFINE e == [name |-> folder, size |-> 0, bytes |-> 0]
  <2>1. archive' = Append(archive, e) /\ pc' = "lstat" /\ steady' = steady
    BY <1>4 DEF Readdir
  <2>2. folder \in Names /\ e \in Entries /\ e.name = folder
    BY <1>1, <1>4, Constants, EntryType DEF TypeOK
  <2> HIDE DEF e
  <2>3. \A f \in steady : HasFolder(f) => Has(f) \/ folder <= f \/ Parent[f] \in unread
    BY <1>1, <2>2, Constants DEF SteadyInv, OrderInv, TypeOK
  <2>4. /\ archive' \in Seq(Entries) /\ archive' # <<>> /\ Last' = e
        /\ Len(archive') = Len(archive) + 1
        /\ \A i \in 1..Len(archive') : i < Len(archive') => archive'[i].bytes = archive'[i].size
        /\ \A f : Has(f)' <=> Has(f) \/ f = folder
        /\ \A i, j \in 1..Len(archive') : i < j => Name(i)' < Name(j)'
        /\ \A i \in 1..Len(archive') : Name(i)' <= folder
        /\ \A i \in 1..Len(archive') : HasFolder(Name(i))'
        /\ \A f \in steady', i \in 1..Len(archive') :
             f < Name(i)' /\ HasFolder(f)' => Has(f)' \/ Parent[f] \in unread
    BY <1>1, <1>4, <2>1, <2>2, <2>3, Packs DEF OrderInv, ParentInv
  <2>5. TypeOK'
    BY <1>1, <1>2, <2>1, <2>4 DEF TypeOK
  <2>6. CompleteInv'
    BY <2>1, <2>4 DEF CompleteInv
  <2>7. OrderInv'
    <3>1. \A f \in names' : f > folder
      BY <1>1, <1>2, Constants DEF OrderInv, TypeOK
    <3>2. \A i \in 1..Len(archive') : Name(i)' \in Nat
      BY <2>4, EntriesOf DEF Name
    <3> QED BY <1>2, <2>1, <2>2, <2>4, <3>1, <3>2, Constants DEF OrderInv
  <2>8. ParentInv'
    BY <1>1, <1>2, <2>1, <2>4 DEF ParentInv, HasFolder
  <2>9. SteadyInv'
    <3>1. \A f \in steady :
            f \in Names /\ Exists(f) /\ (HasFolder(f)' => HasFolder(f) \/ Parent[f] = folder)
      BY <1>1, <2>4 DEF SteadyInv, TypeOK, HasFolder
    <3>2. \A f \in steady' : HasFolder(f)' => Has(f)' \/ Parent[f] \in unread' \/ f \in names'
      BY <1>1, <1>2, <2>1, <2>4, <3>1 DEF SteadyInv
    <3>3. (\A f \in Names : Exists(f)' /\ Parent[f] # 0 => Exists(Parent[f])')
          /\ (\A f \in steady' : Exists(f)' /\ (Parent[f] # 0 => Parent[f] \in steady'))
      BY <1>1, <2>1 DEF SteadyInv, Exists
    <3>4. errors' = 0 => unread' = {}
      BY <1>1, <1>2 DEF SteadyInv
    <3>5. \A f \in steady', i \in 1..Len(archive') :
            f < Name(i)' /\ HasFolder(f)' => Has(f)' \/ Parent[f] \in unread'
      BY <1>2, <2>4
    <3> QED BY <2>1, <3>2, <3>3, <3>4, <3>5 DEF SteadyInv
  <2>10. QuietInv'
    BY <1>1, <1>2, <2>1 DEF QuietInv, Exists
  <2>11. ExtractInv'
    BY <1>1, <2>1 DEF ExtractInv
  <2> QED BY <2>5, <2>6, <2>7, <2>8, <2>9, <2>10, <2>11 DEF IInv
<1>5. CASE folder # 0 /\ ~ Written
  <2>1. archive' = archive /\ pc' = "close" /\ steady' = steady
    BY <1>5 DEF Readdir
  <2>2. TypeOK'
    BY <1>1, <1>2, <2>1 DEF TypeOK
  <2>3. CompleteInv' /\ OrderInv' /\ ParentInv'
    <3>1. \A i \in 1..Len(archive), f \in names' : Name(i) < f
      <4>1. folder \in Nat /\ \A f \in names' : f \in Nat
        BY <1>1, <1>2, Constants DEF TypeOK
      <4>2. \A f \in names' : f \in names \/ f > folder
        BY <1>2
      <4>3. \A i \in 1..Len(archive) : Name(i) \in Nat /\ Name(i) < folder
        BY <1>1, ArchiveFacts DEF OrderInv
      <4> QED BY <1>1, <4>1, <4>2, <4>3 DEF OrderInv
    <3> QED BY <1>1, <2>1, <3>1 DEF CompleteInv, OrderInv, ParentInv, HasFolder, Has, Name
  <2>4. SteadyInv'
    BY <1>1, <1>2, <1>5, <2>1 DEF SteadyInv, Exists, HasFolder, Has, Name
  <2>5. QuietInv'
    BY <1>1, <1>2, <1>5, <2>1 DEF QuietInv, Written, Last
  <2>6. ExtractInv'
    BY <1>1, <2>1 DEF ExtractInv
  <2> QED BY <2>2, <2>3, <2>4, <2>5, <2>6 DEF IInv
<1> QED BY <1>3, <1>4, <1>5

LEMMA LstatStep == ASSUME IInv, Lstat PROVE IInv'
<1> USE DEF Walking
<1>1. /\ TypeOK /\ CompleteInv /\ OrderInv /\ ParentInv /\ SteadyInv /\ QuietInv /\ ExtractInv
      /\ pc = "lstat"
      /\ UNCHANGED <<size, unread, steady, disturbed, target, left, crashes, changes>>
  BY DEF IInv, Lstat, dest
<1>2. PICK f \in names :
        /\ First(f) /\ names' = names \ {f}
        /\ (Visit(f) /\ UNCHANGED errors) \/ (Fails /\ Stop)
  BY DEF Lstat
<1>3. /\ f \in Names /\ f \in Nat /\ HasFolder(f)
      /\ \A g \in names' : g \in Names /\ g \in names /\ g \in Nat /\ f < g
      /\ \A i \in 1..Len(archive) : Name(i) < f
  BY <1>1, <1>2, Constants DEF TypeOK, First, OrderInv, ParentInv
<1>4. CASE Exists(f) /\ f \in Folders /\ Visit(f) /\ UNCHANGED errors
  <2>1. folder' = f /\ pc' = "readdir" /\ archive' = archive /\ errors' = errors
    BY <1>2, <1>4 DEF Visit
  <2>2. TypeOK'
    BY <1>1, <1>3, <1>4, <2>1 DEF TypeOK
  <2>3. f # 0
    BY <1>3, Constants
  <2>4. CompleteInv' /\ OrderInv'
    BY <1>1, <1>3, <2>1, <2>3 DEF CompleteInv, OrderInv, Name
  <2>5. ParentInv' /\ SteadyInv'
    BY <1>1, <1>2, <1>3, <2>1, <2>3 DEF ParentInv, SteadyInv, HasFolder, Has, Name, Exists
  <2>6. QuietInv'
    BY <1>1, <1>3, <2>1 DEF QuietInv, Exists
  <2>7. ExtractInv'
    BY <1>1, <2>1 DEF ExtractInv
  <2> QED BY <2>2, <2>4, <2>5, <2>6, <2>7 DEF IInv
<1>5. CASE Exists(f) /\ f \notin Folders /\ Written /\ Visit(f) /\ UNCHANGED errors
  <2>1. archive' = Append(archive, Entry(f)) /\ pc' = "open" /\ folder' = folder /\ errors' = errors
    BY <1>2, <1>5 DEF Visit
  <2> DEFINE e == Entry(f)
  <2>2. /\ e \in Entries /\ e.name = f
        /\ f \in Links => e.size = 0
        /\ f \notin Links => e.size = size[f]
    <3>1. size[f] \in 0..MaxSize
      BY <1>1, <1>3, <1>5, Constants DEF TypeOK, Exists, Absent
    <3>2. 0 \in 0..MaxSize
      BY Constants
    <3> QED BY <1>3, <3>1, <3>2 DEF Entry, Entries
  <2> HIDE DEF e
  <2>3. \A g \in steady : HasFolder(g) => Has(g) \/ f <= g \/ Parent[g] \in unread
    <3>1. \A g \in names : f <= g
      BY <1>2 DEF First
    <3> QED BY <1>1, <3>1 DEF SteadyInv
  <2>4. /\ archive' \in Seq(Entries) /\ archive' # <<>> /\ Last' = e
        /\ Len(archive') = Len(archive) + 1
        /\ \A i \in 1..Len(archive') : i < Len(archive') => archive'[i].bytes = archive'[i].size
        /\ \A g : Has(g)' <=> Has(g) \/ g = f
        /\ \A i, j \in 1..Len(archive') : i < j => Name(i)' < Name(j)'
        /\ \A i \in 1..Len(archive') : Name(i)' <= f
        /\ \A i \in 1..Len(archive') : HasFolder(Name(i))'
        /\ \A g \in steady', i \in 1..Len(archive') :
             g < Name(i)' /\ HasFolder(g)' => Has(g)' \/ Parent[g] \in unread
    BY <1>1, <1>3, <1>5, <2>1, <2>2, <2>3, Packs DEF e
  <2>5. TypeOK'
    BY <1>1, <1>3, <2>1, <2>4 DEF TypeOK
  <2>6. CompleteInv'
    BY <2>1, <2>4 DEF CompleteInv
  <2>7. OrderInv'
    <3>1. \A i \in 1..Len(archive') : Name(i)' \in Nat
      BY <2>4, EntriesOf DEF Name
    <3>2. \A i \in 1..Len(archive'), g \in names' : Name(i)' < g
      BY <1>3, <2>4, <3>1
    <3> QED BY <2>1, <2>4, <3>2 DEF OrderInv
  <2>8. ParentInv'
    BY <1>1, <1>3, <2>1, <2>4 DEF ParentInv, HasFolder
  <2>9. SteadyInv'
    <3>1. \A g \in steady : HasFolder(g)' => HasFolder(g) \/ Parent[g] = f
      BY <2>4 DEF HasFolder
    <3>2. \A g \in steady : Parent[g] # f
      BY <1>1, <1>3, <1>5, Constants DEF TypeOK
    <3>3. \A g \in steady' : HasFolder(g)' => Has(g)' \/ Parent[g] \in unread \/ g \in names'
      BY <1>1, <1>2, <2>4, <3>1, <3>2 DEF SteadyInv
    <3> QED BY <1>1, <2>1, <2>4, <3>3 DEF SteadyInv, Exists
  <2>10. QuietInv'
    <3>1. size[f] <= size[f]
      BY <1>1, <1>3, Constants DEF TypeOK
    <3> QED BY <1>1, <1>3, <1>5, <2>1, <2>2, <2>4, <3>1 DEF QuietInv, Exists
  <2>11. ExtractInv'
    BY <1>1, <2>1 DEF ExtractInv
  <2> QED BY <2>5, <2>6, <2>7, <2>8, <2>9, <2>10, <2>11 DEF IInv
<1>6. CASE \/ (~ Exists(f) \/ (f \notin Folders /\ ~ Written)) /\ Visit(f) /\ UNCHANGED errors
           \/ Fails /\ Stop
  <2>1. /\ archive' = archive /\ pc' = "close" /\ folder' = folder
        /\ errors' \in 0..MaxErrors
        /\ errors' = 0 => errors = 0 /\ (~ Exists(f) \/ ~ Written)
    BY <1>1, <1>6, Constants DEF Visit, Stop, Fails, TypeOK
  <2>2. TypeOK' /\ CompleteInv' /\ OrderInv' /\ ParentInv' /\ ExtractInv'
    BY <1>1, <1>3, <2>1
    DEF TypeOK, CompleteInv, OrderInv, ParentInv, ExtractInv, HasFolder, Has, Name
  <2>3. SteadyInv'
    BY <1>1, <2>1 DEF SteadyInv, HasFolder, Has, Name, Exists
  <2>4. QuietInv'
    BY <1>1, <1>2, <2>1 DEF QuietInv, Written, Last
  <2> QED BY <2>2, <2>3, <2>4 DEF IInv
<1> QED BY <1>2, <1>4, <1>5, <1>6

LEMMA OpenStep == ASSUME IInv, Open PROVE IInv'
<1> USE DEF Walking
<1>1. /\ TypeOK /\ CompleteInv /\ OrderInv /\ ParentInv /\ SteadyInv /\ QuietInv /\ ExtractInv
      /\ pc = "open" /\ pc' \in {"copy", "close"}
      /\ UNCHANGED <<size, names, folder, archive, unread, steady, disturbed, target, left, crashes,
                     changes>>
  BY DEF IInv, Open, dest
<1> DEFINE there == Exists(Last.name)
<1>5. /\ errors' \in 0..MaxErrors /\ (errors' = 0 => errors = 0)
      /\ pc' = "copy" => there
      /\ errors' = 0 /\ there => pc' = "copy"
  <2>1. CASE pc' = (IF there THEN "copy" ELSE "close") /\ UNCHANGED errors
    BY <1>1, <2>1 DEF TypeOK
  <2>2. CASE Fails /\ pc' = "close"
    BY <1>1, <2>2, Constants DEF TypeOK, Fails
  <2> QED BY <2>1, <2>2 DEF Open
<1>2. TypeOK' /\ CompleteInv' /\ OrderInv' /\ ParentInv' /\ ExtractInv'
  BY <1>1, <1>5 DEF TypeOK, CompleteInv, OrderInv, ParentInv, ExtractInv, HasFolder, Has, Name
<1>3. SteadyInv'
  BY <1>1, <1>5 DEF SteadyInv, HasFolder, Has, Name, Exists
<1>4. QuietInv'
  BY <1>1, <1>5 DEF QuietInv, Last, Exists
<1> QED BY <1>2, <1>3, <1>4 DEF IInv

LEMMA CopyStep == ASSUME IInv, Copy PROVE IInv'
<1> USE DEF Walking
<1> DEFINE n   == Len(archive)
           now == size[Last.name]
           most == IF now < Last.size THEN now ELSE Last.size
<1>1. /\ TypeOK /\ CompleteInv /\ OrderInv /\ ParentInv /\ SteadyInv /\ QuietInv /\ ExtractInv
      /\ pc = "copy"
      /\ UNCHANGED <<size, names, folder, unread, steady, disturbed, target, left, crashes, changes>>
  BY DEF IInv, Copy, dest
<1>2. /\ n \in Nat /\ n \in 1..n /\ Last = archive[n] /\ Last \in Entries
      /\ Last.name \in Names /\ Last.size \in 0..MaxSize /\ now \in 0..Absent
  <2>1. archive \in Seq(Entries) /\ archive # <<>>
    BY <1>1 DEF TypeOK, CompleteInv
  <2>2. n \in Nat /\ n \in 1..n
    BY <2>1
  <2>3. Last \in Entries /\ Last.name \in Names /\ Last.size \in 0..MaxSize
    BY <2>1, <2>2, EntriesOf DEF Last
  <2> QED BY <1>1, <2>2, <2>3 DEF Last, TypeOK
<1>3. most \in 0..MaxSize /\ \A part \in 0..most : part \in 0..MaxSize
  BY <1>2, Constants
<1>15. PICK b \in 0..MaxSize :
         /\ archive' = [archive EXCEPT ![n].bytes = b]
         /\ errors' \in 0..MaxErrors /\ (errors' = 0 => errors = 0)
         /\ pc' \in {"close", "lstat"}
         /\ errors' = 0 \/ pc' = "lstat" => pc' = IF now > Last.size THEN "close" ELSE "lstat"
  <2>1. CASE /\ archive' = [archive EXCEPT ![n].bytes = most]
             /\ pc' = IF now > Last.size THEN "close" ELSE "lstat"
             /\ UNCHANGED errors
    BY <1>1, <1>3, <2>1 DEF TypeOK
  <2>2. CASE /\ Fails /\ pc' = "close"
             /\ \E part \in 0..most : archive' = [archive EXCEPT ![n].bytes = part]
    <3>1. errors' \in 0..MaxErrors /\ errors' # 0
      <4>1. errors \in 0..MaxErrors /\ errors < MaxErrors /\ errors' = errors + 1
        BY <1>1, <2>2 DEF TypeOK, Fails
      <4> QED BY <4>1, Constants
    <3> QED BY <1>3, <2>2, <3>1
  <2> QED BY <2>1, <2>2 DEF Copy
<1>4. /\ archive' \in Seq(Entries) /\ Len(archive') = n
      /\ \A i \in 1..n : i # n => archive'[i] = archive[i]
      /\ archive'[n] = [archive[n] EXCEPT !.bytes = b]
  <2>1. archive \in Seq(Entries)
    BY <1>1 DEF TypeOK
  <2>2. [archive[n] EXCEPT !.bytes = b] \in Entries
    BY <1>2 DEF Entries
  <2> QED BY <1>2, <1>15, <2>1, <2>2
<1>5. \A i \in 1..n : archive'[i].name = archive[i].name /\ archive'[i].size = archive[i].size
  BY <1>2, <1>4 DEF Entries
<1>6. archive'[n].bytes = b
  BY <1>2, <1>4 DEF Entries
<1> HIDE DEF n, now, most
<1>7. /\ \A i \in 1..n : Name(i)' = Name(i)
      /\ \A f : Has(f)' <=> Has(f)
      /\ \A f : HasFolder(f)' <=> HasFolder(f)
  BY <1>4, <1>5 DEF Name, Has, HasFolder, n
<1>8. TypeOK'
  BY <1>1, <1>15, <1>4 DEF TypeOK
<1>9. CompleteInv'
  BY <1>1, <1>15, <1>2, <1>4 DEF CompleteInv, n
<1>10. OrderInv'
  BY <1>1, <1>15, <1>4, <1>7 DEF OrderInv, n
<1>11. ParentInv'
  <2>1. \A i \in 1..n : HasFolder(Name(i))'
    BY <1>1, <1>15, <1>5, <1>7 DEF ParentInv, Name, HasFolder, n
  <2> QED BY <1>1, <1>15, <1>4, <1>7, <2>1 DEF ParentInv
<1>12. SteadyInv'
  BY <1>1, <1>15, <1>4, <1>7 DEF SteadyInv, Exists, n
<1>13. QuietInv'
  <2>1. CASE now > Last.size
    <3>1. Exists(Last.name) /\ ~ disturbed => Last.name \in Links
      <4>1. size[Last.name] \in Nat /\ Last.size \in Nat /\ ~ (size[Last.name] <= Last.size)
        BY <1>2, <2>1, Constants DEF now
      <4> QED BY <1>1, <1>15, <4>1 DEF QuietInv
    <3>2. Last.name \in Links => size[Last.name] \notin {0, Absent}
      BY <1>1, <1>15, <1>2, <2>1 DEF QuietInv, Exists, now
    <3> QED BY <1>1, <1>15, <2>1, <3>1, <3>2 DEF QuietInv
  <2>2. CASE ~ (now > Last.size)
    BY <1>1, <1>15, <2>2 DEF QuietInv, Exists
  <2> QED BY <2>1, <2>2
<1>14. ExtractInv'
  BY <1>1, <1>15 DEF ExtractInv
<1> QED BY <1>8, <1>9, <1>10, <1>11, <1>12, <1>13, <1>14 DEF IInv

LEMMA WalkEndsStep == ASSUME IInv, WalkEnds PROVE IInv'
<1> USE DEF Walking
<1>1. /\ TypeOK /\ CompleteInv /\ OrderInv /\ ParentInv /\ SteadyInv /\ QuietInv /\ ExtractInv
      /\ pc = "lstat" /\ names = {} /\ pc' = "close"
      /\ UNCHANGED <<size, names, folder, archive, unread, errors, steady, disturbed>>
      /\ UNCHANGED <<target, left, crashes, changes>>
  BY DEF IInv, WalkEnds, dest
<1>2. TypeOK' /\ CompleteInv' /\ OrderInv' /\ ParentInv' /\ ExtractInv'
  BY <1>1 DEF TypeOK, CompleteInv, OrderInv, ParentInv, ExtractInv, HasFolder, Has, Name
<1>3. SteadyInv'
  BY <1>1 DEF SteadyInv, HasFolder, Has, Name, Exists
<1>4. QuietInv'
  <2> SUFFICES ASSUME errors = 0 PROVE QuietInv'
    BY <1>1 DEF QuietInv
  <2>1. \A f \in steady : HasFolder(f) => Has(f) \/ N + 1 <= f
    BY <1>1 DEF SteadyInv
  <2>2. \A f \in steady : Has(f) \/ N + 1 <= f
    BY <1>1, <2>1, FirstMissing, Constants
  <2>3. \A f \in steady : f \in Nat /\ f <= N
    BY <1>1, Constants DEF TypeOK, Names
  <2>4. \A f \in steady : Has(f)
    BY <2>2, <2>3, Constants
  <2> QED BY <1>1, <2>4 DEF QuietInv, Has, Name
<1> QED BY <1>2, <1>3, <1>4 DEF IInv

LEMMA CloseStep == ASSUME IInv, Close PROVE IInv'
<1> USE DEF Walking
<1>1. /\ TypeOK /\ CompleteInv /\ OrderInv /\ ParentInv /\ SteadyInv /\ QuietInv /\ ExtractInv
      /\ pc = "close" /\ pc' = (IF Written THEN "extract" ELSE "failed") /\ left' = archive
      /\ UNCHANGED <<size, names, folder, archive, unread, errors, steady, disturbed>>
      /\ UNCHANGED <<target, crashes, changes>>
  BY DEF IInv, Close
<1>2. TypeOK' /\ OrderInv' /\ ParentInv'
  BY <1>1 DEF TypeOK, OrderInv, ParentInv, HasFolder, Has, Name
<1>3. CompleteInv'
  <2>1. Written /\ Len(archive) # 0 => archive[Len(archive)].bytes = archive[Len(archive)].size
    BY DEF Written, Last
  <2> QED BY <1>1, <2>1, ArchiveFacts DEF CompleteInv
<1>4. SteadyInv'
  BY <1>1 DEF SteadyInv, HasFolder, Has, Name, Exists
<1>5. QuietInv'
  BY <1>1 DEF QuietInv, Has, Name, Written, Last
<1>6. ExtractInv'
  BY <1>1, ArchiveFacts DEF ExtractInv, Unpacked, Name
<1> QED BY <1>2, <1>3, <1>4, <1>5, <1>6 DEF IInv

-----------------------------------------------------------------------------

(* What the invariant says apart from extraction is of other variables.     *)
LEMMA PackedKept ==
  ASSUME IInv, pc \in {"extract", "restored"}, pc' \in {"extract", "restored"},
         UNCHANGED <<size, names, folder, archive, unread, errors, steady, disturbed, changes>>
  PROVE  CompleteInv' /\ OrderInv' /\ ParentInv' /\ SteadyInv' /\ QuietInv'
<1> USE DEF Walking
<1>1. CompleteInv /\ OrderInv /\ ParentInv /\ SteadyInv /\ QuietInv
  BY DEF IInv
<1>2. CompleteInv' /\ OrderInv' /\ ParentInv'
  BY <1>1 DEF CompleteInv, OrderInv, ParentInv, HasFolder, Has, Name
<1>3. SteadyInv'
  BY <1>1 DEF SteadyInv, HasFolder, Has, Name, Exists
<1>4. QuietInv'
  BY <1>1 DEF QuietInv, Has, Name, Written, Last
<1> QED BY <1>2, <1>3, <1>4

(* The next entry is the one behind those that are unpacked; nothing or a   *)
(* part of it is there, and its folder is.                                  *)
LEMMA NextEntry ==
  ASSUME IInv, pc = "extract", left # <<>>
  PROVE  /\ Unpacked \in 0..Len(archive) - 1 /\ Len(left) \in Nat
         /\ Head(left) = archive[Unpacked + 1] /\ Unpacked + 1 \in 1..Len(archive)
         /\ Len(Tail(left)) = Len(left) - 1 /\ Tail(left) \in Seq(Entries)
         /\ \A i \in 1..Len(Tail(left)) : Tail(left)[i] = archive[Unpacked + 1 + i]
         /\ Head(left).name \in Names /\ Head(left).size \in 0..MaxSize
         /\ Head(left).bytes = Head(left).size
         /\ \A i \in 1..Len(archive) : Name(i) = Head(left).name => i = Unpacked + 1
         /\ Unpackable(Head(left).name)
<1>1. TypeOK /\ CompleteInv /\ OrderInv /\ ParentInv /\ ExtractInv
  BY DEF IInv
<1>2. /\ left \in Seq(Entries) /\ Len(left) \in Nat /\ Len(left) # 0
      /\ Head(left) = left[1] /\ Len(Tail(left)) = Len(left) - 1 /\ Tail(left) \in Seq(Entries)
      /\ \A i \in 1..Len(Tail(left)) : Tail(left)[i] = left[i + 1]
  BY <1>1 DEF TypeOK
<1>3. Len(archive) \in Nat /\ Len(left) <= Len(archive)
  BY <1>1, ArchiveFacts DEF ExtractInv
<1>4. /\ Unpacked \in 0..Len(archive) - 1 /\ Unpacked + 1 \in 1..Len(archive)
      /\ Unpacked = Len(archive) - Len(left)
  BY <1>2, <1>3 DEF Unpacked
<1>5. \A i \in 1..Len(left) : left[i] = archive[Unpacked + i]
  BY <1>1 DEF ExtractInv
<1> DEFINE u == Unpacked
<1>6. u \in Nat /\ u + 1 \in 1..Len(archive) /\ Head(left) = archive[u + 1]
  BY <1>2, <1>4, <1>5
<1> HIDE DEF u
<1>7. \A i \in 1..Len(Tail(left)) : Tail(left)[i] = archive[u + 1 + i]
  <2> SUFFICES ASSUME NEW i \in 1..Len(Tail(left)) PROVE Tail(left)[i] = archive[u + 1 + i]
    OBVIOUS
  <2>1. i + 1 \in 1..Len(left) /\ u + (i + 1) = u + 1 + i
    BY <1>2, <1>6
  <2> QED BY <1>2, <1>5, <2>1 DEF u
<1>8. Head(left).name \in Names /\ Head(left).size \in 0..MaxSize /\ Head(left).name = Name(u + 1)
  BY <1>1, <1>6, ArchiveFacts DEF Name
<1>9. Head(left).bytes = Head(left).size
  BY <1>1, <1>6 DEF CompleteInv
<1>10. \A i \in 1..Len(archive) : Name(i) = Head(left).name => i = u + 1
  <2> SUFFICES ASSUME NEW i \in 1..Len(archive), i # u + 1 PROVE Name(i) # Name(u + 1)
    BY <1>8
  <2>1. i < u + 1 \/ u + 1 < i
    BY <1>6
  <2>2. Name(i) \in Nat /\ Name(u + 1) \in Nat
    BY <1>1, <1>6, ArchiveFacts
  <2> QED BY <1>1, <1>6, <2>1, <2>2 DEF OrderInv
<1>11. Unpackable(Head(left).name)
  <2> DEFINE f == Head(left).name
  <2> SUFFICES ASSUME Parent[f] # 0 PROVE target[Parent[f]] # Absent
    BY DEF Unpackable
  <2>1. PICK j \in 1..Len(archive) : Name(j) = Parent[f]
    BY <1>1, <1>6, <1>8 DEF ParentInv, HasFolder, Has
  <2>2. Parent[f] < f /\ Parent[f] \notin Links /\ Name(j) \in Nat /\ f \in Nat
    BY <1>1, <1>8, <2>1, Constants, ArchiveFacts
  <2>3. j <= u
    <3>1. ~ (u + 1 < j) /\ j # u + 1
      BY <1>1, <1>6, <1>8, <2>1, <2>2 DEF OrderInv
    <3> QED BY <1>6, <3>1
  <2>4. target[Parent[f]] = archive[j].size
    BY <1>1, <2>1, <2>2, <2>3 DEF ExtractInv, u
  <2>5. archive[j].size \in 0..MaxSize
    BY <1>1, ArchiveFacts
  <2> QED BY <2>4, <2>5, Constants
<1> QED BY <1>2, <1>4, <1>6, <1>7, <1>8, <1>9, <1>10, <1>11 DEF u

LEMMA ExtractStep == ASSUME IInv, Extract PROVE IInv'
<1> DEFINE f == Head(left).name
           u == Unpacked
<1>1. /\ TypeOK /\ ExtractInv /\ pc = "extract" /\ left # <<>>
      /\ Unpack(f, Head(left).bytes) /\ left' = Tail(left) /\ pc' = pc
      /\ UNCHANGED <<size, names, folder, archive, unread, errors, steady, disturbed>>
      /\ UNCHANGED <<crashes, changes>>
  BY NextEntry DEF IInv, Extract
<1>2. /\ u \in 0..Len(archive) - 1 /\ u + 1 \in 1..Len(archive) /\ Len(left) \in Nat
      /\ Head(left) = archive[u + 1] /\ f = Name(u + 1)
      /\ Len(Tail(left)) = Len(left) - 1 /\ Tail(left) \in Seq(Entries)
      /\ \A i \in 1..Len(Tail(left)) : Tail(left)[i] = archive[u + 1 + i]
      /\ f \in Names /\ Head(left).size \in 0..MaxSize /\ Head(left).bytes = Head(left).size
      /\ \A i \in 1..Len(archive) : Name(i) = f => i = u + 1
  BY <1>1, NextEntry DEF Name
<1>3. Len(archive) \in Nat /\ Unpacked' = u + 1
  BY <1>1, <1>2, ArchiveFacts DEF Unpacked
<1>4. /\ target' \in [Names -> 0..Absent]
      /\ \A g \in Names : g # f => target'[g] = target[g]
      /\ f \in Links => target' = target
      /\ f \notin Links => target'[f] = Head(left).size
  <2>1. CASE f \in Links
    BY <1>1, <2>1 DEF Unpack, TypeOK
  <2>2. CASE f \notin Links
    <3> DEFINE b == Head(left).bytes
    <3>1. target' = [target EXCEPT ![f] = Overwrite(target[f], b)] /\ b \in 0..MaxSize
      BY <1>1, <1>2, <2>2 DEF Unpack
    <3>2. target[f] = Absent \/ target[f] <= b
      BY <1>1, <1>2, <2>2 DEF ExtractInv
    <3>3. target \in [Names -> 0..Absent] /\ target[f] \in 0..Absent
      BY <1>1, <1>2 DEF TypeOK
    <3>4. Overwrite(target[f], b) = b
      BY <3>1, <3>2, <3>3 DEF Overwrite
    <3>5. b \in 0..Absent
      BY <3>1, Constants
    <3> HIDE DEF b
    <3> QED BY <1>2, <2>2, <3>1, <3>3, <3>4, <3>5 DEF b
  <2> QED BY <2>1, <2>2
<1> HIDE DEF f, u
<1>5. TypeOK'
  BY <1>1, <1>2, <1>4 DEF TypeOK
<1>6. ExtractInv'
  <2>1. Len(left') <= Len(archive) /\ \A i \in 1..Len(left') : left'[i] = archive[u + 1 + i]
    BY <1>1, <1>2, <1>3 DEF ExtractInv
  <2>2. \A i \in 1..Len(archive) : Name(i) \notin Links =>
          /\ i <= u + 1 => target'[Name(i)] = archive[i].size
          /\ target'[Name(i)] = Absent \/ target'[Name(i)] <= archive[i].size
    <3> SUFFICES ASSUME NEW i \in 1..Len(archive), Name(i) \notin Links
                 PROVE  /\ i <= u + 1 => target'[Name(i)] = archive[i].size
                        /\ target'[Name(i)] = Absent \/ target'[Name(i)] <= archive[i].size
      OBVIOUS
    <3>1. CASE i = u + 1
      BY <1>2, <1>4, <3>1
    <3>2. CASE i # u + 1
      <4>1. target'[Name(i)] = target[Name(i)]
        BY <1>1, <1>2, <1>4, <3>2, ArchiveFacts
      <4>2. i <= u + 1 => i <= u
        BY <1>2, <3>2
      <4> QED BY <1>1, <4>1, <4>2 DEF ExtractInv, u
    <3> QED BY <3>1, <3>2
  <2>3. \A g \in Names :
          (g \in Links \/ \A i \in 1..Len(archive) : Name(i) # g) => target'[g] = Absent
    BY <1>1, <1>2, <1>4 DEF ExtractInv
  <2> QED BY <1>1, <1>3, <2>1, <2>2, <2>3 DEF ExtractInv, Name
<1> QED BY <1>1, <1>5, <1>6, PackedKept DEF IInv

LEMMA CrashStep == ASSUME IInv, Crash PROVE IInv'
<1> DEFINE f == Head(left).name
           u == Unpacked
<1>1. PICK part \in 0..Head(left).bytes : Unpack(f, part)
  BY DEF Crash
<1>2. /\ TypeOK /\ ExtractInv /\ pc = "extract" /\ left # <<>> /\ left' = archive /\ pc' = pc
      /\ crashes < MaxCrashes /\ crashes' = crashes + 1
      /\ UNCHANGED <<size, names, folder, archive, unread, errors, steady, disturbed, changes>>
  BY DEF IInv, Crash, walk
<1>3. /\ u + 1 \in 1..Len(archive) /\ Head(left) = archive[u + 1]
      /\ f = Name(u + 1) /\ f \in Names
      /\ Head(left).size \in 0..MaxSize /\ Head(left).bytes = Head(left).size
      /\ \A i \in 1..Len(archive) : Name(i) = f => i = u + 1
  BY <1>2, NextEntry DEF Name
<1>4. /\ target' \in [Names -> 0..Absent]
      /\ \A g \in Names : g # f => target'[g] = target[g]
      /\ f \in Links => target' = target
      /\ f \notin Links => target'[f] = Absent \/ target'[f] <= Head(left).size
  <2>1. CASE f \in Links
    BY <1>1, <1>2, <2>1 DEF Unpack, TypeOK
  <2>2. CASE f \notin Links
    <3>1. target' = [target EXCEPT ![f] = Overwrite(target[f], part)]
      BY <1>1, <2>2 DEF Unpack
    <3>2. target[f] = Absent \/ target[f] <= Head(left).size
      BY <1>2, <1>3, <2>2 DEF ExtractInv
    <3>3. target \in [Names -> 0..Absent] /\ target[f] \in 0..Absent
      BY <1>2, <1>3 DEF TypeOK
    <3>4. part \in 0..Absent /\ part <= Head(left).size
      BY <1>3, Constants
    <3>5. /\ Overwrite(target[f], part) \in 0..Absent
          /\ Overwrite(target[f], part) <= Head(left).size
      BY <3>2, <3>3, <3>4 DEF Overwrite
    <3> QED BY <1>3, <2>2, <3>1, <3>3, <3>5
  <2> QED BY <2>1, <2>2
<1> HIDE DEF f, u
<1>5. Len(archive) \in Nat /\ Unpacked' = 0
  BY <1>2, ArchiveFacts DEF Unpacked
<1>6. TypeOK'
  BY <1>2, <1>4, Constants DEF TypeOK
<1>7. ExtractInv'
  <2>1. \A i \in 1..Len(archive) : Name(i) \notin Links =>
          target'[Name(i)] = Absent \/ target'[Name(i)] <= archive[i].size
    <3> SUFFICES ASSUME NEW i \in 1..Len(archive), Name(i) \notin Links
                 PROVE  target'[Name(i)] = Absent \/ target'[Name(i)] <= archive[i].size
      OBVIOUS
    <3>1. CASE i = u + 1
      BY <1>3, <1>4, <3>1
    <3>2. CASE i # u + 1
      BY <1>2, <1>3, <1>4, <3>2, ArchiveFacts DEF ExtractInv
    <3> QED BY <3>1, <3>2
  <2>2. \A g \in Names :
          (g \in Links \/ \A i \in 1..Len(archive) : Name(i) # g) => target'[g] = Absent
    BY <1>2, <1>3, <1>4 DEF ExtractInv
  <2>3. \A i \in 1..Len(archive) : ~ (i <= 0) /\ 0 + i = i
    BY <1>5
  <2> QED BY <1>2, <1>5, <2>1, <2>2, <2>3 DEF ExtractInv, Name
<1> QED BY <1>2, <1>6, <1>7, PackedKept DEF IInv

LEMMA RestoredStep == ASSUME IInv, Restored PROVE IInv'
<1>1. /\ TypeOK /\ ExtractInv /\ pc = "extract" /\ pc' = "restored" /\ left = <<>>
      /\ UNCHANGED <<size, names, folder, archive, unread, errors, steady, disturbed>>
      /\ UNCHANGED <<target, left, crashes, changes>>
  BY DEF IInv, Restored, dest
<1>2. TypeOK' /\ ExtractInv'
  BY <1>1 DEF TypeOK, ExtractInv, Unpacked, Name
<1> QED BY <1>1, <1>2, PackedKept DEF IInv

-----------------------------------------------------------------------------

LEMMA LastType ==
  ASSUME TypeOK, CompleteInv, pc \in {"open", "copy"}
  PROVE  Last.name \in Names /\ Last.size \in Nat
<1>1. archive \in Seq(Entries) /\ archive # <<>>
  BY DEF TypeOK, CompleteInv
<1>2. Len(archive) \in 1..Len(archive)
  BY <1>1
<1>3. \A n \in 0..MaxSize : n \in Nat
  BY Constants
<1> QED BY <1>1, <1>2, <1>3, EntriesOf DEF Last

(* What a change of path f must respect of what CreateSnapshot is doing.    *)
LEMMA ChangeStep ==
  ASSUME IInv, NEW f \in Names, NEW to \in 0..Absent, Change(f, to),
         disturbed' \in BOOLEAN, disturbed => disturbed',
         to # Absent /\ Parent[f] # 0 => Exists(Parent[f]),
         to # Absent /\ Exists(f) => f \notin Folders,
         to = Absent => Children(f) = {} /\ ~ (pc = "copy" /\ Last.name = f),
         ~ disturbed' /\ to = Absent => ~ InHand(f) /\ f \notin names,
         ~ disturbed' /\ InHand(f) /\ Exists(f) => to <= size[f]
  PROVE  IInv'
<1> USE DEF Walking
<1>1. /\ TypeOK /\ CompleteInv /\ OrderInv /\ ParentInv /\ SteadyInv /\ QuietInv /\ ExtractInv
      /\ Walking /\ changes < MaxChanges /\ changes' = changes + 1
      /\ size' = [size EXCEPT ![f] = to] /\ steady' = steady \ {f}
      /\ UNCHANGED <<names, folder, pc, archive, unread, errors, target, left, crashes>>
  BY DEF IInv, Change, walk, dest
<1>2. size' \in [Names -> 0..Absent] /\ size'[f] = to /\ \A g \in Names : g # f => size'[g] = size[g]
  BY <1>1 DEF TypeOK
<1>3. TypeOK'
  BY <1>1, <1>2, Constants DEF TypeOK
<1>4. CompleteInv' /\ OrderInv' /\ ParentInv' /\ ExtractInv'
  BY <1>1 DEF CompleteInv, OrderInv, ParentInv, ExtractInv, HasFolder, Has, Name
<1>5. SteadyInv'
  <2>1. \A g \in Names : Exists(g)' /\ Parent[g] # 0 => Exists(Parent[g])'
    <3> SUFFICES ASSUME NEW g \in Names, Exists(g)', Parent[g] # 0 PROVE Exists(Parent[g])'
      OBVIOUS
    <3>1. Parent[g] \in Names /\ Parent[g] # g
      BY Constants
    <3>2. CASE g = f
      BY <1>2, <3>1, <3>2 DEF Exists
    <3>3. CASE g # f
      <4>1. Exists(g) /\ Exists(Parent[g])
        BY <1>1, <1>2, <3>3 DEF SteadyInv, Exists
      <4>2. Parent[g] = f => to # Absent
        BY <4>1 DEF Children
      <4> QED BY <1>2, <3>1, <4>1, <4>2 DEF Exists
    <3> QED BY <3>2, <3>3
  <2>2. \A g \in steady' : Exists(g)' /\ (Parent[g] # 0 => Parent[g] \in steady')
    <3> SUFFICES ASSUME NEW g \in steady' PROVE Exists(g)' /\ (Parent[g] # 0 => Parent[g] \in steady')
      OBVIOUS
    <3>1. g \in steady /\ g \in Names /\ g # f /\ Exists(g)
      BY <1>1 DEF SteadyInv, TypeOK
    <3>2. Exists(g)'
      BY <1>2, <3>1 DEF Exists
    <3>3. CASE Parent[g] # 0
      <4>1. Parent[g] \in Folders /\ Parent[g] \in steady /\ Exists(Parent[g])
        BY <1>1, <3>1, <3>3, Constants DEF SteadyInv
      <4>2. Parent[g] # f
        BY <3>1, <4>1 DEF Children
      <4> QED BY <1>1, <3>2, <4>1, <4>2
    <3> QED BY <3>2, <3>3
  <2>3. \A g : (Has(g)' <=> Has(g)) /\ (HasFolder(g)' <=> HasFolder(g))
    BY <1>1 DEF Has, HasFolder, Name
  <2> QED BY <1>1, <2>1, <2>2, <2>3 DEF SteadyInv, Name
<1>6. QuietInv'
  <2>1. pc = "copy" => Exists(Last.name)'
    BY <1>1, <1>2, LastType DEF QuietInv, Exists, Last
  <2>2. ~ disturbed' => \A g \in names : Exists(g)'
    BY <1>1, <1>2 DEF QuietInv, Exists, TypeOK
  <2>3. ASSUME pc \in {"open", "copy"}, ~ disturbed'
        PROVE  Exists(Last.name)' /\ (Last.name \notin Links => size'[Last.name] <= Last.size)
    <3>1. /\ ~ disturbed /\ Exists(Last.name) /\ Last.name \in Names /\ Last.size \in Nat
          /\ Last.name \notin Links => size[Last.name] <= Last.size
      BY <1>1, <2>3, LastType DEF QuietInv
    <3>2. CASE Last.name = f
      <4>1. to # Absent /\ to <= size[f]
        BY <2>3, <3>1, <3>2 DEF InHand
      <4>2. size[f] \in Nat /\ to \in Nat
        BY <1>1, Constants DEF TypeOK
      <4> QED BY <1>1, <1>2, <3>1, <3>2, <4>1, <4>2 DEF Exists, Last
    <3>3. CASE Last.name # f
      BY <1>1, <1>2, <3>1, <3>3 DEF Exists, Last
    <3> QED BY <3>2, <3>3
  <2> QED BY <1>1, <2>1, <2>2, <2>3 DEF QuietInv, Last
<1> QED BY <1>3, <1>4, <1>5, <1>6 DEF IInv

LEMMA PodStep ==
  ASSUME IInv, NEW f \in Names, Create(f) \/ Shrink(f) \/ Grow(f) \/ Delete(f)
  PROVE  IInv'
<1>1. /\ size[f] \in 0..Absent /\ disturbed \in BOOLEAN
      /\ Exists(f) /\ Parent[f] # 0 => Exists(Parent[f])
  BY DEF IInv, TypeOK, SteadyInv
<1>2. CASE Create(f)
  BY <1>1, <1>2, ChangeStep, Constants DEF Create
<1>3. CASE Shrink(f)
  <2>1. size[f] - 1 \in 0..Absent /\ size[f] - 1 # Absent /\ size[f] - 1 <= size[f]
    BY <1>1, <1>3, Constants DEF Shrink
  <2> QED BY <1>1, <1>3, <2>1, ChangeStep DEF Shrink
<1>4. CASE Grow(f)
  <2>1. size[f] + 1 \in 0..Absent /\ size[f] + 1 # Absent
    BY <1>1, <1>4, Constants DEF Grow
  <2>2. InHand(f) \in BOOLEAN /\ Change(f, size[f] + 1) /\ (disturbed' <=> disturbed \/ InHand(f))
    BY <1>4 DEF Grow, InHand
  <2> QED BY <1>1, <1>4, <2>1, <2>2, ChangeStep DEF Grow
<1>5. CASE Delete(f)
  <2>1. Absent \in 0..Absent
    BY Constants
  <2> QED BY <1>1, <1>5, <2>1, ChangeStep DEF Delete, InHand
<1> QED BY <1>2, <1>3, <1>4, <1>5

LEMMA StutterStep == ASSUME IInv, UNCHANGED vars PROVE IInv'
<1>1. /\ UNCHANGED <<size, names, folder, pc, archive, unread, errors, steady, disturbed>>
      /\ UNCHANGED <<target, left, crashes, changes>>
  BY DEF vars, walk, dest
<1>2. TypeOK' /\ CompleteInv' /\ OrderInv' /\ ParentInv'
  BY <1>1 DEF IInv, TypeOK, CompleteInv, OrderInv, ParentInv, HasFolder, Has, Name, Walking
<1>3. SteadyInv'
  BY <1>1 DEF IInv, SteadyInv, HasFolder, Has, Name, Exists, Walking
<1>4. QuietInv'
  BY <1>1 DEF IInv, QuietInv, Has, Name, Exists, Written, Last, Walking
<1>5. ExtractInv'
  BY <1>1 DEF IInv, ExtractInv, Unpacked, Name
<1> QED BY <1>2, <1>3, <1>4, <1>5 DEF IInv

LEMMA StepInv == IInv /\ [Next]_vars => IInv'
  BY ReaddirStep, LstatStep, OpenStep, CopyStep, WalkEndsStep, CloseStep, ExtractStep, CrashStep,
     RestoredStep, PodStep, StutterStep DEF Next

-----------------------------------------------------------------------------

(* The inductive invariant holds in every behaviour. *)
THEOREM Invariant == Spec => []IInv
  BY InitInv, StepInv, PTL DEF Spec

(* The types of Snapshotter hold for all folders and files, and any number *)
(* of changes and of extractions cut short.                                *)
THEOREM TypeCorrect == Spec => []TypeOK
<1>1. IInv => TypeOK
  BY DEF IInv
<1> QED BY <1>1, Invariant, PTL

(* No entry of a successful snapshot is shorter than its header says.      *)
THEOREM NoTornEntry == Spec => []NoShortEntry
<1>1. IInv => NoShortEntry
  <2> SUFFICES ASSUME IInv, Succeeded, NEW i \in DOMAIN archive
               PROVE  archive[i].bytes = archive[i].size
    BY DEF NoShortEntry
  <2>1. i \in 1..Len(archive)
    BY DEF IInv, TypeOK
  <2> QED BY <2>1 DEF IInv, CompleteInv, Succeeded
<1> QED BY <1>1, Invariant, PTL

LEMMA ArchivedHas == ASSUME TypeOK PROVE \A f : f \in Archived <=> Has(f)
<1>1. DOMAIN archive = 1..Len(archive)
  BY DEF TypeOK
<1> QED BY <1>1 DEF Archived, Has, Name

(* A folder that is quiet, with no system call failing, is packed whole.   *)
THEOREM QuietIsComplete == Spec => []QuietSnapshotComplete
<1>1. IInv => QuietSnapshotComplete
  <2> SUFFICES ASSUME IInv, Succeeded, ~ disturbed, errors = 0,
                      \A f \in Links : size[f] \in {0, Absent}
               PROVE  steady \subseteq Archived
    BY DEF QuietSnapshotComplete
  <2>1. Written
    <3>1. archive # <<>> => Len(archive) \in 1..Len(archive)
      BY DEF IInv, TypeOK
    <3> QED BY <3>1 DEF IInv, CompleteInv, Succeeded, Written, Last
  <2>2. \A f \in steady : Has(f)
    BY <2>1 DEF IInv, QuietInv, Succeeded, Walking
  <2> QED BY <2>2, ArchivedHas DEF IInv
<1> QED BY <1>1, Invariant, PTL

(* Of the unchanged paths, whatever fails, a successful snapshot misses a  *)
(* tail at most and the contents of folders whose names could not be read. *)
THEOREM MissesTailOnly == Spec => []OnlyTailMissing
<1>1. IInv => OnlyTailMissing
  <2> SUFFICES ASSUME IInv, NEW f \in steady, NEW g \in Archived, f < g,
                      Parent[f] \in Archived \union {0}
               PROVE  f \in Archived \/ Parent[f] \in unread
    BY DEF OnlyTailMissing
  <2>1. PICK i \in 1..Len(archive) : Name(i) = g
    BY ArchivedHas DEF IInv, Has
  <2>2. HasFolder(f)
    BY ArchivedHas DEF IInv, HasFolder
  <2> QED BY <2>1, <2>2, ArchivedHas DEF IInv, SteadyInv
<1> QED BY <1>1, Invariant, PTL

(* No extraction is refused, and one that ends has left exactly the        *)
(* archive's paths and sizes, however many attempts were cut short before. *)
THEOREM RestoresTheArchive == Spec => []RestoredExactly
<1>1. IInv => RestoredExactly
  <2> SUFFICES ASSUME IInv, pc \in {"restored", "refused"} PROVE
                 /\ pc = "restored"
                 /\ \A i \in DOMAIN archive :
                      archive[i].name \notin Links => target[archive[i].name] = archive[i].size
                 /\ \A f \in Names \ (Archived \ Links) : target[f] = Absent
    BY DEF RestoredExactly
  <2>1. pc = "restored" /\ left = <<>>
    BY DEF IInv, ExtractInv
  <2>2. DOMAIN archive = 1..Len(archive) /\ Len(archive) \in Nat /\ Unpacked = Len(archive)
    BY <2>1, ArchiveFacts DEF IInv, TypeOK, Unpacked
  <2>3. \A i \in DOMAIN archive :
          archive[i].name \notin Links => target[archive[i].name] = archive[i].size
    BY <2>1, <2>2 DEF IInv, ExtractInv, Name
  <2>4. \A f \in Names \ (Archived \ Links) : target[f] = Absent
    BY <2>1, ArchivedHas DEF IInv, ExtractInv, Has
  <2> QED BY <2>1, <2>3, <2>4
<1> QED BY <1>1, Invariant, PTL

=============================================================================
