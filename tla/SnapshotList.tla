---------------------------- MODULE SnapshotList ----------------------------
(***************************************************************************)
(* ListSnapshots of smb-csi/driver/controller.go and a client that pages   *)
(* through its replies, while VolumeSnapshotContents are created and       *)
(* deleted. The token of the next page is a position in the sorted list of *)
(* the moment, so pages of different moments may overlap or leave gaps.    *)
(* Of the replies the model keeps how often each content was listed.       *)
(***************************************************************************)
EXTENDS Naturals, FiniteSets

CONSTANTS
  Names,       \* names of contents, numbers for their order
  MaxEntries,  \* values of max_entries that clients ask with, 0 for "no limit"
  MaxChanges   \* contents created or deleted while a client pages

ASSUME ListAssumption ==
  /\ Names \subseteq Nat
  /\ MaxEntries \subseteq Nat
  /\ MaxChanges \in Nat

VARIABLES
  contents,  \* names of the contents in the API server
  bare,      \* contents whose status is not set yet
  limit,     \* the client's max_entries
  token,     \* the client's next starting_token, 0 for none
  client,    \* whether the client pages, has finished, or has got no reply
  listed,    \* how often each content is in the replies received
  stayed,    \* contents that were there with a status since the client began
  grown,     \* a content was created since then
  shrunk,    \* a content was deleted since then
  changes    \* creations and deletions so far

api    == <<contents, bare, stayed, grown, shrunk, changes>>
vars   == <<api, limit, token, client, listed>>

TypeOK ==
  /\ contents \subseteq Names
  /\ bare \subseteq contents
  /\ limit \in MaxEntries
  /\ token \in Nat
  /\ client \in {"paging", "finished", "down"}
  /\ listed \in [Names -> Nat]
  /\ stayed \subseteq contents
  /\ grown \in BOOLEAN /\ shrunk \in BOOLEAN
  /\ changes \in 0..MaxChanges

Init ==
  /\ contents \in SUBSET Names /\ IsFiniteSet(contents)
  /\ bare \in SUBSET contents
  /\ limit \in MaxEntries
  /\ token = 0
  /\ client = "paging"
  /\ listed = [n \in Names |-> 0]
  /\ stayed = contents
  /\ grown = FALSE /\ shrunk = FALSE
  /\ changes = 0

-----------------------------------------------------------------------------
(* ListSnapshots. *)

(* The contents sorted by their names. *)
Position(n) == Cardinality({m \in contents : m <= n})
Length      == Cardinality(contents)

Max_entries   == IF limit = 0 THEN Length ELSE limit
StartingIndex == IF token = 0 THEN 1 ELSE token

(* Faulty variants: the page ends one entry early, or one late. *)
PageShort ==
  {n \in contents : StartingIndex <= Position(n) /\ Position(n) + 1 < StartingIndex + Max_entries}

PageLong ==
  {n \in contents : StartingIndex <= Position(n) /\ Position(n) <= StartingIndex + Max_entries}

Page ==
  {n \in contents : StartingIndex <= Position(n) /\ Position(n) < StartingIndex + Max_entries}

(* Faulty variant: a token off the list. *)
NextTokenBelow ==
  IF StartingIndex + Max_entries <= Length THEN StartingIndex - 2 ELSE 0

NextToken == IF StartingIndex + Max_entries <= Length THEN StartingIndex + Max_entries ELSE 0

Requesting == client = "paging"

(* The page reaches the client, if every content in it has a status. *)
Reply ==
  /\ Page \intersect bare = {}
  /\ listed' = [n \in Names |-> IF n \in Page THEN listed[n] + 1 ELSE listed[n]]
  /\ token' = NextToken

(* Faulty variant: a token beyond the end of the list is an error. *)
ListSnapshotsStrict ==
  /\ Requesting
  /\ IF StartingIndex > Length /\ token # 0
       THEN UNCHANGED <<listed, token, client>>
       ELSE Reply /\ client' = IF token' = 0 THEN "finished" ELSE "paging"
  /\ UNCHANGED <<api, limit>>

(* A token beyond the end of the list gives an empty reply without token.  *)
ListSnapshots ==
  /\ Requesting
  /\ IF StartingIndex > Length THEN token' = 0 /\ UNCHANGED listed ELSE Reply
  /\ client' = IF token' = 0 THEN "finished" ELSE "paging"
  /\ UNCHANGED <<api, limit>>

(* The status of a listed content is taken for set: if it is not, the type *)
(* assertion panics, and the driver's process with it.                     *)
PanicOnStatus ==
  /\ Requesting
  /\ StartingIndex <= Length /\ Page \intersect bare # {}
  /\ client' = "down"
  /\ UNCHANGED <<api, limit, token, listed>>

(* The API server fails to list the contents, and the call with it. A      *)
(* client may ask again with its token, which changes nothing, or give up. *)
ListFails ==
  /\ Requesting
  /\ client' = "down"
  /\ UNCHANGED <<api, limit, token, listed>>

-----------------------------------------------------------------------------
(* The snapshot controller, and the client's restart. *)

Created(n) ==
  /\ n \notin contents /\ changes < MaxChanges
  /\ contents' = contents \union {n}
  /\ bare' = bare \union {n}
  /\ grown' = TRUE
  /\ changes' = changes + 1
  /\ UNCHANGED <<stayed, shrunk, limit, token, client, listed>>

StatusSet(n) ==
  /\ n \in bare
  /\ bare' = bare \ {n}
  /\ UNCHANGED <<contents, stayed, grown, shrunk, changes, limit, token, client, listed>>

Deleted(n) ==
  /\ n \in contents /\ changes < MaxChanges
  /\ contents' = contents \ {n}
  /\ bare' = bare \ {n}
  /\ stayed' = stayed \ {n}
  /\ shrunk' = TRUE
  /\ changes' = changes + 1
  /\ UNCHANGED <<grown, limit, token, client, listed>>

(* The client starts again from its first page, after a panic with a new   *)
(* driver.                                                                 *)
StartOver ==
  /\ ~Requesting
  /\ client' = "paging"
  /\ token' = 0
  /\ listed' = [n \in Names |-> 0]
  /\ stayed' = contents
  /\ grown' = FALSE /\ shrunk' = FALSE
  /\ UNCHANGED <<contents, bare, limit, changes>>

Next ==
  \/ ListSnapshots \/ PanicOnStatus \/ ListFails \/ StartOver
  \/ \E n \in Names : Created(n) \/ StatusSet(n) \/ Deleted(n)

Spec == Init /\ [][Next]_vars

(* The client asks for page after page, and again if it got no reply: the  *)
(* API server does not fail for ever.                                      *)
FairSpec == Spec /\ WF_vars(ListSnapshots \/ PanicOnStatus)

-----------------------------------------------------------------------------
(* Properties. *)

(* A client that pages to the end sees every content that was there all    *)
(* the time, as long as none is deleted meanwhile: contents that appear    *)
(* push others to later positions, never to earlier ones.                  *)
NoneSkipped == client = "finished" /\ ~shrunk => \A n \in stayed : listed[n] > 0

(* No content is listed twice as long as none is created meanwhile. *)
NoneRepeated == ~grown => \A n \in Names : listed[n] <= 1

(* Paging comes to an end, or to a panic or an error, whatever appears and *)
(* goes.                                                                   *)
PagingEnds == Requesting ~> ~Requesting

=============================================================================
