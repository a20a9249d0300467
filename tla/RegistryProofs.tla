---------------------------- MODULE RegistryProofs ----------------------------
(***************************************************************************)
(* Proofs about Registry, for all voters, hash functions, postal codes and *)
(* sizes of the filter: the types, that the counters agree with what they  *)
(* count, and that the program implements Poll.                            *)
(***************************************************************************)
EXTENDS Registry, FiniteSetTheorems, TLAPS

\* What a list still points to, before anybody was deleted.
ListsExact == ~purged => \A p \in DOMAIN area : area[p].listed \subseteq LivesIn(p)

\* The filter has the bits of everybody whose hash is a function of the id.
FilterCovers ==
  pc \in {"command", "load"} =>
    \A v \in Registered \ Long :
      Places(filter.size, v, Murmur[v]) \subseteq filter.bits

\* The register is empty after the registry was read only when it was emptied.
NeverEmpty == pc \in {"command", "load"} /\ ~purged => Registered # {}

\* The two halves of TypeOK.
VotersType ==
  /\ Registered \subseteq Ids /\ post \in [Registered -> Codes]
  /\ hasvoted \subseteq Registered
  /\ DOMAIN area \subseteq Codes
  /\ area \in [DOMAIN area -> [members : Nat, votes : Nat, listed : SUBSET Ids]]
  /\ count \in Nat /\ havevoted \in Nat

OtherType ==
  /\ pc \in {"reading", "command", "load", "ended", "eof", "undefined"}
  /\ DOMAIN filter = {"size", "bits"} /\ updates \in 0 .. NumOfUpdates
  /\ keys \in Seq(Ids) /\ purged \in BOOLEAN

VotersInv ==
  /\ VotersType /\ CountersAgree /\ ListsExact
  /\ IsFiniteSet(Registered)

RegistryInv == VotersInv /\ OtherType /\ FilterCovers /\ NeverEmpty

-------------------------------------------------------------------------------
(* Facts the proofs are made of. *)

\* The sets that are counted are finite, and their sizes numbers.
LEMMA CountedSets ==
  ASSUME VotersInv
  PROVE  /\ IsFiniteSet(hasvoted)
         /\ \A p : IsFiniteSet(LivesIn(p)) /\ IsFiniteSet(LivesIn(p) \cap hasvoted)
         /\ Cardinality(Registered) \in Nat /\ Cardinality(hasvoted) \in Nat
         /\ \A p : /\ Cardinality(LivesIn(p)) \in Nat
                   /\ Cardinality(LivesIn(p) \cap hasvoted) \in Nat
<1>1. IsFiniteSet(Registered) /\ hasvoted \subseteq Registered
  BY DEF VotersInv, VotersType
<1>2. IsFiniteSet(hasvoted)
  BY <1>1, FS_Subset
<1>3. \A p : IsFiniteSet(LivesIn(p)) /\ IsFiniteSet(LivesIn(p) \cap hasvoted)
  <2> TAKE p
  <2>1. LivesIn(p) \subseteq Registered /\ LivesIn(p) \cap hasvoted \subseteq Registered
    BY DEF LivesIn
  <2> QED BY <1>1, <2>1, FS_Subset
<1> QED BY <1>1, <1>2, <1>3, FS_CardinalityType

\* A code that is not in the tree has no voters.
LEMMA NobodyElsewhere ==
  ASSUME VotersInv, NEW p, p \notin DOMAIN area
  PROVE  LivesIn(p) = {}
  BY DEF VotersInv, CountersAgree, LivesIn

\* Somebody lives in every code of the tree.
LEMMA SomebodyThere ==
  ASSUME VotersInv
  PROVE  /\ DOMAIN area = {p \in Codes : LivesIn(p) # {}}
         /\ \A v \in Registered : post[v] \in DOMAIN area /\ post[v] \in Codes
  BY DEF VotersInv, VotersType, CountersAgree, LivesIn

-------------------------------------------------------------------------------
(* A voter enters. *)

LEMMA EnterSets ==
  ASSUME VotersInv, NEW v \in Ids, NEW p \in Codes, v \notin Registered, Enter(v, p)
  PROVE  /\ Registered' = Registered \cup {v}
         /\ post' \in [Registered' -> Codes]
         /\ \A w \in Registered : post'[w] = post[w]
         /\ post'[v] = p
         /\ hasvoted' = hasvoted /\ v \notin hasvoted
         /\ LivesIn(p)' = LivesIn(p) \cup {v} /\ v \notin LivesIn(p)
         /\ \A q : q # p => LivesIn(q)' = LivesIn(q)
<1>1. Registered' = Registered \cup {v}
  BY DEF Enter, Registered
<1>2. /\ post' \in [Registered' -> Codes]
      /\ \A w \in Registered : post'[w] = post[w]
      /\ post'[v] = p
  BY <1>1 DEF Enter, VotersInv, VotersType
<1>3. hasvoted' = hasvoted /\ v \notin hasvoted
  BY DEF Enter, VotersInv, VotersType
<1>4. LivesIn(p)' = LivesIn(p) \cup {v} /\ v \notin LivesIn(p)
  BY <1>1, <1>2 DEF LivesIn
<1>5. \A q : q # p => LivesIn(q)' = LivesIn(q)
  BY <1>1, <1>2 DEF LivesIn
<1> QED BY <1>1, <1>2, <1>3, <1>4, <1>5

LEMMA EnterArea ==
  ASSUME VotersInv, NEW v \in Ids, NEW p \in Codes, v \notin Registered, Enter(v, p)
  PROVE  /\ DOMAIN area' = DOMAIN area \cup {p}
         /\ area' \in [DOMAIN area' -> [members : Nat, votes : Nat, listed : SUBSET Ids]]
         /\ \A q \in DOMAIN area \ {p} : area'[q] = area[q]
         /\ area'[p].members = Cardinality(LivesIn(p)) + 1
         /\ area'[p].votes = Cardinality(LivesIn(p) \cap hasvoted)
         /\ LivesIn(p) \cup {v} \subseteq area'[p].listed
         /\ area'[p].listed \subseteq AreaOf(p).listed \cup {v}
<1> DEFINE A == AreaOf(p)
<1>1. /\ A \in [members : Nat, votes : Nat, listed : SUBSET Ids]
      /\ A.members = Cardinality(LivesIn(p))
      /\ A.votes = Cardinality(LivesIn(p) \cap hasvoted)
      /\ LivesIn(p) \subseteq A.listed
  <2>1. CASE p \in DOMAIN area
    BY <2>1 DEF AreaOf, VotersInv, VotersType, CountersAgree
  <2>2. CASE p \notin DOMAIN area
    <3>1. LivesIn(p) = {} /\ LivesIn(p) \cap hasvoted = {}
      BY <2>2, NobodyElsewhere
    <3>2. Cardinality({}) = 0
      BY FS_EmptySet
    <3> QED BY <2>2, <3>1, <3>2 DEF AreaOf, NewArea
  <2> QED BY <2>1, <2>2
<1> DEFINE B == [members |-> A.members + 1, votes |-> A.votes,
                 listed |-> A.listed \cup {v}]
<1> HIDE DEF A
<1>2. /\ B \in [members : Nat, votes : Nat, listed : SUBSET Ids]
      /\ B.members = A.members + 1 /\ B.votes = A.votes /\ B.listed = A.listed \cup {v}
  BY <1>1
<1>3. area' = [q \in DOMAIN area \cup {p} |-> IF q = p THEN B ELSE area[q]]
  BY Zenon DEF Enter, A
<1>4. area \in [DOMAIN area -> [members : Nat, votes : Nat, listed : SUBSET Ids]]
  BY DEF VotersInv, VotersType
<1> HIDE DEF B
<1>5. DOMAIN area' = DOMAIN area \cup {p}
  BY <1>3
<1>6. area' \in [DOMAIN area' -> [members : Nat, votes : Nat, listed : SUBSET Ids]]
  BY <1>2, <1>3, <1>4
<1>7. area'[p] = B /\ \A q \in DOMAIN area \ {p} : area'[q] = area[q]
  BY <1>3
<1>8. /\ area'[p].members = Cardinality(LivesIn(p)) + 1
      /\ area'[p].votes = Cardinality(LivesIn(p) \cap hasvoted)
      /\ area'[p].listed = A.listed \cup {v}
  BY <1>1, <1>2, <1>7
<1>9. LivesIn(p) \cup {v} \subseteq area'[p].listed
  BY <1>1, <1>8
<1>10. area'[p].listed \subseteq AreaOf(p).listed \cup {v}
  BY <1>8 DEF A
<1> QED BY <1>5, <1>6, <1>7, <1>8, <1>9, <1>10

\* The registration of a new voter keeps the counters right.
LEMMA EnterInv ==
  ASSUME VotersInv, NEW v \in Ids, NEW p \in Codes, v \notin Registered,
         Enter(v, p), UNCHANGED purged
  PROVE  VotersInv'
<1>1. /\ Registered' = Registered \cup {v}
      /\ post' \in [Registered' -> Codes]
      /\ \A w \in Registered : post'[w] = post[w]
      /\ post'[v] = p
      /\ hasvoted' = hasvoted /\ v \notin hasvoted
      /\ LivesIn(p)' = LivesIn(p) \cup {v} /\ v \notin LivesIn(p)
      /\ \A q : q # p => LivesIn(q)' = LivesIn(q)
  BY EnterSets
<1>2. /\ DOMAIN area' = DOMAIN area \cup {p}
      /\ area' \in [DOMAIN area' -> [members : Nat, votes : Nat, listed : SUBSET Ids]]
      /\ \A q \in DOMAIN area \ {p} : area'[q] = area[q]
      /\ area'[p].members = Cardinality(LivesIn(p)) + 1
      /\ area'[p].votes = Cardinality(LivesIn(p) \cap hasvoted)
      /\ LivesIn(p) \cup {v} \subseteq area'[p].listed
      /\ area'[p].listed \subseteq AreaOf(p).listed \cup {v}
  BY EnterArea
<1>3. count' = count + 1 /\ havevoted' = havevoted
  BY DEF Enter
<1>4. VotersType'
  BY <1>1, <1>2, <1>3 DEF VotersInv, VotersType
<1>5. IsFiniteSet(Registered') /\ Cardinality(Registered') = Cardinality(Registered) + 1
  BY <1>1, FS_AddElement DEF VotersInv
<1>6. count' = Cardinality(Registered') /\ havevoted' = Cardinality(hasvoted')
  BY <1>1, <1>3, <1>5 DEF VotersInv, CountersAgree
<1>7. DOMAIN area' = {post'[w] : w \in Registered'}
  <2>1. DOMAIN area = {post[w] : w \in Registered}
    BY DEF VotersInv, CountersAgree
  <2> QED BY <1>1, <1>2, <2>1
<1>8. ASSUME NEW q \in DOMAIN area'
      PROVE  /\ area'[q].members = Cardinality(LivesIn(q)')
             /\ area'[q].votes = Cardinality(LivesIn(q)' \cap hasvoted')
             /\ LivesIn(q)' \subseteq area'[q].listed
  <2>1. CASE q = p
    <3>1. Cardinality(LivesIn(p) \cup {v}) = Cardinality(LivesIn(p)) + 1
      BY <1>1, CountedSets, FS_AddElement
    <3>2. LivesIn(p)' \cap hasvoted' = LivesIn(p) \cap hasvoted
      BY <1>1
    <3> QED BY <1>1, <1>2, <2>1, <3>1, <3>2
  <2>2. CASE q # p
    <3>1. q \in DOMAIN area \ {p}
      BY <1>2, <1>8, <2>2
    <3>2. LivesIn(q)' = LivesIn(q) /\ area'[q] = area[q] /\ hasvoted' = hasvoted
      BY <1>1, <1>2, <2>2, <3>1
    <3> QED BY <3>1, <3>2 DEF VotersInv, CountersAgree
  <2> QED BY <2>1, <2>2
<1>9. CountersAgree'
  BY <1>6, <1>7, <1>8 DEF CountersAgree
<1>10. ListsExact'
  <2> SUFFICES ASSUME ~purged, NEW q \in DOMAIN area'
               PROVE  area'[q].listed \subseteq LivesIn(q)'
    BY DEF ListsExact
  <2>1. CASE q = p
    <3>1. AreaOf(p).listed \subseteq LivesIn(p)
      BY DEF AreaOf, NewArea, VotersInv, ListsExact
    <3> QED BY <1>1, <1>2, <2>1, <3>1
  <2>2. CASE q # p
    BY <1>1, <1>2, <2>2 DEF VotersInv, ListsExact
  <2> QED BY <2>1, <2>2
<1> QED BY <1>4, <1>5, <1>9, <1>10 DEF VotersInv

-------------------------------------------------------------------------------
(* A voter leaves. *)

LEMMA LeaveSets ==
  ASSUME VotersInv, NEW v \in Registered, NEW p, p = post[v], Leave(v)
  PROVE  /\ Registered' = Registered \ {v}
         /\ post' \in [Registered' -> Codes]
         /\ \A w \in Registered' : post'[w] = post[w]
         /\ hasvoted' = hasvoted \ {v}
         /\ v \in LivesIn(p)
         /\ \A q : LivesIn(q)' = LivesIn(q) \ {v}
         /\ \A q : q # p => LivesIn(q)' = LivesIn(q) /\ v \notin LivesIn(q)
<1>1. Registered' = Registered \ {v}
  BY DEF Leave, Registered, Restrict
<1>2. /\ post' \in [Registered' -> Codes]
      /\ \A w \in Registered' : post'[w] = post[w]
  BY <1>1 DEF Leave, Restrict, VotersInv, VotersType
<1>3. hasvoted' = hasvoted \ {v}
  BY DEF Leave
<1>4. \A q : LivesIn(q)' = LivesIn(q) \ {v}
  BY <1>1, <1>2 DEF LivesIn
<1>5. /\ v \in LivesIn(p)
      /\ \A q : q # p => v \notin LivesIn(q)
  BY DEF LivesIn
<1>6. \A q : v \notin LivesIn(q) => LivesIn(q) \ {v} = LivesIn(q)
  OBVIOUS
<1> HIDE DEF LivesIn
<1> QED BY <1>1, <1>2, <1>3, <1>4, <1>5, <1>6

\* The sizes of a finite set and of a part of it without one element.
LEMMA OneLess ==
  ASSUME NEW S, IsFiniteSet(S), NEW v
  PROVE  /\ Cardinality(S \ {v}) = Cardinality(S) - One(v \in S)
         /\ Cardinality(S \ {v}) \in Nat /\ IsFiniteSet(S \ {v})
<1>1. IsFiniteSet(S \ {v}) /\ Cardinality(S \ {v}) = IF v \in S THEN Cardinality(S) - 1 ELSE Cardinality(S)
  BY FS_RemoveElement
<1>2. Cardinality(S \ {v}) \in Nat /\ Cardinality(S) \in Nat
  BY <1>1, FS_CardinalityType
<1> QED BY <1>1, <1>2 DEF One

LEMMA LeaveCounts ==
  ASSUME VotersInv, NEW v \in Registered, NEW p, p = post[v], Leave(v)
  PROVE  /\ Without(v) \in [members : Nat, votes : Nat, listed : SUBSET Ids]
         /\ Without(v).members = Cardinality(LivesIn(p)')
         /\ Without(v).votes = Cardinality(LivesIn(p)' \cap hasvoted')
         /\ LivesIn(p)' \subseteq Without(v).listed
         /\ Without(v).members = 0 <=> LivesIn(p)' = {}
         /\ count' = Cardinality(Registered') /\ IsFiniteSet(Registered')
         /\ havevoted' = Cardinality(hasvoted')
         /\ count' \in Nat /\ havevoted' \in Nat
<1> DEFINE L == LivesIn(p)
<1>1. /\ Registered' = Registered \ {v} /\ hasvoted' = hasvoted \ {v}
      /\ LivesIn(p)' = L \ {v} /\ v \in L
  BY LeaveSets
<1>2. p \in DOMAIN area
  BY SomebodyThere
<1>3. /\ area[p] \in [members : Nat, votes : Nat, listed : SUBSET Ids]
      /\ area[p].members = Cardinality(L)
      /\ area[p].votes = Cardinality(L \cap hasvoted)
      /\ L \subseteq area[p].listed
      /\ count = Cardinality(Registered) /\ havevoted = Cardinality(hasvoted)
  BY <1>2 DEF VotersInv, VotersType, CountersAgree
<1>4. IsFiniteSet(L) /\ IsFiniteSet(L \cap hasvoted) /\ IsFiniteSet(hasvoted)
      /\ IsFiniteSet(Registered)
  BY CountedSets DEF VotersInv
<1>5. Cardinality(L \ {v}) = Cardinality(L) - 1 /\ Cardinality(L \ {v}) \in Nat
      /\ IsFiniteSet(L \ {v})
  BY <1>1, <1>4, OneLess DEF One
<1>6. /\ Cardinality((L \cap hasvoted) \ {v}) = Cardinality(L \cap hasvoted) - One(v \in hasvoted)
      /\ Cardinality((L \cap hasvoted) \ {v}) \in Nat
  <2>1. /\ Cardinality((L \cap hasvoted) \ {v}) = Cardinality(L \cap hasvoted) - One(v \in L \cap hasvoted)
        /\ Cardinality((L \cap hasvoted) \ {v}) \in Nat
    BY <1>4, OneLess
  <2>2. One(v \in L \cap hasvoted) = One(v \in hasvoted)
    BY <1>1 DEF One
  <2> QED BY <2>1, <2>2
<1>7. (L \cap hasvoted) \ {v} = LivesIn(p)' \cap hasvoted'
  BY <1>1
<1>8. /\ Without(v).members = area[p].members - 1
      /\ Without(v).votes = area[p].votes - One(v \in hasvoted)
      /\ Without(v).listed = area[p].listed
      /\ Without(v) = [members |-> Without(v).members, votes |-> Without(v).votes,
                       listed |-> Without(v).listed]
  BY DEF Without
<1>9. /\ Without(v).members = Cardinality(LivesIn(p)')
      /\ Without(v).votes = Cardinality(LivesIn(p)' \cap hasvoted')
      /\ Without(v).listed = area[p].listed
      /\ Without(v).members \in Nat /\ Without(v).votes \in Nat
  BY <1>1, <1>3, <1>5, <1>6, <1>7, <1>8
<1>10. Without(v) \in [members : Nat, votes : Nat, listed : SUBSET Ids]
  BY <1>3, <1>8, <1>9
<1>11. Without(v).members = 0 <=> LivesIn(p)' = {}
  BY <1>1, <1>5, <1>9, FS_EmptySet
<1>12. /\ Cardinality(Registered \ {v}) = Cardinality(Registered) - 1
       /\ Cardinality(Registered \ {v}) \in Nat /\ IsFiniteSet(Registered \ {v})
  BY <1>4, OneLess DEF One
<1>13. /\ Cardinality(hasvoted \ {v}) = Cardinality(hasvoted) - One(v \in hasvoted)
       /\ Cardinality(hasvoted \ {v}) \in Nat
  BY <1>4, OneLess
<1>14. count' = count - 1 /\ havevoted' = havevoted - One(v \in hasvoted)
  BY DEF Leave
<1> QED BY <1>1, <1>3, <1>9, <1>10, <1>11, <1>12, <1>13, <1>14

LEMMA LeaveInv ==
  ASSUME VotersInv, NEW v \in Registered, NEW p, p = post[v], Leave(v), purged'
  PROVE  VotersInv'
<1> DEFINE W == Without(v)
<1>1. /\ Registered' = Registered \ {v}
      /\ post' \in [Registered' -> Codes]
      /\ \A w \in Registered' : post'[w] = post[w]
      /\ hasvoted' = hasvoted \ {v}
      /\ LivesIn(p)' = LivesIn(p) \ {v} /\ v \in LivesIn(p)
      /\ \A q : q # p => LivesIn(q)' = LivesIn(q) /\ v \notin LivesIn(q)
  BY LeaveSets
<1>2. /\ W \in [members : Nat, votes : Nat, listed : SUBSET Ids]
      /\ W.members = Cardinality(LivesIn(p)')
      /\ W.votes = Cardinality(LivesIn(p)' \cap hasvoted')
      /\ LivesIn(p)' \subseteq W.listed
      /\ W.members = 0 <=> LivesIn(p)' = {}
      /\ count' = Cardinality(Registered') /\ IsFiniteSet(Registered')
      /\ havevoted' = Cardinality(hasvoted')
      /\ count' \in Nat /\ havevoted' \in Nat
  BY LeaveCounts
<1>3. p \in DOMAIN area /\ DOMAIN area = {post[w] : w \in Registered}
      /\ area \in [DOMAIN area -> [members : Nat, votes : Nat, listed : SUBSET Ids]]
      /\ DOMAIN area \subseteq Codes
  BY SomebodyThere DEF VotersInv, VotersType, CountersAgree
<1>4. area' = IF W.members = 0 THEN Restrict(area, DOMAIN area \ {p})
              ELSE [area EXCEPT ![p] = W]
  BY DEF Leave
<1> HIDE DEF W
<1>5. /\ DOMAIN area' = {q \in DOMAIN area : LivesIn(q)' # {}}
      /\ area' \in [DOMAIN area' -> [members : Nat, votes : Nat, listed : SUBSET Ids]]
      /\ p \in DOMAIN area' => area'[p] = W
      /\ \A q \in DOMAIN area' \ {p} : area'[q] = area[q]
  <2>0. \A q \in DOMAIN area \ {p} : LivesIn(q)' # {}
    BY <1>1, SomebodyThere
  <2>1. CASE W.members = 0
    <3>1. area' = [q \in DOMAIN area \ {p} |-> area[q]]
      BY <1>4, <2>1 DEF Restrict
    <3>2. DOMAIN area' = DOMAIN area \ {p}
      BY <3>1
    <3>3. LivesIn(p)' = {}
      BY <1>2, <2>1
    <3>4. DOMAIN area' = {q \in DOMAIN area : LivesIn(q)' # {}}
      BY <2>0, <3>2, <3>3
    <3>5. area' \in [DOMAIN area' -> [members : Nat, votes : Nat, listed : SUBSET Ids]]
      BY <1>3, <3>1, <3>2
    <3> QED BY <3>1, <3>2, <3>4, <3>5
  <2>2. CASE W.members # 0
    <3>1. area' = [area EXCEPT ![p] = W]
      BY <1>4, <2>2
    <3>2. DOMAIN area' = DOMAIN area
      BY <3>1
    <3>3. LivesIn(p)' # {}
      BY <1>2, <2>2
    <3>4. DOMAIN area' = {q \in DOMAIN area : LivesIn(q)' # {}}
      BY <2>0, <3>2, <3>3
    <3>5. area' \in [DOMAIN area' -> [members : Nat, votes : Nat, listed : SUBSET Ids]]
      BY <1>2, <1>3, <3>1, <3>2
    <3> QED BY <1>3, <3>1, <3>2, <3>4, <3>5
  <2> QED BY <2>1, <2>2
<1>6. VotersType'
  <2>1. Registered' \subseteq Ids /\ hasvoted' \subseteq Registered'
    BY <1>1 DEF VotersInv, VotersType
  <2> QED BY <1>1, <1>2, <1>3, <1>5, <2>1 DEF VotersType
<1>7. DOMAIN area' = {post'[w] : w \in Registered'}
  <2>1. ASSUME NEW q \in DOMAIN area' PROVE q \in {post'[w] : w \in Registered'}
    BY <1>5, <2>1 DEF LivesIn
  <2>2. ASSUME NEW w \in Registered' PROVE post'[w] \in DOMAIN area'
    <3>1. w \in LivesIn(post[w])' /\ post[w] \in DOMAIN area
      BY <1>1, <1>3 DEF LivesIn
    <3> QED BY <1>1, <1>5, <3>1
  <2> QED BY <2>1, <2>2
<1>8. ASSUME NEW q \in DOMAIN area'
      PROVE  /\ area'[q].members = Cardinality(LivesIn(q)')
             /\ area'[q].votes = Cardinality(LivesIn(q)' \cap hasvoted')
             /\ LivesIn(q)' \subseteq area'[q].listed
  <2>1. CASE q = p
    BY <1>2, <1>5, <2>1
  <2>2. CASE q # p
    <3>1. /\ q \in DOMAIN area /\ area'[q] = area[q] /\ LivesIn(q)' = LivesIn(q)
          /\ LivesIn(q)' \cap hasvoted' = LivesIn(q) \cap hasvoted
      BY <1>1, <1>5, <2>2
    <3> QED BY <3>1 DEF VotersInv, CountersAgree
  <2> QED BY <2>1, <2>2
<1>9. CountersAgree'
  BY <1>2, <1>7, <1>8 DEF CountersAgree
<1>10. ListsExact'
  BY DEF ListsExact
<1> QED BY <1>2, <1>6, <1>9, <1>10 DEF VotersInv

-------------------------------------------------------------------------------
(* A voter votes, and nothing happens to the voters. *)

LEMMA VoteInv ==
  ASSUME VotersInv, NEW v \in Registered, v \notin hasvoted, NEW p, p = post[v],
         hasvoted' = hasvoted \cup {v}, havevoted' = havevoted + 1,
         area' = [area EXCEPT ![p].votes = @ + 1],
         UNCHANGED <<post, count, purged>>
  PROVE  VotersInv'
<1>1. /\ Registered' = Registered /\ \A q : LivesIn(q)' = LivesIn(q)
      /\ v \in LivesIn(p) /\ \A q : q # p => v \notin LivesIn(q)
  BY DEF Registered, LivesIn
<1>2. p \in DOMAIN area
  BY SomebodyThere
<1>3. /\ area \in [DOMAIN area -> [members : Nat, votes : Nat, listed : SUBSET Ids]]
      /\ DOMAIN area \subseteq Codes /\ DOMAIN area = {post[w] : w \in Registered}
      /\ \A q \in DOMAIN area :
           /\ area[q].members = Cardinality(LivesIn(q))
           /\ area[q].votes = Cardinality(LivesIn(q) \cap hasvoted)
           /\ LivesIn(q) \subseteq area[q].listed
  BY DEF VotersInv, VotersType, CountersAgree
<1>4. /\ DOMAIN area' = DOMAIN area
      /\ area' \in [DOMAIN area -> [members : Nat, votes : Nat, listed : SUBSET Ids]]
      /\ \A q \in DOMAIN area \ {p} : area'[q] = area[q]
      /\ area'[p].members = area[p].members /\ area'[p].listed = area[p].listed
      /\ area'[p].votes = area[p].votes + 1
  BY <1>2, <1>3
<1>5. /\ Cardinality(hasvoted') = Cardinality(hasvoted) + 1
      /\ Cardinality(hasvoted') \in Nat
  <2>1. IsFiniteSet(hasvoted) /\ Cardinality(hasvoted) \in Nat
    BY CountedSets
  <2>2. Cardinality(hasvoted \cup {v}) = Cardinality(hasvoted) + 1
    BY <2>1, FS_AddElement
  <2>3. hasvoted' = hasvoted \cup {v}
    OBVIOUS
  <2> QED BY <2>1, <2>2, <2>3
<1>6. LivesIn(p) \cap hasvoted' = (LivesIn(p) \cap hasvoted) \cup {v}
  BY <1>1
<1>7. Cardinality(LivesIn(p) \cap hasvoted') = Cardinality(LivesIn(p) \cap hasvoted) + 1
  BY <1>6, CountedSets, FS_AddElement
<1>8. VotersType'
  BY <1>1, <1>3, <1>4 DEF VotersInv, VotersType
<1>9. ASSUME NEW q \in DOMAIN area'
      PROVE  /\ area'[q].members = Cardinality(LivesIn(q)')
             /\ area'[q].votes = Cardinality(LivesIn(q)' \cap hasvoted')
             /\ LivesIn(q)' \subseteq area'[q].listed
  <2>1. CASE q = p
    BY <1>1, <1>2, <1>3, <1>4, <1>7, <2>1
  <2>2. CASE q # p
    <3>1. LivesIn(q) \cap hasvoted' = LivesIn(q) \cap hasvoted
      BY <1>1, <2>2
    <3> QED BY <1>1, <1>3, <1>4, <2>2, <3>1
  <2> QED BY <2>1, <2>2
<1>10. CountersAgree'
  <2>1. DOMAIN area' = {post'[w] : w \in Registered'}
    BY <1>1, <1>3, <1>4
  <2>2. count' = Cardinality(Registered') /\ havevoted' = Cardinality(hasvoted')
    BY <1>1, <1>5 DEF VotersInv, CountersAgree
  <2> QED BY <1>9, <2>1, <2>2 DEF CountersAgree
<1>11. ListsExact'
  <2> SUFFICES ASSUME ~purged, NEW q \in DOMAIN area
               PROVE  area'[q].listed \subseteq LivesIn(q)'
    BY <1>4 DEF ListsExact
  <2>1. area[q].listed \subseteq LivesIn(q)
    BY DEF VotersInv, ListsExact
  <2>2. area'[q].listed = area[q].listed
    BY <1>4
  <2> QED BY <1>1, <2>1, <2>2
<1> QED BY <1>1, <1>8, <1>10, <1>11 DEF VotersInv

LEMMA SameVoters ==
  ASSUME VotersInv, UNCHANGED voters, UNCHANGED purged \/ purged'
  PROVE  VotersInv'
<1>1. UNCHANGED <<post, hasvoted, area, count, havevoted>>
  BY DEF voters
<1>2. Registered' = Registered /\ \A q : LivesIn(q)' = LivesIn(q)
  BY <1>1 DEF Registered, LivesIn
<1>3. VotersType' /\ IsFiniteSet(Registered')
  BY <1>1, <1>2 DEF VotersInv, VotersType
<1>4. CountersAgree'
  BY <1>1, <1>2 DEF VotersInv, CountersAgree
<1>5. ListsExact'
  BY <1>1, <1>2 DEF VotersInv, ListsExact
<1> QED BY <1>3, <1>4, <1>5 DEF VotersInv

-------------------------------------------------------------------------------
(* The filter. *)

LEMMA CountedType ==
  ASSUME NEW n \in Nat
  PROVE  Counted(n) \in 0 .. NumOfUpdates
  BY RegistryAssumption DEF Counted

LEMMA MakeCovers ==
  ASSUME NEW n, NEW vs, IsFiniteSet(vs), NEW upd \in Nat, Make(n, vs, upd)
  PROVE  /\ DOMAIN filter' = {"size", "bits"} /\ updates' \in 0 .. NumOfUpdates
         /\ \A w \in vs \ Long :
              Places(filter'.size, w, Murmur[w]) \subseteq filter'.bits
<1>1. updates' \in 0 .. NumOfUpdates
  <2>1. upd + Cardinality(vs) \in Nat
    BY FS_CardinalityType
  <2> QED BY <2>1, CountedType DEF Make
<1>2. PICK h : filter' = [size |-> CompSize(n),
                  bits |-> UNION {Places(CompSize(n), w,
                                         IF w \in Long THEN h[w] ELSE Murmur[w]) :
                                    w \in vs}]
  BY Zenon DEF Make
<1> DEFINE PlacesOf(w) == Places(CompSize(n), w, IF w \in Long THEN h[w] ELSE Murmur[w])
<1>3. filter' = [size |-> CompSize(n), bits |-> UNION {PlacesOf(w) : w \in vs}]
  BY <1>2
<1>4. \A w \in vs \ Long : PlacesOf(w) = Places(CompSize(n), w, Murmur[w])
  OBVIOUS
<1> HIDE DEF PlacesOf
<1>5. /\ DOMAIN filter' = {"size", "bits"} /\ filter'.size = CompSize(n)
      /\ filter'.bits = UNION {PlacesOf(w) : w \in vs}
  BY <1>3
<1>6. \A w \in vs : PlacesOf(w) \subseteq UNION {PlacesOf(u) : u \in vs}
  OBVIOUS
<1> QED BY <1>1, <1>4, <1>5, <1>6

LEMMA SetBitsCovers ==
  ASSUME OtherType, NEW v, SetBits(v),
         \A w \in Registered \ Long :
           Places(filter.size, w, Murmur[w]) \subseteq filter.bits
  PROVE  /\ DOMAIN filter' = {"size", "bits"} /\ updates' \in 0 .. NumOfUpdates
         /\ \A w \in (Registered \cup {v}) \ Long :
              Places(filter'.size, w, Murmur[w]) \subseteq filter'.bits
<1>1. updates' \in 0 .. NumOfUpdates
  <2>1. updates + 1 \in Nat
    BY RegistryAssumption DEF OtherType
  <2> QED BY <2>1, CountedType DEF SetBits
<1>2. PICK m \in Murmurs(filter.size, v) :
        filter' = [filter EXCEPT !.bits = @ \cup Places(filter.size, v, m)]
  BY DEF SetBits
<1>3. /\ DOMAIN filter' = {"size", "bits"} /\ filter'.size = filter.size
      /\ filter'.bits = filter.bits \cup Places(filter.size, v, m)
  BY <1>2 DEF OtherType
<1>4. v \notin Long => m = Murmur[v]
  BY DEF Murmurs
<1> QED BY <1>1, <1>3, <1>4

-------------------------------------------------------------------------------
(* The invariant. *)

LEMMA InitInv ==
  ASSUME Init
  PROVE  RegistryInv
<1>1. Registered = {} /\ DOMAIN area = {} /\ hasvoted = {}
  BY DEF Init, Registered
<1>2. Cardinality({}) = 0 /\ IsFiniteSet({})
  BY FS_EmptySet
<1>3. VotersType
  BY <1>1 DEF Init, VotersType
<1>4. CountersAgree
  BY <1>1, <1>2 DEF Init, CountersAgree
<1>5. ListsExact
  BY <1>1 DEF ListsExact
<1>6. OtherType
  <2>1. DOMAIN filter = {"size", "bits"}
    BY DEF Init
  <2>2. <<>> \in Seq(Ids) /\ 0 \in 0 .. NumOfUpdates
    BY RegistryAssumption
  <2> QED BY <2>1, <2>2 DEF Init, OtherType
<1>7. FilterCovers /\ NeverEmpty
  BY DEF Init, FilterCovers, NeverEmpty
<1> QED BY <1>1, <1>2, <1>3, <1>4, <1>5, <1>6, <1>7 DEF RegistryInv, VotersInv

\* A step that touches neither the voters nor the filter.
LEMMA QuietInv ==
  ASSUME RegistryInv, UNCHANGED <<voters, bloom>>, UNCHANGED purged \/ purged' = TRUE,
         pc' \in {"reading", "command", "load", "ended", "eof", "undefined"},
         keys' \in Seq(Ids),
         pc' \in {"command", "load"} => pc \in {"command", "load"} /\ UNCHANGED purged
  PROVE  RegistryInv'
<1>1. VotersInv'
  BY SameVoters DEF RegistryInv
<1>2. UNCHANGED <<post, filter, updates>> /\ Registered' = Registered
  BY DEF voters, bloom, Registered
<1>3. OtherType'
  BY <1>2 DEF RegistryInv, OtherType
<1>4. FilterCovers' /\ NeverEmpty'
  BY <1>2 DEF RegistryInv, FilterCovers, NeverEmpty
<1> QED BY <1>1, <1>3, <1>4 DEF RegistryInv

LEMMA AsksInv ==
  ASSUME RegistryInv, NEW what, Asks(what)
  PROVE  RegistryInv'
  BY QuietInv DEF Asks, RegistryInv, OtherType

LEMMA ReadRecordInv ==
  ASSUME RegistryInv, NEW v \in Ids, NEW p \in Codes, ReadRecord(v, p)
  PROVE  RegistryInv'
<1>1. VotersInv'
  BY EnterInv DEF RegistryInv, ReadRecord
<1>2. pc' = "reading" /\ UNCHANGED <<keys, purged, filter, updates>>
  BY DEF ReadRecord, bloom
<1>3. OtherType'
  BY <1>2 DEF RegistryInv, OtherType
<1>4. FilterCovers' /\ NeverEmpty'
  BY <1>2 DEF FilterCovers, NeverEmpty
<1> QED BY <1>1, <1>3, <1>4 DEF RegistryInv

LEMMA StartFilterInv ==
  ASSUME RegistryInv, StartFilter
  PROVE  RegistryInv'
<1>1. VotersInv' /\ Registered' = Registered
  BY SameVoters DEF RegistryInv, StartFilter, voters, Registered
<1>2. pc' = "command" /\ UNCHANGED <<keys, purged>> /\ Make(count, Registered, 0)
  BY DEF StartFilter
<1>3. IsFiniteSet(Registered) /\ count = Cardinality(Registered) /\ count # 0
  BY DEF RegistryInv, VotersInv, CountersAgree, StartFilter
<1>4. /\ DOMAIN filter' = {"size", "bits"} /\ updates' \in 0 .. NumOfUpdates
      /\ \A w \in Registered \ Long :
           Places(filter'.size, w, Murmur[w]) \subseteq filter'.bits
  BY <1>2, <1>3, MakeCovers
<1>5. OtherType'
  BY <1>2, <1>4 DEF RegistryInv, OtherType
<1>6. FilterCovers'
  BY <1>1, <1>4 DEF FilterCovers
<1>7. NeverEmpty'
  BY <1>1, <1>3, FS_EmptySet DEF NeverEmpty
<1> QED BY <1>1, <1>5, <1>6, <1>7 DEF RegistryInv

LEMMA InsInv ==
  ASSUME RegistryInv, NEW k \in Ids, NEW p \in Codes, Ins(k, p)
  PROVE  RegistryInv'
<1>1. VotersInv' /\ Registered' = Registered \cup {k}
  BY EnterInv, EnterSets DEF RegistryInv, Ins
<1>2. pc = "command" /\ UNCHANGED <<pc, keys, purged>>
      /\ AddToFilter(k, count + 1, Registered \cup {k})
  BY DEF Ins
<1>3. /\ DOMAIN filter' = {"size", "bits"} /\ updates' \in 0 .. NumOfUpdates
      /\ \A w \in (Registered \cup {k}) \ Long :
           Places(filter'.size, w, Murmur[w]) \subseteq filter'.bits
  <2>1. CASE updates + 1 >= NumOfUpdates
    <3>1. Make(count + 1, Registered \cup {k}, updates + 1)
      BY <1>2, <2>1 DEF AddToFilter
    <3>2. IsFiniteSet(Registered \cup {k})
      BY FS_AddElement DEF RegistryInv, VotersInv
    <3>3. updates + 1 \in Nat
      BY RegistryAssumption DEF RegistryInv, OtherType
    <3> QED BY <3>1, <3>2, <3>3, MakeCovers
  <2>2. CASE ~(updates + 1 >= NumOfUpdates)
    <3>1. SetBits(k)
      BY <1>2, <2>2 DEF AddToFilter
    <3>2. OtherType /\ \A w \in Registered \ Long :
                         Places(filter.size, w, Murmur[w]) \subseteq filter.bits
      BY <1>2 DEF RegistryInv, FilterCovers
    <3> QED BY <3>1, <3>2, SetBitsCovers
  <2> QED BY <2>1, <2>2
<1>4. OtherType'
  BY <1>2, <1>3 DEF RegistryInv, OtherType
<1>5. FilterCovers'
  BY <1>1, <1>3 DEF FilterCovers
<1>6. NeverEmpty'
  BY <1>1 DEF NeverEmpty
<1> QED BY <1>1, <1>4, <1>5, <1>6 DEF RegistryInv

LEMMA DeleteInv ==
  ASSUME RegistryInv, NEW k \in Ids, Delete(k)
  PROVE  RegistryInv'
<1>0. k \in Registered /\ purged' = TRUE /\ pc = "command" /\ UNCHANGED <<pc, keys>>
      /\ Leave(k) /\ DropFromFilter(count - 1, Registered \ {k})
  BY DEF Delete, Reached
<1>1. VotersInv' /\ Registered' = Registered \ {k}
  <2>1. purged' /\ VotersInv
    BY <1>0 DEF RegistryInv
  <2>2. PICK p : p = post[k]
    OBVIOUS
  <2> QED BY <1>0, <2>1, <2>2, LeaveInv, LeaveSets
<1>2. /\ DOMAIN filter' = {"size", "bits"} /\ updates' \in 0 .. NumOfUpdates
      /\ \A w \in (Registered \ {k}) \ Long :
           Places(filter'.size, w, Murmur[w]) \subseteq filter'.bits
  <2>1. CASE updates + 1 >= NumOfUpdates
    <3>1. Make(count - 1, Registered \ {k}, updates + 1)
      BY <1>0, <2>1 DEF DropFromFilter
    <3>2. IsFiniteSet(Registered \ {k})
      BY FS_RemoveElement DEF RegistryInv, VotersInv
    <3>3. updates + 1 \in Nat
      BY RegistryAssumption DEF RegistryInv, OtherType
    <3> QED BY <3>1, <3>2, <3>3, MakeCovers
  <2>2. CASE ~(updates + 1 >= NumOfUpdates)
    <3>1. updates' = updates + 1 /\ UNCHANGED filter
      BY <1>0, <2>2 DEF DropFromFilter
    <3>2. updates' \in 0 .. NumOfUpdates
      BY <2>2, <3>1, RegistryAssumption DEF RegistryInv, OtherType
    <3> QED BY <1>0, <3>1, <3>2 DEF RegistryInv, OtherType, FilterCovers
  <2> QED BY <2>1, <2>2
<1>3. OtherType'
  BY <1>0, <1>2 DEF RegistryInv, OtherType
<1>4. FilterCovers' /\ NeverEmpty'
  BY <1>0, <1>1, <1>2 DEF FilterCovers, NeverEmpty
<1> QED BY <1>1, <1>3, <1>4 DEF RegistryInv

\* Both callers of vote() leave pc, the filter and purged alone.
LEMMA VoteStepInv ==
  ASSUME RegistryInv, NEW k \in Ids, NEW rest \in Seq(Ids), Vote(k, rest),
         UNCHANGED <<pc, bloom, purged>>
  PROVE  RegistryInv'
<1>1. keys' = rest
  BY DEF Vote
<1>2. UNCHANGED post /\ VotersInv'
  <2>1. CASE UNCHANGED voters
    BY <2>1, SameVoters DEF RegistryInv, voters
  <2>2. CASE /\ Reached(k) /\ k \notin hasvoted
             /\ hasvoted' = hasvoted \cup {k}
             /\ area' = [area EXCEPT ![post[k]].votes = @ + 1]
             /\ havevoted' = havevoted + 1 /\ UNCHANGED <<post, count>>
    <3>1. k \in Registered /\ VotersInv
      BY <2>2 DEF Reached, RegistryInv
    <3>2. PICK p : p = post[k]
      OBVIOUS
    <3>3. area' = [area EXCEPT ![p].votes = @ + 1]
      BY <2>2, <3>2
    <3> QED BY <2>2, <3>1, <3>2, <3>3, VoteInv
  <2> QED BY <2>1, <2>2 DEF Vote
<1>3. UNCHANGED <<filter, updates>> /\ Registered' = Registered
  BY <1>2 DEF bloom, Registered
<1>4. OtherType'
  BY <1>1, <1>3 DEF RegistryInv, OtherType
<1>5. FilterCovers' /\ NeverEmpty'
  BY <1>3 DEF RegistryInv, FilterCovers, NeverEmpty
<1> QED BY <1>2, <1>4, <1>5 DEF RegistryInv

LEMMA StepInv ==
  ASSUME RegistryInv, [Next]_vars
  PROVE  RegistryInv'
<1>0. /\ pc \in {"reading", "command", "load", "ended", "eof", "undefined"}
      /\ keys \in Seq(Ids) /\ purged \in BOOLEAN
  BY DEF RegistryInv, OtherType
<1>1. ASSUME NEW v \in Ids, ReadDuplicate(v)
      PROVE  RegistryInv'
  BY <1>0, <1>1, QuietInv DEF ReadDuplicate
<1>2. ASSUME NEW v \in Ids, NEW p \in Codes, ReadRecord(v, p)
      PROVE  RegistryInv'
  BY <1>2, ReadRecordInv
<1>3. CASE GiveUp
  BY <1>0, <1>3, QuietInv DEF GiveUp
<1>4. CASE StartFilter
  BY <1>4, StartFilterInv
<1>5. ASSUME NEW k \in Ids, Command(k)
      PROVE  RegistryInv'
  <2>1. CASE Lbf(k) \/ Lrb(k) \/ Refuse(k) \/ Find(k) \/ DeleteMissing(k)
    BY <2>1, AsksInv DEF Lbf, Lrb, Refuse, Find, DeleteMissing
  <2>2. ASSUME NEW p \in Codes, Ins(k, p)
        PROVE  RegistryInv'
    BY <2>2, InsInv
  <2>3. ASSUME NEW p \in Codes, InsUndefined(k, p)
        PROVE  RegistryInv'
    BY <1>0, <2>3, QuietInv DEF InsUndefined, Undefined
  <2>4. CASE Delete(k)
    BY <2>4, DeleteInv
  <2>5. CASE DeleteUndefined(k)
    BY <1>0, <2>5, QuietInv DEF DeleteUndefined
  <2>6. CASE VoteCommand(k)
    BY <1>0, <2>6, VoteStepInv DEF VoteCommand
  <2> QED BY <1>5, <2>1, <2>2, <2>3, <2>4, <2>5, <2>6 DEF Command
<1>6. CASE Load
  <2>1. keys' \in Seq(Ids)
    <3>1. PICK n \in 0 .. MaxLines : keys' \in [1 .. n -> Ids]
      BY <1>6 DEF Load
    <3>2. n \in Nat
      BY RegistryAssumption
    <3> QED BY <3>1, <3>2
  <2> QED BY <1>0, <1>6, <2>1, QuietInv DEF Load
<1>7. CASE LoadLine
  <2>1. Head(keys) \in Ids /\ Tail(keys) \in Seq(Ids)
    BY <1>0, <1>7 DEF LoadLine
  <2> QED BY <1>7, <2>1, VoteStepInv DEF LoadLine
<1>8. CASE Loaded
  BY <1>0, <1>8, QuietInv DEF Loaded
<1>9. CASE Voted \/ (\E p \in Codes : VotedIn(p)) \/ VotedPerPc
  BY <1>9, AsksInv DEF Voted, VotedIn, VotedPerPc
<1>10. CASE Exit \/ EmptyUndefined \/ EndOfInput
  BY <1>0, <1>10, QuietInv DEF Exit, EmptyUndefined, Undefined, EndOfInput
<1>11. CASE UNCHANGED vars
  BY <1>0, <1>11, QuietInv DEF vars
<1> QED
  BY <1>1, <1>2, <1>3, <1>4, <1>5, <1>6, <1>7, <1>8, <1>9, <1>10, <1>11 DEF Next

LEMMA InvariantHolds == Spec => []RegistryInv
<1>1. Init => RegistryInv
  BY InitInv
<1>2. RegistryInv /\ [Next]_vars => RegistryInv'
  BY StepInv
<1> QED BY <1>1, <1>2, PTL DEF Spec

\* Every counter stays a natural number and every record has its type.
THEOREM TypeCorrect == Spec => []TypeOK
<1>1. RegistryInv => TypeOK
  BY DEF RegistryInv, VotersInv, VotersType, OtherType, TypeOK
<1> QED BY <1>1, InvariantHolds, PTL

\* count, havevoted and the members and votes of every postal code agree with the
\* trees, and every inhabitant is in the list of his postal code.
THEOREM CountersAreRight == Spec => []CountersAgree
<1>1. RegistryInv => CountersAgree
  BY DEF RegistryInv, VotersInv
<1> QED BY <1>1, InvariantHolds, PTL

-------------------------------------------------------------------------------
(* The program implements Poll. *)

Step == [Contract!Next]_Contract!vars

LEMMA FateOf ==
  /\ pc \in {"reading", "command", "load", "ended"} => Fate = "fine"
  /\ pc = "eof" => Fate = "input ended"
  /\ pc = "undefined" => Fate = "memory freed"
  BY DEF Fate

LEMMA FateNext ==
  /\ pc' \in {"reading", "command", "load", "ended"} => Fate' = "fine"
  /\ pc' = "eof" => Fate' = "input ended"
  /\ pc' = "undefined" => Fate' = "memory freed"
  BY DEF Fate

\* Only a voter with a long id can be missing in the filter.
LEMMA OnlyLong ==
  ASSUME RegistryInv, pc \in {"command", "load"}, NEW k \in Registered, MaybeOut(k)
  PROVE  k \in Long
  BY DEF RegistryInv, FilterCovers, MaybeOut, Murmurs

LEMMA SameCardinality == \A S : Contract!Cardinality(S) = Cardinality(S)
  BY DEF Cardinality, Contract!Cardinality

LEMMA SameSets ==
  ASSUME RegistryInv
  PROVE  /\ Contract!Registered = Registered
         /\ \A p : Contract!In(p) = LivesIn(p)
         /\ Contract!Inhabited = DOMAIN area
<1>1. Contract!Registered = Registered
  BY DEF Contract!Registered, Registered
<1>2. \A p : Contract!In(p) = LivesIn(p)
  BY <1>1 DEF Contract!In, LivesIn
<1>3. DOMAIN area = {p \in Codes : LivesIn(p) # {}}
  BY SomebodyThere DEF RegistryInv
<1> QED BY <1>1, <1>2, <1>3 DEF Contract!Inhabited

\* Somebody was deleted before the program uses freed memory or NULL.
LEMMA MisuseHasCause ==
  ASSUME RegistryInv,
         \/ \E k \in Ids, p \in Codes : InsUndefined(k, p)
         \/ \E k \in Ids : DeleteUndefined(k)
         \/ EmptyUndefined
  PROVE  purged' /\ pc = "command" /\ pc' = "undefined"
<1>1. ASSUME NEW k \in Ids, NEW p \in Codes, InsUndefined(k, p)
      PROVE  purged' /\ pc = "command" /\ pc' = "undefined"
  <2>1. PICK w : p \in DOMAIN area /\ w \in Freed(p)
    BY <1>1 DEF InsUndefined, CanEnter
  <2>2. w \in area[p].listed /\ w \notin LivesIn(p)
    BY <2>1 DEF Freed, LivesIn
  <2>3. purged
    BY <2>1, <2>2 DEF RegistryInv, VotersInv, ListsExact
  <2> QED BY <1>1, <2>3 DEF InsUndefined, Undefined
<1>2. ASSUME NEW k \in Ids, DeleteUndefined(k)
      PROVE  purged' /\ pc = "command" /\ pc' = "undefined"
  BY <1>2 DEF DeleteUndefined
<1>3. CASE EmptyUndefined
  <2>1. Registered = {}
    BY <1>3 DEF EmptyUndefined, RegistryInv, VotersInv, CountersAgree
  <2>2. purged
    BY <1>3, <2>1 DEF EmptyUndefined, RegistryInv, NeverEmpty
  <2> QED BY <1>3, <2>2 DEF EmptyUndefined, Undefined
<1> QED BY <1>1, <1>2, <1>3

\* The steps that leave the voters alone and do not end in freed memory.
LEMMA QuietImplements ==
  ASSUME RegistryInv, pc \in {"reading", "command", "load"},
         pc' \in {"reading", "command", "load", "ended"},
         UNCHANGED <<post, hasvoted, purged>>,
         \/ answer' = <<"nothing">>
         \/ \E k \in Ids : \/ answer' = <<"exists", k>>
                           \/ k \in Registered /\ answer' = <<"found", k, post[k]>>
                           \/ /\ k \in Registered => k \in Long
                              /\ answer' = <<"missing", k>>
                           \/ answer' = <<"possibly", k>>
                           \/ answer' = <<"tree", k, k \in Registered>>
                           \/ k \in hasvoted /\ answer' = <<"already", k>>
         \/ answer' = <<"registry", post>>
  PROVE  Contract!Next
<1>1. Fate = "fine" /\ Fate' = "fine"
  BY FateOf, FateNext
<1>2. Contract!Registered = Registered
  BY SameSets
<1>3. Contract!Same
  BY <1>1 DEF Contract!Same
<1>4. CASE answer' = <<"nothing">> \/ answer' = <<"registry", post>>
  BY <1>1, <1>3, <1>4
     DEF Contract!Next, Contract!Silence, Contract!PrintOut, Contract!Say
<1>5. ASSUME NEW k \in Ids,
             \/ answer' = <<"exists", k>>
             \/ k \in Registered /\ answer' = <<"found", k, post[k]>>
             \/ /\ k \in Registered => k \in Long
                /\ answer' = <<"missing", k>>
             \/ answer' = <<"possibly", k>>
             \/ answer' = <<"tree", k, k \in Registered>>
             \/ k \in hasvoted /\ answer' = <<"already", k>>
      PROVE  Contract!Next
  <2>1. \/ Contract!TurnAway(k) \/ Contract!Find(k) \/ Contract!Overlook(k)
        \/ Contract!Filtered(k) \/ Contract!Searched(k) \/ Contract!VoteAgain(k)
    BY <1>2, <1>3, <1>5
       DEF Contract!TurnAway, Contract!Find, Contract!Overlook, Contract!Filtered,
           Contract!Searched, Contract!VoteAgain, Contract!Say
  <2> QED BY <1>1, <2>1 DEF Contract!Next
<1> QED BY <1>4, <1>5

LEMMA VoteImplements ==
  ASSUME RegistryInv, pc \in {"command", "load"}, NEW k \in Ids, NEW rest,
         Vote(k, rest), UNCHANGED <<pc, purged>>
  PROVE  Contract!Next
<1>1. CASE NotReached(k) /\ answer' = <<"missing", k>> /\ UNCHANGED voters
  <2>1. k \in Registered => k \in Long
    BY <1>1, OnlyLong DEF NotReached
  <2> QED BY <1>1, <2>1, QuietImplements DEF voters
<1>2. CASE k \in hasvoted /\ answer' = <<"already", k>> /\ UNCHANGED voters
  BY <1>2, QuietImplements DEF voters
<1>3. CASE /\ Reached(k) /\ k \notin hasvoted /\ hasvoted' = hasvoted \cup {k}
           /\ answer' = <<"voted", k>> /\ UNCHANGED post
  <2>1. Fate = "fine" /\ Fate' = "fine"
    BY FateOf, FateNext
  <2>2. Contract!Vote(k)
    BY <1>3, <2>1, SameSets DEF Contract!Vote, Contract!Say, Reached
  <2> QED BY <2>1, <2>2 DEF Contract!Next
<1> QED BY <1>1, <1>2, <1>3 DEF Vote, Say

LEMMA RegisterImplements ==
  ASSUME RegistryInv, NEW v \in Ids, NEW p \in Codes, v \notin Registered, Enter(v, p),
         pc \in {"reading", "command"}, UNCHANGED <<pc, purged>>,
         answer' = <<"inserted", v>>
  PROVE  Contract!Next
<1>1. Fate = "fine" /\ Fate' = "fine"
  BY FateOf, FateNext
<1>2. Contract!Register(v, p)
  BY <1>1, SameSets DEF Contract!Register, Contract!Say, Enter
<1> QED BY <1>1, <1>2 DEF Contract!Next

LEMMA RemoveImplements ==
  ASSUME RegistryInv, NEW k \in Ids, Delete(k)
  PROVE  Contract!Next
<1>1. Fate = "fine" /\ Fate' = "fine"
  BY FateOf, FateNext DEF Delete
<1>2. Contract!Remove(k)
  BY <1>1, SameSets
     DEF Contract!Remove, Contract!Say, Delete, Say, Leave, Restrict, Reached
<1> QED BY <1>1, <1>2 DEF Contract!Next

\* The number of those who have voted, and the three answers per postal code.
LEMMA TotalsImplement ==
  ASSUME RegistryInv, Voted \/ (\E p \in Codes : VotedIn(p)) \/ VotedPerPc
  PROVE  Contract!Next
<1>1. /\ pc = "command" /\ UNCHANGED <<pc, post, hasvoted, purged>>
  BY DEF Voted, VotedIn, VotedPerPc, Asks, voters
<1>2. Fate = "fine" /\ Fate' = "fine" /\ Contract!Same
  BY <1>1, FateOf, FateNext DEF Contract!Same
<1>3. /\ \A p : Contract!In(p) = LivesIn(p)
      /\ Contract!Inhabited = DOMAIN area
  BY SameSets
<1>4. /\ havevoted = Cardinality(hasvoted)
      /\ \A p \in DOMAIN area :
           /\ area[p].members = Cardinality(LivesIn(p))
           /\ area[p].votes = Cardinality(LivesIn(p) \cap hasvoted)
  BY DEF RegistryInv, VotersInv, CountersAgree
<1>5. CASE Voted
  <2>1. Contract!Total
    BY <1>2, <1>4, <1>5, SameCardinality DEF Contract!Total, Contract!Say, Voted, Asks, Say
  <2> QED BY <1>2, <2>1 DEF Contract!Next
<1>6. ASSUME NEW p \in Codes, VotedIn(p)
      PROVE  Contract!Next
  <2>1. Contract!TotalIn(p)
    <3>1. answer' = IF p \in DOMAIN area THEN <<"in", p, area[p].votes>>
                    ELSE <<"nobody", p>>
      BY <1>6 DEF VotedIn, Asks, Say
    <3>2. answer' = IF p \in Contract!Inhabited
                    THEN <<"in", p, Cardinality(Contract!In(p) \cap hasvoted)>>
                    ELSE <<"nobody", p>>
      BY <1>3, <1>4, <3>1
    <3> QED BY <1>2, <3>2, SameCardinality DEF Contract!TotalIn, Contract!Say
  <2> QED BY <1>2, <2>1 DEF Contract!Next
<1>7. CASE VotedPerPc
  <2> DEFINE R(p) == <<Cardinality(Contract!In(p) \cap hasvoted),
                       Cardinality(Contract!In(p))>>
  <2>1. answer' = <<"rates", [p \in DOMAIN area |-> <<area[p].votes, area[p].members>>]>>
    BY <1>7 DEF VotedPerPc, Asks, Say
  <2>2. \A p \in DOMAIN area : <<area[p].votes, area[p].members>> = R(p)
    BY <1>3, <1>4
  <2> HIDE DEF R
  <2>3. [p \in DOMAIN area |-> <<area[p].votes, area[p].members>>]
          = [p \in Contract!Inhabited |-> R(p)]
    BY <1>3, <2>2
  <2>4. answer' = <<"rates", [p \in Contract!Inhabited |-> R(p)]>>
    BY <2>1, <2>3
  <2>5. [p \in Contract!Inhabited |-> R(p)]
          = [p \in Contract!Inhabited |->
               <<Contract!Cardinality(Contract!In(p) \cap hasvoted),
                 Contract!Cardinality(Contract!In(p))>>]
    BY SameCardinality DEF R
  <2>6. Contract!Rates
    BY <1>2, <2>4, <2>5 DEF Contract!Rates, Contract!Say
  <2> QED BY <1>2, <2>6 DEF Contract!Next
<1> QED BY <1>5, <1>6, <1>7

LEMMA CommandImplements ==
  ASSUME RegistryInv, NEW k \in Ids, Command(k)
  PROVE  Contract!Next
<1>1. CASE Lrb(k) \/ Refuse(k) \/ (MaybeIn(k) /\ Asks(<<"possibly", k>>))
  BY <1>1, QuietImplements DEF Lrb, Refuse, Asks, Say, voters
<1>2. CASE Find(k) \/ DeleteMissing(k) \/ (MaybeOut(k) /\ Asks(<<"missing", k>>))
  <2>1. pc = "command" /\ UNCHANGED <<pc, post, hasvoted, purged>>
    BY <1>2 DEF Find, DeleteMissing, Asks, voters
  <2>2. \/ k \in Registered /\ answer' = <<"found", k, post[k]>>
        \/ NotReached(k) /\ answer' = <<"missing", k>>
    BY <1>2 DEF Find, DeleteMissing, Asks, Say, Reached, NotReached
  <2>3. NotReached(k) => (k \in Registered => k \in Long)
    BY <2>1, OnlyLong DEF NotReached
  <2> QED BY <2>1, <2>2, <2>3, QuietImplements
<1>3. ASSUME NEW p \in Codes, Ins(k, p)
      PROVE  Contract!Next
  BY <1>3, RegisterImplements DEF Ins, Say
<1>4. CASE (\E p \in Codes : InsUndefined(k, p)) \/ DeleteUndefined(k)
  <2>1. purged' /\ pc = "command" /\ pc' = "undefined"
    BY <1>4, MisuseHasCause
  <2> QED BY <2>1, FateOf, FateNext DEF Contract!Next, Contract!Corrupt
<1>5. CASE Delete(k)
  BY <1>5, RemoveImplements
<1>6. CASE VoteCommand(k)
  BY <1>6, VoteImplements DEF VoteCommand
<1> QED BY <1>1, <1>2, <1>3, <1>4, <1>5, <1>6 DEF Command, Lbf

LEMMA StepImplements ==
  ASSUME RegistryInv, [Next]_vars
  PROVE  Step
<1>1. ASSUME NEW v \in Ids, ReadDuplicate(v)
      PROVE  Contract!Next
  BY <1>1, QuietImplements DEF ReadDuplicate, Say, voters
<1>2. ASSUME NEW v \in Ids, NEW p \in Codes, ReadRecord(v, p)
      PROVE  Contract!Next
  BY <1>2, RegisterImplements DEF ReadRecord, Say
<1>3. CASE GiveUp \/ StartFilter \/ Load \/ Loaded \/ Exit
  <2>1. /\ pc \in {"reading", "command", "load"}
        /\ pc' \in {"reading", "command", "load", "ended"}
        /\ UNCHANGED <<post, hasvoted, purged>>
        /\ answer' = <<"nothing">> \/ answer' = <<"registry", post>>
    BY <1>3 DEF GiveUp, StartFilter, Load, Loaded, Exit, SayNothing, Say, voters
  <2> QED BY <2>1, QuietImplements DEF Step
<1>4. ASSUME NEW k \in Ids, Command(k)
      PROVE  Contract!Next
  BY <1>4, CommandImplements
<1>5. CASE LoadLine
  <2>1. Head(keys) \in Ids
    BY <1>5 DEF LoadLine, RegistryInv, OtherType
  <2> QED BY <1>5, <2>1, VoteImplements DEF LoadLine, Step
<1>6. CASE Voted \/ (\E p \in Codes : VotedIn(p)) \/ VotedPerPc
  BY <1>6, TotalsImplement DEF Step
<1>7. CASE EmptyUndefined
  <2>1. purged' /\ pc = "command" /\ pc' = "undefined"
    BY <1>7, MisuseHasCause
  <2> QED BY <2>1, FateOf, FateNext DEF Step, Contract!Next, Contract!Corrupt
<1>8. CASE EndOfInput
  <2>1. pc = "command" /\ pc' = "eof"
    BY <1>8 DEF EndOfInput
  <2> QED BY <2>1, FateOf, FateNext DEF Step, Contract!Next, Contract!EndOfInput
<1>9. CASE UNCHANGED vars
  <2>1. UNCHANGED <<post, hasvoted, answer, purged, pc>>
    BY <1>9 DEF vars, voters
  <2> QED BY <2>1 DEF Step, Contract!vars, Fate
<1> QED
  BY <1>1, <1>2, <1>3, <1>4, <1>5, <1>6, <1>7, <1>8, <1>9 DEF Next, Step

\* Every answer is the one Poll gives, whatever the hashes and the size of the
\* filter are, and freed memory and NULL are used only after a deletion.
THEOREM ImplementsPoll == Spec => PollSpec
<1>1. Init => Contract!Init
  BY FateOf DEF Init, Contract!Init
<1>2. RegistryInv /\ [Next]_vars => [Contract!Next]_Contract!vars
  BY StepImplements DEF Step
<1> QED BY <1>1, <1>2, InvariantHolds, PTL DEF Spec, PollSpec, Contract!Spec
===============================================================================
