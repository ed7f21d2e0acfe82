----------------------- MODULE TimelapseListingProofs -----------------------
(***************************************************************************)
(* Proofs about TimelapseListing, for any jobs, page size and filters, and *)
(* whatever is submitted, expires, changes status and fails meanwhile.     *)
(***************************************************************************)
EXTENDS TimelapseListing, FiniteSetTheorems, WellFoundedInduction, TLAPS

-----------------------------------------------------------------------------
(* Finite sets of keys                                                     *)

LEMMA LeastIsThere ==
    ASSUME NEW S, S \subseteq Nat, S # {}
    PROVE  \E m \in S : \A x \in S : m <= x
<1>1. \E m \in S : \A k \in S : ~(<<k, m>> \in OpToRel(<, Nat))
  BY NatLessThanWellFounded, WFMin, Zenon
<1>2. PICK m \in S : \A k \in S : ~(k < m)
  BY <1>1 DEF OpToRel
<1> QED
  BY <1>2

(* Max, of FiniteSetsExt, is what it says: the member that fewest exceed.  *)
LEMMA MaxIsGreatest ==
    ASSUME NEW S, S \subseteq Nat, IsFiniteSet(S), S # {}
    PROVE  Max(S) \in S /\ \A x \in S : x <= Max(S)
<1> DEFINE Above(x) == {k \in S : k > x}
           T == {Cardinality(Above(x)) : x \in S}
<1>1. \A x \in S : IsFiniteSet(Above(x)) /\ Cardinality(Above(x)) \in Nat
  <2> SUFFICES ASSUME NEW x \in S PROVE IsFiniteSet(Above(x)) /\ Cardinality(Above(x)) \in Nat
    OBVIOUS
  <2>1. Above(x) \in SUBSET S
    OBVIOUS
  <2> HIDE DEF Above
  <2> QED
    BY <2>1, FS_Subset, FS_CardinalityType
<1>2. PICK x \in S : \A y \in S : Cardinality(Above(x)) <= Cardinality(Above(y))
  <2>1. T \subseteq Nat /\ T # {}
    BY <1>1
  <2>2. PICK m \in T : \A n \in T : m <= n
    <3> HIDE DEF T
    <3> QED
      BY <2>1, LeastIsThere
  <2>3. PICK x \in S : m = Cardinality(Above(x))
    OBVIOUS
  <2> QED
    BY <2>2, <2>3
<1>3. \A y \in S : x >= y
  <2> SUFFICES ASSUME NEW y \in S, y > x PROVE FALSE
    OBVIOUS
  <2>1. y \in Above(x) /\ Above(y) \in SUBSET (Above(x) \ {y})
    <3>1. x \in Nat /\ y \in Nat
      OBVIOUS
    <3>2. \A k \in S : k > y => k > x /\ k # y
      BY <3>1
    <3> QED
      BY <3>2
  <2> HIDE DEF Above
  <2>2. /\ IsFiniteSet(Above(x) \ {y})
        /\ Cardinality(Above(x) \ {y}) = Cardinality(Above(x)) - 1
    BY <1>1, <2>1, FS_RemoveElement
  <2>3. Cardinality(Above(y)) <= Cardinality(Above(x)) - 1
    BY <2>1, <2>2, FS_Subset
  <2> QED
    BY <1>1, <1>2, <2>3
<1> QED
  BY <1>3 DEF Max

(* A page has no more than its limit: created_at orders what it sorts.     *)
LEMMA TopIsCut ==
    ASSUME NEW S, IsFiniteSet(S), NEW n \in Nat,
           \A j \in S : created[j] \in Nat,
           \A j, k \in S : created[j] = created[k] => j = k
    PROVE  Top(S, n) \subseteq S /\ Cardinality(Top(S, n)) <= n
<1> DEFINE T == Top(S, n)
           Newer(j) == {k \in S : created[k] > created[j]}
<1>1. T \in SUBSET S /\ \A j \in T : Cardinality(Newer(j)) < n
  BY DEF Top
<1> HIDE DEF T
<1>2. IsFiniteSet(T)
  BY <1>1, FS_Subset
<1>3. CASE T = {}
  BY <1>3, FS_EmptySet DEF T
<1>4. CASE T # {}
  <2>1. PICK j \in T : \A k \in T : created[j] <= created[k]
    <3> DEFINE R == {created[k] : k \in T}
    <3>1. R \subseteq Nat /\ R # {}
      BY <1>1, <1>4
    <3>2. PICK m \in R : \A x \in R : m <= x
      <4> HIDE DEF R
      <4> QED
        BY <3>1, LeastIsThere
    <3>3. PICK j \in T : m = created[j]
      OBVIOUS
    <3> QED
      BY <3>2, <3>3
  <2>2. T \ {j} \in SUBSET Newer(j) /\ Newer(j) \in SUBSET S
    <3>1. \A k \in T \ {j} : created[k] > created[j]
      BY <1>1, <2>1
    <3> QED
      BY <1>1, <3>1
  <2>3. Cardinality(Newer(j)) < n
    BY <1>1, <2>1
  <2> HIDE DEF Newer
  <2>4. Cardinality(T \ {j}) <= Cardinality(Newer(j)) /\ Cardinality(Newer(j)) \in Nat
    BY <2>2, FS_Subset, FS_CardinalityType
  <2>5. /\ Cardinality(T \ {j}) = Cardinality(T) - 1
        /\ Cardinality(T) \in Nat
    BY <1>2, <2>1, FS_RemoveElement, FS_CardinalityType
  <2> QED
    BY <1>1, <2>3, <2>4, <2>5 DEF T
<1> QED
  BY <1>3, <1>4

(* and drops nothing of what fits.                                         *)
LEMMA TopKeepsAll ==
    ASSUME NEW S, IsFiniteSet(S), NEW n \in Nat, Cardinality(S) <= n,
           \A j \in S : created[j] \in Nat
    PROVE  Top(S, n) = S
<1> SUFFICES ASSUME NEW j \in S
             PROVE  Cardinality({k \in S : created[k] > created[j]}) < n
  BY DEF Top
<1> DEFINE Newer == {k \in S : created[k] > created[j]}
<1>1. Newer \in SUBSET (S \ {j})
  OBVIOUS
<1> HIDE DEF Newer
<1>2. /\ IsFiniteSet(S \ {j}) /\ Cardinality(S \ {j}) = Cardinality(S) - 1
      /\ Cardinality(S) \in Nat
  BY FS_RemoveElement, FS_CardinalityType
<1>3. Cardinality(Newer) <= Cardinality(S) - 1 /\ Cardinality(Newer) \in Nat
  BY <1>1, <1>2, FS_Subset, FS_CardinalityType
<1> QED
  BY <1>2, <1>3 DEF Newer

-----------------------------------------------------------------------------
(* The inductive invariant                                                 *)

InOrderOfKeys ==
    /\ \A j, k \in Jobs : created[j] = created[k] => j = k
    /\ client = "idle" => listed = {}
    /\ client = "waiting" =>
          /\ cursor <= resume
          /\ \A j \in collected : cursor < j /\ j <= resume
          /\ \A j \in listed : j <= cursor
    /\ client = "reading" /\ cursor # 0 => \A j \in listed : j <= cursor

(* Without a filter each request takes one Query, and what it has passed   *)
(* has been shown.                                                         *)
Unfiltered ==
    ~filtered =>
        /\ matching = Jobs /\ steady \subseteq table
        /\ client = "waiting" => resume = cursor /\ collected = {}
        /\ client = "waiting" \/ (client = "reading" /\ cursor # 0) =>
              \A j \in steady : j <= cursor => j \in listed
        /\ client = "done" \/ (client = "reading" /\ cursor = 0) => steady \subseteq listed

PInv == TypeOK /\ InOrderOfKeys /\ Unfiltered

(* What one Query returns: a run of the keys past the start, no longer     *)
(* than Limit, and none left where it reports the end.                     *)
LEMMA QueryReturns ==
    ASSUME TypeOK, NEW last \in LastEvaluatedKeys(FirstKeys(resume))
    PROVE  LET items == FirstKeys(resume)
           IN  /\ items \subseteq Past(resume) /\ items \subseteq Jobs /\ IsFiniteSet(items)
               /\ Cardinality(items) <= Limit
               /\ last = 0 => items = Past(resume)
               /\ last # 0 => /\ last \in items /\ \A j \in items : j <= last
                              /\ \A j \in Past(resume) : j <= last => j \in items
                              /\ Cardinality(items) >= Limit
<1> DEFINE P == Past(resume)
           items == FirstKeys(resume)
           UpTo(j) == {k \in P : k <= j}
<1> USE ListingAssumption
<1>1. P \in SUBSET Jobs /\ IsFiniteSet(P) /\ P \subseteq Nat
  <2>1. P \in SUBSET Jobs
    BY DEF Past, TypeOK
  <2> HIDE DEF P
  <2> QED
    BY <2>1, FS_Subset
<1>2. items = {j \in P : Cardinality(UpTo(j)) <= Limit}
  BY DEF FirstKeys
<1> HIDE DEF P, items
<1>3. items \in SUBSET P /\ IsFiniteSet(items) /\ Cardinality(items) \in Nat
  <2>1. items \in SUBSET P
    BY <1>2
  <2> QED
    BY <1>1, <2>1, FS_Subset, FS_CardinalityType
<1>4. \A j \in P : IsFiniteSet(UpTo(j)) /\ Cardinality(UpTo(j)) \in Nat
  <2> SUFFICES ASSUME NEW j \in P PROVE IsFiniteSet(UpTo(j)) /\ Cardinality(UpTo(j)) \in Nat
    OBVIOUS
  <2>1. UpTo(j) \in SUBSET P
    OBVIOUS
  <2> HIDE DEF UpTo
  <2> QED
    BY <1>1, <2>1, FS_Subset, FS_CardinalityType
<1>5. ASSUME NEW m \in items, NEW j \in P, j <= m PROVE j \in items
  <2>1. UpTo(j) \in SUBSET UpTo(m)
    <3>1. \A k \in P : k <= j => k <= m
      BY <1>1, <1>3, <1>5
    <3> QED
      BY <3>1
  <2> HIDE DEF UpTo
  <2>2. Cardinality(UpTo(j)) <= Cardinality(UpTo(m))
    BY <1>3, <1>4, <2>1, FS_Subset
  <2> QED
    BY <1>2, <1>4, <1>5, <2>2
<1>6. items # {} => Max(items) \in items /\ \A j \in items : j <= Max(items)
  BY <1>1, <1>3, MaxIsGreatest
<1>7. Cardinality(items) <= Limit
  <2>1. CASE items = {}
    BY <2>1, FS_EmptySet
  <2>2. CASE items # {}
    <3> DEFINE m == Max(items)
    <3>1. m \in items /\ items \in SUBSET UpTo(m)
      BY <1>3, <1>6, <2>2
    <3> HIDE DEF UpTo, m
    <3>2. Cardinality(items) <= Cardinality(UpTo(m)) /\ Cardinality(UpTo(m)) <= Limit
      BY <1>2, <1>3, <1>4, <3>1, FS_Subset
    <3> QED
      BY <1>3, <1>4, <3>1, <3>2
  <2> QED
    BY <2>1, <2>2
<1>8. CASE Cardinality(items) < Limit
  <2>1. last = 0
    BY <1>8 DEF LastEvaluatedKeys, items
  <2>2. ASSUME P \ items # {} PROVE FALSE
    <3>1. PICK x \in P \ items : \A y \in P \ items : x <= y
      <4>1. P \ items \subseteq Nat
        BY <1>1
      <4> QED
        BY <2>2, <4>1, LeastIsThere
    <3>2. UpTo(x) \in SUBSET (items \cup {x})
      <4>1. \A k \in P : k <= x => k \in items \/ k = x
        BY <1>1, <3>1
      <4> QED
        BY <4>1
    <3>3. /\ IsFiniteSet(items \cup {x})
          /\ Cardinality(items \cup {x}) = Cardinality(items) + 1
      BY <1>3, <3>1, FS_AddElement
    <3> HIDE DEF UpTo
    <3>4. Cardinality(UpTo(x)) <= Cardinality(items) + 1
      BY <3>2, <3>3, FS_Subset
    <3>5. Cardinality(UpTo(x)) <= Limit
      BY <1>3, <1>4, <1>8, <3>1, <3>4
    <3> QED
      BY <1>2, <3>1, <3>5
  <2> QED
    BY <1>1, <1>3, <1>7, <2>1, <2>2 DEF P, items
<1>9. CASE ~(Cardinality(items) < Limit)
  <2>1. items # {} /\ Cardinality(items) >= Limit
    BY <1>3, <1>9, FS_EmptySet
  <2>2. /\ last \in {0, Max(items)}
        /\ last = 0 => Past(Max(items)) = {}
    BY <1>1, <1>3, <1>6, <1>9, <2>1 DEF LastEvaluatedKeys, items
  <2>3. last = 0 => items = P
    <3>1. Max(items) \in items /\ Max(items) \in Nat
      BY <1>1, <1>3, <1>6, <2>1
    <3>2. Past(Max(items)) = {} => \A j \in P : j <= Max(items)
      BY <1>1, <3>1 DEF Past, P
    <3> QED
      BY <1>3, <1>5, <2>2, <3>1, <3>2
  <2>4. last # 0 => /\ last \in items /\ \A j \in items : j <= last
                    /\ \A j \in P : j <= last => j \in items
    BY <1>5, <1>6, <2>1, <2>2
  <2> QED
    BY <1>1, <1>3, <1>7, <2>1, <2>3, <2>4 DEF P, items
<1> QED
  BY <1>8, <1>9

-----------------------------------------------------------------------------
(* The steps                                                               *)

LEMMA ListingStart == Init => PInv
<1> SUFFICES ASSUME Init PROVE PInv
  OBVIOUS
<1> USE ListingAssumption
<1>1. Cardinality({}) = 0
  BY FS_EmptySet
<1>2. TypeOK
  BY <1>1 DEF Init, TypeOK
<1>3. InOrderOfKeys /\ Unfiltered
  BY DEF Init, InOrderOfKeys, Unfiltered
<1> QED
  BY <1>2, <1>3 DEF PInv

(* A request that is answered is shown keys past all it was shown before.  *)
LEMMA QueryKeeps ==
    ASSUME PInv, Query
    PROVE  /\ PInv'
           /\ client' = "reading" => page' \cap listed = {}
<1> DEFINE items == FirstKeys(resume)
           found == collected \cup (items \cap matching)
<1> USE ListingAssumption
<1>1. PICK last \in LastEvaluatedKeys(items) :
         /\ collected' = found
         /\ resume' = last
         /\ IF Enough(found, last)
            THEN Answer(found, last)
            ELSE UNCHANGED <<answers, cursor, client>>
  BY DEF Query, ResumeKey
<1>2. /\ client = "waiting"
      /\ UNCHANGED <<filtered, table, submitted, matching, created, steady, events>>
  BY DEF Query
<1>3. /\ items \subseteq Past(resume) /\ items \subseteq Jobs /\ IsFiniteSet(items)
      /\ Cardinality(items) <= Limit
      /\ last = 0 => items = Past(resume)
      /\ last # 0 => /\ last \in items /\ \A j \in items : j <= last
                     /\ \A j \in Past(resume) : j <= last => j \in items
                     /\ Cardinality(items) >= Limit
  BY QueryReturns DEF PInv
<1> HIDE DEF items
<1>4. found \in SUBSET Jobs /\ IsFiniteSet(found)
  <2>1. found \in SUBSET Jobs
    BY <1>3 DEF PInv, TypeOK
  <2> QED
    BY <2>1, FS_Subset
<1>5. /\ \A j \in items : j > resume
      /\ resume \in Nat /\ cursor \in Nat /\ cursor <= resume
      /\ \A j \in Jobs : j \in Nat /\ j # 0
  BY <1>2, <1>3 DEF Past, PInv, TypeOK, InOrderOfKeys
<1>6. \A j \in items : j \in Jobs /\ j \in Nat /\ cursor < j
  <2> SUFFICES ASSUME NEW j \in items PROVE j \in Jobs /\ j \in Nat /\ cursor < j
    OBVIOUS
  <2>1. j \in Jobs /\ j \in Nat /\ j > resume
    BY <1>3, <1>5
  <2> QED
    BY <1>5, <2>1
<1>7. last \in Jobs \cup {0} /\ last \in Nat /\ (last # 0 => last > cursor)
  <2>1. CASE last = 0
    BY <2>1
  <2>2. CASE last # 0
    <3>1. last \in items
      BY <1>3, <2>2
    <3>2. last \in Jobs /\ last \in Nat /\ cursor < last
      BY <1>6, <3>1
    <3> QED
      BY <1>5, <3>2
  <2> QED
    BY <2>1, <2>2
<1>8. \A j \in found : j \in Nat /\ cursor < j /\ (last # 0 => j <= last)
  <2> SUFFICES ASSUME NEW j \in collected PROVE j \in Nat /\ cursor < j /\ (last # 0 => j <= last)
    BY <1>3, <1>6
  <2>1. j \in Nat /\ cursor < j /\ j <= resume
    BY <1>2, <1>4, <1>5 DEF PInv, InOrderOfKeys
  <2>2. last # 0 => resume < last
    BY <1>3, <1>5
  <2> QED
    BY <1>5, <1>7, <2>1, <2>2
<1>9. Top(found, Limit) \subseteq found /\ Cardinality(Top(found, Limit)) <= Limit
  <2>1. \A j \in found : created[j] \in Nat
    BY <1>4 DEF PInv, TypeOK
  <2>2. \A j, k \in found : created[j] = created[k] => j = k
    BY <1>4 DEF PInv, InOrderOfKeys
  <2> HIDE DEF found
  <2> QED
    BY <1>4, <2>1, <2>2, TopIsCut
<1>10. \A j \in listed : j <= cursor
  BY <1>2 DEF PInv, InOrderOfKeys
<1>11. ~filtered => found = items /\ resume = cursor
  BY <1>2, <1>3 DEF PInv, Unfiltered
<1>12. ~filtered => Top(found, Limit) = items
  <2>1. \A j \in items : created[j] \in Nat
    BY <1>3 DEF PInv, TypeOK
  <2>2. Top(items, Limit) = items
    BY <1>3, <2>1, TopKeepsAll
  <2> QED
    BY <1>11, <2>2
<1>13. ~filtered => Enough(found, last)
  <2>1. last # 0 => Cardinality(items) >= Limit
    BY <1>3
  <2> QED
    BY <1>11, <2>1 DEF Enough
<1>14. ~filtered => \A j \in steady : j \in listed \cup items \/ (last # 0 /\ j > last)
  <2> SUFFICES ASSUME ~filtered, NEW j \in steady, j \notin items, last # 0 => j <= last
               PROVE  j \in listed
    <3>1. \A j \in steady : j \in Nat
      BY <1>5 DEF PInv, TypeOK
    <3> QED
      BY <1>7, <3>1
  <2>1. j \in table /\ j \in Jobs
    BY DEF PInv, Unfiltered, TypeOK
  <2>2. j \notin Past(resume)
    BY <1>3
  <2>3. j <= cursor
    BY <1>5, <1>11, <2>1, <2>2 DEF Past
  <2> QED
    BY <1>2, <2>3 DEF PInv, Unfiltered
<1>15. CASE Enough(found, last)
  <2>1. /\ page' = Top(found, Limit) /\ listed' = listed \cup page'
        /\ cursor' = last /\ client' = "reading"
    BY <1>1, <1>15 DEF Answer
  <2> HIDE DEF found
  <2>2. TypeOK'
    BY <1>1, <1>2, <1>4, <1>7, <1>9, <2>1 DEF PInv, TypeOK
  <2>3. InOrderOfKeys'
    <3>1. \A j \in listed : j \in Nat
      BY DEF PInv, TypeOK
    <3>2. last # 0 => \A j \in listed' : j <= last
      BY <1>5, <1>8, <1>7, <1>9, <1>10, <2>1, <3>1
    <3> QED
      BY <1>2, <2>1, <3>2 DEF PInv, InOrderOfKeys
  <2>4. Unfiltered'
    <3> SUFFICES ASSUME ~filtered PROVE Unfiltered'
      BY <1>2 DEF Unfiltered
    <3>1. listed' = listed \cup items
      BY <1>12, <2>1
    <3>2. \A j \in steady : j \in Nat
      BY DEF PInv, TypeOK
    <3> QED
      BY <1>2, <1>5, <1>7, <1>14, <2>1, <3>1, <3>2 DEF PInv, Unfiltered
  <2>5. page' \cap listed = {}
    <3>1. \A j \in page' : cursor < j /\ j \in Nat
      BY <1>8, <1>9, <2>1
    <3>2. \A j \in listed : j <= cursor /\ j \in Nat
      BY <1>10 DEF PInv, TypeOK
    <3> QED
      BY <1>5, <3>1, <3>2
  <2> QED
    BY <2>2, <2>3, <2>4, <2>5 DEF PInv
<1>16. CASE ~Enough(found, last)
  <2>1. UNCHANGED <<answers, cursor, client>> /\ last # 0 /\ filtered
    BY <1>1, <1>13, <1>16 DEF Enough, PInv, TypeOK
  <2>2. UNCHANGED <<page, listed>>
    BY <2>1 DEF answers
  <2> HIDE DEF found
  <2>3. TypeOK'
    BY <1>1, <1>2, <1>4, <1>7, <2>1, <2>2 DEF PInv, TypeOK
  <2>4. InOrderOfKeys'
    BY <1>1, <1>2, <1>5, <1>8, <1>7, <2>1, <2>2 DEF PInv, InOrderOfKeys, TypeOK
  <2>5. Unfiltered'
    BY <1>2, <2>1 DEF Unfiltered
  <2> QED
    BY <1>2, <2>1, <2>3, <2>4, <2>5 DEF PInv
<1> QED
  BY <1>15, <1>16

(* What the client does, and what happens meanwhile.                       *)
LEMMA OthersKeep ==
    ASSUME PInv, Client \/ QueryFails \/ Tenant \/ UNCHANGED vars
    PROVE  PInv'
<1> USE ListingAssumption DEF PInv, TypeOK, InOrderOfKeys, Unfiltered, request, answers
<1>1. CASE Begin
  BY <1>1 DEF Begin
<1>2. CASE NextPage
  BY <1>2 DEF NextPage
<1>3. CASE Finish
  BY <1>3 DEF Finish
<1>4. CASE QueryFails
  BY <1>4 DEF QueryFails, Happens
<1>5. ASSUME NEW j \in Jobs, Submit(j) PROVE PInv'
  BY <1>5 DEF Submit, Happens
<1>6. ASSUME NEW j \in Jobs, Expire(j) PROVE PInv'
  BY <1>6 DEF Expire, Happens
<1>7. ASSUME NEW j \in Jobs, StatusChanges(j) PROVE PInv'
  BY <1>7 DEF StatusChanges, Happens
<1>8. CASE UNCHANGED vars
  BY <1>8 DEF vars
<1> QED
  BY <1>1, <1>2, <1>3, <1>4, <1>5, <1>6, <1>7, <1>8 DEF Client, Tenant

(* All of it holds throughout.                                             *)
THEOREM Inductive == Spec => []PInv
<1>1. PInv /\ [Next]_vars => PInv'
  BY QueryKeeps, OthersKeep DEF Next
<1> QED
  BY <1>1, ListingStart, PTL DEF Spec

(* Keys, pages and cursors are of jobs, and no page is longer than limit.  *)
THEOREM TypeCorrect == Spec => []TypeOK
<1>1. PInv => TypeOK
  BY DEF PInv
<1> QED
  BY <1>1, Inductive, PTL

(* A client that follows next_cursor is shown no job twice, whatever is    *)
(* submitted, expires or changes status, and however often it retries.     *)
THEOREM ShownOnce == Spec => NoDuplicate
<1>1. PInv /\ [Next]_vars =>
         [client = "waiting" /\ client' = "reading" => page' \cap listed = {}]_vars
  <2> SUFFICES ASSUME PInv, Next, client = "waiting", client' = "reading"
               PROVE  page' \cap listed = {}
    OBVIOUS
  <2>1. Query
    BY DEF Next, Client, Tenant, Begin, NextPage, Finish, QueryFails, Submit, Expire,
           StatusChanges
  <2> QED
    BY <2>1, QueryKeeps
<1> QED
  BY <1>1, Inductive, PTL DEF Spec, NoDuplicate

(* Without a filter it is shown every job that was there all along.        *)
THEOREM AllAreShown == Spec => []UnfilteredSkipsNothing
<1>1. PInv => UnfilteredSkipsNothing
  BY DEF PInv, Unfiltered, UnfilteredSkipsNothing, NothingSkipped
<1> QED
  BY <1>1, Inductive, PTL
=============================================================================
