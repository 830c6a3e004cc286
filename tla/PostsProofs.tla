---------------------------- MODULE PostsProofs -----------------------------
(***************************************************************************)
(* The search index catches up with the posts, and what is hidden and out  *)
(* of it stays out; a list walked page by page reaches every row that      *)
(* stays, and repeats none, though its pages come from a cache; the        *)
(* section of a post shows every comment once and no deleted one that it   *)
(* has been told of.  All this for any number of posts, users, requests,   *)
(* jobs, rows, cached pages, comments and changes.                         *)
(***************************************************************************)
EXTENDS MCPosts, FiniteSetTheorems, SequenceTheorems, TLAPS

-----------------------------------------------------------------------------
(* Sorted sets and filtered sequences. *)

\* R orders S totally and strictly.
StrictOrder(S, R) ==
  /\ \A i \in S : <<i, i>> \notin R
  /\ \A i, j \in S : i = j \/ <<i, j>> \in R \/ <<j, i>> \in R
  /\ \A i, j, k \in S : <<i, j>> \in R /\ <<j, k>> \in R => <<i, k>> \in R

\* The place of an element, counted from zero.
Place(S, R, i) == Cardinality(Preceding(S, R, i))

LEMMA PlaceBound ==
  ASSUME NEW S, IsFiniteSet(S), NEW R, StrictOrder(S, R), NEW i \in S
  PROVE  /\ IsFiniteSet(Preceding(S, R, i))
         /\ Place(S, R, i) \in 0..(Cardinality(S) - 1)
<1>1. Preceding(S, R, i) \in SUBSET (S \ {i})
  BY DEF Preceding, StrictOrder
<1>2. IsFiniteSet(S \ {i}) /\ Cardinality(S \ {i}) = Cardinality(S) - 1
  BY FS_RemoveElement
<1>3. IsFiniteSet(Preceding(S, R, i)) /\ Place(S, R, i) <= Cardinality(S) - 1
  BY <1>1, <1>2, FS_Subset DEF Place
<1> QED
  BY <1>3, FS_CardinalityType DEF Place

LEMMA PlaceGrows ==
  ASSUME NEW S, IsFiniteSet(S), NEW R, StrictOrder(S, R),
         NEW i \in S, NEW j \in S, <<i, j>> \in R
  PROVE  Place(S, R, i) < Place(S, R, j)
<1>1. IsFiniteSet(Preceding(S, R, j))
  BY PlaceBound
<1>2. Preceding(S, R, i) \in SUBSET (Preceding(S, R, j) \ {i}) /\ i \in Preceding(S, R, j)
  BY DEF Preceding, StrictOrder
<1>3. /\ IsFiniteSet(Preceding(S, R, j) \ {i})
      /\ Cardinality(Preceding(S, R, j) \ {i}) = Cardinality(Preceding(S, R, j)) - 1
  BY <1>1, <1>2, FS_RemoveElement
<1>4. Cardinality(Preceding(S, R, i)) <= Cardinality(Preceding(S, R, j)) - 1
  BY <1>2, <1>3, FS_Subset
<1> QED
  BY <1>4, PlaceBound DEF Place

\* Every place is taken by one element.
LEMMA PlacesTaken ==
  ASSUME NEW S, IsFiniteSet(S), NEW R, StrictOrder(S, R), NEW n \in 1..Cardinality(S)
  PROVE  \E i \in S : Place(S, R, i) = n - 1
<1> DEFINE f == [i \in S |-> Place(S, R, i)]
           T == 0..(Cardinality(S) - 1)
<1>0. Cardinality(S) \in Nat
  BY FS_CardinalityType
<1>1. f \in [S -> T]
  BY PlaceBound
<1>2. \A i, j \in S : f[i] = f[j] => i = j
  <2> SUFFICES ASSUME NEW i \in S, NEW j \in S, i # j PROVE Place(S, R, i) # Place(S, R, j)
    OBVIOUS
  <2>1. <<i, j>> \in R \/ <<j, i>> \in R
    BY DEF StrictOrder
  <2>2. Place(S, R, i) \in T /\ Place(S, R, j) \in T
    BY PlaceBound
  <2>3. Place(S, R, i) < Place(S, R, j) \/ Place(S, R, j) < Place(S, R, i)
    BY <2>1, PlaceGrows
  <2> QED
    BY <1>0, <2>2, <2>3
<1>3. f \in Injection(S, T)
  BY <1>1, <1>2 DEF Injection, IsInjective
<1>4. IsFiniteSet(T) /\ Cardinality(T) = Cardinality(S)
  <2>1. 0 \in Int /\ Cardinality(S) - 1 \in Int
    BY <1>0
  <2>2. /\ IsFiniteSet(T)
        /\ Cardinality(T) = IF 0 > Cardinality(S) - 1 THEN 0 ELSE Cardinality(S) - 1 - 0 + 1
    BY ONLY <2>1, FS_Interval
  <2> QED
    BY <1>0, <2>2
<1>5. f \in Surjection(S, T)
  BY <1>3, <1>4, FS_Injection
<1>6. n - 1 \in T
  BY <1>0
<1> QED
  BY <1>5, <1>6 DEF Surjection

\* A sorted set: a sequence of its elements, each once, in the order of R.
LEMMA SortFacts ==
  ASSUME NEW S, IsFiniteSet(S), NEW R, StrictOrder(S, R)
  PROVE  LET s == SortBy(S, R)
         IN /\ s \in Seq(S) /\ Len(s) = Cardinality(S) /\ DOMAIN s = 1..Cardinality(S)
            /\ \A n \in 1..Cardinality(S) : s[n] \in S /\ Place(S, R, s[n]) = n - 1
            /\ \A i \in S : Place(S, R, i) + 1 \in 1..Cardinality(S) /\ s[Place(S, R, i) + 1] = i
            /\ IsInjective(s)
            /\ ToSet(s) = S
            /\ \A m, n \in 1..Cardinality(S) : m < n => <<s[m], s[n]>> \in R
<1> DEFINE s == SortBy(S, R)
           N == Cardinality(S)
<1>0. N \in Nat
  BY FS_CardinalityType
<1>1. DOMAIN s = 1..N
  BY DEF SortBy
<1>2. ASSUME NEW n \in 1..N
      PROVE  s[n] \in S /\ Place(S, R, s[n]) = n - 1
  <2>1. \E i \in S : Cardinality(Preceding(S, R, i)) = n - 1
    BY PlacesTaken DEF Place
  <2>2. s[n] = CHOOSE i \in S : Cardinality(Preceding(S, R, i)) = n - 1
    BY DEF SortBy
  <2> QED
    BY <2>1, <2>2 DEF Place
<1>3. s = [n \in 1..N |-> s[n]]
  BY DEF SortBy
<1> HIDE DEF s
<1>4. s \in [1..N -> S]
  BY <1>2, <1>3
<1>5. s \in Seq(S) /\ Len(s) = N
  BY <1>0, <1>4
<1>6. ASSUME NEW i \in S, NEW j \in S, Place(S, R, i) = Place(S, R, j)
      PROVE  i = j
  <2>1. Place(S, R, i) \in Int /\ Place(S, R, j) \in Int
    BY PlaceBound
  <2>2. <<i, j>> \notin R /\ <<j, i>> \notin R
    BY <1>6, <2>1, PlaceGrows
  <2> QED
    BY <2>2 DEF StrictOrder
<1>7. ASSUME NEW i \in S
      PROVE  Place(S, R, i) + 1 \in 1..N /\ s[Place(S, R, i) + 1] = i
  <2>1. Place(S, R, i) \in 0..(N - 1)
    BY PlaceBound
  <2>2. Place(S, R, i) + 1 \in 1..N
    BY <1>0, <2>1
  <2>3. Place(S, R, s[Place(S, R, i) + 1]) = Place(S, R, i) /\ s[Place(S, R, i) + 1] \in S
    BY <1>2, <2>1, <2>2
  <2> QED
    BY <1>6, <2>2, <2>3
<1>8. IsInjective(s)
  BY <1>0, <1>1, <1>2 DEF IsInjective
<1>9. ToSet(s) = S
  BY <1>1, <1>2, <1>7 DEF ToSet
<1>10. ASSUME NEW m \in 1..N, NEW n \in 1..N, m < n
       PROVE  <<s[m], s[n]>> \in R
  <2>1. /\ s[m] \in S /\ Place(S, R, s[m]) = m - 1
        /\ s[n] \in S /\ Place(S, R, s[n]) = n - 1
    BY <1>2
  <2>2. s[m] # s[n]
    BY <1>0, <1>10, <2>1
  <2>3. <<s[n], s[m]>> \notin R
    <3> SUFFICES ASSUME <<s[n], s[m]>> \in R PROVE FALSE
      OBVIOUS
    <3>1. Place(S, R, s[n]) < Place(S, R, s[m])
      BY <2>1, PlaceGrows
    <3> QED
      BY <1>0, <1>10, <2>1, <3>1
  <2> QED
    BY <2>1, <2>2, <2>3 DEF StrictOrder
<1> QED
  BY <1>1, <1>2, <1>5, <1>7, <1>8, <1>9, <1>10 DEF s

\* A set of naturals in the order of <.
LEMMA InOrderFacts ==
  ASSUME NEW S \in SUBSET Nat, IsFiniteSet(S)
  PROVE  LET s == InOrder(S)
         IN /\ s \in Seq(S) /\ DOMAIN s = 1..Len(s) /\ Len(s) = Cardinality(S)
            /\ IsInjective(s)
            /\ ToSet(s) = S
            /\ \A m, n \in 1..Len(s) : m < n => s[m] < s[n]
<1>1. StrictOrder(S, Smaller(S))
  BY DEF StrictOrder, Smaller
<1>2. \A i, j : <<i, j>> \in Smaller(S) => i < j
  BY DEF Smaller
<1> DEFINE s == SortBy(S, Smaller(S))
<1>3. /\ s \in Seq(S) /\ Len(s) = Cardinality(S) /\ DOMAIN s = 1..Cardinality(S)
      /\ IsInjective(s)
      /\ ToSet(s) = S
      /\ \A m, n \in 1..Cardinality(S) : m < n => <<s[m], s[n]>> \in Smaller(S)
  BY <1>1, SortFacts
<1>4. InOrder(S) = s
  BY DEF InOrder
<1> HIDE DEF s
<1> QED
  BY <1>2, <1>3, <1>4

\* Filtering keeps what is asked for, and repeats nothing.
LEMMA OnlyFacts ==
  ASSUME NEW S, NEW s \in Seq(S), NEW K
  PROVE  LET t == Only(s, K)
         IN /\ t \in Seq(S)
            /\ ToSet(t) = ToSet(s) \cap K
            /\ IsInjective(s) => IsInjective(t)
<1> DEFINE P == Places(s, K)
           o == InOrder(P)
           t == Only(s, K)
<1>1. DOMAIN s = 1..Len(s) /\ Len(s) \in Nat /\ \A n \in 1..Len(s) : s[n] \in S
  OBVIOUS
<1>2. P \in SUBSET (1..Len(s)) /\ P \in SUBSET Nat
  BY <1>1 DEF Places
<1>3. IsFiniteSet(P)
  <2>1. IsFiniteSet(1..Len(s))
    BY <1>1, FS_Interval
  <2> QED
    BY <1>2, <2>1, FS_Subset
<1>4. /\ o \in Seq(P) /\ DOMAIN o = 1..Len(o) /\ Len(o) \in Nat
      /\ IsInjective(o) /\ ToSet(o) = P
  BY <1>2, <1>3, InOrderFacts
<1>5. \A n \in DOMAIN o : o[n] \in P
  BY <1>4 DEF ToSet
<1>6. t = [n \in DOMAIN o |-> s[o[n]]]
  BY DEF Only
<1>7. \A n \in P : n \in DOMAIN s /\ s[n] \in S /\ s[n] \in K
  BY <1>1, <1>2 DEF Places
<1> HIDE DEF o, t
<1>8. t \in [1..Len(o) -> S] /\ DOMAIN t = DOMAIN o
  BY <1>4, <1>5, <1>6, <1>7
<1>9. t \in Seq(S)
  BY <1>4, <1>8
<1>10. ToSet(t) \subseteq ToSet(s) \cap K
  BY <1>5, <1>6, <1>7, <1>8 DEF ToSet
<1>11. ASSUME NEW n \in DOMAIN s, s[n] \in K
       PROVE  s[n] \in ToSet(t)
  <2>1. n \in ToSet(o)
    BY <1>4, <1>11 DEF Places
  <2>2. PICK m \in DOMAIN o : o[m] = n
    BY <2>1 DEF ToSet
  <2> QED
    BY <1>6, <1>8, <2>2 DEF ToSet
<1>12. ToSet(s) \cap K \subseteq ToSet(t)
  BY <1>11 DEF ToSet
<1>13. IsInjective(s) => IsInjective(t)
  BY <1>4, <1>5, <1>6, <1>7, <1>8 DEF IsInjective
<1> QED
  BY <1>9, <1>10, <1>12, <1>13 DEF t

LEMMA WithoutFacts ==
  ASSUME NEW S, NEW s \in Seq(S), NEW e
  PROVE  LET t == Without(s, e)
         IN /\ t \in Seq(S)
            /\ ToSet(t) = ToSet(s) \ {e}
            /\ IsInjective(s) => IsInjective(t)
BY OnlyFacts DEF Without

\* A part of a sequence.
LEMMA PartFacts ==
  ASSUME NEW S, NEW s \in Seq(S), NEW m \in Nat \ {0}, NEW n \in Nat, n <= Len(s)
  PROVE  LET t == SubSeq(s, m, n)
         IN /\ t \in Seq(S) /\ DOMAIN t = 1..Len(t)
            /\ Len(t) = IF m <= n THEN n - m + 1 ELSE 0
            /\ \A i \in 1..Len(t) : t[i] = s[m + i - 1]
            /\ ToSet(t) \subseteq ToSet(s)
            /\ IsInjective(s) => IsInjective(t)
<1> DEFINE t == SubSeq(s, m, n)
<1>0. DOMAIN s = 1..Len(s) /\ Len(s) \in Nat
  OBVIOUS
<1>1. \A i \in m..n : s[i] \in S /\ i \in DOMAIN s
  OBVIOUS
<1>2. /\ t \in Seq(S)
      /\ Len(t) = IF m <= n THEN n - m + 1 ELSE 0
      /\ \A i \in 1..(n - m + 1) : t[i] = s[m + i - 1]
  BY <1>1, SubSeqProperties
<1> HIDE DEF t
<1>3. DOMAIN t = 1..Len(t) /\ Len(t) \in Nat
  BY <1>2
<1>4. \A i \in 1..Len(t) : t[i] = s[m + i - 1] /\ m + i - 1 \in m..n
  BY <1>2, <1>3
<1>5. ToSet(t) \subseteq ToSet(s)
  BY <1>1, <1>3, <1>4 DEF ToSet
<1>6. IsInjective(s) => IsInjective(t)
  BY <1>1, <1>3, <1>4 DEF IsInjective
<1> QED
  BY <1>2, <1>3, <1>4, <1>5, <1>6 DEF t

LEMMA FirstNFacts ==
  ASSUME NEW S, NEW s \in Seq(S), NEW n \in Nat
  PROVE  LET t == FirstN(s, n)
         IN /\ t \in Seq(S) /\ DOMAIN t = 1..Len(t)
            /\ Len(t) = IF Len(s) < n THEN Len(s) ELSE n
            /\ \A i \in 1..Len(t) : t[i] = s[i]
            /\ ToSet(t) \subseteq ToSet(s)
            /\ IsInjective(s) => IsInjective(t)
<1> DEFINE m == IF Len(s) < n THEN Len(s) ELSE n
           t == SubSeq(s, 1, m)
<1>1. m \in Nat /\ m <= Len(s) /\ Len(s) \in Nat
  OBVIOUS
<1>2. /\ t \in Seq(S) /\ DOMAIN t = 1..Len(t)
      /\ Len(t) = IF 1 <= m THEN m - 1 + 1 ELSE 0
      /\ \A i \in 1..Len(t) : t[i] = s[1 + i - 1]
      /\ ToSet(t) \subseteq ToSet(s)
      /\ IsInjective(s) => IsInjective(t)
  BY <1>1, PartFacts
<1>3. Len(t) = m
  BY <1>1, <1>2
<1>4. \A i \in 1..Len(t) : t[i] = s[i]
  BY <1>1, <1>2, <1>3
<1> QED
  BY <1>2, <1>3, <1>4 DEF FirstN

\* Joining two sequences.
LEMMA ConcatFacts ==
  ASSUME NEW S, NEW r \in Seq(S), NEW s \in Seq(S)
  PROVE  /\ r \o s \in Seq(S)
         /\ ToSet(r \o s) = ToSet(r) \cup ToSet(s)
         /\ IsInjective(r) /\ IsInjective(s) /\ ToSet(r) \cap ToSet(s) = {} => IsInjective(r \o s)
<1> DEFINE t == r \o s
<1>1. /\ t \in Seq(S) /\ Len(t) = Len(r) + Len(s) /\ Len(r) \in Nat /\ Len(s) \in Nat
      /\ \A i \in 1..(Len(r) + Len(s)) : t[i] = IF i <= Len(r) THEN r[i] ELSE s[i - Len(r)]
      /\ DOMAIN t = 1..Len(t) /\ DOMAIN r = 1..Len(r) /\ DOMAIN s = 1..Len(s)
  BY ConcatProperties
<1>2. ToSet(t) = ToSet(r) \cup ToSet(s)
  <2>1. Range(t) = Range(r) \cup Range(s)
    BY RangeConcatenation
  <2> QED
    BY <2>1 DEF ToSet, Range
<1> HIDE DEF t
<1>3. ASSUME IsInjective(r), IsInjective(s), ToSet(r) \cap ToSet(s) = {},
             NEW i \in DOMAIN t, NEW j \in DOMAIN t, t[i] = t[j]
      PROVE  i = j
  <2>1. CASE i <= Len(r) /\ j <= Len(r)
    BY <1>1, <1>3, <2>1 DEF IsInjective
  <2>2. CASE i > Len(r) /\ j > Len(r)
    <3>1. i - Len(r) \in DOMAIN s /\ j - Len(r) \in DOMAIN s
      BY <1>1, <2>2
    <3>2. s[i - Len(r)] = s[j - Len(r)]
      BY <1>1, <1>3, <2>2
    <3>3. i - Len(r) = j - Len(r)
      BY <1>3, <3>1, <3>2 DEF IsInjective
    <3> QED
      BY <1>1, <3>3
  <2>3. ASSUME NEW a \in DOMAIN t, NEW b \in DOMAIN t, a <= Len(r), b > Len(r)
        PROVE  t[a] # t[b]
    <3>1. a \in DOMAIN r /\ t[a] = r[a] /\ b - Len(r) \in DOMAIN s /\ t[b] = s[b - Len(r)]
      BY <1>1, <2>3
    <3> QED
      BY <1>3, <3>1 DEF ToSet
  <2> QED
    BY <1>1, <1>3, <2>1, <2>2, <2>3
<1>4. IsInjective(r) /\ IsInjective(s) /\ ToSet(r) \cap ToSet(s) = {} => IsInjective(t)
  BY <1>3 DEF IsInjective
<1> QED
  BY <1>1, <1>2, <1>4 DEF t

-----------------------------------------------------------------------------
(* The search index. *)

\* The version the index should hold of a post.
Target(p) == IF Live(p) THEN content[p] ELSE 0

HasJob(p) == \E s \in Slots : jobs[s] # NoJob /\ jobs[s].post = p

\* A request that is to write a removed post does not count: its listing leaves
\* removed posts out.
PostInv(p) ==
  \/ HasJob(p)
  \/ p \in drift
  \/ index[p] = Target(p)
  \/ p \notin removedPosts /\ \E r \in Requests : p \in Abandoned(r)

\* The row of a queued deletion is a removed one.
JobInv(s) == jobs[s] # NoJob /\ jobs[s].op = "delete" => jobs[s].row \in Rows /\ jobs[s].row[2]

RequestInv(r) ==
  /\ pc[r] \in DOMAIN WriteOf \cup {WriteOf[op] : op \in DOMAIN WriteOf} => known[r].target \in Posts
  /\ pc[r] \in {"ban_list", "unban_list", "ban_delete", "unban_read"} => known[r].target \in Users
  /\ pc[r] = "ban_delete" => \A p \in known[r].ids : Author[p] = known[r].target

SearchInv ==
  /\ SearchTypeOK
  /\ \A s \in Slots : JobInv(s)
  /\ \A r \in Requests : RequestInv(r)
  /\ \A p \in Posts : PostInv(p)

Known == [target : Posts \cup Users \cup {0}, ids : SUBSET Posts, docs : [Posts -> 0..MaxVersion]]

LEMMA NothingOK == Nothing \in Known /\ Nothing.target = 0 /\ Nothing.ids = {}
BY SearchAssumption DEF Nothing, Known

\* What a step leaves of the invariant of a post.
LEMMA PostKept ==
  ASSUME NEW p \in Posts, PostInv(p),
         HasJob(p) => HasJob(p)' \/ p \in drift',
         p \in drift => p \in drift',
         index'[p] = index[p], Target(p)' = Target(p),
         p \in removedPosts' => p \in removedPosts,
         \A r \in Requests : p \notin removedPosts /\ p \in Abandoned(r) => p \in Abandoned(r)' \/ p \in drift'
  PROVE  PostInv(p)'
BY DEF PostInv

\* A request that is left alone still is to write what it was to write.
LEMMA AbandonedKept ==
  ASSUME NEW r \in Requests, pc'[r] = pc[r], known'[r] = known[r],
         \A p \in Posts : content[p] > 0 => content'[p] > 0
  PROVE  Abandoned(r) \subseteq Abandoned(r)'
BY DEF Abandoned, PostsOf

LEMMA RequestKept ==
  ASSUME NEW r \in Requests, RequestInv(r), pc'[r] = pc[r], known'[r] = known[r]
  PROVE  RequestInv(r)'
BY DEF RequestInv

LEMMA TargetKept ==
  ASSUME NEW p \in Posts, content'[p] = content[p],
         p \in removedPosts' <=> p \in removedPosts, banned' = banned
  PROVE  Target(p)' = Target(p)
BY DEF Target, Live, PostVisible

\* The document of an attempt that read the current row is the right one.
LEMMA DocRight ==
  ASSUME SearchTypeOK, NEW p \in Posts, NEW job \in Job, job.row = Row(p),
         job.op = "delete" => job.row[2]
  PROVE  Doc(job) = Target(p)
<1>1. job.row[1] = content[p] /\ (job.row[2] <=> p \in removedPosts) /\ (job.row[3] <=> Author[p] \in banned)
  <2>1. Row(p)[1] = content[p]
    BY DEF Row
  <2>2. Row(p)[2] <=> p \in removedPosts
    BY Zenon DEF Row
  <2>3. Row(p)[3] <=> Author[p] \in banned
    BY Zenon DEF Row
  <2> HIDE DEF Row
  <2> QED
    BY <2>1, <2>2, <2>3, Zenon
<1>2. content[p] \in Nat
  BY SearchAssumption DEF SearchTypeOK
<1> QED
  BY <1>1, <1>2 DEF Doc, Target, Live, PostVisible

LEMMA SearchInvInit == SearchInit => SearchInv
<1> SUFFICES ASSUME SearchInit PROVE SearchInv
  OBVIOUS
<1> USE DEF SearchInit, AccessInit
<1>1. SearchTypeOK
  <2>1. Nothing \in Known /\ "idle" \in PCs /\ 0 \in 0..MaxVersion
    BY NothingOK, SearchAssumption DEF PCs
  <2> QED
    BY <2>1 DEF SearchTypeOK, AccessTypeOK, Known
<1>2. \A s \in Slots : JobInv(s)
  BY DEF JobInv
<1>3. \A r \in Requests : RequestInv(r)
  BY DEF RequestInv, WriteOf
<1>4. \A p \in Posts : PostInv(p)
  BY DEF PostInv, Target, Live
<1> QED
  BY <1>1, <1>2, <1>3, <1>4 DEF SearchInv

\* The steps of a request that write nothing but its own memory, or fail.
LEMMA RequestStep ==
  ASSUME SearchInv, NEW r \in Requests,
         UNCHANGED <<accessVars, content, index, jobs>>,
         drift \subseteq drift', drift' \subseteq Posts,
         NEW next \in PCs, pc' = [pc EXCEPT ![r] = next],
         NEW k \in Known, known' = [known EXCEPT ![r] = k],
         RequestInv(r)',
         \A p \in Posts \ removedPosts : p \in Abandoned(r) => p \in Abandoned(r)' \/ p \in drift'
  PROVE  SearchInv'
<1>1. SearchTypeOK'
  BY DEF SearchInv, SearchTypeOK, AccessTypeOK, accessVars, Known
<1>2. \A q \in Requests \ {r} : pc'[q] = pc[q] /\ known'[q] = known[q]
  BY DEF SearchInv, SearchTypeOK
<1>3. \A q \in Requests : RequestInv(q)'
  BY <1>2, RequestKept DEF SearchInv
<1>4. \A s \in Slots : JobInv(s)'
  BY DEF SearchInv, JobInv
<1>5. ASSUME NEW p \in Posts
      PROVE  PostInv(p)'
  <2>1. PostInv(p) /\ (HasJob(p) => HasJob(p)') /\ index'[p] = index[p]
    BY DEF SearchInv, HasJob
  <2>2. Target(p)' = Target(p)
    BY TargetKept DEF accessVars
  <2>3. \A q \in Requests : p \notin removedPosts /\ p \in Abandoned(q) => p \in Abandoned(q)' \/ p \in drift'
    BY <1>2, AbandonedKept
  <2>4. removedPosts' = removedPosts
    BY DEF accessVars
  <2> QED
    BY <2>1, <2>2, <2>3, <2>4, PostKept
<1> QED
  BY <1>1, <1>3, <1>4, <1>5 DEF SearchInv

\* The program counters between which requests go.
LEMMA PCFacts ==
  /\ {"idle", "ban_list", "unban_list", "ban_delete", "unban_read", "add",
      "rebuild", "update", "remove", "restore", "update_write", "remove_write", "restore_write"} = PCs
  /\ DOMAIN WriteOf = {"update", "remove", "restore"}
  /\ {WriteOf[op] : op \in DOMAIN WriteOf} = {"update_write", "remove_write", "restore_write"}
  /\ WriteOf["update"] = "update_write" /\ WriteOf["remove"] = "remove_write"
  /\ WriteOf["restore"] = "restore_write"
<1>1. /\ DOMAIN WriteOf = {"update", "remove", "restore"}
      /\ WriteOf["update"] = "update_write" /\ WriteOf["remove"] = "remove_write"
      /\ WriteOf["restore"] = "restore_write"
  BY DEF WriteOf
<1>2. {WriteOf[op] : op \in DOMAIN WriteOf} = {"update_write", "remove_write", "restore_write"}
  BY <1>1
<1> QED
  BY <1>1, <1>2 DEF PCs

\* An answer leaves nothing to write, nor does any place but five.
LEMMA AbandonedNone ==
  ASSUME NEW r \in Requests,
         pc[r] \notin {"ban_list", "unban_list", "ban_delete", "unban_read", "add"}
           \/ (pc[r] = "add" /\ known[r].target = 0)
  PROVE  Abandoned(r) = {}
BY DEF Abandoned

LEMMA ChangeStartSafe ==
  ASSUME SearchInv, NEW r \in Requests, NEW p \in Posts, ChangeStart(r, p)
  PROVE  SearchInv'
<1>1. PICK op \in DOMAIN WriteOf : Start(r, p, op)
  BY DEF ChangeStart
<1> DEFINE k == [Nothing EXCEPT !.target = p]
<1>2. k \in Known /\ k.target = p
  BY NothingOK DEF Known
<1> HIDE DEF k
<1>3. /\ pc' = [pc EXCEPT ![r] = op] /\ known' = [known EXCEPT ![r] = k] /\ pc[r] = "idle"
      /\ op \in PCs /\ op \in {"update", "remove", "restore"}
  BY <1>1, PCFacts DEF Start, Goto, k
<1>4. pc'[r] = op /\ known'[r] = k
  BY <1>3 DEF SearchInv, SearchTypeOK
<1>5. RequestInv(r)'
  BY <1>2, <1>3, <1>4 DEF RequestInv
<1>6. Abandoned(r) = {}
  BY <1>3, AbandonedNone
<1>7. UNCHANGED <<accessVars, content, index, jobs, drift>> /\ drift \subseteq Posts
  BY DEF ChangeStart, SearchInv, SearchTypeOK
<1> QED
  BY <1>2, <1>3, <1>5, <1>6, <1>7, RequestStep

\* A request that answers, or goes on without anything left to write.
LEMMA GoOn ==
  ASSUME SearchInv, NEW r \in Requests,
         UNCHANGED <<accessVars, content, index, jobs>>,
         drift \subseteq drift', drift' \subseteq Posts,
         NEW next \in {"idle", "rebuild"}, Goto(r, next),
         NEW k \in Known, known' = [known EXCEPT ![r] = k],
         Abandoned(r) \subseteq drift'
  PROVE  SearchInv'
<1>1. pc' = [pc EXCEPT ![r] = next] /\ next \in PCs
  BY PCFacts DEF Goto
<1>2. pc'[r] = next
  BY <1>1 DEF SearchInv, SearchTypeOK
<1>3. RequestInv(r)'
  BY <1>2, PCFacts DEF RequestInv
<1> QED
  BY <1>1, <1>3, RequestStep

LEMMA CheckRowSafe ==
  ASSUME SearchInv, NEW r \in Requests, CheckRow(r)
  PROVE  SearchInv'
<1>1. /\ UNCHANGED <<accessVars, content, index, jobs, drift>> /\ drift \subseteq Posts
      /\ pc[r] \in {"update", "remove", "restore"} /\ known[r] \in Known /\ RequestInv(r)
  BY PCFacts DEF CheckRow, SearchInv, SearchTypeOK, Known
<1>2. Abandoned(r) = {}
  BY <1>1, AbandonedNone
<1>3. CASE Goto(r, WriteOf[pc[r]]) /\ UNCHANGED known
  <2> DEFINE next == WriteOf[pc[r]]
  <2>1. next \in PCs /\ next \in {"update_write", "remove_write", "restore_write"}
    BY <1>1, PCFacts
  <2> HIDE DEF next
  <2>2. pc' = [pc EXCEPT ![r] = next] /\ known' = [known EXCEPT ![r] = known[r]]
    BY <1>3 DEF Goto, next, SearchInv, SearchTypeOK
  <2>3. pc'[r] = next /\ known'[r] = known[r]
    BY <2>2, <1>3 DEF SearchInv, SearchTypeOK
  <2>4. RequestInv(r)'
    BY <1>1, <2>1, <2>3, PCFacts DEF RequestInv
  <2> QED
    BY <1>1, <1>2, <2>1, <2>2, <2>4, RequestStep
<1>4. CASE Answer(r)
  BY <1>1, <1>2, <1>4, NothingOK, GoOn DEF Answer
<1> QED
  BY <1>3, <1>4 DEF CheckRow

\* The listing of a user's posts leaves out the removed ones, and no other.
LEMMA ListPostsSafe ==
  ASSUME SearchInv, NEW r \in Requests, ListPosts(r)
  PROVE  SearchInv'
<1> DEFINE theirs == PostsOf(known[r].target) \ removedPosts
           k == [known[r] EXCEPT !.ids = theirs]
           next == IF pc[r] = "ban_list" THEN "ban_delete" ELSE "unban_read"
<1>1. /\ UNCHANGED <<accessVars, content, index, jobs, drift>> /\ drift \subseteq Posts
      /\ pc[r] \in {"ban_list", "unban_list"} /\ known[r] \in Known /\ RequestInv(r)
      /\ pc' = [pc EXCEPT ![r] = next] /\ known' = [known EXCEPT ![r] = k]
  BY DEF ListPosts, PostsListed, Goto, SearchInv, SearchTypeOK, Known
<1>2. theirs \in SUBSET Posts /\ next \in PCs /\ next \in {"ban_delete", "unban_read"}
      /\ \A p \in theirs : Author[p] = known[r].target
  BY PCFacts DEF PostsOf
<1>3. k \in Known /\ k.ids = theirs /\ k.target = known[r].target
  <2> HIDE DEF theirs
  <2> QED
    BY <1>1, <1>2 DEF Known
<1>4. Abandoned(r) = PostsOf(known[r].target)
  BY <1>1 DEF Abandoned
<1>5. \A p \in Posts \ removedPosts : p \in Abandoned(r) => p \in theirs
  BY <1>4
<1> HIDE DEF theirs, k, next
<1>6. pc'[r] = next /\ known'[r] = k
  BY <1>1 DEF SearchInv, SearchTypeOK
<1>7. Abandoned(r)' = theirs
  BY <1>2, <1>3, <1>6 DEF Abandoned
<1>8. RequestInv(r)'
  BY <1>1, <1>2, <1>3, <1>6, PCFacts DEF RequestInv
<1> QED
  BY <1>1, <1>2, <1>3, <1>5, <1>7, <1>8, RequestStep

LEMMA ReadPostsSafe ==
  ASSUME SearchInv, NEW r \in Requests, ReadPosts(r)
  PROVE  SearchInv'
<1> DEFINE k == [known[r] EXCEPT !.docs = [p \in Posts |-> content[p]]]
<1>1. /\ UNCHANGED <<accessVars, content, index, jobs, drift>> /\ drift \subseteq Posts
      /\ pc[r] = "unban_read" /\ known[r] \in Known /\ RequestInv(r)
      /\ pc' = [pc EXCEPT ![r] = "add"] /\ known' = [known EXCEPT ![r] = k]
      /\ content \in [Posts -> 0..MaxVersion]
  BY DEF ReadPosts, Goto, SearchInv, SearchTypeOK, Known
<1>2. k \in Known /\ k.ids = known[r].ids /\ k.target = known[r].target
  BY <1>1 DEF Known
<1>3. Abandoned(r) = known[r].ids /\ known[r].target # 0
  BY <1>1, SearchAssumption DEF Abandoned, RequestInv
<1> HIDE DEF k
<1>4. pc'[r] = "add" /\ known'[r] = k /\ "add" \in PCs
  BY <1>1, PCFacts DEF SearchInv, SearchTypeOK
<1>5. Abandoned(r)' = known[r].ids
  BY <1>2, <1>3, <1>4 DEF Abandoned
<1>6. RequestInv(r)'
  BY <1>4, PCFacts DEF RequestInv
<1> QED
  BY <1>1, <1>2, <1>3, <1>4, <1>5, <1>6, RequestStep

LEMMA ReadBatchSafe ==
  ASSUME SearchInv, NEW r \in Requests, ReadBatch(r)
  PROVE  SearchInv'
<1>1. /\ UNCHANGED <<accessVars, content, index, jobs, drift>> /\ drift \subseteq Posts
      /\ pc[r] = "rebuild" /\ content \in [Posts -> 0..MaxVersion]
  BY DEF ReadBatch, SearchInv, SearchTypeOK
<1>2. Abandoned(r) = {}
  BY <1>1, AbandonedNone
<1>3. CASE Answer(r)
  BY <1>1, <1>2, <1>3, NothingOK, GoOn DEF Answer
<1>4. CASE ~Answer(r)
  <2>1. PICK ids \in SUBSET Posts :
          /\ known' = [known EXCEPT ![r] = [target |-> 0, ids |-> ids, docs |-> content]]
          /\ Goto(r, "add")
    BY <1>4 DEF ReadBatch
  <2> DEFINE k == [target |-> 0, ids |-> ids, docs |-> content]
  <2>2. k \in Known /\ pc' = [pc EXCEPT ![r] = "add"] /\ "add" \in PCs
    BY <1>1, <2>1, PCFacts DEF Known, Goto
  <2>3. pc'[r] = "add"
    BY <2>2 DEF SearchInv, SearchTypeOK
  <2>4. RequestInv(r)'
    BY <2>3, PCFacts DEF RequestInv
  <2> QED
    BY <1>1, <1>2, <2>1, <2>2, <2>4, RequestStep
<1> QED
  BY <1>3, <1>4

LEMMA RebuildOrFailSafe ==
  ASSUME SearchInv, NEW r \in Requests, RebuildStart(r) \/ Fail(r)
  PROVE  SearchInv'
<1>1. /\ UNCHANGED <<accessVars, content, index, jobs>> /\ drift \subseteq drift'
      /\ drift \subseteq Posts
  BY DEF RebuildStart, Fail, SearchInv, SearchTypeOK
<1>2. known[r] \in Known
  BY DEF SearchInv, SearchTypeOK, Known
<1>3. CASE RebuildStart(r)
  <2>1. [Nothing EXCEPT !.target = 0] = Nothing
    BY DEF Nothing
  <2>2. Goto(r, "rebuild") /\ known' = [known EXCEPT ![r] = Nothing] /\ drift' = drift
    BY <1>3, <2>1 DEF RebuildStart, Start
  <2>3. Abandoned(r) = {}
    BY <1>3, AbandonedNone DEF RebuildStart, Start
  <2> QED
    BY <1>1, <2>2, <2>3, NothingOK, GoOn
<1>4. CASE Fail(r)
  <2>1. Abandoned(r) \subseteq Posts
    BY <1>2 DEF Abandoned, PostsOf, Known
  <2>2. drift' = drift \cup Abandoned(r) /\ Answer(r)
    BY <1>4 DEF Fail
  <2> QED
    BY <1>1, <2>1, <2>2, NothingOK, GoOn DEF Answer
<1> QED
  BY <1>3, <1>4

-----------------------------------------------------------------------------
(* The steps that queue a job or run one. *)

LEMMA RemovedRowOK ==
  ASSUME SearchTypeOK, NEW p \in Posts
  PROVE  RemovedRow(p) \in Rows /\ RemovedRow(p)[2] /\ Row(p) \in Rows
<1>1. content[p] \in 0..MaxVersion /\ (Author[p] \in banned) \in BOOLEAN /\ (p \in removedPosts) \in BOOLEAN
  BY DEF SearchTypeOK
<1>2. RemovedRow(p) \in Rows /\ Row(p) \in Rows
  BY <1>1 DEF RemovedRow, Row, Rows
<1>3. RemovedRow(p)[2]
  BY Zenon DEF RemovedRow
<1> QED
  BY <1>2, <1>3

\* Each change of a post queues a job, or shows in drift, and no job is lost.
LEMMA SyncQueues ==
  ASSUME SearchInv, NEW p \in Posts, NEW op \in {"upsert", "delete"}, SyncSearchIndex(op, p)
  PROVE  /\ jobs' \in [Slots -> Job \cup {NoJob}] /\ drift \subseteq drift' /\ drift' \subseteq Posts
         /\ \A s \in Slots : JobInv(s)'
         /\ HasJob(p)' \/ p \in drift'
         /\ \A q \in Posts : HasJob(q) => HasJob(q)'
<1>1. /\ jobs \in [Slots -> Job \cup {NoJob}] /\ drift \subseteq Posts
      /\ \A s \in Slots : JobInv(s)
  BY DEF SearchInv, SearchTypeOK
<1>2. CASE drift' = drift \cup {p} /\ UNCHANGED jobs
  BY <1>1, <1>2 DEF JobInv, HasJob
<1>3. CASE ~(drift' = drift \cup {p} /\ UNCHANGED jobs)
  <2>1. PICK s \in Slots, n \in {1, Attempts} :
          /\ jobs[s] = NoJob
          /\ jobs' = [jobs EXCEPT ![s] =
               [op |-> op, post |-> p, left |-> n, row |-> IF op = "delete" THEN RemovedRow(p) ELSE Unread]]
          /\ UNCHANGED drift
    BY <1>3 DEF SyncSearchIndex
  <2> DEFINE row == IF op = "delete" THEN RemovedRow(p) ELSE Unread
             job == [op |-> op, post |-> p, left |-> n, row |-> row]
  <2>2. row \in Rows \cup {Unread} /\ (op = "delete" => row \in Rows /\ row[2])
    BY RemovedRowOK DEF SearchInv
  <2>3. n \in 1..Attempts
    BY SearchAssumption
  <2> HIDE DEF row
  <2>4. job \in Job /\ job.post = p /\ job.op = op /\ job.row = row
    BY <2>2, <2>3 DEF Job
  <2>5. jobs' = [jobs EXCEPT ![s] = job]
    BY <2>1 DEF row
  <2> HIDE DEF job
  <2>6. job # NoJob
    BY <2>4, NoJobAssumption
  <2>7. jobs'[s] = job /\ \A t \in Slots \ {s} : jobs'[t] = jobs[t]
    BY <1>1, <2>5
  <2>8. jobs' \in [Slots -> Job \cup {NoJob}]
    BY <1>1, <2>4, <2>5
  <2>9. \A t \in Slots : JobInv(t)'
    BY <1>1, <2>2, <2>4, <2>7 DEF JobInv
  <2>10. HasJob(p)' /\ \A q \in Posts : HasJob(q) => HasJob(q)'
    BY <2>1, <2>4, <2>6, <2>7 DEF HasJob
  <2> QED
    BY <1>1, <2>1, <2>8, <2>9, <2>10
<1> QED
  BY <1>2, <1>3

\* A step that changes p, queues its sync, and leaves the other posts alone.
LEMMA ChangeSafe ==
  ASSUME SearchInv, SearchTypeOK', NEW p \in Posts,
         NEW op \in {"upsert", "delete"}, SyncSearchIndex(op, p),
         UNCHANGED <<index, banned>>,
         \A q \in Posts \ {p} : content'[q] = content[q] /\ (q \in removedPosts' <=> q \in removedPosts),
         \A q \in Posts : content[q] > 0 => content'[q] > 0,
         \A r \in Requests : RequestInv(r)',
         \A r \in Requests : (pc'[r] = pc[r] /\ known'[r] = known[r]) \/ Abandoned(r) = {}
  PROVE  SearchInv'
<1>1. /\ drift \subseteq drift' /\ \A s \in Slots : JobInv(s)'
      /\ HasJob(p)' \/ p \in drift'
      /\ \A q \in Posts : HasJob(q) => HasJob(q)'
  BY SyncQueues
<1>2. PostInv(p)'
  BY <1>1 DEF PostInv
<1>3. ASSUME NEW q \in Posts \ {p}
      PROVE  PostInv(q)'
  <2>1. PostInv(q) /\ index'[q] = index[q] /\ (q \in drift => q \in drift')
    BY <1>1 DEF SearchInv
  <2>2. Target(q)' = Target(q)
    BY TargetKept
  <2>3. \A r \in Requests : q \in Abandoned(r) => q \in Abandoned(r)'
    BY AbandonedKept
  <2> QED
    BY <1>1, <2>1, <2>2, <2>3, PostKept
<1> QED
  BY <1>1, <1>2, <1>3 DEF SearchInv

LEMMA CreateSafe ==
  ASSUME SearchInv, NEW p \in Posts, Create(p)
  PROVE  SearchInv'
<1>1. /\ content[p] = 0 /\ content' = [content EXCEPT ![p] = 1]
      /\ UNCHANGED <<accessVars, index, pc, known>> /\ SyncSearchIndex("upsert", p)
      /\ content \in [Posts -> 0..MaxVersion]
  BY DEF Create, SearchInv, SearchTypeOK
<1>2. content' \in [Posts -> 0..MaxVersion]
  BY <1>1, SearchAssumption
<1>3. jobs' \in [Slots -> Job \cup {NoJob}] /\ drift' \subseteq Posts
  BY <1>1, SyncQueues
<1>4. SearchTypeOK'
  BY <1>1, <1>2, <1>3 DEF SearchInv, SearchTypeOK, AccessTypeOK, accessVars
<1>5. \A q \in Posts \ {p} : content'[q] = content[q]
  BY <1>1
<1>6. \A q \in Posts : content[q] > 0 => content'[q] > 0
  BY <1>1, <1>5
<1>7. \A r \in Requests : RequestInv(r)'
  BY <1>1, RequestKept DEF SearchInv
<1>8. UNCHANGED <<removedPosts, banned, index, pc, known>>
  BY <1>1 DEF accessVars
<1> QED
  BY <1>1, <1>4, <1>5, <1>6, <1>7, <1>8, ChangeSafe

LEMMA ChangeWriteSafe ==
  ASSUME SearchInv, NEW r \in Requests, Update(r) \/ SoftDelete(r) \/ RestorePosted(r)
  PROVE  SearchInv'
<1> DEFINE p == known[r].target
           op == IF SoftDelete(r) THEN "delete" ELSE "upsert"
<1>1. /\ pc[r] \in {"update_write", "remove_write", "restore_write"} /\ Answer(r)
      /\ content \in [Posts -> 0..MaxVersion] /\ known \in [Requests -> Known] /\ pc \in [Requests -> PCs]
      /\ UNCHANGED <<banned, blocks, index>>
  BY DEF Update, SoftDelete, RestorePosted, SearchInv, SearchTypeOK, Known, accessVars
<1>2. p \in Posts
  BY <1>1, PCFacts DEF SearchInv, RequestInv
<1> HIDE DEF p
<1>3. SyncSearchIndex("upsert", p) \/ SyncSearchIndex("delete", p)
  BY DEF Update, SoftDelete, RestorePosted, p
<1>4. jobs' \in [Slots -> Job \cup {NoJob}] /\ drift' \subseteq Posts
  BY <1>2, <1>3, SyncQueues
<1>5. /\ content' \in [Posts -> 0..MaxVersion]
      /\ \A q \in Posts \ {p} : content'[q] = content[q]
      /\ \A q \in Posts : content[q] > 0 => content'[q] > 0
  <2>1. CASE content' = content
    BY <1>1, <2>1
  <2>2. CASE Update(r)
    <3>1. content[p] < MaxVersion /\ content' = [content EXCEPT ![p] = content[p] + 1]
      BY <2>2 DEF Update, p
    <3>2. content[p] + 1 \in 0..MaxVersion /\ content[p] + 1 > 0
      BY <1>1, <1>2, <3>1, SearchAssumption
    <3> QED
      BY <1>1, <1>2, <3>1, <3>2
  <2> QED
    BY <2>1, <2>2 DEF SoftDelete, RestorePosted
<1>6. removedPosts' \in {removedPosts, removedPosts \cup {p}, removedPosts \ {p}}
  BY DEF Update, SoftDelete, RestorePosted, p, accessVars
<1>7. /\ pc' = [pc EXCEPT ![r] = "idle"] /\ known' = [known EXCEPT ![r] = Nothing] /\ "idle" \in PCs
  BY <1>1, PCFacts DEF Answer, Goto
<1>8. pc' \in [Requests -> PCs] /\ known' \in [Requests -> Known] /\ pc'[r] = "idle"
  BY <1>1, <1>7, NothingOK
<1>9. SearchTypeOK'
  BY <1>1, <1>2, <1>4, <1>5, <1>6, <1>8 DEF SearchInv, SearchTypeOK, AccessTypeOK, Known
<1>10. \A q \in Requests \ {r} : pc'[q] = pc[q] /\ known'[q] = known[q]
  BY <1>1, <1>7
<1>11. Abandoned(r) = {}
  BY <1>1, AbandonedNone
<1>12. RequestInv(r)'
  BY <1>8, PCFacts DEF RequestInv
<1>13. \A q \in Requests : RequestInv(q)'
  BY <1>10, <1>12, RequestKept DEF SearchInv
<1>14. \A q \in Posts \ {p} : q \in removedPosts' <=> q \in removedPosts
  BY <1>6
<1> QED
  BY <1>1, <1>2, <1>3, <1>5, <1>9, <1>10, <1>11, <1>13, <1>14, ChangeSafe

LEMMA RunJobSafe ==
  ASSUME SearchInv, NEW s \in Slots, RunJob(s)
  PROVE  SearchInv'
<1> DEFINE job == jobs[s]
<1>a. job # NoJob /\ jobs \in [Slots -> Job \cup {NoJob}]
  BY DEF RunJob, ReadJob, WriteJob, FailJob, SearchInv, SearchTypeOK
<1>b. job \in Job
  BY <1>a
<1>c. PICK p \in Posts : p = job.post
  BY <1>b DEF Job
<1>1. /\ job \in Job /\ job # NoJob /\ job.post = p /\ JobInv(s)
      /\ jobs \in [Slots -> Job \cup {NoJob}] /\ index \in [Posts -> 0..MaxVersion] /\ drift \subseteq Posts
  BY <1>a, <1>b, <1>c DEF SearchInv, SearchTypeOK
<1>2. UNCHANGED <<accessVars, content, pc, known>>
  BY DEF RunJob, ReadJob, WriteJob, FailJob
<1>3. \A r \in Requests : RequestInv(r)'
  BY <1>2, RequestKept DEF SearchInv
<1>4. \A r \in Requests : Abandoned(r) \subseteq Abandoned(r)'
  BY <1>2, AbandonedKept
<1>5. \A q \in Posts : Target(q)' = Target(q)
  BY <1>2, TargetKept DEF accessVars
<1>6. removedPosts' = removedPosts
  BY <1>2 DEF accessVars
\* The attempt goes on, or begins again: the job stays.
<1>7. ASSUME NEW j \in Job, jobs' = [jobs EXCEPT ![s] = j], j.post = p, UNCHANGED <<index, drift>>,
             j.op = "delete" => j.row \in Rows /\ j.row[2]
      PROVE  SearchInv'
  <2>1. jobs'[s] = j /\ j # NoJob /\ \A t \in Slots \ {s} : jobs'[t] = jobs[t]
    BY <1>1, <1>7, NoJobAssumption
  <2>2. SearchTypeOK'
    BY <1>1, <1>2, <1>7 DEF SearchInv, SearchTypeOK, AccessTypeOK, accessVars
  <2>3. \A t \in Slots : JobInv(t)'
    BY <1>7, <2>1 DEF SearchInv, JobInv
  <2>4. \A q \in Posts : HasJob(q) => HasJob(q)'
    BY <1>1, <1>7, <2>1 DEF HasJob
  <2>5. \A q \in Posts : PostInv(q)'
    BY <1>4, <1>5, <1>6, <1>7, <2>4, PostKept DEF SearchInv
  <2> QED
    BY <1>3, <2>2, <2>3, <2>5 DEF SearchInv
\* The job is over: another job of the post may be left.
<1>8. ASSUME jobs' = [jobs EXCEPT ![s] = NoJob], drift' \subseteq Posts,
             \A q \in Posts \ {p} : index'[q] = index[q] /\ (q \in drift => q \in drift'),
             index' \in [Posts -> 0..MaxVersion],
             p \in drift' \/ index'[p] = Target(p)
      PROVE  SearchInv'
  <2>1. jobs'[s] = NoJob /\ \A t \in Slots \ {s} : jobs'[t] = jobs[t]
    BY <1>1, <1>8
  <2>2. SearchTypeOK'
    BY <1>1, <1>2, <1>8 DEF SearchInv, SearchTypeOK, AccessTypeOK, accessVars
  <2>3. \A t \in Slots : JobInv(t)'
    BY <2>1 DEF SearchInv, JobInv
  <2>4. \A q \in Posts \ {p} : HasJob(q) => HasJob(q)'
    BY <1>1, <2>1 DEF HasJob
  <2>5. \A q \in Posts \ {p} : PostInv(q)'
    BY <1>4, <1>5, <1>6, <1>8, <2>4, PostKept DEF SearchInv
  <2>6. PostInv(p)'
    BY <1>1, <1>5, <1>8 DEF PostInv
  <2> QED
    BY <1>3, <2>2, <2>3, <2>5, <2>6 DEF SearchInv
<1>9. CASE ReadJob(s)
  <2> DEFINE j == [job EXCEPT !.row = Row(p)]
  <2>1. jobs' = [jobs EXCEPT ![s] = j] /\ UNCHANGED <<index, drift>> /\ job.row = Unread
    BY <1>1, <1>9 DEF ReadJob
  <2>2. j \in Job /\ j.post = p /\ j.op = job.op
    BY <1>1, RemovedRowOK DEF Job, SearchInv
  <2>3. Unread \notin Rows
    BY DEF Unread, Rows
  <2>4. job.op # "delete"
    BY <1>1, <2>1, <2>3 DEF JobInv
  <2> HIDE DEF j
  <2> QED
    BY <1>7, <2>1, <2>2, <2>4
<1>10. CASE WriteJob(s)
  <2> DEFINE late == IF Row(p) = job.row THEN {} ELSE {p}
  <2>1. /\ jobs' = [jobs EXCEPT ![s] = NoJob] /\ job.row # Unread
        /\ index' = [q \in Posts |-> IF q \in {p} THEN Doc(job) ELSE index[q]]
        /\ drift' = (drift \ {p}) \cup late
    BY <1>1, <1>10 DEF WriteJob, WriteIndex
  <2>2. job.row \in Rows
    BY <1>1, <2>1 DEF Job
  <2>3. Doc(job) \in 0..MaxVersion
    <3>1. job.row[1] \in 0..MaxVersion
      BY <2>2 DEF Rows
    <3> QED
      BY <3>1, SearchAssumption DEF Doc
  <2>4. index' \in [Posts -> 0..MaxVersion] /\ index'[p] = Doc(job)
        /\ \A q \in Posts \ {p} : index'[q] = index[q]
    BY <1>1, <2>1, <2>3
  <2>5. late = {} => Doc(job) = Target(p)
    <3>1. ASSUME job.row = Row(p) PROVE Doc(job) = Target(p)
      BY <1>1, <3>1, DocRight DEF SearchInv, JobInv
    <3> QED
      BY <3>1
  <2>6. p \in drift' \/ index'[p] = Target(p)
    BY <2>1, <2>4, <2>5
  <2>7. drift' \subseteq Posts /\ \A q \in Posts \ {p} : q \in drift => q \in drift'
    BY <1>1, <2>1
  <2> QED
    BY <1>8, <2>1, <2>4, <2>6, <2>7
<1>11. CASE FailJob(s)
  <2>1. CASE job.left = 1 /\ jobs' = [jobs EXCEPT ![s] = NoJob] /\ drift' = drift \cup {p}
    <3>1. index' = index
      BY <1>11 DEF FailJob
    <3> QED
      BY <1>1, <1>8, <2>1, <3>1
  <2>2. CASE ~(job.left = 1 /\ jobs' = [jobs EXCEPT ![s] = NoJob] /\ drift' = drift \cup {p})
    <3> DEFINE row == IF job.op = "delete" THEN job.row ELSE Unread
               j == [job EXCEPT !.left = job.left - 1, !.row = row]
    <3>1. /\ job.left > 1 /\ jobs' = [jobs EXCEPT ![s] = j] /\ UNCHANGED <<index, drift>>
      BY <1>1, <1>11, <2>2 DEF FailJob
    <3>2. job.left - 1 \in 1..Attempts /\ row \in Rows \cup {Unread}
      BY <1>1, <3>1, SearchAssumption DEF Job
    <3> HIDE DEF row
    <3>3. j \in Job /\ j.post = p /\ j.op = job.op /\ j.row = row
      BY <1>1, <3>2 DEF Job
    <3>4. job.op = "delete" => row \in Rows /\ row[2]
      BY <1>1 DEF JobInv, row
    <3> HIDE DEF j
    <3> QED
      BY <1>7, <3>1, <3>3, <3>4
  <2> QED
    BY <2>1, <2>2
<1> QED
  BY <1>9, <1>10, <1>11 DEF RunJob

-----------------------------------------------------------------------------
(* Bans, and the writes of a request to the index. *)

\* A ban or an unban changes what the index should hold of the user's posts
\* that are not removed, and leaves them all to the request that does it.
LEMMA LockSafe ==
  ASSUME SearchInv, NEW r \in Requests, NEW u \in Users, Lock(r, u)
  PROVE  SearchInv'
<1> DEFINE next == IF u \in banned THEN "unban_list" ELSE "ban_list"
           k == [Nothing EXCEPT !.target = u]
<1>1. /\ pc[r] = "idle" /\ banned' \in {banned \cup {u}, banned \ {u}}
      /\ UNCHANGED <<removedPosts, blocks, content, index, jobs, drift>>
      /\ known' = [known EXCEPT ![r] = k] /\ pc' = [pc EXCEPT ![r] = next]
  BY DEF Lock, Goto
<1>2. k \in Known /\ k.target = u /\ next \in PCs /\ next \in {"ban_list", "unban_list"}
  BY NothingOK, PCFacts DEF Known
<1> HIDE DEF k, next
<1>3. /\ pc'[r] = next /\ known'[r] = k
      /\ \A q \in Requests \ {r} : pc'[q] = pc[q] /\ known'[q] = known[q]
  BY <1>1 DEF SearchInv, SearchTypeOK
<1>4. SearchTypeOK'
  BY <1>1, <1>2 DEF SearchInv, SearchTypeOK, AccessTypeOK, Known
<1>5. RequestInv(r)'
  BY <1>2, <1>3, PCFacts DEF RequestInv
<1>6. \A q \in Requests : RequestInv(q)'
  BY <1>3, <1>5, RequestKept DEF SearchInv
<1>7. \A s \in Slots : JobInv(s)'
  BY <1>1 DEF SearchInv, JobInv
<1>8. Abandoned(r) = {}
  BY <1>1, AbandonedNone
<1>9. ASSUME NEW p \in Posts
      PROVE  PostInv(p)'
  <2>1. PostInv(p) /\ (HasJob(p) => HasJob(p)')
    BY <1>1 DEF SearchInv, HasJob
  <2>2. \A q \in Requests : p \in Abandoned(q) => p \in Abandoned(q)'
    BY <1>1, <1>3, <1>8, AbandonedKept
  <2>3. CASE Target(p)' = Target(p)
    BY <1>1, <2>1, <2>2, <2>3, PostKept
  <2>4. CASE Target(p)' # Target(p)
    <3>1. Author[p] = u /\ content[p] > 0 /\ p \notin removedPosts
      BY <1>1, <2>4 DEF Target, Live, PostVisible
    <3>2. p \in Abandoned(r)'
      BY <1>1, <1>2, <1>3, <3>1 DEF Abandoned, PostsOf
    <3> QED
      BY <1>1, <3>1, <3>2 DEF PostInv
  <2> QED
    BY <2>3, <2>4
<1> QED
  BY <1>4, <1>6, <1>7, <1>9 DEF SearchInv

\* A request writes what it has listed: what it did not bring up to date shows
\* in drift.
LEMMA RequestWrites ==
  ASSUME SearchInv, NEW r \in Requests, UNCHANGED <<accessVars, content, jobs>>,
         NEW next \in {"idle", "rebuild"}, Goto(r, next),
         NEW k \in Known, known' = [known EXCEPT ![r] = k],
         NEW ids \in SUBSET Posts, NEW docs \in [Posts -> 0..MaxVersion],
         NEW late \in SUBSET Posts, WriteIndex(ids, docs, late),
         \A p \in ids \ late : docs[p] = Target(p),
         Abandoned(r) \subseteq ids \cup late
  PROVE  SearchInv'
<1>1. /\ index' = [p \in Posts |-> IF p \in ids THEN docs[p] ELSE index[p]]
      /\ drift' = (drift \ ids) \cup late
  BY DEF WriteIndex
<1>2. /\ index \in [Posts -> 0..MaxVersion] /\ drift \subseteq Posts /\ pc \in [Requests -> PCs]
      /\ known \in [Requests -> Known]
  BY DEF SearchInv, SearchTypeOK, Known
<1>3. index' \in [Posts -> 0..MaxVersion] /\ drift' \subseteq Posts
  BY <1>1, <1>2
<1>4. pc' \in [Requests -> PCs] /\ known' \in [Requests -> Known] /\ pc'[r] = next
  BY <1>2, PCFacts DEF Goto
<1>5. \A q \in Requests \ {r} : pc'[q] = pc[q] /\ known'[q] = known[q]
  BY <1>2 DEF Goto
<1>6. SearchTypeOK'
  BY <1>3, <1>4 DEF SearchInv, SearchTypeOK, AccessTypeOK, accessVars, Known
<1>7. RequestInv(r)'
  BY <1>4, PCFacts DEF RequestInv
<1>8. \A q \in Requests : RequestInv(q)'
  BY <1>5, <1>7, RequestKept DEF SearchInv
<1>9. \A s \in Slots : JobInv(s)'
  BY DEF SearchInv, JobInv
<1>10. ASSUME NEW p \in Posts
       PROVE  PostInv(p)'
  <2>1. Target(p)' = Target(p) /\ removedPosts' = removedPosts
    BY TargetKept DEF accessVars
  <2>2. CASE p \in late
    BY <1>1, <2>2 DEF PostInv
  <2>3. CASE p \in ids \ late
    BY <1>1, <2>1, <2>3 DEF PostInv
  <2>4. CASE p \notin ids \cup late
    <3>1. PostInv(p) /\ (HasJob(p) => HasJob(p)') /\ index'[p] = index[p] /\ (p \in drift => p \in drift')
      BY <1>1, <2>4 DEF SearchInv, HasJob
    <3>2. \A q \in Requests : p \in Abandoned(q) => p \in Abandoned(q)'
      BY <1>5, <2>4, AbandonedKept
    <3> QED
      BY <2>1, <3>1, <3>2, PostKept
  <2> QED
    BY <2>2, <2>3, <2>4
<1> QED
  BY <1>6, <1>8, <1>9, <1>10 DEF SearchInv

LEMMA DeletePostsSafe ==
  ASSUME SearchInv, NEW r \in Requests, DeletePosts(r)
  PROVE  SearchInv'
<1>1. /\ pc[r] = "ban_delete" /\ Answer(r) /\ UNCHANGED <<accessVars, content, jobs>>
      /\ known[r] \in Known /\ RequestInv(r)
  BY DEF DeletePosts, SearchInv, SearchTypeOK, Known
<1>2. PICK done \in SUBSET known[r].ids :
        WriteIndex(done, [p \in Posts |-> 0],
                   IF known[r].target \in banned THEN known[r].ids \ done ELSE known[r].ids)
  BY DEF DeletePosts
<1> DEFINE late == IF known[r].target \in banned THEN known[r].ids \ done ELSE known[r].ids
           docs == [p \in Posts |-> 0]
<1>3. done \in SUBSET Posts /\ late \in SUBSET Posts
  BY <1>1 DEF Known
<1>4. docs \in [Posts -> 0..MaxVersion]
  BY SearchAssumption
<1>5. ASSUME NEW p \in done \ late
      PROVE  docs[p] = Target(p)
  <2>1. Author[p] = known[r].target /\ known[r].target \in banned
    BY <1>1 DEF RequestInv
  <2>2. Target(p) = 0
    BY <2>1 DEF Target, Live, PostVisible
  <2> QED
    BY <1>3, <2>2
<1>6. Abandoned(r) \subseteq done \cup late
  BY <1>1 DEF Abandoned
<1>7. Goto(r, "idle") /\ known' = [known EXCEPT ![r] = Nothing] /\ Nothing \in Known
  BY <1>1, NothingOK DEF Answer
<1>8. WriteIndex(done, docs, late)
  BY <1>2
<1> HIDE DEF late, docs
<1>9. PICK out \in SUBSET Posts : out = late
  BY <1>3
<1> QED
  BY <1>1, <1>3, <1>4, <1>5, <1>6, <1>7, <1>8, <1>9, RequestWrites DEF WriteIndex

LEMMA AddPostsSafe ==
  ASSUME SearchInv, NEW r \in Requests, AddPosts(r)
  PROVE  SearchInv'
<1>1. /\ pc[r] = "add" /\ UNCHANGED <<accessVars, content, jobs>> /\ known[r] \in Known
  BY DEF AddPosts, SearchInv, SearchTypeOK, Known
<1>2. PICK ids \in SUBSET Posts, docs \in [Posts -> 0..MaxVersion] :
        ids = known[r].ids /\ docs = known[r].docs
  BY <1>1 DEF Known
<1>3. PICK out \in SUBSET Posts : out = {p \in ids : ~Live(p) \/ content[p] # docs[p]}
  OBVIOUS
<1>4. WriteIndex(ids, docs, out)
  BY <1>2, <1>3 DEF AddPosts, WriteIndex
<1>5. \A p \in ids \ out : docs[p] = Target(p)
  BY <1>3 DEF Target
<1>6. Abandoned(r) \subseteq ids \cup out
  BY <1>1, <1>2 DEF Abandoned
<1>7. PICK next \in {"idle", "rebuild"} : Goto(r, next) /\ known' = [known EXCEPT ![r] = Nothing]
  BY DEF AddPosts, Answer
<1> QED
  BY <1>1, <1>4, <1>5, <1>6, <1>7, NothingOK, RequestWrites

LEMMA SearchInvStep == SearchInv /\ [SearchNext]_<<accessVars, searchVars>> => SearchInv'
<1> SUFFICES ASSUME SearchInv, [SearchNext]_<<accessVars, searchVars>>
             PROVE  SearchInv'
  OBVIOUS
<1>1. CASE UNCHANGED <<accessVars, searchVars>>
  <2>1. SearchTypeOK' /\ (\A s \in Slots : JobInv(s)') /\ (\A r \in Requests : RequestInv(r)')
    BY <1>1 DEF accessVars, searchVars, SearchInv, SearchTypeOK, AccessTypeOK, JobInv, RequestInv
  <2>2. \A p \in Posts : PostInv(p)'
    BY <1>1 DEF accessVars, searchVars, SearchInv, PostInv, HasJob, Target, Live, PostVisible,
       Abandoned, PostsOf
  <2> QED
    BY <2>1, <2>2 DEF SearchInv
<1>2. CASE SearchNext
  <2>1. ASSUME NEW r \in Requests, SearchStep(r)
        PROVE  SearchInv'
    BY <2>1, CheckRowSafe, ChangeWriteSafe, ListPostsSafe, DeletePostsSafe, ReadPostsSafe,
       ReadBatchSafe, AddPostsSafe, RebuildOrFailSafe DEF SearchStep
  <2> QED
    BY <1>2, <2>1, CreateSafe, ChangeStartSafe, LockSafe, RebuildOrFailSafe, RunJobSafe DEF SearchNext
<1> QED
  BY <1>1, <1>2

LEMMA SearchInvariant == SearchSpec => []SearchInv
BY SearchInvInit, SearchInvStep, PTL DEF SearchSpec

\* The rows, documents, jobs and requests keep their types; in particular no
\* request loads or writes a post by anything but a post's id.
THEOREM SearchTypeCorrect == SearchSpec => []SearchTypeOK
<1>1. SearchInv => SearchTypeOK
  BY DEF SearchInv
<1> QED
  BY <1>1, SearchInvariant, PTL

\* The index is never left behind a change of a post unnoticed: a job or a
\* request is to write it, or its last write was outdated or lost, or its
\* document is right.
THEOREM IndexCatchesUp == SearchSpec => []IndexSettles
<1>1. SearchInv => IndexSettles
  BY DEF SearchInv, PostInv, IndexSettles, Outstanding, HasJob, Target
<1> QED
  BY <1>1, SearchInvariant, PTL

\* A post stays out, where no step takes it up.
LEMMA StillOut ==
  ASSUME NEW p \in Posts, Out(p), content'[p] > 0, ~PostVisible(p)', index'[p] = 0,
         p \in removedPosts => p \in removedPosts',
         \A s \in Slots, v \in 1..MaxVersion :
           jobs'[s] # NoJob /\ jobs'[s].post = p => jobs'[s].row # <<v, FALSE, FALSE>>,
         \A r \in Requests :
           \/ pc'[r] = pc[r] /\ known'[r] = known[r]
           \/ pc'[r] \notin {"unban_list", "unban_read", "add"}
           \/ pc'[r] = "unban_list" /\ (known'[r].target # Author[p] \/ p \in removedPosts')
           \/ pc'[r] \in {"unban_read", "add"} /\ p \notin known'[r].ids
  PROVE  Out(p)'
<1>1. ASSUME NEW r \in Requests
      PROVE  ~(\/ pc'[r] = "unban_list" /\ p \in PostsOf(known[r].target)' \ removedPosts'
               \/ pc'[r] \in {"unban_read", "add"} /\ p \in known'[r].ids)
  BY DEF Out, Reentering, PostsOf
<1> QED
  BY <1>1 DEF Out, Reentering

\* No job of a hidden post is to write a document, be it new or read just now.
LEMMA JobsOut ==
  ASSUME SearchTypeOK, NEW p \in Posts, Out(p),
         \/ UNCHANGED jobs
         \/ \E q \in Posts, op \in {"upsert", "delete"} : SyncSearchIndex(op, q)
         \/ \E s \in Slots : RunJob(s)
  PROVE  \A s \in Slots, v \in 1..MaxVersion :
           jobs'[s] # NoJob /\ jobs'[s].post = p => jobs'[s].row # <<v, FALSE, FALSE>>
<1>1. /\ jobs \in [Slots -> Job \cup {NoJob}]
      /\ \A s \in Slots, v \in 1..MaxVersion :
           jobs[s] # NoJob /\ jobs[s].post = p => jobs[s].row # <<v, FALSE, FALSE>>
  BY DEF SearchTypeOK, Out, Reentering
<1>2. \A v \in 1..MaxVersion : Unread # <<v, FALSE, FALSE>>
  BY DEF Unread
<1>3. \A q \in Posts : \A v \in 1..MaxVersion : RemovedRow(q) # <<v, FALSE, FALSE>>
  <2> SUFFICES ASSUME NEW q \in Posts, NEW v \in 1..MaxVersion, RemovedRow(q) = <<v, FALSE, FALSE>>
               PROVE  FALSE
    OBVIOUS
  <2>1. RemovedRow(q)[2]
    BY Zenon DEF RemovedRow
  <2> QED
    BY <2>1
<1>4. \A v \in 1..MaxVersion : Row(p) # <<v, FALSE, FALSE>>
  <2> SUFFICES ASSUME NEW v \in 1..MaxVersion, Row(p) = <<v, FALSE, FALSE>>
               PROVE  FALSE
    OBVIOUS
  <2>1. (Row(p)[2] <=> p \in removedPosts) /\ (Row(p)[3] <=> Author[p] \in banned)
    BY Zenon DEF Row
  <2>2. ~Row(p)[2] /\ ~Row(p)[3]
    OBVIOUS
  <2> QED
    BY <2>1, <2>2, Zenon DEF Out, PostVisible
<1>5. CASE UNCHANGED jobs
  BY <1>1, <1>5
<1>6. ASSUME NEW q \in Posts, NEW op \in {"upsert", "delete"}, SyncSearchIndex(op, q), ~UNCHANGED jobs
      PROVE  \A s \in Slots, v \in 1..MaxVersion :
               jobs'[s] # NoJob /\ jobs'[s].post = p => jobs'[s].row # <<v, FALSE, FALSE>>
  <2>1. PICK s \in Slots, n \in {1, Attempts} :
          jobs' = [jobs EXCEPT ![s] =
            [op |-> op, post |-> q, left |-> n, row |-> IF op = "delete" THEN RemovedRow(q) ELSE Unread]]
    BY <1>6 DEF SyncSearchIndex
  <2>2. jobs'[s].row \in {RemovedRow(q), Unread} /\ \A t \in Slots \ {s} : jobs'[t] = jobs[t]
    BY <1>1, <2>1
  <2> QED
    BY <1>1, <1>2, <1>3, <2>2
<1>7. ASSUME NEW s \in Slots, RunJob(s)
      PROVE  \A t \in Slots, v \in 1..MaxVersion :
               jobs'[t] # NoJob /\ jobs'[t].post = p => jobs'[t].row # <<v, FALSE, FALSE>>
  <2>1. jobs[s] # NoJob /\ jobs[s] \in Job
    BY <1>1, <1>7 DEF RunJob, ReadJob, WriteJob, FailJob
  <2>2. \A t \in Slots \ {s} : jobs'[t] = jobs[t]
    BY <1>1, <1>7 DEF RunJob, ReadJob, WriteJob, FailJob
  <2>3. \/ jobs'[s] = NoJob
        \/ jobs'[s].post = jobs[s].post /\ jobs'[s].row \in {Row(jobs[s].post), jobs[s].row, Unread}
    BY <1>1, <1>7, <2>1 DEF RunJob, ReadJob, WriteJob, FailJob, Job
  <2> QED
    BY <1>1, <1>2, <1>4, <2>1, <2>2, <2>3
<1> QED
  BY <1>5, <1>6, <1>7

\* The one step of a request that may take up a hidden post.
LEMMA OutStep ==
  ASSUME SearchTypeOK, NEW p \in Posts, Out(p), ~PostVisible(p)', p \in removedPosts => p \in removedPosts',
         NEW r \in Requests, SearchStep(r) \/ RebuildStart(r) \/ (\E q \in Posts : ChangeStart(r, q))
                              \/ (\E u \in Users : Lock(r, u))
  PROVE  \/ pc'[r] \notin {"unban_list", "unban_read", "add"}
         \/ pc'[r] = "unban_list" /\ (known'[r].target # Author[p] \/ p \in removedPosts')
         \/ pc'[r] \in {"unban_read", "add"} /\ p \notin known'[r].ids
<1>1. pc \in [Requests -> PCs] /\ known \in [Requests -> Known]
  BY DEF SearchTypeOK, Known
<1>2. /\ pc[r] = "unban_list" => p \notin PostsOf(known[r].target) \ removedPosts
      /\ pc[r] \in {"unban_read", "add"} => p \notin known[r].ids
  BY DEF Out, Reentering
<1>3. CASE ListPosts(r)
  <2>1. /\ pc[r] \in {"ban_list", "unban_list"}
        /\ pc'[r] = IF pc[r] = "ban_list" THEN "ban_delete" ELSE "unban_read"
        /\ known'[r].ids = PostsOf(known[r].target) \ removedPosts
    BY <1>1, <1>3 DEF ListPosts, PostsListed, Goto, Known
  <2> QED
    BY <1>2, <2>1
<1>4. CASE ReadPosts(r)
  <2>1. pc[r] = "unban_read" /\ pc'[r] = "add" /\ known'[r].ids = known[r].ids
    BY <1>1, <1>4 DEF ReadPosts, Goto, Known
  <2> QED
    BY <1>2, <2>1
<1>5. CASE ReadBatch(r)
  <2>1. \/ pc'[r] = "idle"
        \/ pc'[r] = "add" /\ known'[r].ids \subseteq {q \in Posts : Live(q)}
    BY <1>1, <1>5 DEF ReadBatch, Answer, Goto
  <2> QED
    BY <2>1 DEF Live, Out
<1>6. ASSUME NEW u \in Users, Lock(r, u)
      PROVE  \/ pc'[r] = "ban_list"
             \/ pc'[r] = "unban_list" /\ (known'[r].target # Author[p] \/ p \in removedPosts')
  <2>1. /\ known'[r] = [Nothing EXCEPT !.target = u] /\ UNCHANGED removedPosts
        /\ \/ pc'[r] = "ban_list"
           \/ pc'[r] = "unban_list" /\ banned' = banned \ {u}
    BY <1>1, <1>6 DEF Lock, Goto
  <2>2. known'[r].target = u
    BY <2>1 DEF Nothing
  <2> QED
    BY <2>1, <2>2 DEF PostVisible
<1>7. CASE CheckRow(r) \/ Update(r) \/ SoftDelete(r) \/ RestorePosted(r) \/ DeletePosts(r) \/ AddPosts(r)
           \/ Fail(r) \/ RebuildStart(r) \/ (\E q \in Posts : ChangeStart(r, q))
  <2>1. pc'[r] \in {"idle", "rebuild"} \cup DOMAIN WriteOf \cup {WriteOf[op] : op \in DOMAIN WriteOf}
    BY <1>1, <1>7 DEF CheckRow, Update, SoftDelete, RestorePosted, DeletePosts, AddPosts, Fail, RebuildStart,
       ChangeStart, Start, Answer, Goto
  <2> QED
    BY <2>1, PCFacts
<1> QED
  BY <1>3, <1>4, <1>5, <1>6, <1>7 DEF SearchStep

\* Nor does a step give it a document.
LEMMA NoDocument ==
  ASSUME SearchTypeOK, NEW p \in Posts, Out(p), SearchNext
  PROVE  index'[p] = 0
<1>1. index \in [Posts -> 0..MaxVersion] /\ index[p] = 0
  BY DEF SearchTypeOK, Out
<1>2. ASSUME NEW s \in Slots, RunJob(s) PROVE index'[p] = 0
  <2> SUFFICES ASSUME WriteJob(s), jobs[s].post = p PROVE index'[p] = 0
    BY <1>1, <1>2 DEF RunJob, ReadJob, WriteJob, FailJob, WriteIndex
  <2> DEFINE job == jobs[s]
  <2>1. /\ job \in Job /\ job # NoJob /\ job.row # Unread /\ index'[p] = Doc(job)
    BY DEF WriteJob, WriteIndex, SearchTypeOK
  <2>2. PICK v \in 0..MaxVersion, a \in BOOLEAN, b \in BOOLEAN : job.row = <<v, a, b>>
    BY <2>1 DEF Job, Rows
  <2>3. ~a /\ ~b => v = 0
    <3>1. CASE a = FALSE /\ b = FALSE /\ v # 0
      <4>1. v \in 1..MaxVersion
        BY <3>1, SearchAssumption
      <4>2. job.row = <<v, FALSE, FALSE>>
        BY <2>2, <3>1
      <4> QED
        BY <2>1, <4>1, <4>2 DEF Out, Reentering
    <3> QED
      BY <3>1
  <2>4. Doc(job) = 0
    BY <2>2, <2>3 DEF Doc
  <2> QED
    BY <2>1, <2>4
<1>3. ASSUME NEW r \in Requests, AddPosts(r) PROVE index'[p] = 0
  <2>1. p \notin known[r].ids
    BY <1>3 DEF AddPosts, Out, Reentering
  <2> QED
    BY <1>1, <1>3, <2>1 DEF AddPosts, WriteIndex
<1>4. ASSUME NEW r \in Requests, DeletePosts(r) PROVE index'[p] = 0
  BY <1>1, <1>4 DEF DeletePosts, WriteIndex
<1> QED
  BY <1>1, <1>2, <1>3, <1>4 DEF SearchNext, SearchStep, Create, ChangeStart, Lock, RebuildStart, CheckRow, Update,
     SoftDelete, RestorePosted, ListPosts, ReadPosts, ReadBatch, Fail

\* A hidden post that is out of the index, and that no one saw before it was
\* hidden and is still to write, stays out until it is restored or visible again:
\* whatever edits, retried jobs, rebuilds, bans and unbans come.
THEOREM HiddenPostsStayOut == SearchSpec => HiddenStaysOut
<1>1. ASSUME SearchInv, SearchTypeOK, [SearchNext]_<<accessVars, searchVars>>, NEW p \in Posts, Out(p),
             ~PostVisible(p)', ~(p \in removedPosts \ removedPosts')
      PROVE  Out(p)'
  <2>0. p \in removedPosts => p \in removedPosts'
    BY <1>1
  <2>1. CASE UNCHANGED <<accessVars, searchVars>>
    BY <1>1, <2>1 DEF Out, Reentering, PostsOf, PostVisible, accessVars, searchVars
  <2>2. CASE SearchNext
    <3>1. index'[p] = 0
      BY <1>1, <2>2, NoDocument
    <3>2. content'[p] > 0
      <4>1. content \in [Posts -> 0..MaxVersion] /\ content[p] > 0
        BY <1>1 DEF SearchTypeOK, Out
      <4>2. CASE content' = content
        BY <4>1, <4>2
      <4>3. ASSUME NEW r \in Requests, Update(r) PROVE content'[p] > 0
        BY <4>1, <4>3, SearchAssumption DEF Update
      <4>4. ASSUME NEW q \in Posts, Create(q) PROVE content'[p] > 0
        BY <4>1, <4>4 DEF Create
      <4> QED
        BY <2>2, <4>2, <4>3, <4>4 DEF SearchNext, SearchStep, ChangeStart, Lock, RebuildStart, CheckRow,
           SoftDelete, RestorePosted, ListPosts, DeletePosts, ReadPosts, ReadBatch, AddPosts, Fail,
           RunJob, ReadJob, WriteJob, FailJob
    <3>3. \A s \in Slots, v \in 1..MaxVersion :
            jobs'[s] # NoJob /\ jobs'[s].post = p => jobs'[s].row # <<v, FALSE, FALSE>>
      <4>1. \/ UNCHANGED jobs
            \/ \E q \in Posts, op \in {"upsert", "delete"} : SyncSearchIndex(op, q)
            \/ \E s \in Slots : RunJob(s)
        <5>1. ASSUME NEW r \in Requests, Update(r) \/ SoftDelete(r) \/ RestorePosted(r)
              PROVE  \E q \in Posts, op \in {"upsert", "delete"} : SyncSearchIndex(op, q)
          <6>1. pc[r] \in {"update_write", "remove_write", "restore_write"}
            BY <5>1 DEF Update, SoftDelete, RestorePosted
          <6>2. RequestInv(r)
            BY <1>1 DEF SearchInv
          <6>3. known[r].target \in Posts
            BY <6>1, <6>2, PCFacts DEF RequestInv
          <6> QED
            BY <5>1, <6>3 DEF Update, SoftDelete, RestorePosted
        <5> QED
          BY <2>2, <5>1 DEF SearchNext, SearchStep, Create, ChangeStart, Lock, RebuildStart, CheckRow,
             ListPosts, DeletePosts, ReadPosts, ReadBatch, AddPosts, Fail
      <4> QED
        BY <1>1, <4>1, JobsOut
    <3>4. \A r \in Requests :
            \/ pc'[r] = pc[r] /\ known'[r] = known[r]
            \/ pc'[r] \notin {"unban_list", "unban_read", "add"}
            \/ pc'[r] = "unban_list" /\ (known'[r].target # Author[p] \/ p \in removedPosts')
            \/ pc'[r] \in {"unban_read", "add"} /\ p \notin known'[r].ids
      <4> SUFFICES ASSUME NEW r \in Requests, ~(pc'[r] = pc[r] /\ known'[r] = known[r])
                   PROVE  \/ pc'[r] \notin {"unban_list", "unban_read", "add"}
                          \/ pc'[r] = "unban_list" /\ (known'[r].target # Author[p] \/ p \in removedPosts')
                          \/ pc'[r] \in {"unban_read", "add"} /\ p \notin known'[r].ids
        OBVIOUS
      <4>1. PICK q \in Requests : SearchStep(q) \/ RebuildStart(q) \/ (\E o \in Posts : ChangeStart(q, o))
                                    \/ (\E u \in Users : Lock(q, u))
        BY <2>2 DEF SearchNext, Create, RunJob, ReadJob, WriteJob, FailJob
      <4>2. q = r
        <5>1. \A o \in Requests \ {q} : pc'[o] = pc[o] /\ known'[o] = known[o]
          BY <1>1, <4>1 DEF SearchTypeOK, SearchStep, CheckRow, Update, SoftDelete, RestorePosted, ListPosts,
             DeletePosts, ReadPosts, ReadBatch, AddPosts, Fail, RebuildStart, ChangeStart, Start, Lock, Answer, Goto
        <5> QED
          BY <5>1
      <4> QED
        BY <1>1, <2>0, <4>1, <4>2, OutStep
    <3> QED
      BY <1>1, <2>0, <3>1, <3>2, <3>3, <3>4, StillOut
  <2> QED
    BY <1>1, <2>1, <2>2
<1>2. SearchInv /\ [SearchNext]_<<accessVars, searchVars>> =>
        [\A p \in Posts :
           Out(p) => Out(p)' \/ PostVisible(p)' \/ p \in removedPosts \ removedPosts']_<<accessVars, searchVars>>
  BY <1>1 DEF SearchInv
<1> QED
  BY <1>2, SearchInvariant, PTL DEF SearchSpec, HiddenStaysOut

-----------------------------------------------------------------------------
(* The listings, and the order of their rows. *)

LEMMA ItemsFacts ==
  /\ IsFiniteSet(Items) /\ Items \in SUBSET (Nat \ {0}) /\ Cardinality(Items) \in Items
  /\ \A n \in Nat \ {0} : n <= Cardinality(Items) => n \in Items
  /\ PageLimit \in Nat \ {0} /\ MaxKey \in Nat /\ MaxChanges \in Nat
<1>1. Cardinality(Items) \in Nat
  BY PagesAssumption, FS_CardinalityType
<1> QED
  BY <1>1, PagesAssumption

LEMMA ListingFacts ==
  ASSUME listing \in Listings
  PROVE  /\ listing.cursor \in {"row", "id", "offset"}
         /\ listing.join \in {"append", "dedupe"}
         /\ listing.order \in {"newest", "oldest", "ranked", "recent"}
         /\ listing.cursor = "id" => listing.order = "newest"
         /\ listing.cursor = "offset" => listing.join = "dedupe"
         /\ listing.join = "append" => listing.cursor = "row" /\ listing.order \in {"recent", "newest"}
         /\ listing.cached => listing.join = "dedupe" /\ (listing.order = "newest" \/ listing.cursor = "offset")
<1> USE DEF Listings, FindAll, QuerySearch, QueryExplore, QueryFeed, GetUserPosts, ListBookmarks,
   ListNotifications, GetComments, GetReplies, ListDeletedPosts, ListDeletedComments, ListLockedUsers
<1>1. /\ listing.cursor \in {"row", "id", "offset"}
      /\ listing.join \in {"append", "dedupe"}
      /\ listing.order \in {"newest", "oldest", "ranked", "recent"}
      /\ listing.cursor = "id" => listing.order = "newest"
      /\ listing.cursor = "offset" => listing.join = "dedupe"
      /\ listing.join = "append" => listing.cursor = "row" /\ listing.order \in {"recent", "newest"}
  OBVIOUS
<1>2. listing.cached => listing.join = "dedupe" /\ (listing.order = "newest" \/ listing.cursor = "offset")
  OBVIOUS
<1> QED
  BY <1>1, <1>2

LEMMA BeforeStrict ==
  ASSUME key \in [Items -> 0..MaxKey]
  PROVE  /\ \A i \in Items : ~Before(i, i)
         /\ \A i, j \in Items : i = j \/ Before(i, j) \/ Before(j, i)
         /\ \A i, j \in Items : ~(Before(i, j) /\ Before(j, i))
         /\ \A i, j, k \in Items : Before(i, j) /\ Before(j, k) => Before(i, k)
         /\ \A S \in SUBSET Items : StrictOrder(S, Order)
         /\ \A i, j \in Items : <<i, j>> \in Order <=> Before(i, j)
<1>1. \A i \in Items : key[i] \in Int /\ i \in Int
  BY ItemsFacts
<1>2. /\ \A i \in Items : ~Before(i, i)
      /\ \A i, j \in Items : i = j \/ Before(i, j) \/ Before(j, i)
      /\ \A i, j \in Items : ~(Before(i, j) /\ Before(j, i))
      /\ \A i, j, k \in Items : Before(i, j) /\ Before(j, k) => Before(i, k)
  BY <1>1 DEF Before
<1>3. \A i, j \in Items : <<i, j>> \in Order <=> Before(i, j)
  BY DEF Order
<1>4. \A S \in SUBSET Items : StrictOrder(S, Order)
  BY <1>2, <1>3 DEF StrictOrder
<1> QED
  BY <1>2, <1>3, <1>4

\* The rows of S by their places.
LEMMA SortedFacts ==
  ASSUME key \in [Items -> 0..MaxKey], NEW S \in SUBSET Items
  PROVE  LET s == Sorted(S)
         IN /\ IsFiniteSet(S) /\ Cardinality(S) \in Nat
            /\ s \in Seq(S) /\ Len(s) = Cardinality(S) /\ IsInjective(s) /\ ToSet(s) = S
            /\ \A m, n \in 1..Len(s) : m < n => Before(s[m], s[n])
            /\ \A n \in 1..Len(s) : s[n] \in S /\ Place(S, Order, s[n]) = n - 1
            /\ \A i \in S : /\ Place(S, Order, i) \in Nat
                            /\ Place(S, Order, i) + 1 \in 1..Len(s)
                            /\ s[Place(S, Order, i) + 1] = i
<1> DEFINE s == SortBy(S, Order)
<1>1. IsFiniteSet(S) /\ Cardinality(S) \in Nat
  BY ItemsFacts, FS_Subset, FS_CardinalityType
<1>2. StrictOrder(S, Order)
  BY BeforeStrict
<1>3. /\ s \in Seq(S) /\ Len(s) = Cardinality(S) /\ IsInjective(s) /\ ToSet(s) = S
      /\ \A m, n \in 1..Cardinality(S) : m < n => <<s[m], s[n]>> \in Order
      /\ \A n \in 1..Cardinality(S) : s[n] \in S /\ Place(S, Order, s[n]) = n - 1
      /\ \A i \in S : Place(S, Order, i) + 1 \in 1..Cardinality(S) /\ s[Place(S, Order, i) + 1] = i
  BY <1>1, <1>2, SortFacts
<1>4. Sorted(S) = s
  BY DEF Sorted
<1>5. \A i \in S : Place(S, Order, i) \in Nat
  BY <1>1, <1>2, PlaceBound
<1> HIDE DEF s
<1>6. \A m, n \in 1..Len(s) : m < n => Before(s[m], s[n])
  BY <1>3, BeforeStrict
<1> QED
  BY <1>1, <1>3, <1>4, <1>5, <1>6

Offset == listing.cursor = "offset"

LEMMA LeadingFacts ==
  ASSUME key \in [Items -> 0..MaxKey], listed \in SUBSET Items, NEW o
  PROVE  /\ Leading(o) \in SUBSET listed
         /\ ~Offset => Leading(o) = {}
         /\ Offset => Leading(o) = {i \in listed : Place(listed, Order, i) < o}
<1>1. \A i \in listed : Preceding(listed, Order, i) = {j \in listed : Before(j, i)}
  BY BeforeStrict DEF Preceding
<1>2. \A i \in listed : Place(listed, Order, i) = Cardinality({j \in listed : Before(j, i)})
  BY <1>1 DEF Place
<1> QED
  BY <1>2 DEF Leading, Offset

\* Where row j alone changes, at most one other row joins those before o, and
\* then j leaves them.
LEMMA OneCrosses ==
  ASSUME NEW K \in SUBSET Items, NEW M \in SUBSET Items, NEW Q, NEW R,
         StrictOrder(Items, Q), StrictOrder(Items, R), NEW j \in Items, NEW o \in Nat,
         \A i \in Items \ {j} : i \in K <=> i \in M,
         \A i, l \in Items \ {j} : <<i, l>> \in Q <=> <<i, l>> \in R,
         NEW x \in M \ {j}, Place(M, R, x) < o, ~(Place(K, Q, x) < o)
  PROVE  /\ x \in K /\ Place(K, Q, x) = o
         /\ j \in K /\ Place(K, Q, j) < o
         /\ j \in M => ~(Place(M, R, j) < o)
<1>1. IsFiniteSet(K) /\ IsFiniteSet(M) /\ StrictOrder(K, Q) /\ StrictOrder(M, R)
  BY ItemsFacts, FS_Subset DEF StrictOrder
<1>2. x \in K /\ x \in Items
  OBVIOUS
<1> DEFINE A == Preceding(K, Q, x)
           B == Preceding(M, R, x)
<1>3. IsFiniteSet(A) /\ IsFiniteSet(B) /\ Cardinality(A) \in Nat /\ Cardinality(B) \in Nat
  BY <1>1, <1>2, PlaceBound, FS_CardinalityType
<1>4. A \ {j} = B \ {j}
  BY <1>2 DEF Preceding
<1>5. Cardinality(B) < o /\ ~(Cardinality(A) < o)
  BY DEF Place
<1>6. /\ Cardinality(A \ {j}) = IF j \in A THEN Cardinality(A) - 1 ELSE Cardinality(A)
      /\ Cardinality(B \ {j}) = IF j \in B THEN Cardinality(B) - 1 ELSE Cardinality(B)
  BY <1>3, FS_RemoveElement
<1>7. j \in A /\ j \notin B /\ Cardinality(A) = o /\ Cardinality(B) = o - 1
  BY <1>3, <1>4, <1>5, <1>6
<1>8. j \in K /\ <<j, x>> \in Q
  BY <1>7 DEF Preceding
<1>9. Place(K, Q, j) < Place(K, Q, x)
  BY <1>1, <1>2, <1>8, PlaceGrows
<1>10. ASSUME j \in M
       PROVE  ~(Place(M, R, j) < o)
  <2>1. <<x, j>> \in R
    BY <1>2, <1>7, <1>10 DEF Preceding, StrictOrder
  <2>2. Place(M, R, x) < Place(M, R, j) /\ Place(M, R, j) \in Nat
    BY <1>1, <1>10, <2>1, PlaceGrows, PlaceBound
  <2>3. Place(M, R, x) = o - 1
    BY <1>7 DEF Place
  <2> QED
    BY <2>2, <2>3
<1>11. Place(K, Q, x) = o
  BY <1>7 DEF Place
<1> QED
  BY <1>2, <1>8, <1>9, <1>10, <1>11

-----------------------------------------------------------------------------
(* The invariant of the walk. *)

PageRec ==
  [for : Nat, data : Seq(Items), next : Nat, over : 0..1, cut : BOOLEAN,
   since : SUBSET Items, ahead : SUBSET Items, taken : [Lines -> Nat], put : [Lines -> Nat]]

WalkTypes ==
  /\ listing \in Listings
  /\ listed \subseteq rows /\ rows \subseteq Items
  /\ key \in [Items -> 0..MaxKey]
  /\ changes \in 0..MaxChanges
  /\ taken \in [Lines -> Nat] /\ put \in [Lines -> Nat]
  /\ phase \in {"idle", "asked", "answered", "failed", "end"}
  /\ shown \in Seq(Items)
  /\ cursor \in Nat
  /\ copies \subseteq PageRec /\ page \in PageRec /\ last \in PageRec
  /\ \A p \in copies \cup {page} : p.since \subseteq listed
  /\ steady \subseteq listed /\ missed \in Nat
  /\ cut \in BOOLEAN /\ slid \in BOOLEAN /\ raised \in BOOLEAN

\* What a cursor is, and when there is none.
CursorsOK ==
  /\ listing.order \in {"newest", "oldest"} => \A i \in Items : key[i] = 0
  /\ {cursor, page.next} \subseteq (IF Offset THEN Lines ELSE Items) \cup {NoCursor}
  /\ phase = "answered" => page.for = cursor
  /\ phase # "answered" => page = NoPage
  /\ phase = "end" => cursor = NoCursor
  /\ phase # "end" /\ cursor = NoCursor => shown = <<>>

\* The rows down to c.
Upto(c) == {i \in Items : i = c \/ Before(i, c)}

\* Where the cursor is a row, a page leaves out no row between its cursor and
\* the next one, but for x if the cursor's row was hidden.
Covers(p, x) ==
  \A i \in p.since :
    /\ p.for = NoCursor \/ i \notin Upto(p.for)
    /\ p.next = NoCursor \/ i \in Upto(p.next)
    => i \in ToSet(p.data) \/ (p.over = 1 /\ i = x)

CopyOK(p) ==
  /\ IsInjective(p.data)
  /\ p.next \in (IF Offset THEN Lines ELSE Items) \cup {NoCursor}
  /\ ~Offset /\ ~p.cut => \E x : Covers(p, x)

CopiesOK == \A p \in copies : listing.cached /\ CopyOK(p)

\* The rows of T that should be in S by now, where the cursor is c, and are not.
Owed(T, S, c) == (IF c = NoCursor THEN T ELSE T \cap Upto(c)) \ S

\* The steady rows once page p is shown.
Kept(p) == IF cursor = NoCursor THEN p.since ELSE steady \cap p.since

RowsReached ==
  ~Offset /\ ~cut /\ ~slid =>
    /\ cursor # NoCursor \/ phase = "end" => Cardinality(Owed(steady, ToSet(shown), cursor)) <= missed
    /\ phase = "answered" /\ ~page.cut =>
         Cardinality(Owed(Kept(page), ToSet(shown) \cup ToSet(page.data), page.next))
           <= missed + page.over

\* The rows before the end of a page at an offset, when it was read.
Gone(p) == p.ahead \cup ToSet(p.data)

\* How far the rows before offset o differ from A, which were before it when p was read.
Near(p, o, A) ==
  o \in Lines =>
    /\ p.taken[o] <= taken[o] /\ p.put[o] <= put[o]
    /\ Cardinality((Leading(o) \cap p.since) \ A) <= taken[o] - p.taken[o]
    /\ Cardinality((A \cap p.since) \ Leading(o)) <= put[o] - p.put[o]

\* Where page q begins at the end of page p, what q leaves to p and p did not have.
Joined(p, q) ==
  q.for = p.next /\ q.for \in Lines =>
    Cardinality((q.ahead \cap q.since \cap p.since) \ Gone(p)) <= Lost(p, q)

PoolPage(p) ==
  /\ p \in PageRec /\ p.since \subseteq listed
  /\ p.over = 0 /\ ~p.cut
  /\ {p.for, p.next} \subseteq Lines \cup {NoCursor}
  /\ p.next = NoCursor => p.since \subseteq Gone(p)
  /\ p.for = NoCursor => p.ahead = {}
  /\ Near(p, p.for, p.ahead) /\ Near(p, p.next, Gone(p))

PoolOK(S) == \A p \in S : PoolPage(p) /\ \A q \in S : Joined(p, q)

\* The pages a walk by offsets has used last or may use.
LastPage == [last EXCEPT !.since = steady]
Pool == copies \cup {page, LastPage}

OffsetsReached ==
  Offset =>
    /\ PoolOK(Pool)
    /\ last.next = cursor
    /\ cursor # NoCursor \/ phase = "end" => Cardinality((steady \cap Gone(last)) \ ToSet(shown)) <= missed

\* Where pages are appended, what is shown lies before what is still to come.
Disjoint ==
  ~raised /\ listing.join = "append" =>
    /\ cursor # NoCursor => ToSet(shown) \subseteq Upto(cursor)
    /\ phase = "answered" =>
         /\ ToSet(shown) \cap ToSet(page.data) = {}
         /\ page.next # NoCursor => ToSet(shown) \cup ToSet(page.data) \subseteq Upto(page.next)

NoRepeat ==
  /\ IsInjective(page.data)
  /\ ~raised \/ listing.join = "dedupe" => IsInjective(shown)
  /\ Disjoint

PagesInv == WalkTypes /\ CursorsOK /\ CopiesOK /\ RowsReached /\ OffsetsReached /\ NoRepeat

LEMMA LinesFacts ==
  /\ Lines \in SUBSET Items /\ NoCursor \notin Lines /\ NoCursor = 0 /\ NoCursor \notin Items
  /\ Lines \in SUBSET (Nat \ {0})
BY ItemsFacts DEF Lines, NoCursor

LEMMA NothingYet ==
  /\ <<>> \in Seq(Items) /\ ToSet(<<>>) = {} /\ IsInjective(<<>>)
  /\ NoPage \in PageRec /\ NoneYet \in [Lines -> Nat]
  /\ NoPage.data = <<>> /\ NoPage.for = NoCursor /\ NoPage.next = NoCursor
  /\ NoPage.since = {} /\ NoPage.ahead = {} /\ NoPage.over = 0 /\ ~NoPage.cut
<1>1. NoneYet \in [Lines -> Nat]
  BY DEF NoneYet
<1> QED
  BY <1>1 DEF NoPage, NoCursor, PageRec, ToSet, IsInjective

LEMMA PagesInvImplies == PagesInv => PagesTypeOK /\ EndReachesAll /\ NoRowTwice
<1> SUFFICES ASSUME PagesInv PROVE PagesTypeOK /\ EndReachesAll /\ NoRowTwice
  OBVIOUS
<1> USE DEF PagesInv
<1>1. PagesTypeOK
  <2>1. \A p \in PageRec : /\ ToSet(p.data) \subseteq Items /\ p.since \subseteq Items
                           /\ {p.for, p.next, p.over} \subseteq Nat /\ p.cut \in BOOLEAN
    BY DEF PageRec, ToSet
  <2>2. ToSet(shown) \subseteq Items
    BY DEF WalkTypes, ToSet
  <2> QED
    BY <2>1, <2>2 DEF WalkTypes, PagesTypeOK
<1>2. EndReachesAll
  <2> SUFFICES ASSUME phase = "end", ~cut, ~slid
               PROVE  Cardinality(steady \ ToSet(shown)) <= missed
    BY DEF EndReachesAll
  <2>1. CASE ~Offset
    BY <2>1 DEF RowsReached, CursorsOK, Owed
  <2>2. CASE Offset
    <3>1. LastPage.next = NoCursor /\ LastPage.since = steady /\ Gone(LastPage) = Gone(last)
      BY <2>2 DEF OffsetsReached, CursorsOK, LastPage, Gone, WalkTypes, PageRec
    <3>2. steady \subseteq Gone(last)
      BY <2>2, <3>1 DEF OffsetsReached, PoolOK, PoolPage, Pool
    <3>3. steady \cap Gone(last) = steady
      BY <3>2
    <3> QED
      BY <2>2, <3>3 DEF OffsetsReached
  <2> QED
    BY <2>1, <2>2
<1>3. NoRowTwice
  BY DEF NoRepeat, NoRowTwice
<1> QED
  BY <1>1, <1>2, <1>3

-----------------------------------------------------------------------------
(* The pages at offsets, while the rows stay as they are. *)

LEMMA Fewer ==
  ASSUME NEW B \in SUBSET Items, NEW A \in SUBSET B
  PROVE  /\ IsFiniteSet(A) /\ IsFiniteSet(B)
         /\ Cardinality(A) \in Nat /\ Cardinality(B) \in Nat /\ Cardinality(A) <= Cardinality(B)
<1>1. IsFiniteSet(B)
  BY ItemsFacts, FS_Subset
<1>2. IsFiniteSet(A) /\ Cardinality(A) <= Cardinality(B)
  BY <1>1, FS_Subset
<1> QED
  BY <1>1, <1>2, FS_CardinalityType

\* Page r is page p, but for rows that are steady no more.
Less(r, p) ==
  /\ r \in PageRec /\ r.since \subseteq p.since
  /\ r.for = p.for /\ r.data = p.data /\ r.next = p.next /\ r.over = p.over /\ r.cut = p.cut
  /\ r.ahead = p.ahead /\ r.taken = p.taken /\ r.put = p.put

LEMMA LostFacts ==
  ASSUME NEW p \in PageRec, NEW q \in PageRec
  PROVE  Lost(p, q) \in Nat
BY LinesFacts DEF Lost, PageRec

LEMMA GoneFacts ==
  ASSUME NEW p \in PageRec
  PROVE  /\ Gone(p) \in SUBSET Items /\ p.ahead \in SUBSET Items /\ p.since \in SUBSET Items
         /\ p.for \in Nat /\ p.next \in Nat
         /\ \A o \in Lines : p.taken[o] \in Nat /\ p.put[o] \in Nat
BY DEF Gone, PageRec, ToSet

LEMMA PoolLess ==
  ASSUME listed \in SUBSET Items, taken \in [Lines -> Nat], put \in [Lines -> Nat],
         NEW S, PoolOK(S), NEW T, \A r \in T : r = NoPage \/ \E p \in S : Less(r, p)
  PROVE  PoolOK(T)
<1>1. ASSUME NEW r \in PageRec, NEW p \in PageRec, Less(r, p), NEW o, NEW A \in SUBSET Items, Near(p, o, A)
      PROVE  Near(r, o, A)
  <2> SUFFICES ASSUME o \in Lines PROVE Near(r, o, A)
    BY DEF Near
  <2>1. /\ taken[o] \in Nat /\ put[o] \in Nat /\ p.taken[o] \in Nat /\ p.put[o] \in Nat
        /\ r.taken = p.taken /\ r.put = p.put /\ r.since \subseteq p.since /\ p.since \in SUBSET Items
    BY <1>1, GoneFacts DEF Less
  <2>2. Leading(o) \in SUBSET Items
    BY DEF Leading
  <2>3. /\ (Leading(o) \cap p.since) \ A \in SUBSET Items /\ (A \cap p.since) \ Leading(o) \in SUBSET Items
        /\ (Leading(o) \cap r.since) \ A \in SUBSET ((Leading(o) \cap p.since) \ A)
        /\ (A \cap r.since) \ Leading(o) \in SUBSET ((A \cap p.since) \ Leading(o))
    BY <2>1, <2>2
  <2> DEFINE B1 == (Leading(o) \cap p.since) \ A
             B2 == (A \cap p.since) \ Leading(o)
             A1 == (Leading(o) \cap r.since) \ A
             A2 == (A \cap r.since) \ Leading(o)
  <2>4. /\ Cardinality(A1) \in Nat /\ Cardinality(B1) \in Nat /\ Cardinality(A1) <= Cardinality(B1)
        /\ Cardinality(A2) \in Nat /\ Cardinality(B2) \in Nat /\ Cardinality(A2) <= Cardinality(B2)
    BY <2>3, Fewer
  <2>5. /\ p.taken[o] <= taken[o] /\ p.put[o] <= put[o]
        /\ Cardinality(B1) <= taken[o] - p.taken[o] /\ Cardinality(B2) <= put[o] - p.put[o]
    BY <1>1 DEF Near
  <2> HIDE DEF A1, A2, B1, B2
  <2>6. /\ r.taken[o] <= taken[o] /\ r.put[o] <= put[o]
        /\ Cardinality(A1) <= taken[o] - r.taken[o] /\ Cardinality(A2) <= put[o] - r.put[o]
    BY <2>1, <2>4, <2>5
  <2> QED
    BY <2>6 DEF Near, A1, A2
<1>2. ASSUME NEW r \in T, NEW p \in S, Less(r, p)
      PROVE  PoolPage(r)
  <2>1. PoolPage(p) /\ p \in PageRec /\ r \in PageRec
    BY <1>2 DEF PoolOK, PoolPage, Less
  <2>2. Gone(r) = Gone(p) /\ Gone(p) \in SUBSET Items /\ p.ahead \in SUBSET Items
    BY <1>2, <2>1, GoneFacts DEF Less, Gone
  <2>3. Near(r, p.for, p.ahead) /\ Near(r, p.next, Gone(p))
    BY <1>1, <1>2, <2>1, <2>2 DEF PoolPage
  <2> QED
    BY <1>2, <2>1, <2>2, <2>3 DEF PoolPage, Less
<1>3. PoolPage(NoPage)
  BY NothingYet, LinesFacts DEF PoolPage, Near
<1>4. ASSUME NEW r \in T, NEW s \in T
      PROVE  Joined(r, s)
  <2>0. r.for \notin Lines \/ r # NoPage
    BY NothingYet, LinesFacts
  <2> SUFFICES ASSUME s.for = r.next, s.for \in Lines
               PROVE  Cardinality((s.ahead \cap s.since \cap r.since) \ Gone(r)) <= Lost(r, s)
    BY DEF Joined
  <2>1. s # NoPage /\ r # NoPage
    BY NothingYet, LinesFacts
  <2>2. PICK p \in S, q \in S : Less(r, p) /\ Less(s, q)
    BY <2>1
  <2>3. Joined(p, q) /\ p \in PageRec /\ q \in PageRec
    BY <2>2 DEF PoolOK, PoolPage
  <2>4. Gone(r) = Gone(p) /\ Lost(r, s) = Lost(p, q) /\ Lost(p, q) \in Nat
    BY <2>2, <2>3, LostFacts DEF Less, Gone, Lost
  <2> DEFINE B == (q.ahead \cap q.since \cap p.since) \ Gone(p)
             A == (s.ahead \cap s.since \cap r.since) \ Gone(r)
  <2>5. Cardinality(B) <= Lost(p, q)
    BY <2>2, <2>3 DEF Joined, Less
  <2>6. B \in SUBSET Items /\ A \in SUBSET B
    BY <2>2, <2>3, <2>4, GoneFacts DEF Less
  <2>7. Cardinality(A) \in Nat /\ Cardinality(B) \in Nat /\ Cardinality(A) <= Cardinality(B)
    BY <2>6, Fewer
  <2> HIDE DEF A, B
  <2>8. Cardinality(A) <= Lost(r, s)
    BY <2>4, <2>5, <2>7
  <2> QED
    BY <2>8 DEF A
<1> QED
  BY <1>2, <1>3, <1>4 DEF PoolOK

-----------------------------------------------------------------------------
(* Reading a page. *)

\* A page of s from place n on, and whether there is more.
LEMMA WindowFacts ==
  ASSUME NEW T, NEW s \in Seq(T), NEW n \in Nat \ {0}
  PROVE  LET f == From(s, n)
             d == FirstN(f, PageLimit)
         IN /\ Len(f) \in Nat
            /\ d \in Seq(T) /\ DOMAIN d = 1..Len(d) /\ Len(d) \in Nat
            /\ ToSet(d) \subseteq ToSet(s)
            /\ IsInjective(s) => IsInjective(d)
            /\ \A k \in 1..Len(d) : n + k - 1 \in n..Len(s) /\ d[k] = s[n + k - 1]
            /\ Len(f) > PageLimit =>
                 Len(d) = PageLimit /\ f[PageLimit] = d[PageLimit] /\ n + PageLimit <= Len(s)
            /\ \A m \in n..Len(s) : Len(f) <= PageLimit \/ m < n + PageLimit => s[m] \in ToSet(d)
<1> DEFINE t == SubSeq(s, n, Len(s))
           f == FirstN(t, PageLimit + 1)
           d == FirstN(f, PageLimit)
<1>0. PageLimit \in Nat \ {0} /\ PageLimit + 1 \in Nat /\ Len(s) \in Nat /\ n \in Nat \ {0}
  BY ItemsFacts
<1>1. /\ t \in Seq(T) /\ DOMAIN t = 1..Len(t)
      /\ Len(t) = IF n <= Len(s) THEN Len(s) - n + 1 ELSE 0
      /\ \A i \in 1..Len(t) : t[i] = s[n + i - 1]
      /\ ToSet(t) \subseteq ToSet(s)
      /\ IsInjective(s) => IsInjective(t)
  BY <1>0, PartFacts
<1> HIDE DEF t
<1>2. /\ f \in Seq(T) /\ DOMAIN f = 1..Len(f)
      /\ Len(f) = IF Len(t) < PageLimit + 1 THEN Len(t) ELSE PageLimit + 1
      /\ \A i \in 1..Len(f) : f[i] = t[i]
      /\ ToSet(f) \subseteq ToSet(t)
      /\ IsInjective(t) => IsInjective(f)
  BY <1>0, <1>1, FirstNFacts
<1>3. f = From(s, n)
  BY DEF From, t
<1> HIDE DEF f
<1>4. /\ d \in Seq(T) /\ DOMAIN d = 1..Len(d)
      /\ Len(d) = IF Len(f) < PageLimit THEN Len(f) ELSE PageLimit
      /\ \A i \in 1..Len(d) : d[i] = f[i]
      /\ ToSet(d) \subseteq ToSet(f)
      /\ IsInjective(f) => IsInjective(d)
  BY <1>0, <1>2, FirstNFacts
<1>5. d = FirstN(From(s, n), PageLimit)
  BY <1>3
<1> HIDE DEF d
<1>6. Len(t) \in Nat /\ Len(f) \in Nat /\ Len(d) \in Nat
  BY <1>0, <1>1, <1>2, <1>4
<1>7. \A k \in 1..Len(d) : n + k - 1 \in n..Len(s) /\ d[k] = s[n + k - 1]
  BY <1>0, <1>1, <1>2, <1>4, <1>6
<1>8. Len(f) > PageLimit =>
        Len(d) = PageLimit /\ f[PageLimit] = d[PageLimit] /\ n + PageLimit <= Len(s)
  BY <1>0, <1>1, <1>2, <1>4, <1>6
<1>9. ASSUME NEW m \in n..Len(s), Len(f) <= PageLimit \/ m < n + PageLimit
      PROVE  s[m] \in ToSet(d)
  <2> DEFINE k == m - n + 1
  <2>1. k \in 1..Len(d) /\ n + k - 1 = m
    BY <1>0, <1>1, <1>2, <1>4, <1>6, <1>9
  <2>2. d[k] = s[m]
    BY <1>7, <2>1
  <2> QED
    BY <1>4, <2>1, <2>2 DEF ToSet
<1>10. ToSet(d) \subseteq ToSet(s) /\ (IsInjective(s) => IsInjective(d))
  BY <1>1, <1>2, <1>4
<1> QED
  BY <1>3, <1>4, <1>5, <1>6, <1>7, <1>8, <1>9, <1>10

\* A page of a listing whose cursor is a row or an id: it ends with the next
\* cursor, and leaves out no row of S from place n down to that.
LEMMA RowPage ==
  ASSUME WalkTypes, listing.cursor # "offset", NEW S \in SUBSET listed, NEW n \in Nat \ {0},
         NEW f, f = From(Sorted(S), n), NEW c
  PROVE  LET s == Sorted(S)
             d == FirstN(f, PageLimit)
             next == NextCursor(c, f)
         IN /\ d \in Seq(Items) /\ IsInjective(d) /\ ToSet(d) \subseteq S
            /\ \A i \in ToSet(d) : \E m \in n..Len(s) : i = s[m]
            /\ next \in Items \cup {NoCursor}
            /\ next # NoCursor => next \in ToSet(d) /\ \A i \in ToSet(d) : i = next \/ Before(i, next)
            /\ \A m \in n..Len(s) :
                 next = NoCursor \/ s[m] = next \/ Before(s[m], next) => s[m] \in ToSet(d)
<1> DEFINE s == Sorted(S)
           d == FirstN(f, PageLimit)
           next == NextCursor(c, f)
<1>0. key \in [Items -> 0..MaxKey] /\ S \in SUBSET Items
  BY DEF WalkTypes
<1>1. /\ s \in Seq(S) /\ Len(s) \in Nat /\ IsInjective(s) /\ ToSet(s) = S
      /\ \A i, j \in 1..Len(s) : i < j => Before(s[i], s[j])
      /\ \A i \in 1..Len(s) : s[i] \in S
  BY <1>0, SortedFacts
<1> HIDE DEF s
<1>2. /\ Len(f) \in Nat
      /\ d \in Seq(S) /\ DOMAIN d = 1..Len(d) /\ Len(d) \in Nat
      /\ ToSet(d) \subseteq S /\ IsInjective(d)
      /\ \A k \in 1..Len(d) : n + k - 1 \in n..Len(s) /\ d[k] = s[n + k - 1]
      /\ Len(f) > PageLimit =>
           Len(d) = PageLimit /\ f[PageLimit] = d[PageLimit] /\ n + PageLimit <= Len(s)
      /\ \A m \in n..Len(s) : Len(f) <= PageLimit \/ m < n + PageLimit => s[m] \in ToSet(d)
  BY <1>1, WindowFacts DEF s
<1>3. next = IF Len(f) <= PageLimit THEN NoCursor ELSE f[PageLimit]
  BY DEF NextCursor
<1> HIDE DEF d, next
<1>4. d \in Seq(Items)
  BY <1>0, <1>2, SeqMonotonic
<1>5. \A i \in ToSet(d) : \E m \in n..Len(s) : i = s[m]
  BY <1>2 DEF ToSet
<1>6. PageLimit \in Nat \ {0} /\ NoCursor \notin Items
  BY ItemsFacts DEF NoCursor
<1>7. ASSUME Len(f) > PageLimit
      PROVE  /\ next = d[PageLimit] /\ next = s[n + PageLimit - 1]
             /\ PageLimit \in 1..Len(d) /\ n + PageLimit - 1 \in 1..Len(s)
             /\ next \in S
  <2>1. next = d[PageLimit] /\ Len(d) = PageLimit /\ PageLimit \in 1..Len(d)
    BY <1>2, <1>3, <1>6, <1>7
  <2>2. n + PageLimit - 1 \in n..Len(s) /\ d[PageLimit] = s[n + PageLimit - 1]
    BY <1>2, <2>1
  <2> QED
    BY <1>1, <1>6, <2>1, <2>2
<1>a. Len(f) <= PageLimit \/ Len(f) > PageLimit
  <2>1. Len(f) \in Nat /\ PageLimit \in Nat
    BY <1>2, <1>6
  <2> QED
    BY <2>1
<1>8. /\ next \in Items \cup {NoCursor} /\ (next = NoCursor <=> Len(f) <= PageLimit)
      /\ next # NoCursor => Len(f) > PageLimit
  BY <1>0, <1>2, <1>3, <1>6, <1>7, <1>a
<1>9. ASSUME next # NoCursor
      PROVE  next \in ToSet(d) /\ \A i \in ToSet(d) : i = next \/ Before(i, next)
  <2>1. Len(f) > PageLimit
    BY <1>8, <1>9
  <2>2. next \in ToSet(d)
    BY <1>2, <1>7, <2>1 DEF ToSet
  <2>3. ASSUME NEW k \in 1..Len(d)
        PROVE  d[k] = next \/ Before(d[k], next)
    <3>1. d[k] = s[n + k - 1] /\ n + k - 1 \in 1..Len(s) /\ k <= PageLimit
      BY <1>1, <1>2, <2>1
    <3>2. CASE k = PageLimit
      BY <1>7, <2>1, <3>2
    <3>3. CASE k < PageLimit
      <4>1. n + k - 1 < n + PageLimit - 1
        BY <1>6, <3>3
      <4> QED
        BY <1>1, <1>7, <2>1, <3>1, <4>1
    <3> QED
      BY <1>6, <3>1, <3>2, <3>3
  <2> QED
    BY <1>2, <2>2, <2>3 DEF ToSet
<1>10. ASSUME NEW m \in n..Len(s), next = NoCursor \/ s[m] = next \/ Before(s[m], next)
       PROVE  s[m] \in ToSet(d)
  <2>1. CASE next = NoCursor
    BY <1>2, <1>8, <2>1
  <2>2. CASE next # NoCursor
    <3>1. Len(f) > PageLimit
      BY <1>8, <2>2
    <3>2. m \in 1..Len(s) /\ s[m] \in Items /\ next \in Items
      BY <1>0, <1>1, <1>7, <3>1
    <3>3. ~(m > n + PageLimit - 1)
      <4> SUFFICES ASSUME m > n + PageLimit - 1 PROVE FALSE
        OBVIOUS
      <4>1. Before(next, s[m])
        BY <1>1, <1>7, <3>1, <3>2
      <4> QED
        BY <1>0, <1>10, <2>2, <3>2, <4>1, BeforeStrict
    <3>4. m < n + PageLimit
      BY <1>6, <3>3
    <3> QED
      BY <1>2, <3>4
  <2> QED
    BY <2>1, <2>2
<1> QED
  BY <1>2, <1>4, <1>5, <1>8, <1>9, <1>10 DEF s, d, next

\* The offset after c.
LEMMA NextLine ==
  ASSUME NEW c \in Lines \cup {NoCursor}, c + PageLimit <= Cardinality(Items)
  PROVE  c + PageLimit \in Lines
<1>a. \A k \in Items : k \in Nat \ {0}
  BY ItemsFacts
<1>b. Cardinality(Items) \in Nat
  BY <1>a, ItemsFacts
<1>0. /\ PageLimit \in Nat \ {0} /\ c \in Nat /\ NoCursor = 0
      /\ \A k \in Nat \ {0} : k <= Cardinality(Items) => k \in Items
  BY ItemsFacts, LinesFacts
<1>1. \A k, l \in Nat : l > 0 => k <= k * l
  OBVIOUS
<1>2. c + PageLimit \in Items
  BY <1>0, <1>b
<1>3. PICK k \in Nat : c = k * PageLimit
  BY <1>0, <1>a DEF Lines
<1>4. c + PageLimit = (k + 1) * PageLimit
  BY <1>0, <1>3
<1>5. k + 1 <= (k + 1) * PageLimit
  BY <1>0, <1>1
<1>6. k + 1 \in Items
  BY <1>0, <1>b, <1>4, <1>5
<1> QED
  BY <1>2, <1>4, <1>6 DEF Lines

\* A page of a listing whose cursor is an offset: the rows from that offset to
\* the next one, or to the end.
LEMMA OffsetPage ==
  ASSUME WalkTypes, Offset, NEW c \in Lines \cup {NoCursor}, NEW f, f = From(Sorted(listed), c + 1)
  PROVE  LET d == FirstN(f, PageLimit)
             next == NextCursor(c, f)
         IN /\ d \in Seq(Items) /\ IsInjective(d) /\ ToSet(d) \subseteq listed
            /\ next \in Lines \cup {NoCursor}
            /\ next = NoCursor => Leading(c) \cup ToSet(d) = listed
            /\ next # NoCursor => Leading(c) \cup ToSet(d) = Leading(next)
<1> DEFINE s == Sorted(listed)
           d == FirstN(f, PageLimit)
           next == NextCursor(c, f)
           P(i) == Place(listed, Order, i)
<1>0. /\ key \in [Items -> 0..MaxKey] /\ listed \in SUBSET Items /\ c \in Nat /\ c + 1 \in Nat \ {0}
      /\ PageLimit \in Nat \ {0} /\ NoCursor = 0
  BY ItemsFacts, LinesFacts DEF WalkTypes
<1>1. /\ s \in Seq(listed) /\ Len(s) \in Nat /\ IsInjective(s) /\ ToSet(s) = listed
      /\ Len(s) = Cardinality(listed)
      /\ \A m \in 1..Len(s) : s[m] \in listed /\ P(s[m]) = m - 1
      /\ \A i \in listed : P(i) \in Nat /\ P(i) + 1 \in 1..Len(s) /\ s[P(i) + 1] = i
  BY <1>0, SortedFacts
<1>a. \A o : Leading(o) = {i \in listed : P(i) < o}
  BY <1>0, LeadingFacts
<1> HIDE DEF s, P
<1>n. PICK n \in Nat \ {0} : n = c + 1
  BY <1>0
<1>2. /\ Len(f) \in Nat
      /\ d \in Seq(listed) /\ ToSet(d) \subseteq listed /\ IsInjective(d) /\ DOMAIN d = 1..Len(d) /\ Len(d) \in Nat
      /\ \A k \in 1..Len(d) : n + k - 1 \in n..Len(s) /\ d[k] = s[n + k - 1]
      /\ Len(f) > PageLimit => Len(d) = PageLimit /\ n + PageLimit <= Len(s)
      /\ \A m \in n..Len(s) : Len(f) <= PageLimit \/ m < n + PageLimit => s[m] \in ToSet(d)
  <2>1. f = From(s, n)
    BY <1>n DEF s
  <2> DEFINE g == FirstN(From(s, n), PageLimit)
  <2>2. /\ Len(From(s, n)) \in Nat
        /\ g \in Seq(listed) /\ ToSet(g) \subseteq ToSet(s) /\ DOMAIN g = 1..Len(g) /\ Len(g) \in Nat
        /\ IsInjective(s) => IsInjective(g)
        /\ \A k \in 1..Len(g) : n + k - 1 \in n..Len(s) /\ g[k] = s[n + k - 1]
        /\ Len(From(s, n)) > PageLimit => Len(g) = PageLimit /\ n + PageLimit <= Len(s)
        /\ \A m \in n..Len(s) : Len(From(s, n)) <= PageLimit \/ m < n + PageLimit => s[m] \in ToSet(g)
    BY <1>1, WindowFacts
  <2>3. d = g
    BY <2>1
  <2> HIDE DEF d, g
  <2> QED
    BY <1>1, <2>1, <2>2, <2>3
<1>3. next = IF Len(f) <= PageLimit THEN NoCursor ELSE c + PageLimit
  BY DEF NextCursor, Offset
<1>b. Len(d) <= PageLimit
  <2>1. CASE Len(f) > PageLimit
    BY <1>0, <1>2, <2>1
  <2>2. CASE Len(f) <= PageLimit
    <3>1. f \in Seq(listed)
      <4>1. SubSeq(s, c + 1, Len(s)) \in Seq(listed)
        BY <1>0, <1>1, PartFacts
      <4>2. PageLimit + 1 \in Nat
        BY <1>0
      <4> QED
        BY <4>1, <4>2, FirstNFacts DEF From, s
    <3>2. Len(d) = IF Len(f) < PageLimit THEN Len(f) ELSE PageLimit
      BY <1>0, <3>1, FirstNFacts
    <3> QED
      BY <1>0, <1>2, <2>2, <3>2
  <2> QED
    BY <1>0, <1>2, <2>1, <2>2
<1> HIDE DEF d, next
<1>4. d \in Seq(Items)
  BY <1>0, <1>2, SeqMonotonic
<1>5. next = NoCursor <=> Len(f) <= PageLimit
  BY <1>0, <1>3
<1>6. next \in Lines \cup {NoCursor}
  <2>1. CASE Len(f) > PageLimit
    <3>1. Cardinality(listed) <= Cardinality(Items)
      BY <1>0, ItemsFacts, FS_Subset
    <3>0. Cardinality(Items) \in Nat
      BY ItemsFacts, FS_CardinalityType
    <3>2. c + PageLimit <= Cardinality(Items)
      BY <1>0, <1>1, <1>2, <1>n, <2>1, <3>0, <3>1
    <3> QED
      BY <1>0, <1>2, <1>3, <2>1, <3>2, NextLine
  <2>2. CASE ~(Len(f) > PageLimit)
    <3>1. Len(f) \in Nat /\ PageLimit \in Nat
      BY <1>0, <1>2
    <3>2. Len(f) <= PageLimit
      BY <2>2, <3>1
    <3> QED
      BY <1>5, <3>2
  <2> QED
    BY <2>1, <2>2
<1>7. ASSUME NEW i \in listed, next = NoCursor \/ P(i) < next
      PROVE  P(i) < c \/ i \in ToSet(d)
  <2> SUFFICES ASSUME ~(P(i) < c) PROVE i \in ToSet(d)
    OBVIOUS
  <2>1. P(i) + 1 \in n..Len(s) /\ s[P(i) + 1] = i
    BY <1>0, <1>1, <1>n
  <2>2. Len(f) <= PageLimit \/ P(i) + 1 < n + PageLimit
    BY <1>0, <1>1, <1>3, <1>5, <1>7, <1>n
  <2> QED
    BY <1>2, <2>1, <2>2
<1>8. ASSUME NEW i \in ToSet(d), next # NoCursor
      PROVE  P(i) < next
  <2>1. PICK k \in 1..Len(d) : i = d[k]
    BY <1>2 DEF ToSet
  <2>2. n + k - 1 \in n..Len(s) /\ i = s[n + k - 1]
    BY <1>2, <2>1
  <2>a. Len(s) \in Nat /\ Len(d) \in Nat /\ PageLimit \in Nat /\ c \in Nat /\ n = c + 1 /\ Len(d) <= PageLimit
    BY <1>0, <1>1, <1>2, <1>b, <1>n
  <2>3. n + k - 1 \in 1..Len(s) /\ n + k - 1 = c + k /\ k \in Nat /\ k <= PageLimit
    BY <2>1, <2>2, <2>a
  <2>b. P(s[n + k - 1]) = n + k - 1 - 1
    BY <1>1, <2>3
  <2>c. P(i) = n + k - 1 - 1
    BY <2>2, <2>b
  <2>4. P(i) = c + k - 1
    BY <2>3, <2>a, <2>c
  <2> QED
    BY <1>0, <1>3, <1>8, <2>3, <2>4
<1>9. \A i \in listed : P(i) < c /\ next # NoCursor => P(i) < next
  BY <1>0, <1>1, <1>3
<1>10. next = NoCursor => Leading(c) \cup ToSet(d) = listed
  BY <1>2, <1>7, <1>a
<1>11. next # NoCursor => Leading(c) \cup ToSet(d) = Leading(next)
  BY <1>2, <1>7, <1>8, <1>9, <1>a
<1> QED
  BY <1>2, <1>4, <1>6, <1>10, <1>11 DEF d, next

\* What a page after a row or id holds, and that it leaves out no row between
\* its cursor and the next one, but for the row a hidden cursor makes it step over.
LEMMA RowPageFacts ==
  ASSUME WalkTypes, ~Offset, listing.order \in {"newest", "oldest"} => \A i \in Items : key[i] = 0,
         NEW c \in Items \cup {NoCursor}
  PROVE  LET d == FirstN(Fetched(c), PageLimit)
             next == NextCursor(c, Fetched(c))
         IN /\ d \in Seq(Items) /\ IsInjective(d) /\ ToSet(d) \subseteq listed
            /\ next \in Items \cup {NoCursor}
            /\ Held(c) => \A i \in ToSet(d) : Before(c, i)
            /\ listing.cursor = "row" /\ next # NoCursor =>
                 next \in ToSet(d) /\ \A i \in ToSet(d) : i = next \/ Before(i, next)
            /\ ~(Held(c) /\ c \notin rows) =>
                 \E x : \A i \in listed :
                   /\ c = NoCursor \/ i \notin Upto(c)
                   /\ next = NoCursor \/ i \in Upto(next)
                   => i \in ToSet(d) \/ (Held(c) /\ c \in rows \ listed /\ i = x)
<1> DEFINE f == Fetched(c)
           d == FirstN(f, PageLimit)
           next == NextCursor(c, f)
           Whole(x) ==
             \A i \in listed :
               /\ c = NoCursor \/ i \notin Upto(c)
               /\ next = NoCursor \/ i \in Upto(next)
               => i \in ToSet(d) \/ (Held(c) /\ c \in rows \ listed /\ i = x)
           Good ==
            /\ d \in Seq(Items) /\ IsInjective(d) /\ ToSet(d) \subseteq listed
            /\ next \in Items \cup {NoCursor}
            /\ Held(c) => \A i \in ToSet(d) : Before(c, i)
            /\ listing.cursor = "row" /\ next # NoCursor =>
                 next \in ToSet(d) /\ \A i \in ToSet(d) : i = next \/ Before(i, next)
            /\ ~(Held(c) /\ c \notin rows) => \E x : Whole(x)
<1> SUFFICES Good
  OBVIOUS
<1>0. /\ key \in [Items -> 0..MaxKey] /\ listed \in SUBSET Items /\ rows \in SUBSET Items
      /\ listing.cursor \in {"row", "id", "offset"}
      /\ listing.cursor # "offset" /\ c \in Items \cup {NoCursor}
      /\ NoCursor = 0 /\ Items \in SUBSET (Nat \ {0})
  BY ItemsFacts, ListingFacts DEF WalkTypes, Offset, NoCursor
<1>2. ASSUME NEW S \in SUBSET listed, NEW n \in Nat \ {0},
             f = From(Sorted(S), n),
             Held(c) => \A m \in n..Len(Sorted(S)) : Before(c, Sorted(S)[m]),
             \E x : \A i \in listed : c = NoCursor \/ i \notin Upto(c) =>
               \/ \E m \in n..Len(Sorted(S)) : i = Sorted(S)[m]
               \/ Held(c) /\ c \in rows \ listed /\ i = x
      PROVE  Good
  <2> DEFINE s == Sorted(S)
  <2>0. PICK x : \A i \in listed : c = NoCursor \/ i \notin Upto(c) =>
                   \/ \E m \in n..Len(s) : i = s[m]
                   \/ Held(c) /\ c \in rows \ listed /\ i = x
    BY <1>2
  <2> HIDE DEF f, s
  <2>1. /\ d \in Seq(Items) /\ IsInjective(d) /\ ToSet(d) \subseteq S
        /\ \A i \in ToSet(d) : \E m \in n..Len(s) : i = s[m]
        /\ next \in Items \cup {NoCursor}
        /\ next # NoCursor => next \in ToSet(d) /\ \A i \in ToSet(d) : i = next \/ Before(i, next)
        /\ \A m \in n..Len(s) :
             next = NoCursor \/ s[m] = next \/ Before(s[m], next) => s[m] \in ToSet(d)
    BY <1>0, <1>2, RowPage DEF s
  <2> HIDE DEF d, next
  <2>2. Held(c) => \A i \in ToSet(d) : Before(c, i)
    BY <1>2, <2>1 DEF s
  <2>3. Whole(x)
    <3> SUFFICES ASSUME NEW i \in listed, c = NoCursor \/ i \notin Upto(c),
                        next = NoCursor \/ i \in Upto(next)
                 PROVE  i \in ToSet(d) \/ (Held(c) /\ c \in rows \ listed /\ i = x)
      OBVIOUS
    <3>1. next = NoCursor \/ i = next \/ Before(i, next)
      BY <1>2 DEF Upto
    <3>2. CASE \E m \in n..Len(s) : i = s[m]
      BY <2>1, <3>1, <3>2
    <3>3. CASE Held(c) /\ c \in rows \ listed /\ i = x
      BY <3>3
    <3> QED
      BY <2>0, <3>2, <3>3
  <2>4. next \in Nat
    BY <1>0, <2>1
  <2> QED
    BY <2>1, <2>2, <2>3, <2>4
<1>3. CASE c = NoCursor
  <2>1. f = From(Sorted(listed), 1) /\ ~Held(c)
    BY <1>3 DEF Fetched, Held
  <2>2. \A i \in listed : \E m \in 1..Len(Sorted(listed)) : i = Sorted(listed)[m]
    BY <1>0, SortedFacts
  <2> QED
    BY <1>2, <1>3, <2>1, <2>2
<1>4. CASE listing.cursor = "id" /\ c # NoCursor
  <2> DEFINE S == {i \in listed : i < c}
  <2>1. f = From(Sorted(S), 1) /\ ~Held(c)
    BY <1>4 DEF Fetched, Held
  <2>2. \A i \in S : \E m \in 1..Len(Sorted(S)) : i = Sorted(S)[m]
    <3>1. S \in SUBSET Items
      BY <1>0
    <3> HIDE DEF S
    <3> QED
      BY <1>0, <3>1, SortedFacts
  <2>3. ASSUME NEW i \in listed, i \notin Upto(c)
        PROVE  i \in S
    <3>1. c \in Items /\ i \in Items /\ i \in Nat /\ c \in Nat /\ listing.order = "newest"
      BY <1>0, <1>4, ListingFacts DEF WalkTypes
    <3>2. i # c /\ ~Before(i, c) /\ key[i] = 0 /\ key[c] = 0
      BY <1>4, <2>3, <3>1 DEF Upto
    <3>3. ~(i > c)
      BY <3>1, <3>2 DEF Before
    <3> QED
      BY <3>1, <3>2, <3>3
  <2> HIDE DEF S
  <2>4. S \in SUBSET listed
    BY DEF S
  <2> QED
    BY <1>2, <1>4, <2>1, <2>2, <2>3, <2>4
<1>5. CASE Held(c) /\ c \in rows
  <2> DEFINE S == {i \in listed : i = c \/ Before(c, i)}
             s == Sorted(S)
  <2>1. f = From(s, 2) /\ c \in Items /\ listing.cursor = "row" /\ c # NoCursor
    BY <1>0, <1>5 DEF Fetched, Held
  <2>a. S \in SUBSET Items /\ S \in SUBSET listed
    BY <1>0
  <2>b. \A i \in S : i = c \/ Before(c, i)
    OBVIOUS
  <2>c. \A i \in listed : i \notin Upto(c) => i \in S /\ i # c
    BY <1>0, <2>1, BeforeStrict DEF Upto
  <2>d. c \in listed => c \in S
    OBVIOUS
  <2> HIDE DEF S
  <2>2. /\ Len(s) \in Nat
        /\ \A i, j \in 1..Len(s) : i < j => Before(s[i], s[j])
        /\ \A i \in 1..Len(s) : s[i] \in S
        /\ \A i \in S : \E m \in 1..Len(s) : i = s[m]
    BY <1>0, <2>a, SortedFacts
  <2> HIDE DEF s
  <2>3. ASSUME NEW m \in 2..Len(s)
        PROVE  Before(c, s[m])
    <3>1. 1 \in 1..Len(s) /\ m \in 1..Len(s) /\ 1 < m
      BY <2>2
    <3>2. Before(s[1], s[m]) /\ s[1] \in S /\ s[m] \in S /\ s[1] \in Items /\ s[m] \in Items
      BY <2>2, <2>a, <3>1
    <3> QED
      BY <1>0, <2>1, <2>b, <3>2, BeforeStrict
  <2>4. ASSUME NEW i \in listed, i \notin Upto(c)
        PROVE  (\E m \in 2..Len(s) : i = s[m]) \/ (Held(c) /\ c \in rows \ listed /\ i = s[1])
    <3>1. PICK m \in 1..Len(s) : i = s[m]
      BY <2>2, <2>4, <2>c
    <3>2. CASE m \in 2..Len(s)
      BY <3>1, <3>2
    <3>3. CASE m = 1 /\ c \notin listed
      BY <1>5, <3>1, <3>3
    <3>4. CASE m = 1 /\ c \in listed
      <4>1. PICK l \in 1..Len(s) : c = s[l]
        BY <2>2, <2>d, <3>4
      <4>2. i # c
        BY <2>4, <2>c
      <4>3. 1 < l /\ 1 \in 1..Len(s)
        BY <2>2, <3>1, <3>4, <4>1, <4>2
      <4>4. Before(i, c)
        BY <2>2, <3>1, <3>4, <4>1, <4>3
      <4> QED
        BY <1>0, <2>1, <2>4, <4>4 DEF Upto
    <3> QED
      BY <2>2, <3>2, <3>3, <3>4
  <2>5. 2 \in Nat \ {0}
    BY <2>1
  <2>7. f = From(Sorted(S), 2)
    BY <2>1 DEF s
  <2>8. \A m \in 2..Len(Sorted(S)) : Before(c, Sorted(S)[m])
    BY <2>3 DEF s
  <2>9. \E x : \A i \in listed : c = NoCursor \/ i \notin Upto(c) =>
           \/ \E m \in 2..Len(Sorted(S)) : i = Sorted(S)[m]
           \/ Held(c) /\ c \in rows \ listed /\ i = x
    BY <2>1, <2>4 DEF s
  <2> HIDE DEF f, Good
  <2> QED
    BY <1>2, <2>1, <2>a, <2>5, <2>7, <2>8, <2>9
<1>6. CASE Held(c) /\ c \notin rows
  <2>1. f = <<>> /\ listing.cursor = "row"
    BY <1>6 DEF Fetched, Held
  <2> HIDE DEF f
  <2>2. f \in Seq(Items) /\ Len(f) = 0 /\ PageLimit \in Nat \ {0}
    BY <2>1, ItemsFacts
  <2>3. d \in Seq(Items) /\ Len(d) = 0
    <3> HIDE DEF d
    <3>1. d = FirstN(f, PageLimit)
      BY DEF d
    <3>2. PageLimit \in Nat /\ 0 < PageLimit
      BY <2>2
    <3>3. FirstN(f, PageLimit) \in Seq(Items) /\ Len(FirstN(f, PageLimit)) = IF Len(f) < PageLimit THEN Len(f) ELSE PageLimit
      BY <2>2, <3>2, FirstNFacts
    <3> QED
      BY <2>2, <3>1, <3>2, <3>3
  <2>4. next = NoCursor
    BY <2>2 DEF NextCursor
  <2> HIDE DEF d, next
  <2>5. d = <<>>
    BY <2>3, EmptySeq
  <2>6. d \in Seq(Items) /\ IsInjective(d) /\ ToSet(d) = {}
    BY <2>5, NothingYet
  <2> QED
    BY <1>0, <1>6, <2>4, <2>6
<1>7. Good
  BY <1>0, <1>3, <1>4, <1>5, <1>6 DEF Held
<1> QED
  BY <1>7


Cursors == (IF Offset THEN Lines ELSE Items) \cup {NoCursor}

\* A page as it is now.
LEMMA PageFacts ==
  ASSUME WalkTypes, listing.order \in {"newest", "oldest"} => \A i \in Items : key[i] = 0,
         NEW c \in Cursors, NEW p, p = PageOf(c)
  PROVE  /\ p \in PageRec /\ p.for = c /\ p.since = listed /\ p.ahead = Leading(c)
         /\ p.taken = taken /\ p.put = put
         /\ p.over = (IF Held(c) /\ c \in rows \ listed THEN 1 ELSE 0)
         /\ p.cut = (Held(c) /\ c \notin rows)
         /\ ToSet(p.data) \subseteq listed
         /\ CopyOK(p)
         /\ Held(c) => \A i \in ToSet(p.data) : Before(c, i)
         /\ listing.cursor = "row" /\ p.next # NoCursor =>
              p.next \in ToSet(p.data) /\ \A i \in ToSet(p.data) : i = p.next \/ Before(i, p.next)
         /\ Offset => /\ p.next = NoCursor => Gone(p) = listed
                      /\ p.next # NoCursor => Gone(p) = Leading(p.next)
<1> DEFINE f == Fetched(c)
           d == FirstN(f, PageLimit)
           next == NextCursor(c, f)
<1>a. listed \in SUBSET Items /\ taken \in [Lines -> Nat] /\ put \in [Lines -> Nat]
  BY DEF WalkTypes
<1>b. c \in Nat
  BY ItemsFacts, LinesFacts DEF Cursors
<1>0. /\ listed \in SUBSET Items /\ Leading(c) \in SUBSET Items /\ c \in Nat
      /\ taken \in [Lines -> Nat] /\ put \in [Lines -> Nat]
  BY <1>a, <1>b DEF Leading
<1>1. /\ p.for = c /\ p.data = d /\ p.next = next /\ p.since = listed /\ p.ahead = Leading(c)
      /\ p.taken = taken /\ p.put = put
      /\ p.over = (IF Held(c) /\ c \in rows \ listed THEN 1 ELSE 0)
      /\ p.cut = (Held(c) /\ c \notin rows)
      /\ p = [for |-> c, data |-> d, next |-> next, over |-> p.over, cut |-> p.cut,
              since |-> listed, ahead |-> Leading(c), taken |-> taken, put |-> put]
  BY DEF PageOf
<1> HIDE DEF f, d, next
<1>2. /\ d \in Seq(Items) /\ IsInjective(d) /\ ToSet(d) \subseteq listed
      /\ next \in (IF Offset THEN Lines ELSE Items) \cup {NoCursor}
      /\ Offset => /\ next = NoCursor => Leading(c) \cup ToSet(d) = listed
                   /\ next # NoCursor => Leading(c) \cup ToSet(d) = Leading(next)
  <2>1. CASE Offset
    <3>1. c \in Lines \cup {NoCursor} /\ Sorted(listed) = Sorted(listed)
      BY <2>1 DEF Cursors
    <3>2. f = From(Sorted(listed), c + 1)
      BY <2>1, LinesFacts DEF f, Fetched, Offset
    <3> QED
      BY <2>1, <3>1, <3>2, OffsetPage DEF d, next
  <2>2. CASE ~Offset
    <3>1. c \in Items \cup {NoCursor}
      BY <2>2 DEF Cursors
    <3> QED
      BY <2>2, <3>1, RowPageFacts DEF f, d, next
  <2> QED
    BY <2>1, <2>2
<1>3. /\ Held(c) => \A i \in ToSet(d) : Before(c, i)
      /\ listing.cursor = "row" /\ next # NoCursor =>
           next \in ToSet(d) /\ \A i \in ToSet(d) : i = next \/ Before(i, next)
  <2>1. Held(c) \/ listing.cursor = "row" => ~Offset
    BY DEF Held, Offset
  <2>2. ~Offset => c \in Items \cup {NoCursor}
    BY DEF Cursors
  <2> QED
    BY <2>1, <2>2, RowPageFacts DEF f, d, next
<1>4. next \in Nat
  BY <1>2, ItemsFacts, LinesFacts
<1>5. p.over \in 0..1 /\ p.cut \in BOOLEAN
  BY <1>1
<1>6. p \in PageRec
  BY <1>0, <1>1, <1>2, <1>4, <1>5 DEF PageRec
<1>7. ~Offset /\ ~p.cut => \E x : Covers(p, x)
  <2> SUFFICES ASSUME ~Offset, ~p.cut PROVE \E x : Covers(p, x)
    OBVIOUS
  <2>1. c \in Items \cup {NoCursor} /\ ~(Held(c) /\ c \notin rows)
    BY <1>1 DEF Cursors
  <2>2. PICK x : \A i \in listed :
                   /\ c = NoCursor \/ i \notin Upto(c)
                   /\ next = NoCursor \/ i \in Upto(next)
                   => i \in ToSet(d) \/ (Held(c) /\ c \in rows \ listed /\ i = x)
    BY <2>1, RowPageFacts DEF f, d, next
  <2> QED
    BY <1>1, <2>2 DEF Covers
<1>8. CopyOK(p)
  BY <1>1, <1>2, <1>7 DEF CopyOK
<1> QED
  BY <1>1, <1>2, <1>3, <1>6, <1>8 DEF Gone

LEMMA LostCounts ==
  ASSUME NEW p \in PageRec, NEW q \in PageRec, q.for \in Lines
  PROVE  /\ Lost(p, q) \in Nat
         /\ q.taken[q.for] - p.taken[q.for] <= Lost(p, q)
         /\ p.put[q.for] - q.put[q.for] <= Lost(p, q)
<1>1. /\ p.taken[q.for] \in Nat /\ q.taken[q.for] \in Nat
      /\ p.put[q.for] \in Nat /\ q.put[q.for] \in Nat
  BY GoneFacts
<1> QED
  BY <1>1 DEF Lost

\* A page read now fits those read before.
LEMMA PoolFresh ==
  ASSUME WalkTypes, Offset, NEW S, PoolOK(S), NEW c \in Cursors, NEW p, p = PageOf(c),
         listing.order \in {"newest", "oldest"} => \A i \in Items : key[i] = 0
  PROVE  PoolOK(S \cup {p})
<1>0. /\ key \in [Items -> 0..MaxKey] /\ listed \in SUBSET Items
      /\ taken \in [Lines -> Nat] /\ put \in [Lines -> Nat]
  BY DEF WalkTypes
<1>1. /\ p \in PageRec /\ p.for = c /\ p.since = listed /\ p.ahead = Leading(c)
      /\ p.taken = taken /\ p.put = put /\ p.over = 0 /\ ~p.cut
      /\ c \in Lines \cup {NoCursor} /\ p.next \in Lines \cup {NoCursor}
      /\ p.next = NoCursor => Gone(p) = listed
      /\ p.next # NoCursor => Gone(p) = Leading(p.next)
  <2>1. ~Held(c) /\ c \in Lines \cup {NoCursor}
    BY DEF Held, Offset, Cursors
  <2> QED
    BY <2>1, PageFacts DEF CopyOK
<1>2. \A o : Leading(o) \in SUBSET listed
  BY DEF Leading
<1>3. Leading(NoCursor) = {}
  <2>1. \A i \in listed : Place(listed, Order, i) \in Nat
    BY <1>0, SortedFacts
  <2>2. \A i \in listed : ~(Place(listed, Order, i) < 0)
    BY <2>1
  <2> QED
    BY <1>0, <2>2, LeadingFacts DEF NoCursor
<1>4. ASSUME NEW o \in Lines, NEW A, A = Leading(o)
      PROVE  Near(p, o, A)
  <2>1. (Leading(o) \cap p.since) \ A = {} /\ (A \cap p.since) \ Leading(o) = {}
    BY <1>4
  <2>2. Cardinality({}) = 0 /\ taken[o] \in Nat /\ put[o] \in Nat
    BY <1>0, FS_EmptySet
  <2>3. Cardinality((Leading(o) \cap p.since) \ A) = 0 /\ Cardinality((A \cap p.since) \ Leading(o)) = 0
    BY <2>1, <2>2
  <2>4. taken[o] - p.taken[o] = 0 /\ put[o] - p.put[o] = 0 /\ p.taken[o] <= taken[o] /\ p.put[o] <= put[o]
    BY <1>1, <2>2
  <2> QED
    BY <2>3, <2>4 DEF Near
<1>5. PoolPage(p)
  <2>1. Near(p, p.for, p.ahead)
    BY <1>1, <1>4 DEF Near
  <2>2. Near(p, p.next, Gone(p))
    BY <1>1, <1>4, LinesFacts DEF Near
  <2> QED
    BY <1>1, <1>3, <2>1, <2>2 DEF PoolPage
<1>6. ASSUME NEW q \in S
      PROVE  Joined(q, p)
  <2> SUFFICES ASSUME p.for = q.next, p.for \in Lines
               PROVE  Cardinality((p.ahead \cap p.since \cap q.since) \ Gone(q)) <= Lost(q, p)
    BY DEF Joined
  <2>1. q \in PageRec /\ Near(q, q.next, Gone(q))
    BY DEF PoolOK, PoolPage
  <2> DEFINE o == p.for
             B == (Leading(o) \cap q.since) \ Gone(q)
  <2>2. (p.ahead \cap p.since \cap q.since) \ Gone(q) = B
    BY <1>1, <1>2
  <2>3. Cardinality(B) <= taken[o] - q.taken[o]
    BY <2>1 DEF Near
  <2>4. B \in SUBSET Items
    BY <1>0, <1>2
  <2>5. Cardinality(B) \in Nat
    BY <2>4, Fewer
  <2>6. p.taken[o] - q.taken[o] <= Lost(q, p) /\ Lost(q, p) \in Nat /\ p.taken = taken
    BY <1>1, <2>1, LostCounts
  <2>7. taken[o] \in Nat /\ q.taken[o] \in Nat
    BY <1>0, <2>1, GoneFacts
  <2> HIDE DEF B, o
  <2>8. Cardinality(B) <= Lost(q, p)
    BY <2>3, <2>5, <2>6, <2>7
  <2> QED
    BY <2>2, <2>8
<1>7. ASSUME NEW q \in S
      PROVE  Joined(p, q)
  <2> SUFFICES ASSUME q.for = p.next, q.for \in Lines
               PROVE  Cardinality((q.ahead \cap q.since \cap p.since) \ Gone(p)) <= Lost(p, q)
    BY DEF Joined
  <2>1. q \in PageRec /\ q.since \subseteq listed /\ Near(q, q.for, q.ahead)
    BY DEF PoolOK, PoolPage
  <2> DEFINE o == q.for
             B == (q.ahead \cap q.since) \ Leading(o)
  <2>2. (q.ahead \cap q.since \cap p.since) \ Gone(p) = B
    BY <1>1, <2>1, LinesFacts
  <2>3. Cardinality(B) <= put[o] - q.put[o]
    BY <2>1 DEF Near
  <2>4. B \in SUBSET Items
    BY <2>1, GoneFacts
  <2>5. Cardinality(B) \in Nat
    BY <2>4, Fewer
  <2>6. p.put[o] - q.put[o] <= Lost(p, q) /\ Lost(p, q) \in Nat /\ p.put = put
    BY <1>1, <2>1, LostCounts
  <2>7. put[o] \in Nat /\ q.put[o] \in Nat
    BY <1>0, <2>1, GoneFacts
  <2> HIDE DEF B, o
  <2>8. Cardinality(B) <= Lost(p, q)
    BY <2>3, <2>5, <2>6, <2>7
  <2> QED
    BY <2>2, <2>8
<1>8. Joined(p, p)
  <2> SUFFICES ASSUME p.for = p.next, p.for \in Lines
               PROVE  Cardinality((p.ahead \cap p.since \cap p.since) \ Gone(p)) <= Lost(p, p)
    BY DEF Joined
  <2>1. (p.ahead \cap p.since \cap p.since) \ Gone(p) = {}
    BY <1>1, LinesFacts
  <2>2. Cardinality({}) = 0 /\ Lost(p, p) \in Nat
    BY <1>1, FS_EmptySet, LostFacts
  <2> QED
    BY <2>1, <2>2
<1> QED
  BY <1>5, <1>6, <1>7, <1>8 DEF PoolOK

-----------------------------------------------------------------------------
(* Writes to the rows. *)

\* Row j, and nothing else, is hidden, listed, deleted or moved.
ChangeOf(j) ==
  /\ Change(j)
  /\ listed' \subseteq rows' /\ rows' \subseteq Items
  /\ key' \in [Items -> 0..MaxKey]
  /\ \A i \in Items \ {j} : key'[i] = key[i]
  /\ listed' \ {j} = listed \ {j}
  /\ slid' \in BOOLEAN /\ (slid \/ (CursorRow(j) /\ key'[j] < key[j]) => slid')
  /\ raised' \in BOOLEAN /\ (raised \/ (CursorRow(j) /\ key'[j] > key[j]) => raised')
  /\ listing.order \in {"newest", "oldest"} => key'[j] = key[j]
  /\ listing.order = "recent" /\ key'[j] # key[j] =>
       key[j] < key'[j] /\ \A i \in Items \ {j} : key[i] < key'[j]

LEMMA MoveFacts ==
  ASSUME WalkTypes, NEW j \in Items, NEW k \in 0..MaxKey, Move(j, k)
  PROVE  /\ key' \in [Items -> 0..MaxKey] /\ key'[j] = k
         /\ \A i \in Items \ {j} : key'[i] = key[i]
         /\ slid' \in BOOLEAN /\ (slid \/ (CursorRow(j) /\ k < key[j]) => slid')
         /\ raised' \in BOOLEAN /\ (raised \/ (CursorRow(j) /\ k > key[j]) => raised')
         /\ Change(j)
<1>1. key' = [key EXCEPT ![j] = k]
  BY DEF Move
<1>2. /\ slid' = (slid \/ (CursorRow(j) /\ k < key[j]))
      /\ raised' = (raised \/ (CursorRow(j) /\ k > key[j]))
  BY DEF Move
<1> QED
  BY <1>1, <1>2 DEF Move, WalkTypes

LEMMA ChangesChange ==
  ASSUME WalkTypes, CursorsOK,
         NEW i \in Items, Hide(i) \/ Unhide(i) \/ Drop(i) \/ Insert(i) \/ Bump(i) \/ Rank(i)
  PROVE  ChangeOf(i)
<1> USE DEF WalkTypes
<1>1. CASE Hide(i)
  BY <1>1 DEF Hide, ChangeOf
<1>2. CASE Unhide(i)
  BY <1>2 DEF Unhide, ChangeOf
<1>3. CASE Drop(i)
  BY <1>3 DEF Drop, ChangeOf
<1>4. CASE Insert(i)
  BY <1>4 DEF Insert, ChangeOf
<1>5. CASE Bump(i)
  <2>1. PICK k \in 1..MaxKey : (\A j \in Items \ {i} : key[j] < k) /\ key[i] < k /\ Move(i, k)
    BY <1>5 DEF Bump
  <2>2. k \in 0..MaxKey
    OBVIOUS
  <2> QED
    BY <1>5, <2>1, <2>2, MoveFacts DEF Bump, ChangeOf
<1>6. CASE Rank(i)
  <2>1. PICK k \in 0..MaxKey : Move(i, k)
    BY <1>6 DEF Rank
  <2>2. listing.order = "ranked" /\ UNCHANGED <<rows, listed>>
    BY <1>6 DEF Rank
  <2>3. "ranked" \notin {"newest", "oldest", "recent"}
    OBVIOUS
  <2> QED
    BY <2>1, <2>2, <2>3, MoveFacts DEF ChangeOf
<1> QED
  BY <1>1, <1>2, <1>3, <1>4, <1>5, <1>6

\* Where a row is written, one other at most joins those before an offset, and
\* one at most leaves them; `taken` and `put` count it.
LEMMA Crossings ==
  ASSUME WalkTypes, Offset, NEW j \in Items, ChangeOf(j), NEW o \in Lines
  PROVE  /\ taken'[o] \in Nat /\ put'[o] \in Nat /\ taken[o] \in Nat /\ put[o] \in Nat
         /\ taken'[o] \in {taken[o], taken[o] + 1} /\ put'[o] \in {put[o], put[o] + 1}
         /\ \E x : \A i \in Leading(o)' \ {j} : i \in Leading(o) \/ (i = x /\ taken'[o] = taken[o] + 1)
         /\ \E x : \A i \in Leading(o) \ {j} : i \in Leading(o)' \/ (i = x /\ put'[o] = put[o] + 1)
<1>0. /\ key \in [Items -> 0..MaxKey] /\ listed \in SUBSET Items
      /\ key' \in [Items -> 0..MaxKey] /\ listed' \in SUBSET Items
      /\ taken \in [Lines -> Nat] /\ put \in [Lines -> Nat] /\ listing' = listing /\ o \in Nat
  BY LinesFacts DEF WalkTypes, ChangeOf, Change
<1>1. /\ taken'[o] = taken[o] + IF j \in Leading(o) /\ j \notin Leading(o)' THEN 1 ELSE 0
      /\ put'[o] = put[o] + IF j \notin Leading(o) /\ j \in Leading(o)' THEN 1 ELSE 0
  BY DEF ChangeOf, Change, Counted
<1>2. PICK K, Q : K = listed /\ Q = Order
  OBVIOUS
<1>3. PICK M, R : M = listed' /\ R = Order'
  OBVIOUS
<1>4. StrictOrder(Items, Q) /\ (\A i, l \in Items : <<i, l>> \in Q <=> Before(i, l))
  BY <1>0, <1>2, BeforeStrict
<1>5. \A i, l \in Items : <<i, l>> \in R <=> Before(i, l)'
  BY <1>0, <1>3 DEF Order
<1>6. StrictOrder(Items, R)
  <2>1. \A i \in Items : key'[i] \in Int /\ i \in Int
    BY <1>0, ItemsFacts
  <2>2. /\ \A i \in Items : ~Before(i, i)'
        /\ \A i, l \in Items : i = l \/ Before(i, l)' \/ Before(l, i)'
        /\ \A i, l, m \in Items : Before(i, l)' /\ Before(l, m)' => Before(i, m)'
    BY <2>1 DEF Before
  <2> QED
    BY <1>5, <2>2 DEF StrictOrder
<1>7. /\ \A i \in Items \ {j} : i \in K <=> i \in M
      /\ \A i, l \in Items \ {j} : <<i, l>> \in Q <=> <<i, l>> \in R
  <2>1. \A i \in Items \ {j} : i \in K <=> i \in M
    BY <1>2, <1>3 DEF ChangeOf
  <2>2. \A i, l \in Items \ {j} : Before(i, l) <=> Before(i, l)'
    BY <1>0 DEF Before, ChangeOf
  <2> QED
    BY <1>4, <1>5, <2>1, <2>2
<1>8. Leading(o) = {i \in K : Place(K, Q, i) < o}
  BY <1>0, <1>2, LeadingFacts
<1>9. Leading(o)' = {i \in M : Place(M, R, i) < o}
  <2>1. \A i \in M : Preceding(M, R, i) = {l \in M : Before(l, i)'}
    BY <1>0, <1>3, <1>5 DEF Preceding
  <2>2. \A i \in M : Place(M, R, i) = Cardinality({l \in M : Before(l, i)'})
    BY <2>1 DEF Place
  <2>3. Leading(o)' = {i \in listed' : listing'.cursor = "offset"
                                        /\ Cardinality({l \in listed' : Before(l, i)'}) < o}
    BY DEF Leading
  <2> QED
    BY <1>0, <1>3, <2>2, <2>3 DEF Offset
<1>10. K \in SUBSET Items /\ M \in SUBSET Items
  BY <1>0, <1>2, <1>3
<1>11. IsFiniteSet(K) /\ IsFiniteSet(M) /\ StrictOrder(K, Q) /\ StrictOrder(M, R)
  BY <1>4, <1>6, <1>10, ItemsFacts, FS_Subset DEF StrictOrder
<1>12. \E x : \A i \in Leading(o)' \ {j} : i \in Leading(o) \/ (i = x /\ taken'[o] = taken[o] + 1)
  <2>1. CASE \A i \in Leading(o)' \ {j} : i \in Leading(o)
    BY <2>1
  <2>2. ASSUME NEW x \in Leading(o)' \ {j}, x \notin Leading(o)
        PROVE  x \in K /\ Place(K, Q, x) = o /\ taken'[o] = taken[o] + 1
    <3>1. x \in M \ {j} /\ Place(M, R, x) < o /\ ~(Place(K, Q, x) < o)
      BY <1>7, <1>8, <1>9, <1>10, <2>2
    <3>2. /\ x \in K /\ Place(K, Q, x) = o /\ j \in K /\ Place(K, Q, j) < o
          /\ j \in M => ~(Place(M, R, j) < o)
      <4>1. o \in Nat /\ StrictOrder(Items, Q) /\ StrictOrder(Items, R)
        BY <1>0, <1>4, <1>6
      <4>2. ASSUME NEW y \in M \ {j}, Place(M, R, y) < o, ~(Place(K, Q, y) < o)
            PROVE  /\ y \in K /\ Place(K, Q, y) = o /\ j \in K /\ Place(K, Q, j) < o
                   /\ j \in M => ~(Place(M, R, j) < o)
        BY <1>7, <1>10, <4>1, <4>2, OneCrosses
      <4> QED
        BY <3>1, <4>2
    <3> QED
      BY <1>1, <1>8, <1>9, <3>2
  <2>3. \A x, y \in K : Place(K, Q, x) = o /\ Place(K, Q, y) = o => x = y
    BY <1>0, <1>2, <1>10, SortedFacts
  <2> QED
    BY <2>1, <2>2, <2>3
<1>13. \E x : \A i \in Leading(o) \ {j} : i \in Leading(o)' \/ (i = x /\ put'[o] = put[o] + 1)
  <2>1. CASE \A i \in Leading(o) \ {j} : i \in Leading(o)'
    BY <2>1
  <2>2. ASSUME NEW x \in Leading(o) \ {j}, x \notin Leading(o)'
        PROVE  x \in M /\ Place(M, R, x) = o /\ put'[o] = put[o] + 1
    <3>1. x \in K \ {j} /\ Place(K, Q, x) < o /\ ~(Place(M, R, x) < o)
      BY <1>7, <1>8, <1>9, <1>10, <2>2
    <3>2. /\ x \in M /\ Place(M, R, x) = o /\ j \in M /\ Place(M, R, j) < o
          /\ j \in K => ~(Place(K, Q, j) < o)
      BY <1>0, <1>4, <1>6, <1>7, <1>10, <3>1, OneCrosses
    <3> QED
      BY <1>1, <1>8, <1>9, <3>2
  <2>3. \A x, y \in M : Place(M, R, x) = o /\ Place(M, R, y) = o => x = y
    <3> SUFFICES ASSUME NEW x \in M, NEW y \in M, Place(M, R, x) = o, Place(M, R, y) = o, x # y
                 PROVE  FALSE
      OBVIOUS
    <3>1. <<x, y>> \in R \/ <<y, x>> \in R
      BY <1>11 DEF StrictOrder
    <3> QED
      BY <1>0, <1>11, <3>1, PlaceGrows
  <2> QED
    BY <2>1, <2>2, <2>3
<1> QED
  BY <1>0, <1>1, <1>12, <1>13

LEMMA AgedFacts ==
  ASSUME NEW p \in PageRec, NEW j
  PROVE  Less(Aged(p, j), p) /\ Aged(p, j).since = p.since \ {j}
BY DEF Aged, Less, PageRec

LEMMA OneMore ==
  ASSUME NEW B \in SUBSET Items, NEW A \in SUBSET Items, NEW n \in Nat, NEW m \in Nat, NEW k \in Nat,
         m = n \/ m = n + 1, k <= n, Cardinality(B) <= n - k, NEW x, A \ {x} \in SUBSET B, m = n => A \in SUBSET B
  PROVE  k <= m /\ Cardinality(A) <= m - k
<1>1. IsFiniteSet(B) /\ Cardinality(B) \in Nat
  BY Fewer
<1>2. CASE A \in SUBSET B
  <2>1. Cardinality(A) \in Nat /\ Cardinality(A) <= Cardinality(B)
    BY <1>2, Fewer
  <2> QED
    BY <1>1, <2>1
<1>3. CASE ~(A \in SUBSET B)
  <2>1. m = n + 1 /\ A \in SUBSET (B \cup {x})
    BY <1>3
  <2>a. /\ IsFiniteSet(B \cup {x})
        /\ Cardinality(B \cup {x}) = IF x \in B THEN Cardinality(B) ELSE Cardinality(B) + 1
    BY <1>1, FS_AddElement
  <2>2. IsFiniteSet(B \cup {x}) /\ Cardinality(B \cup {x}) <= Cardinality(B) + 1
    BY <1>1, <2>a
  <2>3. IsFiniteSet(A) /\ Cardinality(A) <= Cardinality(B \cup {x})
    BY <2>1, <2>2, FS_Subset
  <2>4. Cardinality(A) \in Nat /\ Cardinality(B \cup {x}) \in Nat
    BY <2>2, <2>3, FS_CardinalityType
  <2> QED
    BY <1>1, <2>1, <2>2, <2>3, <2>4
<1> QED
  BY <1>2, <1>3

LEMMA NearAged ==
  ASSUME WalkTypes, Offset, NEW j \in Items, ChangeOf(j),
         NEW p \in PageRec, NEW r, r = Aged(p, j), NEW o, NEW A \in SUBSET Items, Near(p, o, A)
  PROVE  Near(r, o, A)'
<1> SUFFICES ASSUME o \in Lines PROVE Near(r, o, A)'
  BY DEF Near
<1>1. /\ r.taken = p.taken /\ r.put = p.put /\ r.since = p.since \ {j} /\ p.since \in SUBSET Items
      /\ p.taken[o] \in Nat /\ p.put[o] \in Nat
  BY AgedFacts, GoneFacts DEF Less
<1>2. /\ taken'[o] \in Nat /\ put'[o] \in Nat /\ taken[o] \in Nat /\ put[o] \in Nat
      /\ taken'[o] \in {taken[o], taken[o] + 1} /\ put'[o] \in {put[o], put[o] + 1}
  BY Crossings
<1>3. PICK x : \A i \in Leading(o)' \ {j} : i \in Leading(o) \/ (i = x /\ taken'[o] = taken[o] + 1)
  BY Crossings
<1>4. PICK y : \A i \in Leading(o) \ {j} : i \in Leading(o)' \/ (i = y /\ put'[o] = put[o] + 1)
  BY Crossings
<1>5. /\ p.taken[o] <= taken[o] /\ p.put[o] <= put[o]
      /\ Cardinality((Leading(o) \cap p.since) \ A) <= taken[o] - p.taken[o]
      /\ Cardinality((A \cap p.since) \ Leading(o)) <= put[o] - p.put[o]
  BY DEF Near
<1>6. PICK B1, B2 : B1 = (Leading(o) \cap p.since) \ A /\ B2 = (A \cap p.since) \ Leading(o)
  OBVIOUS
<1>7. PICK A1, A2 : A1 = (Leading(o)' \cap r.since) \ A /\ A2 = (A \cap r.since) \ Leading(o)'
  OBVIOUS
<1>8. B1 \in SUBSET Items /\ B2 \in SUBSET Items /\ A1 \in SUBSET Items /\ A2 \in SUBSET Items
  BY <1>1, <1>6, <1>7
<1>9. \A i \in A1 : i \in B1 \/ (i = x /\ taken'[o] = taken[o] + 1)
  BY <1>1, <1>3, <1>6, <1>7
<1>10. \A i \in A2 : i \in B2 \/ (i = y /\ put'[o] = put[o] + 1)
  BY <1>1, <1>4, <1>6, <1>7
<1>11. PICK n, m, k : n = taken[o] /\ m = taken'[o] /\ k = p.taken[o]
  OBVIOUS
<1>12. p.taken[o] <= taken'[o] /\ Cardinality(A1) <= taken'[o] - p.taken[o]
  <2>1. /\ n \in Nat /\ m \in Nat /\ (m = n \/ m = n + 1) /\ k \in Nat /\ k <= n /\ Cardinality(B1) <= n - k
        /\ A1 \ {x} \in SUBSET B1 /\ (m = n => A1 \in SUBSET B1)
    BY <1>1, <1>2, <1>5, <1>6, <1>9, <1>11
  <2>2. k <= m /\ Cardinality(A1) <= m - k
    BY <1>8, <2>1, OneMore
  <2> QED
    BY <1>11, <2>2
<1>13. PICK n2, m2, k2 : n2 = put[o] /\ m2 = put'[o] /\ k2 = p.put[o]
  OBVIOUS
<1>14. p.put[o] <= put'[o] /\ Cardinality(A2) <= put'[o] - p.put[o]
  <2>1. /\ n2 \in Nat /\ m2 \in Nat /\ (m2 = n2 \/ m2 = n2 + 1) /\ k2 \in Nat /\ k2 <= n2 /\ Cardinality(B2) <= n2 - k2
        /\ A2 \ {y} \in SUBSET B2 /\ (m2 = n2 => A2 \in SUBSET B2)
    BY <1>1, <1>2, <1>5, <1>6, <1>10, <1>13
  <2>2. k2 <= m2 /\ Cardinality(A2) <= m2 - k2
    BY <1>8, <2>1, OneMore
  <2> QED
    BY <1>13, <2>2
<1> QED
  BY <1>1, <1>7, <1>12, <1>14 DEF Near

LEMMA PoolAged ==
  ASSUME WalkTypes, Offset, NEW j \in Items, ChangeOf(j),
         NEW S, PoolOK(S), NEW T, T = {Aged(p, j) : p \in S}
  PROVE  PoolOK(T)'
<1>1. /\ listed \in SUBSET Items /\ taken \in [Lines -> Nat] /\ put \in [Lines -> Nat]
      /\ listed' \ {j} = listed \ {j}
  BY DEF WalkTypes, ChangeOf
<1>2. \A p \in S : PoolPage(p) /\ p \in PageRec
  BY DEF PoolOK, PoolPage
<1>3. \A r \in T : \E p \in S : r = Aged(p, j) /\ Less(r, p)
  BY <1>2, AgedFacts
<1>4. PoolOK(T)
  BY <1>1, <1>3, PoolLess
<1>5. ASSUME NEW r \in T PROVE PoolPage(r)'
  <2>1. PICK p \in S : r = Aged(p, j) /\ Less(r, p)
    BY <1>3
  <2>2. p \in PageRec /\ PoolPage(p) /\ PoolPage(r) /\ r.since = p.since \ {j}
    BY <1>2, <1>4, <2>1, AgedFacts DEF PoolOK
  <2>3. Gone(p) \in SUBSET Items /\ p.ahead \in SUBSET Items /\ Gone(r) = Gone(p)
    BY <2>1, <2>2, GoneFacts DEF Less, Gone
  <2>4. Near(r, p.for, p.ahead)' /\ Near(r, p.next, Gone(p))'
    <3>1. Near(p, p.for, p.ahead) /\ Near(p, p.next, Gone(p))
      BY <2>2 DEF PoolPage
    <3>2. PICK o, A : o = p.for /\ A = p.ahead
      OBVIOUS
    <3>3. PICK o2, A2 : o2 = p.next /\ A2 = Gone(p)
      OBVIOUS
    <3>4. Near(r, o, A)' /\ Near(r, o2, A2)'
      BY <2>1, <2>2, <2>3, <3>1, <3>2, <3>3, NearAged
    <3> QED
      BY <3>2, <3>3, <3>4
  <2>5. r.since \subseteq listed'
    BY <1>1, <2>2 DEF PoolPage
  <2> QED
    BY <2>1, <2>2, <2>3, <2>4, <2>5 DEF PoolPage, Less
<1> QED
  BY <1>4, <1>5 DEF PoolOK

\* What the cursor owes does not grow: the row moves away from those before it,
\* or is owed no more.
LEMMA OwedChanges ==
  ASSUME WalkTypes, CursorsOK, NEW j \in Items, ChangeOf(j), ~slid', ~Offset,
         NEW c \in {cursor, page.next}, NEW S, NEW T \in SUBSET Items
  PROVE  Owed(T \ {j}, S, c)' \subseteq Owed(T, S, c)
<1>1. CASE c = NoCursor
  BY <1>1 DEF Owed
<1>2. CASE c # NoCursor
  <2>1. c \in Items
    BY <1>2 DEF CursorsOK
  <2>2. ~(c = j /\ key'[j] < key[j])
    <3>0. key[j] \in Int /\ key'[j] \in Int
      BY ItemsFacts DEF WalkTypes, ChangeOf
    <3>1. CASE listing.cursor = "row"
      BY <3>1 DEF ChangeOf, CursorRow
    <3>2. CASE listing.cursor = "id"
      BY <3>0, <3>2, ListingFacts DEF ChangeOf, WalkTypes
    <3> QED
      BY <3>1, <3>2, ListingFacts DEF WalkTypes, Offset
  <2>3. ASSUME NEW i \in T \ {j}, i \in Upto(c)'
        PROVE  i \in Upto(c)
    <3>1. i \in Items /\ i # j /\ key'[i] = key[i] /\ listing' = listing
      BY DEF ChangeOf, Change
    <3>2. key[i] \in Int /\ key[c] \in Int /\ key'[c] \in Int /\ key[c] <= key'[c] /\ i \in Int /\ c \in Int
      BY <2>1, <2>2, <3>1, ItemsFacts DEF WalkTypes, ChangeOf
    <3>3. i = c \/ Before(i, c)'
      BY <2>3 DEF Upto
    <3>4. i = c \/ Before(i, c)
      BY <3>1, <3>2, <3>3 DEF Before
    <3> QED
      BY <3>1, <3>4 DEF Upto
  <2>4. Owed(T \ {j}, S, c)' = ((T \ {j}) \cap Upto(c)') \ S
    BY <1>2 DEF Owed
  <2> QED
    BY <1>2, <2>3, <2>4 DEF Owed
<1> QED
  BY <1>1, <1>2

\* The changed row moves up or not at all where pages are appended.
LEMMA UptoChanges ==
  ASSUME WalkTypes, CursorsOK, NEW j \in Items, ChangeOf(j), ~raised', listing.join = "append",
         NEW c \in {cursor, page.next}, c # NoCursor
  PROVE  Upto(c) \subseteq Upto(c)'
<1>1. listing.cursor = "row" /\ listing.order \in {"recent", "newest"}
  BY ListingFacts DEF WalkTypes
<1>2. c \in Items /\ (c = j => ~(key'[j] > key[j]))
  BY <1>1 DEF CursorsOK, ChangeOf, CursorRow, Offset
<1>3. key \in [Items -> Nat] /\ key' \in [Items -> Nat] /\ Items \in SUBSET Nat /\ listing' = listing
  BY ItemsFacts DEF WalkTypes, ChangeOf, Change
<1>4. key'[c] = key[c]
  BY <1>1, <1>2, <1>3 DEF ChangeOf
<1>5. ASSUME NEW i \in Items, Before(i, c)
      PROVE  Before(i, c)'
  <2>1. CASE i # j
    BY <1>2, <1>3, <1>4, <1>5, <2>1 DEF Before, ChangeOf
  <2>2. CASE i = j /\ key'[j] = key[j]
    BY <1>2, <1>3, <1>4, <1>5, <2>2 DEF Before
  <2>3. CASE i = j /\ key'[j] # key[j]
    <3>1. key[j] < key'[j] /\ (c # j => key[c] < key'[j])
      BY <1>1, <1>2, <2>3 DEF ChangeOf
    <3> QED
      BY <1>2, <1>3, <1>4, <2>3, <3>1 DEF Before
  <2> QED
    BY <2>1, <2>2, <2>3
<1> QED
  BY <1>5 DEF Upto

\* A copy of the cache leaves out no row still: its listing is in the order of
\* creation.
LEMMA CopyAged ==
  ASSUME WalkTypes, CursorsOK, NEW j \in Items, ChangeOf(j), listing.cached,
         NEW p \in PageRec, CopyOK(p), NEW r, r = Aged(p, j)
  PROVE  CopyOK(r)'
<1>1. listing' = listing
  BY DEF ChangeOf, Change
<1>2. r.since \subseteq p.since /\ p.since \in SUBSET Items
      /\ r.for = p.for /\ r.data = p.data /\ r.next = p.next /\ r.over = p.over /\ r.cut = p.cut
  BY AgedFacts, GoneFacts DEF Less
<1>3. ASSUME ~Offset, ~r.cut PROVE \E x : Covers(r, x)'
  <2>1. listing.order = "newest"
    BY <1>3, ListingFacts DEF WalkTypes, Offset
  <2>2. key \in [Items -> 0..MaxKey] /\ key' \in [Items -> 0..MaxKey] /\ \A i \in Items : key'[i] = key[i]
    BY <2>1 DEF ChangeOf, WalkTypes
  <2>3. key' = key
    BY <2>2
  <2>4. \A c : Upto(c)' = Upto(c)
    BY <1>1, <2>3 DEF Upto, Before
  <2>5. PICK x : Covers(p, x)
    BY <1>2, <1>3 DEF CopyOK
  <2> QED
    BY <1>2, <2>4, <2>5 DEF Covers
<1> QED
  BY <1>1, <1>2, <1>3 DEF CopyOK, Offset

LEMMA AgedParts ==
  ASSUME WalkTypes, CursorsOK, NEW j \in Items, ChangeOf(j)
  PROVE  /\ UNCHANGED <<listing, phase, shown, cursor, last, missed, cut>>
         /\ steady' = steady \ {j} /\ steady \in SUBSET Items
         /\ page' = Aged(page, j) /\ Less(page', page) /\ page'.since = page.since \ {j}
         /\ copies' = {Aged(p, j) : p \in copies}
         /\ \A p \in copies : Less(Aged(p, j), p) /\ Aged(p, j).since = p.since \ {j}
         /\ listed' \ {j} = listed \ {j}
         /\ page = NoPage => page' = NoPage
<1>1. page \in PageRec /\ \A p \in copies : p \in PageRec
  BY DEF WalkTypes
<1>2. Aged(NoPage, j) = NoPage
  <2>1. NoPage.since = {} /\ {} \ {j} = {}
    BY NothingYet
  <2>2. Aged(NoPage, j) = [NoPage EXCEPT !.since = {}]
    BY <2>1 DEF Aged
  <2>3. [NoPage EXCEPT !.since = {}] = NoPage
    BY <2>1, NothingYet DEF PageRec
  <2> QED
    BY <2>2, <2>3
<1> QED
  BY <1>1, <1>2, AgedFacts DEF ChangeOf, Change, WalkTypes

LEMMA ChangeKeepsTypes ==
  ASSUME WalkTypes, CursorsOK, NEW j \in Items, ChangeOf(j)
  PROVE  WalkTypes' /\ CursorsOK'
<1> USE AgedParts
<1>1. changes' \in 0..MaxChanges
  <2>1. changes < MaxChanges /\ changes' = changes + 1
    BY DEF ChangeOf, Change
  <2> QED
    BY <2>1, ItemsFacts DEF WalkTypes
<1>2. taken' \in [Lines -> Nat] /\ put' \in [Lines -> Nat]
  <2>1. ASSUME NEW n \in [Lines -> Nat], NEW S PROVE Counted(n, S) \in [Lines -> Nat]
    BY DEF Counted
  <2>2. /\ taken' = Counted(taken, {o \in Lines : j \in Leading(o) /\ j \notin Leading(o)'})
        /\ put' = Counted(put, {o \in Lines : j \notin Leading(o) /\ j \in Leading(o)'})
    BY DEF ChangeOf, Change
  <2> QED
    BY <2>1, <2>2 DEF WalkTypes
<1>3. copies' \subseteq PageRec /\ page' \in PageRec /\ last' \in PageRec
  BY DEF WalkTypes, Less
<1>4. \A p \in copies' \cup {page'} : p.since \subseteq listed'
  BY DEF WalkTypes
<1>5. steady' \subseteq listed'
  BY DEF WalkTypes
<1>6. WalkTypes'
  BY <1>1, <1>2, <1>3, <1>4, <1>5 DEF WalkTypes, ChangeOf
<1>7. listing.order \in {"newest", "oldest"} => \A i \in Items : key'[i] = 0
  BY DEF CursorsOK, ChangeOf
<1>8. CursorsOK'
  BY <1>7 DEF CursorsOK, Less, Offset
<1> QED
  BY <1>6, <1>8

LEMMA ChangeKeepsRows ==
  ASSUME WalkTypes, CursorsOK, RowsReached, NEW j \in Items, ChangeOf(j)
  PROVE  RowsReached'
<1> USE AgedParts
<1> SUFFICES ASSUME ~Offset, ~cut, ~slid'
             PROVE  /\ cursor # NoCursor \/ phase = "end" =>
                         Cardinality(Owed(steady, ToSet(shown), cursor)') <= missed
                    /\ phase = "answered" /\ ~page.cut =>
                         Cardinality(Owed(Kept(page), ToSet(shown) \cup ToSet(page.data), page.next)')
                           <= missed + page.over
  BY DEF RowsReached, Offset, Less
<1>1. ~slid
  BY DEF ChangeOf
<1>2. missed \in Nat /\ page.over \in Nat
  BY DEF WalkTypes, PageRec
<1>3. ASSUME NEW c \in {cursor, page.next}, NEW S, NEW T \in SUBSET Items, NEW n \in Nat,
             Cardinality(Owed(T, S, c)) <= n
      PROVE  Cardinality(Owed(T \ {j}, S, c)') <= n
  <2>1. Owed(T, S, c) \in SUBSET Items /\ Owed(T \ {j}, S, c)' \in SUBSET Owed(T, S, c)
    BY OwedChanges DEF Owed
  <2>2. /\ Cardinality(Owed(T \ {j}, S, c)') \in Nat /\ Cardinality(Owed(T, S, c)) \in Nat
        /\ Cardinality(Owed(T \ {j}, S, c)') <= Cardinality(Owed(T, S, c))
    BY <2>1, Fewer
  <2> QED
    BY <1>3, <2>2
<1>4. PICK c, d, S, T, R, K :
        /\ c = cursor /\ d = page.next
        /\ S = ToSet(shown) /\ T = ToSet(shown) \cup ToSet(page.data)
        /\ R = steady /\ K = Kept(page)
  OBVIOUS
<1>5. R \in SUBSET Items /\ K \in SUBSET Items /\ steady' = R \ {j} /\ Kept(page)' = K \ {j}
  BY <1>4 DEF Kept, WalkTypes, PageRec
<1>6. /\ Owed(steady, ToSet(shown), cursor)' = Owed(R \ {j}, S, c)'
      /\ Owed(Kept(page), ToSet(shown) \cup ToSet(page.data), page.next)' = Owed(K \ {j}, T, d)'
  BY <1>4, <1>5 DEF Less
<1>7. cursor # NoCursor \/ phase = "end" => Cardinality(Owed(R \ {j}, S, c)') <= missed
  BY <1>1, <1>2, <1>3, <1>4, <1>5 DEF RowsReached
<1>8. missed + page.over \in Nat
  BY <1>2
<1>9. phase = "answered" /\ ~page.cut => Cardinality(Owed(K \ {j}, T, d)') <= missed + page.over
  BY <1>1, <1>3, <1>4, <1>5, <1>8 DEF RowsReached
<1> QED
  BY <1>6, <1>7, <1>9

LEMMA ChangeKeepsOffsets ==
  ASSUME WalkTypes, CursorsOK, OffsetsReached, NEW j \in Items, ChangeOf(j)
  PROVE  OffsetsReached'
<1> USE AgedParts
<1> SUFFICES ASSUME Offset
             PROVE  /\ PoolOK(Pool)'
                    /\ last.next = cursor
                    /\ cursor # NoCursor \/ phase = "end" =>
                         Cardinality((steady' \cap Gone(last)) \ ToSet(shown)) <= missed
  BY DEF OffsetsReached, Offset
<1>1. PICK S, T : S = Pool /\ T = {Aged(p, j) : p \in S}
  OBVIOUS
<1>2. T = Pool'
  <2>1. LastPage' = Aged(LastPage, j)
    BY DEF LastPage, Aged, WalkTypes, PageRec
  <2> QED
    BY <1>1, <2>1 DEF Pool
<1>3. PoolOK(T)'
  BY <1>1, PoolAged DEF OffsetsReached
<1>4. PoolOK(Pool)'
  BY <1>2, <1>3
<1>5. ASSUME cursor # NoCursor \/ phase = "end"
      PROVE  Cardinality((steady' \cap Gone(last)) \ ToSet(shown)) <= missed
  <2>1. Cardinality((steady \cap Gone(last)) \ ToSet(shown)) <= missed /\ missed \in Nat
    BY <1>5 DEF OffsetsReached, WalkTypes
  <2>2. /\ (steady \cap Gone(last)) \ ToSet(shown) \in SUBSET Items
        /\ (steady' \cap Gone(last)) \ ToSet(shown) \in SUBSET ((steady \cap Gone(last)) \ ToSet(shown))
    OBVIOUS
  <2>3. PICK B, A : /\ B = (steady \cap Gone(last)) \ ToSet(shown)
                    /\ A = (steady' \cap Gone(last)) \ ToSet(shown)
    OBVIOUS
  <2>4. Cardinality(A) \in Nat /\ Cardinality(B) \in Nat /\ Cardinality(A) <= Cardinality(B)
    BY <2>2, <2>3, Fewer
  <2> QED
    BY <2>1, <2>3, <2>4
<1> QED
  BY <1>4, <1>5 DEF OffsetsReached

LEMMA ChangeKeepsPages ==
  ASSUME PagesInv, NEW j \in Items, ChangeOf(j)
  PROVE  PagesInv'
<1> USE DEF PagesInv
<1>1. WalkTypes' /\ CursorsOK'
  BY ChangeKeepsTypes
<1>2. RowsReached' /\ OffsetsReached'
  BY ChangeKeepsRows, ChangeKeepsOffsets
<1>3. CopiesOK'
  <2> SUFFICES ASSUME NEW r \in copies' PROVE listing'.cached /\ CopyOK(r)'
    BY DEF CopiesOK
  <2>1. PICK p \in copies : r = Aged(p, j)
    BY AgedParts
  <2>2. p \in PageRec /\ CopyOK(p) /\ listing.cached
    BY DEF CopiesOK, WalkTypes
  <2> QED
    BY <2>1, <2>2, AgedParts, CopyAged
<1>4. Disjoint'
  <2> SUFFICES ASSUME ~raised', listing.join = "append"
               PROVE  /\ cursor # NoCursor => ToSet(shown) \subseteq Upto(cursor)'
                      /\ phase = "answered" =>
                           /\ ToSet(shown) \cap ToSet(page.data) = {}
                           /\ page.next # NoCursor =>
                                ToSet(shown) \cup ToSet(page.data) \subseteq Upto(page.next)'
    BY AgedParts DEF Disjoint, Upto, Before, Less
  <2>1. ~raised
    BY DEF ChangeOf
  <2>2. \A c \in {cursor, page.next} : c # NoCursor => Upto(c) \subseteq Upto(c)'
    BY UptoChanges
  <2>3. PICK c, d : c = cursor /\ d = page.next
    OBVIOUS
  <2>4. Upto(cursor)' = Upto(c)'
    BY <2>3, AgedParts DEF Upto, Before
  <2>5. d = page.next /\ d = page'.next
    BY <2>3, AgedParts DEF Less
  <2>6. cursor # NoCursor => Upto(cursor) \subseteq Upto(c)'
    BY <2>2, <2>3
  <2>7. page.next # NoCursor => Upto(page.next) \subseteq Upto(d)'
    BY <2>2, <2>3
  <2>8. Upto(page.next)' = Upto(d)'
    BY <2>5
  <2> QED
    BY <2>1, <2>4, <2>6, <2>7, <2>8 DEF NoRepeat, Disjoint
<1>5. NoRepeat'
  <2>1. page'.data = page.data /\ shown' = shown /\ listing' = listing /\ (raised => raised')
    BY AgedParts DEF Less, ChangeOf
  <2> QED
    BY <1>4, <2>1 DEF NoRepeat, IsInjective
<1> QED
  BY <1>1, <1>2, <1>3, <1>5

-----------------------------------------------------------------------------
(* The cache. *)

LEMMA WalkKeeps ==
  ASSUME UNCHANGED <<listing, rowVars>>
  PROVE  /\ Offset' = Offset /\ Cursors' = Cursors
         /\ \A c : Upto(c)' = Upto(c)
         /\ \A p : CopyOK(p)' = CopyOK(p)
         /\ \A S : PoolOK(S)' = PoolOK(S)
<1>1. UNCHANGED <<listing, rows, listed, key, taken, put>>
  BY DEF rowVars
<1>2. \A c : Upto(c)' = Upto(c) /\ Leading(c)' = Leading(c)
  BY <1>1 DEF Upto, Leading, Before
<1>3. \A p : CopyOK(p)' = CopyOK(p)
  BY <1>1, <1>2 DEF CopyOK, Covers, Offset
<1>4. \A p, o, A : Near(p, o, A)' = Near(p, o, A)
  BY <1>1, <1>2 DEF Near
<1>5. \A S : PoolOK(S)' = PoolOK(S)
  BY <1>1, <1>4 DEF PoolOK, PoolPage
<1> QED
  BY <1>1, <1>2, <1>3, <1>5 DEF Offset, Cursors

LEMMA CacheSafe ==
  ASSUME PagesInv, UNCHANGED <<listing, rowVars, phase, shown, cursor, page, walkVars>>,
         NEW c \in Cursors, NEW p, p = PageOf(c), copies' \subseteq copies \cup {p},
         p \in copies' => listing.cached \/ p \in copies
  PROVE  PagesInv'
<1> USE DEF PagesInv
<1>1. UNCHANGED <<listing, rows, listed, key, changes, taken, put, phase, shown, cursor, page,
                  last, steady, missed, cut, slid, raised>>
  BY DEF rowVars, walkVars
<1>2. p \in PageRec /\ p.since = listed /\ CopyOK(p)
  BY PageFacts DEF CursorsOK
<1>3. WalkTypes'
  BY <1>1, <1>2 DEF WalkTypes
<1>4. CursorsOK'
  BY <1>1 DEF CursorsOK, Offset
<1>5. CopiesOK'
  BY <1>1, <1>2, WalkKeeps DEF CopiesOK
<1>6. RowsReached'
  BY <1>1, WalkKeeps DEF RowsReached, Owed, Kept
<1>7. OffsetsReached'
  <2> SUFFICES ASSUME Offset PROVE PoolOK(Pool)'
    BY <1>1 DEF OffsetsReached, Offset
  <2>1. PICK S : S = Pool
    OBVIOUS
  <2>2. PoolOK(S \cup {p})
    BY <2>1, PoolFresh DEF OffsetsReached, CursorsOK
  <2>3. PICK T : T = Pool'
    OBVIOUS
  <2>4. \A r \in T : r \in S \cup {p}
    BY <1>1, <2>1, <2>3 DEF Pool, LastPage
  <2>5. \A r \in T : \E q \in S \cup {p} : Less(r, q)
    BY <2>2, <2>4 DEF PoolOK, PoolPage, Less
  <2>6. PoolOK(T)
    BY <2>2, <2>5, PoolLess DEF WalkTypes
  <2>7. PoolOK(T)'
    BY <1>1, <2>6, WalkKeeps DEF rowVars
  <2> QED
    BY <2>3, <2>7
<1>8. NoRepeat'
  BY <1>1, WalkKeeps DEF NoRepeat, Disjoint
<1> QED
  BY <1>3, <1>4, <1>5, <1>6, <1>7, <1>8

LEMMA CacheStepsSafe ==
  ASSUME PagesInv, OtherReads \/ Expire
  PROVE  PagesInv'
<1>1. CASE OtherReads
  <2>1. PICK c \in Cursors : Store(PageOf(c))
    BY <1>1 DEF OtherReads, Cursors, Offset
  <2>2. UNCHANGED <<listing, rowVars, phase, shown, cursor, page, walkVars>>
    BY <1>1 DEF OtherReads
  <2>3. PICK p : p = PageOf(c)
    OBVIOUS
  <2> QED
    BY <2>1, <2>2, <2>3, CacheSafe DEF Store
<1>2. CASE Expire
  <2>1. NoCursor \in Cursors /\ copies' \subseteq copies
    BY <1>2 DEF Expire, Cursors
  <2>2. UNCHANGED <<listing, rowVars, phase, shown, cursor, page, walkVars>>
    BY <1>2 DEF Expire
  <2>3. PICK p : p = PageOf(NoCursor)
    OBVIOUS
  <2> QED
    BY <2>1, <2>2, <2>3, CacheSafe
<1> QED
  BY <1>1, <1>2

-----------------------------------------------------------------------------
(* Reading a page. *)

\* The page that answers, a copy or a new one.
LEMMA AnswerFacts ==
  ASSUME PagesInv, ReadPage, NEW p, p = page'
  PROVE  /\ p \in PageRec /\ p.for = cursor /\ p.since \subseteq listed /\ CopyOK(p)
         /\ listing.join = "append" => p = PageOf(cursor)
         /\ copies' \subseteq PageRec
         /\ \A q \in copies' : q.since \subseteq listed /\ CopyOK(q) /\ listing.cached
         /\ Offset => PoolOK(copies' \cup {p, LastPage})
<1> USE DEF PagesInv
<1>0. cursor \in Cursors
  BY DEF CursorsOK, Cursors
<1>1. CASE p \in copies /\ p.for = cursor /\ UNCHANGED copies
  <2>1. listing.join # "append"
    BY <1>1, ListingFacts DEF CopiesOK, WalkTypes
  <2>2. ASSUME Offset PROVE PoolOK(copies' \cup {p, LastPage})
    <3>1. copies' \cup {p, LastPage} \subseteq Pool
      BY <1>1 DEF Pool
    <3> QED
      BY <2>2, <3>1 DEF OffsetsReached, PoolOK
  <2> QED
    BY <1>1, <2>1, <2>2 DEF CopiesOK, WalkTypes
<1>2. CASE p = PageOf(cursor) /\ (UNCHANGED copies \/ Store(p))
  <2>1. p \in PageRec /\ p.for = cursor /\ p.since = listed /\ CopyOK(p)
    BY <1>0, <1>2, PageFacts DEF CursorsOK
  <2>2. copies' \subseteq copies \cup {p} /\ (p \in copies' => listing.cached \/ p \in copies)
    BY <1>2 DEF Store
  <2>3. ASSUME Offset PROVE PoolOK(copies' \cup {p, LastPage})
    <3>1. copies' \cup {p, LastPage} \subseteq Pool \cup {p}
      BY <2>2 DEF Pool
    <3>2. PICK S : S = Pool
      OBVIOUS
    <3>3. PoolOK(S \cup {p})
      BY <1>0, <1>2, <2>3, <3>2, PoolFresh DEF OffsetsReached, CursorsOK
    <3> QED
      BY <3>1, <3>2, <3>3 DEF PoolOK
  <2> QED
    BY <1>2, <2>1, <2>2, <2>3 DEF CopiesOK, WalkTypes
<1> QED
  BY <1>1, <1>2 DEF ReadPage

\* What the list owes once the page is shown.
LEMMA AnswerRows ==
  ASSUME WalkTypes, CursorsOK, NEW p \in PageRec, p.for = cursor, p.since \subseteq listed,
         NEW S, NEW x, Covers(p, x), cursor # NoCursor => Cardinality(Owed(steady, S, cursor)) <= missed
  PROVE  Cardinality(Owed(Kept(p), S \cup ToSet(p.data), p.next)) <= missed + p.over
<1>0. missed \in Nat /\ p.over \in 0..1 /\ p.since \in SUBSET Items /\ steady \in SUBSET Items
  BY DEF WalkTypes, PageRec
<1>1. PICK A : A = Owed(Kept(p), S \cup ToSet(p.data), p.next)
  OBVIOUS
<1>2. PICK B : B = IF cursor = NoCursor THEN {} ELSE Owed(steady, S, cursor)
  OBVIOUS
<1>3. A \in SUBSET Items /\ B \in SUBSET Items
  BY <1>0, <1>1, <1>2 DEF Owed, Kept
<1>4. \A i \in A : i \in B \/ (p.over = 1 /\ i = x)
  <2> SUFFICES ASSUME NEW i \in A, i \notin B PROVE p.over = 1 /\ i = x
    OBVIOUS
  <2>1. /\ i \in p.since /\ i \notin S /\ i \notin ToSet(p.data)
        /\ p.next = NoCursor \/ i \in Upto(p.next)
        /\ cursor = NoCursor \/ i \in steady
    BY <1>1 DEF Owed, Kept
  <2>2. cursor = NoCursor \/ i \notin Upto(cursor)
    BY <1>2, <2>1 DEF Owed
  <2> QED
    BY <2>1, <2>2 DEF Covers
<1>5. IsFiniteSet(B) /\ Cardinality(B) \in Nat /\ Cardinality(B) <= missed
  BY <1>0, <1>2, <1>3, Fewer, FS_EmptySet
<1>6. PICK n : n = p.over
  OBVIOUS
<1>7. A \ {x} \in SUBSET B /\ (n = 0 => A \in SUBSET B)
  BY <1>0, <1>4, <1>6
<1>8. PICK m : m = Cardinality(B)
  OBVIOUS
<1>9. Cardinality(A) <= (m + n) - 0
  <2>1. /\ m \in Nat /\ m + n \in Nat /\ (m + n = m \/ m + n = m + 1) /\ 0 <= m /\ Cardinality(B) <= m - 0
        /\ (m + n = m => A \in SUBSET B)
    BY <1>0, <1>5, <1>6, <1>7, <1>8
  <2> QED
    BY <1>3, <1>7, <2>1, OneMore
<1>10. IsFiniteSet(A) /\ Cardinality(A) \in Nat
  BY <1>3, Fewer
<1> QED
  BY <1>0, <1>1, <1>5, <1>6, <1>8, <1>9, <1>10

LEMMA ReadPageSafe ==
  ASSUME PagesInv, ReadPage
  PROVE  PagesInv'
<1> USE DEF PagesInv
<1>1. /\ phase = "asked" /\ phase' = "answered"
      /\ UNCHANGED <<listing, rowVars, shown, cursor, walkVars>>
      /\ UNCHANGED <<rows, listed, key, changes, taken, put, last, steady, missed, cut, slid, raised>>
  BY DEF ReadPage, rowVars, walkVars
<1>2. PICK p : p = page'
  OBVIOUS
<1>3. /\ p \in PageRec /\ p.for = cursor /\ p.since \subseteq listed /\ CopyOK(p)
      /\ listing.join = "append" => p = PageOf(cursor)
      /\ copies' \subseteq PageRec
      /\ \A q \in copies' : q.since \subseteq listed /\ CopyOK(q) /\ listing.cached
      /\ Offset => PoolOK(copies' \cup {p, LastPage})
  BY <1>2, AnswerFacts
<1>4. WalkTypes'
  BY <1>1, <1>2, <1>3 DEF WalkTypes
<1>5. CursorsOK'
  BY <1>1, <1>2, <1>3 DEF CursorsOK, CopyOK, Offset
<1>6. CopiesOK'
  BY <1>1, <1>3, WalkKeeps DEF CopiesOK
<1>7. RowsReached'
  <2> SUFFICES ASSUME ~Offset, ~cut, ~slid
               PROVE  /\ cursor # NoCursor => Cardinality(Owed(steady, ToSet(shown), cursor)) <= missed
                      /\ ~p.cut => Cardinality(Owed(Kept(p), ToSet(shown) \cup ToSet(p.data), p.next))
                                     <= missed + p.over
    BY <1>1, <1>2, WalkKeeps DEF RowsReached, Owed, Kept
  <2>1. cursor # NoCursor => Cardinality(Owed(steady, ToSet(shown), cursor)) <= missed
    BY DEF RowsReached
  <2>2. ASSUME ~p.cut
        PROVE  Cardinality(Owed(Kept(p), ToSet(shown) \cup ToSet(p.data), p.next)) <= missed + p.over
    <3>1. PICK x : Covers(p, x)
      BY <1>3, <2>2 DEF CopyOK
    <3> QED
      BY <1>3, <2>1, <3>1, AnswerRows
  <2> QED
    BY <2>1, <2>2
<1>8. OffsetsReached'
  <2> SUFFICES ASSUME Offset PROVE PoolOK(Pool)'
    BY <1>1 DEF OffsetsReached, Offset
  <2>1. PICK T : T = copies' \cup {p, LastPage}
    OBVIOUS
  <2>2. T = Pool'
    BY <1>1, <1>2, <2>1 DEF Pool, LastPage
  <2>3. PoolOK(T)'
    BY <1>1, <1>3, <2>1, WalkKeeps
  <2> QED
    BY <2>2, <2>3
<1>9. NoRepeat'
  <2>1. /\ IsInjective(p.data) /\ page'.data = p.data /\ page'.next = p.next
        /\ ~raised \/ listing.join = "dedupe" => IsInjective(shown)
    BY <1>2, <1>3 DEF NoRepeat, CopyOK
  <2>2. Disjoint'
    <3> SUFFICES ASSUME ~raised, listing.join = "append"
                 PROVE  /\ cursor # NoCursor => ToSet(shown) \subseteq Upto(cursor)
                        /\ ToSet(shown) \cap ToSet(p.data) = {}
                        /\ p.next # NoCursor => ToSet(shown) \cup ToSet(p.data) \subseteq Upto(p.next)
      BY <1>1, <1>2, WalkKeeps DEF Disjoint
    <3>0. /\ listing.cursor = "row" /\ key \in [Items -> 0..MaxKey]
          /\ cursor \in Items \cup {NoCursor} /\ cursor \in Cursors
      BY ListingFacts DEF WalkTypes, CursorsOK, Cursors, Offset
    <3>1. cursor # NoCursor => ToSet(shown) \subseteq Upto(cursor)
      BY DEF NoRepeat, Disjoint
    <3>2. cursor = NoCursor => ToSet(shown) = {}
      BY <1>1, NothingYet DEF CursorsOK
    <3>a. /\ ToSet(p.data) \subseteq Items
          /\ Held(cursor) => \A i \in ToSet(p.data) : Before(cursor, i)
          /\ p.next # NoCursor =>
               p.next \in ToSet(p.data) /\ \A i \in ToSet(p.data) : i = p.next \/ Before(i, p.next)
      BY <1>3, <3>0, PageFacts DEF CursorsOK, WalkTypes
    <3>3. cursor # NoCursor => \A i \in ToSet(p.data) : Before(cursor, i)
      BY <3>a, <3>0 DEF Held
    <3>4. ToSet(shown) \cap ToSet(p.data) = {}
      BY <3>0, <3>a, <3>1, <3>2, <3>3, BeforeStrict DEF Upto
    <3>5. ASSUME p.next # NoCursor
          PROVE  ToSet(shown) \cup ToSet(p.data) \subseteq Upto(p.next)
      <4>1. p.next \in ToSet(p.data) /\ ToSet(p.data) \subseteq Upto(p.next)
        BY <3>a, <3>5 DEF Upto
      <4>2. cursor # NoCursor => Before(cursor, p.next)
        BY <3>3, <4>1
      <4>3. cursor # NoCursor => Upto(cursor) \subseteq Upto(p.next)
        BY <3>0, <3>a, <4>1, <4>2, BeforeStrict DEF Upto
      <4> QED
        BY <3>1, <3>2, <4>1, <4>3
    <3> QED
      BY <3>1, <3>4, <3>5
  <2> QED
    BY <1>1, <2>1, <2>2 DEF NoRepeat, IsInjective
<1> QED
  BY <1>4, <1>5, <1>6, <1>7, <1>8, <1>9

-----------------------------------------------------------------------------
(* Showing a page. *)

\* What the client makes of a page: the rows of both, none of them twice.
LEMMA JoinFacts ==
  ASSUME PagesInv, NEW d, d = page.data
  PROVE  /\ Join(d) \in Seq(Items) /\ ToSet(Join(d)) = ToSet(shown) \cup ToSet(d)
         /\ (~raised /\ phase = "answered") \/ listing.join = "dedupe" => IsInjective(Join(d))
<1>1. /\ shown \in Seq(Items) /\ d \in Seq(Items) /\ IsInjective(d)
      /\ listing.join \in {"append", "dedupe"}
      /\ ~raised \/ listing.join = "dedupe" => IsInjective(shown)
  BY ListingFacts DEF PagesInv, WalkTypes, PageRec, NoRepeat
<1>2. CASE listing.join = "append"
  <2>1. ~raised /\ phase = "answered" => ToSet(shown) \cap ToSet(d) = {}
    BY <1>2 DEF PagesInv, NoRepeat, Disjoint
  <2> QED
    BY <1>1, <1>2, <2>1, ConcatFacts DEF Join
<1>3. CASE listing.join = "dedupe"
  <2> DEFINE t == Only(d, Items \ ToSet(shown))
  <2>1. t \in Seq(Items) /\ ToSet(t) = ToSet(d) \cap (Items \ ToSet(shown)) /\ IsInjective(t)
    BY <1>1, OnlyFacts
  <2>2. ToSet(d) \subseteq Items /\ ToSet(shown) \subseteq Items
    BY <1>1 DEF ToSet
  <2>3. Join(d) = shown \o t
    BY <1>3 DEF Join
  <2> HIDE DEF t
  <2>4. /\ shown \o t \in Seq(Items)
        /\ ToSet(shown \o t) = ToSet(shown) \cup ToSet(t)
        /\ IsInjective(shown \o t)
    BY <1>1, <1>3, <2>1, ConcatFacts
  <2> QED
    BY <2>1, <2>2, <2>3, <2>4
<1> QED
  BY <1>1, <1>2, <1>3

\* At an offset: what this page's rows owe was owed by the last, or was lost
\* between the two.
LEMMA ReceiveOffset ==
  ASSUME WalkTypes, CursorsOK, OffsetsReached, Offset, phase = "answered"
  PROVE  Cardinality((Kept(page) \cap Gone(page)) \ (ToSet(shown) \cup ToSet(page.data)))
           <= missed + Lost(last, page)
<1>0. /\ page \in PageRec /\ last \in PageRec /\ steady \in SUBSET Items /\ page.since \in SUBSET Items
      /\ missed \in Nat /\ Lost(last, page) \in Nat
  BY LostFacts DEF WalkTypes, PageRec
<1>1. PICK A : A = (Kept(page) \cap Gone(page)) \ (ToSet(shown) \cup ToSet(page.data))
  OBVIOUS
<1>2. CASE cursor = NoCursor
  <2>1. page.ahead = {}
    BY <1>2 DEF CursorsOK, OffsetsReached, PoolOK, Pool, PoolPage
  <2>2. A = {}
    BY <1>1, <2>1 DEF Gone
  <2> QED
    <3>1. Cardinality(A) = 0
      BY <2>2, FS_EmptySet
    <3> QED
      BY <1>0, <1>1, <3>1
<1>3. CASE cursor # NoCursor
  <2>1. /\ LastPage.next = last.next /\ LastPage.since = steady /\ Gone(LastPage) = Gone(last)
        /\ Lost(LastPage, page) = Lost(last, page)
    BY <1>0 DEF LastPage, Gone, Lost, PageRec
  <2>2. Joined(LastPage, page) /\ page.for = cursor /\ last.next = cursor /\ cursor \in Lines
    BY <1>3 DEF OffsetsReached, PoolOK, Pool, CursorsOK
  <2>3. PICK B, C : /\ B = (steady \cap Gone(last)) \ ToSet(shown)
                    /\ C = (page.ahead \cap page.since \cap steady) \ Gone(last)
    OBVIOUS
  <2>4. B \in SUBSET Items /\ C \in SUBSET Items /\ A \in SUBSET (B \cup C)
    BY <1>0, <1>1, <1>3, <2>3 DEF Kept, Gone
  <2>5. Cardinality(C) <= Lost(last, page)
    BY <2>1, <2>2, <2>3 DEF Joined
  <2>6. Cardinality(B) <= missed
    BY <1>3, <2>3 DEF OffsetsReached
  <2>7. /\ IsFiniteSet(B) /\ IsFiniteSet(C) /\ Cardinality(B) \in Nat /\ Cardinality(C) \in Nat
        /\ Cardinality(A) \in Nat /\ Cardinality(B \cup C) \in Nat
        /\ Cardinality(A) <= Cardinality(B \cup C)
    <3>1. B \cup C \in SUBSET Items
      BY <2>4
    <3> QED
      BY <2>4, <3>1, Fewer
  <2>8. Cardinality(B \cup C) = Cardinality(B) + Cardinality(C) - Cardinality(B \cap C)
    BY <2>7, FS_Union
  <2>9. Cardinality(B \cap C) \in Nat
    <3>1. B \cap C \in SUBSET Items
      BY <2>4
    <3> QED
      BY <3>1, Fewer
  <2> QED
    BY <1>0, <1>1, <2>5, <2>6, <2>7, <2>8, <2>9
<1> QED
  BY <1>2, <1>3

LEMMA ReceiveSafe ==
  ASSUME PagesInv, Receive
  PROVE  PagesInv'
<1> USE DEF PagesInv
<1> DEFINE d == page.data
           next == page.next
<1>1. /\ phase = "answered" /\ phase' = (IF next = NoCursor THEN "end" ELSE "idle")
      /\ shown' = Join(d) /\ cursor' = next /\ page' = NoPage
      /\ last' = page /\ steady' = Kept(page)
      /\ missed' = missed + page.over + Lost(last, page) /\ cut' = (cut \/ page.cut)
      /\ UNCHANGED <<listing, rowVars, copies, slid, raised>>
      /\ UNCHANGED <<rows, listed, key, changes, taken, put>>
  BY DEF Receive, Kept, rowVars
<1>2. /\ shown' \in Seq(Items) /\ ToSet(shown') = ToSet(shown) \cup ToSet(d)
      /\ ~raised \/ listing.join = "dedupe" => IsInjective(shown')
  BY <1>1, JoinFacts
<1>3. /\ page \in PageRec /\ last \in PageRec /\ next \in Nat /\ page.over \in 0..1
      /\ page.cut \in BOOLEAN /\ cut \in BOOLEAN /\ missed \in Nat
      /\ page.since \subseteq listed /\ listed \in SUBSET Items
  BY DEF WalkTypes, PageRec
<1>a. Lost(last, page) \in Nat
  BY <1>3, LostFacts
<1>4. WalkTypes'
  <2>1. missed' \in Nat
    BY <1>1, <1>3, <1>a
  <2>2. cut' \in BOOLEAN /\ phase' \in {"idle", "asked", "answered", "failed", "end"}
    BY <1>1, <1>3
  <2>3. steady' \subseteq listed
    BY <1>1, <1>3 DEF Kept
  <2>4. page' \in PageRec /\ page'.since = {}
    BY <1>1, NothingYet
  <2> QED
    BY <1>1, <1>2, <1>3, <2>1, <2>2, <2>3, <2>4 DEF WalkTypes
<1>5. CursorsOK'
  BY <1>1, NothingYet DEF CursorsOK, Offset
<1>6. CopiesOK'
  BY <1>1, WalkKeeps DEF CopiesOK
<1>7. RowsReached'
  <2> SUFFICES ASSUME ~Offset, ~cut, ~page.cut, ~slid
               PROVE  Cardinality(Owed(Kept(page), ToSet(shown) \cup ToSet(d), next)) <= missed'
    BY <1>1, <1>2, WalkKeeps DEF RowsReached, Owed
  <2>1. Cardinality(Owed(Kept(page), ToSet(shown) \cup ToSet(d), next)) <= missed + page.over
    BY <1>1 DEF RowsReached
  <2>2. PICK A : A = Owed(Kept(page), ToSet(shown) \cup ToSet(d), next)
    OBVIOUS
  <2>3. A \in SUBSET Items
    BY <1>3, <2>2 DEF Owed, Kept, WalkTypes
  <2>4. Cardinality(A) \in Nat
    BY <2>3, Fewer
  <2> QED
    BY <1>1, <1>3, <1>a, <2>1, <2>2, <2>4
<1>8. OffsetsReached'
  <2> SUFFICES ASSUME Offset
               PROVE  /\ PoolOK(Pool)'
                      /\ Cardinality((Kept(page) \cap Gone(page)) \ (ToSet(shown) \cup ToSet(d))) <= missed'
    BY <1>1, <1>2 DEF OffsetsReached, Offset
  <2>1. PICK S : S = Pool
    OBVIOUS
  <2>2. PICK T : T = Pool'
    OBVIOUS
  <2>3. T = copies \cup {NoPage, [page EXCEPT !.since = Kept(page)]}
    BY <1>1, <2>2 DEF Pool, LastPage
  <2>4. PoolOK(S)
    BY <2>1 DEF OffsetsReached
  <2>5. Less([page EXCEPT !.since = Kept(page)], page)
    BY <1>3 DEF Less, Kept, PageRec
  <2>6. \A r \in copies : Less(r, r)
    BY DEF Less, WalkTypes
  <2>7. page \in S /\ copies \subseteq S
    BY <2>1 DEF Pool
  <2>8. \A r \in T : r = NoPage \/ \E q \in S : Less(r, q)
    BY <2>3, <2>5, <2>6, <2>7
  <2>9. PoolOK(T)
    BY <2>4, <2>8, PoolLess DEF WalkTypes
  <2>10. PoolOK(T)'
    BY <1>1, <2>9, WalkKeeps
  <2>11. Cardinality((Kept(page) \cap Gone(page)) \ (ToSet(shown) \cup ToSet(d))) <= missed + Lost(last, page)
    BY <1>1, ReceiveOffset
  <2>12. page.over = 0
    BY <2>4, <2>7 DEF PoolOK, PoolPage
  <2> QED
    BY <1>1, <1>3, <1>a, <2>2, <2>10, <2>11, <2>12
<1>9. NoRepeat'
  <2>1. IsInjective(page.data)'
    BY <1>1, NothingYet DEF IsInjective
  <2>2. ~raised' \/ listing'.join = "dedupe" => IsInjective(shown)'
    BY <1>1, <1>2 DEF IsInjective
  <2>3. Disjoint'
    <3> SUFFICES ASSUME ~raised, listing.join = "append", next # NoCursor
                 PROVE  ToSet(shown) \cup ToSet(d) \subseteq Upto(next)
      BY <1>1, <1>2, WalkKeeps DEF Disjoint
    <3> QED
      BY <1>1 DEF NoRepeat, Disjoint
  <2> QED
    BY <2>1, <2>2, <2>3 DEF NoRepeat
<1> QED
  BY <1>4, <1>5, <1>6, <1>7, <1>8, <1>9

LEMMA OtherWalkStepsSafe ==
  ASSUME PagesInv, FetchNextPage \/ LoadFails \/ Reopen
  PROVE  PagesInv'
<1> USE DEF PagesInv
<1>0. UNCHANGED <<listing, rowVars, copies>> /\ UNCHANGED <<rows, listed, key, changes, taken, put>>
  BY DEF FetchNextPage, LoadFails, Reopen, rowVars
<1>a. CopiesOK'
  BY <1>0, WalkKeeps DEF CopiesOK
<1>1. CASE FetchNextPage
  <2>1. /\ phase \in {"idle", "failed"} /\ phase' = "asked"
        /\ UNCHANGED <<shown, cursor, page, last, steady, missed, cut, slid, raised>>
    BY <1>1 DEF FetchNextPage, walkVars
  <2>2. WalkTypes' /\ CursorsOK'
    BY <1>0, <2>1 DEF WalkTypes, CursorsOK, Offset
  <2>3. NoRepeat'
    BY <1>0, <2>1, WalkKeeps DEF NoRepeat, Disjoint, IsInjective
  <2>4. RowsReached'
    BY <1>0, <2>1, WalkKeeps DEF RowsReached, Owed
  <2>5. OffsetsReached'
    <3>1. PICK S : S = Pool
      OBVIOUS
    <3>2. S = Pool'
      BY <1>0, <2>1, <3>1 DEF Pool, LastPage
    <3>3. Offset => PoolOK(S)'
      BY <1>0, <3>1, WalkKeeps DEF OffsetsReached
    <3> QED
      BY <1>0, <2>1, <3>2, <3>3, WalkKeeps DEF OffsetsReached
  <2> QED
    BY <1>a, <2>2, <2>3, <2>4, <2>5
<1>2. CASE LoadFails
  <2>1. /\ phase \in {"asked", "answered"} /\ phase' = "failed" /\ page' = NoPage
        /\ UNCHANGED <<shown, cursor, last, steady, missed, cut, slid, raised>>
    BY <1>2 DEF LoadFails, walkVars
  <2>2. WalkTypes' /\ CursorsOK'
    BY <1>0, <2>1, NothingYet DEF WalkTypes, CursorsOK, Offset
  <2>3. NoRepeat'
    BY <1>0, <2>1, NothingYet, WalkKeeps DEF NoRepeat, Disjoint, IsInjective
  <2>4. RowsReached'
    BY <1>0, <2>1, WalkKeeps DEF RowsReached, Owed
  <2>5. OffsetsReached'
    <3>1. PICK S, T : S = Pool /\ T = Pool'
      OBVIOUS
    <3>2. \A r \in T : r = NoPage \/ r \in S
      BY <1>0, <2>1, <3>1 DEF Pool, LastPage
    <3>3. ASSUME Offset PROVE PoolOK(T)'
      <4>1. PoolOK(S) /\ \A r \in S : Less(r, r)
        BY <3>1, <3>3 DEF OffsetsReached, PoolOK, PoolPage, Less
      <4>2. \A r \in T : r = NoPage \/ \E q \in S : Less(r, q)
        BY <3>2, <4>1
      <4>3. PoolOK(T)
        BY <4>1, <4>2, PoolLess DEF WalkTypes
      <4> QED
        BY <1>0, <4>3, WalkKeeps
    <3> QED
      BY <1>0, <2>1, <3>1, <3>3, WalkKeeps DEF OffsetsReached
  <2> QED
    BY <1>a, <2>2, <2>3, <2>4, <2>5
<1>3. CASE Reopen
  <2>1. /\ phase' = "idle" /\ shown' = <<>> /\ cursor' = NoCursor
        /\ last' = NoPage /\ steady' = {} /\ missed' = 0 /\ cut' = FALSE /\ slid' = FALSE /\ raised' = FALSE
        /\ phase = "end" /\ UNCHANGED page
    BY <1>3 DEF Reopen
  <2>2. WalkTypes' /\ CursorsOK'
    BY <1>0, <2>1, NothingYet DEF WalkTypes, CursorsOK, NoCursor, Offset
  <2>3. NoRepeat'
    BY <1>0, <2>1, NothingYet DEF NoRepeat, Disjoint, IsInjective
  <2>4. RowsReached'
    BY <2>1 DEF RowsReached
  <2>5. OffsetsReached'
    <3>1. PICK S, T : S = Pool /\ T = Pool'
      OBVIOUS
    <3>2. LastPage' = NoPage
      <4>1. LastPage' = [NoPage EXCEPT !.since = {}]
        BY <2>1 DEF LastPage
      <4>2. [NoPage EXCEPT !.since = {}] = NoPage
        BY NothingYet DEF PageRec
      <4> QED
        BY <4>1, <4>2
    <3>3. \A r \in T : r = NoPage \/ r \in S
      BY <1>0, <2>1, <3>1, <3>2 DEF Pool
    <3>4. ASSUME Offset PROVE PoolOK(T)'
      <4>1. PoolOK(S) /\ \A r \in S : Less(r, r)
        BY <3>1, <3>4 DEF OffsetsReached, PoolOK, PoolPage, Less
      <4>2. \A r \in T : r = NoPage \/ \E q \in S : Less(r, q)
        BY <3>3, <4>1
      <4>3. PoolOK(T)
        BY <4>1, <4>2, PoolLess DEF WalkTypes
      <4> QED
        BY <1>0, <4>3, WalkKeeps
    <3> QED
      BY <1>0, <2>1, <3>1, <3>4, WalkKeeps, NothingYet DEF OffsetsReached
  <2> QED
    BY <1>a, <2>2, <2>3, <2>4, <2>5
<1> QED
  BY <1>1, <1>2, <1>3

-----------------------------------------------------------------------------
(* The results. *)

LEMMA PagesInvInit == PagesInit => PagesInv
<1> SUFFICES ASSUME PagesInit PROVE PagesInv
  OBVIOUS
<1> USE ItemsFacts, NothingYet DEF PagesInit
<1>1. WalkTypes
  <2>1. PICK k \in 0..MaxKey : key = [i \in Items |-> k] /\ (listing.order # "ranked" => k = 0)
    OBVIOUS
  <2>2. key \in [Items -> 0..MaxKey] /\ 0 \in 0..MaxChanges
    BY <2>1
  <2> QED
    BY <2>2 DEF WalkTypes, NoCursor
<1>2. CursorsOK
  BY DEF CursorsOK
<1>3. CopiesOK /\ RowsReached
  BY DEF CopiesOK, RowsReached
<1>4. NoRepeat
  BY DEF NoRepeat, Disjoint
<1>5. OffsetsReached
  <2>1. LastPage = NoPage
    <3>1. LastPage = [NoPage EXCEPT !.since = {}]
      BY DEF LastPage
    <3>2. [NoPage EXCEPT !.since = {}] = NoPage
      BY DEF PageRec
    <3> QED
      BY <3>1, <3>2
  <2>2. \A r \in Pool : r = NoPage
    BY <2>1 DEF Pool
  <2>3. PICK T : T = Pool
    OBVIOUS
  <2>4. PoolOK({})
    BY DEF PoolOK
  <2>5. PoolOK(T)
    BY <1>1, <2>2, <2>3, <2>4, PoolLess DEF WalkTypes
  <2> QED
    BY <2>3, <2>5 DEF OffsetsReached
<1> QED
  BY <1>1, <1>2, <1>3, <1>4, <1>5 DEF PagesInv

LEMMA PagesInvStep == PagesInv /\ [PagesNext]_pagesVars => PagesInv'
<1> SUFFICES ASSUME PagesInv, [PagesNext]_pagesVars PROVE PagesInv'
  OBVIOUS
<1>1. CASE UNCHANGED pagesVars
  <2>1. /\ UNCHANGED <<listing, rowVars, phase, shown, cursor, page, walkVars>> /\ copies' = copies
        /\ NoCursor \in Cursors
    BY <1>1 DEF pagesVars, Cursors
  <2>2. PICK p : p = PageOf(NoCursor)
    OBVIOUS
  <2> QED
    BY <2>1, <2>2, CacheSafe
<1>2. ASSUME NEW i \in Items, Hide(i) \/ Unhide(i) \/ Drop(i) \/ Insert(i) \/ Bump(i) \/ Rank(i)
      PROVE  PagesInv'
  BY <1>2, ChangesChange, ChangeKeepsPages DEF PagesInv
<1> QED
  BY <1>1, <1>2, CacheStepsSafe, ReadPageSafe, ReceiveSafe, OtherWalkStepsSafe DEF PagesNext

LEMMA PagesInvariant == PagesSpec => []PagesInv
BY PagesInvInit, PagesInvStep, PTL DEF PagesSpec

\* A list scrolled to its end has shown every row that stayed listed and in its
\* place since the first of its pages was read, though the rows came, went and
\* moved between its pages and some of these came from the cache, older than the
\* pages before them; but for as many as were counted when they may have been
\* stepped over: findAll, search, explore, feed and the others, for any number
\* of rows, any page size and any cache.
THEOREM WalkReachesAll == PagesSpec => []EndReachesAll
BY PagesInvariant, PagesInvImplies, PTL

\* No list shows a row twice: LoadMorePosts leaves out what it has, and where
\* pages are appended the rows of a page lie after the cursor, unless the
\* cursor's row has moved up.
THEOREM WalkNeverRepeats == PagesSpec => []NoRowTwice
BY PagesInvariant, PagesInvImplies, PTL

-----------------------------------------------------------------------------
(* The section, and what its changes keep. *)

Views == [tops : Seq(Tops), gone : SUBSET Tops, replies : [Tops -> Seq(Comments)], count : [Tops -> Nat]]

\* Every comment stands once at most, and under its parent.
ViewOK(v) ==
  /\ v \in Views
  /\ IsInjective(v.tops)
  /\ v.gone \subseteq ToSet(v.tops)
  /\ \A t \in Tops : IsInjective(v.replies[t]) /\ ToSet(v.replies[t]) \subseteq Of(t)

LEMMA CommentFacts ==
  /\ IsFiniteSet(Comments) /\ Comments \in SUBSET Nat /\ 0 \notin Comments
  /\ Tops \in SUBSET Comments
  /\ \A t : Of(t) \in SUBSET Comments
  /\ \A c \in Comments : ParentOf[c] \in Comments \cup {0}
  /\ \A c \in Comments : ParentOf[c] # 0 => ParentOf[c] \in Tops /\ c \in Of(ParentOf[c]) /\ c \notin Tops
  /\ \A c \in Comments : ParentOf[c] = 0 <=> c \in Tops
  /\ RepliesPage \in Nat
BY ThreadAssumption DEF Tops, Of

LEMMA EmptyViewOK == ViewOK(EmptyView) /\ \A c \in Comments : ~Shows(EmptyView, c)
<1>1. <<>> \in Seq(Tops) /\ <<>> \in Seq(Comments) /\ IsInjective(<<>>) /\ ToSet(<<>>) = {}
  BY DEF IsInjective, ToSet
<1>2. EmptyView \in Views /\ EmptyView.tops = <<>> /\ EmptyView.gone = {}
      /\ \A t \in Tops : EmptyView.replies[t] = <<>>
  BY <1>1 DEF EmptyView, Views
<1> QED
  BY <1>1, <1>2 DEF ViewOK, Shows

\* A single element before or after a sequence.
LEMMA Single ==
  ASSUME NEW S, NEW c \in S
  PROVE  <<c>> \in Seq(S) /\ ToSet(<<c>>) = {c} /\ IsInjective(<<c>>)
BY DEF ToSet, IsInjective

LEMMA PrependFacts ==
  ASSUME NEW S, NEW s \in Seq(S), NEW c \in S
  PROVE  /\ <<c>> \o s \in Seq(S) /\ ToSet(<<c>> \o s) = ToSet(s) \cup {c}
         /\ IsInjective(s) /\ c \notin ToSet(s) => IsInjective(<<c>> \o s)
<1>1. PICK one \in Seq(S) : one = <<c>> /\ ToSet(one) = {c} /\ IsInjective(one)
  BY Single
<1>2. /\ one \o s \in Seq(S) /\ ToSet(one \o s) = ToSet(one) \cup ToSet(s)
      /\ IsInjective(s) /\ c \notin ToSet(s) => IsInjective(one \o s)
  BY <1>1, ConcatFacts
<1> QED
  BY <1>1, <1>2

LEMMA AppendFacts ==
  ASSUME NEW s \in Seq(Comments), NEW c \in Comments, NEW t, t = Append(s, c)
  PROVE  /\ t \in Seq(Comments) /\ ToSet(t) = ToSet(s) \cup {c}
         /\ IsInjective(s) /\ c \notin ToSet(s) => IsInjective(t)
<1>1. PICK one \in Seq(Comments) : one = <<c>> /\ ToSet(one) = {c} /\ IsInjective(one)
  BY Single
<1>2. /\ s \o one \in Seq(Comments) /\ ToSet(s \o one) = ToSet(s) \cup ToSet(one)
      /\ IsInjective(s) /\ c \notin ToSet(s) => IsInjective(s \o one)
  BY <1>1, ConcatFacts
<1>3. t = s \o one
  BY <1>1, AppendIsConcat
<1> QED
  BY <1>1, <1>2, <1>3

LEMMA UpsertTopOK ==
  ASSUME NEW v, ViewOK(v), NEW c \in Tops
  PROVE  ViewOK(UpsertTopLevelComment(v, c))
<1> DEFINE w == [v EXCEPT !.tops = <<c>> \o @, !.replies[c] = <<>>, !.count[c] = 0]
<1>1. SUFFICES ASSUME c \notin ToSet(v.tops) PROVE ViewOK(w)
  BY DEF UpsertTopLevelComment
<1>2. /\ v.tops \in Seq(Tops) /\ v.replies \in [Tops -> Seq(Comments)] /\ v.count \in [Tops -> Nat]
      /\ IsInjective(v.tops) /\ v.gone \subseteq ToSet(v.tops)
  BY DEF ViewOK, Views
<1>3. <<>> \in Seq(Comments) /\ IsInjective(<<>>) /\ ToSet(<<>>) = {}
  BY DEF IsInjective, ToSet
<1>4. /\ w.tops = <<c>> \o v.tops /\ w.gone = v.gone
      /\ w.replies = [v.replies EXCEPT ![c] = <<>>]
  BY DEF ViewOK, Views
<1>5. <<c>> \o v.tops \in Seq(Tops) /\ IsInjective(<<c>> \o v.tops)
      /\ ToSet(<<c>> \o v.tops) = ToSet(v.tops) \cup {c}
  BY <1>1, <1>2, PrependFacts
<1>6. w \in Views
  <2>1. [v.count EXCEPT ![c] = 0] \in [Tops -> Nat]
    BY <1>2
  <2>2. [v.replies EXCEPT ![c] = <<>>] \in [Tops -> Seq(Comments)]
    BY <1>2, <1>3
  <2> QED
    BY <1>5, <2>1, <2>2 DEF ViewOK, Views
<1> HIDE DEF w
<1>7. \A t \in Tops : IsInjective(w.replies[t]) /\ ToSet(w.replies[t]) \subseteq Of(t)
  BY <1>2, <1>3, <1>4 DEF ViewOK
<1> QED
  BY <1>2, <1>4, <1>5, <1>6, <1>7 DEF ViewOK

LEMMA UpsertReplyOK ==
  ASSUME NEW v, ViewOK(v), NEW c \in Comments, ParentOf[c] # 0
  PROVE  ViewOK(UpsertReply(v, c))
<1> DEFINE t == ParentOf[c]
           w == [v EXCEPT !.replies[t] = Append(@, c), !.count[t] = @ + 1]
<1>1. SUFFICES ASSUME c \notin ToSet(v.replies[t]) PROVE ViewOK(w)
  BY DEF UpsertReply
<1>2. /\ v.replies \in [Tops -> Seq(Comments)] /\ v.count \in [Tops -> Nat] /\ v \in Views
      /\ \A u \in Tops : IsInjective(v.replies[u]) /\ ToSet(v.replies[u]) \subseteq Of(u)
  BY DEF ViewOK, Views
<1>3. t \in Tops /\ c \in Of(t) /\ v.replies[t] \in Seq(Comments)
  BY <1>2, CommentFacts
<1> HIDE DEF t
<1>4. /\ w.tops = v.tops /\ w.gone = v.gone
      /\ w.replies = [v.replies EXCEPT ![t] = Append(v.replies[t], c)]
  BY <1>2, <1>3 DEF Views
<1>9. c \notin ToSet(v.replies[t])
  BY <1>1 DEF t
<1>5. /\ Append(v.replies[t], c) \in Seq(Comments)
      /\ ToSet(Append(v.replies[t], c)) = ToSet(v.replies[t]) \cup {c}
      /\ IsInjective(Append(v.replies[t], c))
  <2>1. PICK r \in Seq(Comments) : r = v.replies[t]
    BY <1>3
  <2>2. IsInjective(r) /\ c \notin ToSet(r)
    BY <1>2, <1>3, <1>9, <2>1
  <2>3. PICK s : s = Append(r, c)
    OBVIOUS
  <2>4. s \in Seq(Comments) /\ ToSet(s) = ToSet(r) \cup {c} /\ IsInjective(s)
    BY <2>2, <2>3, AppendFacts
  <2> QED
    BY <2>1, <2>3, <2>4
<1>6. v.count[t] + 1 \in Nat
  BY <1>2, <1>3
<1>7. w \in Views
  <2>1. [v.count EXCEPT ![t] = v.count[t] + 1] \in [Tops -> Nat]
    BY <1>2, <1>6
  <2>2. [v.replies EXCEPT ![t] = Append(v.replies[t], c)] \in [Tops -> Seq(Comments)]
    BY <1>2, <1>5
  <2> QED
    BY <1>2, <2>1, <2>2 DEF Views
<1> HIDE DEF w
<1>8. \A u \in Tops : IsInjective(w.replies[u]) /\ ToSet(w.replies[u]) \subseteq Of(u)
  BY <1>2, <1>3, <1>4, <1>5
<1> QED
  BY <1>4, <1>7, <1>8 DEF ViewOK

\* A new comment keeps the section in order.
LEMMA UpsertOK ==
  ASSUME NEW v, ViewOK(v), NEW c \in Comments
  PROVE  ViewOK(Upsert(v, c))
BY UpsertTopOK, UpsertReplyOK, CommentFacts DEF Upsert

\* The section shows a deleted comment no more, and no other it did not show.
LEMMA DeletionOK ==
  ASSUME NEW v, ViewOK(v), NEW c \in Comments
  PROVE  /\ ViewOK(ApplyCommentDeletion(v, c))
         /\ ~Shows(ApplyCommentDeletion(v, c), c)
         /\ \A d \in Comments : Shows(ApplyCommentDeletion(v, c), d) => Shows(v, d)
<1>0. /\ v \in Views /\ v.tops \in Seq(Tops) /\ v.replies \in [Tops -> Seq(Comments)]
      /\ IsInjective(v.tops) /\ v.gone \subseteq ToSet(v.tops)
      /\ \A u \in Tops : IsInjective(v.replies[u]) /\ ToSet(v.replies[u]) \subseteq Of(u)
  BY DEF ViewOK, Views
<1>1. CASE ParentOf[c] # 0
  <2> DEFINE t == ParentOf[c]
             w == [v EXCEPT !.replies[t] = Without(@, c)]
  <2>1. ApplyCommentDeletion(v, c) = w
    BY <1>1 DEF ApplyCommentDeletion
  <2>2. t \in Tops /\ v.replies[t] \in Seq(Comments)
    BY <1>0, <1>1, CommentFacts
  <2> HIDE DEF t
  <2>3. /\ w.tops = v.tops /\ w.gone = v.gone
        /\ w.replies = [v.replies EXCEPT ![t] = Without(v.replies[t], c)]
    BY <1>0, <2>2 DEF Views
  <2>4. /\ Without(v.replies[t], c) \in Seq(Comments)
        /\ ToSet(Without(v.replies[t], c)) = ToSet(v.replies[t]) \ {c}
        /\ IsInjective(Without(v.replies[t], c))
    BY <1>0, <2>2, WithoutFacts
  <2>5. w \in Views
    <3>1. [v.replies EXCEPT ![t] = Without(v.replies[t], c)] \in [Tops -> Seq(Comments)]
      BY <1>0, <2>4
    <3> QED
      BY <1>0, <3>1 DEF Views
  <2> HIDE DEF w
  <2>6. \A u \in Tops : IsInjective(w.replies[u]) /\ ToSet(w.replies[u]) \subseteq ToSet(v.replies[u])
    BY <1>0, <2>2, <2>3, <2>4
  <2>7. ViewOK(w)
    BY <1>0, <2>3, <2>5, <2>6 DEF ViewOK
  <2>8. c \notin ToSet(w.replies[t])
    BY <1>0, <2>2, <2>3, <2>4
  <2>9. \A d \in Comments : Shows(w, d) => Shows(v, d)
    BY <2>3, <2>6, CommentFacts DEF Shows
  <2> QED
    BY <1>1, <2>1, <2>7, <2>8, <2>9 DEF Shows, t
<1>2. CASE ParentOf[c] = 0 /\ c \notin ToSet(v.tops)
  BY <1>2 DEF ApplyCommentDeletion, Shows
<1>3. CASE ParentOf[c] = 0 /\ c \in ToSet(v.tops) /\ v.replies[c] # <<>>
  <2> DEFINE w == [v EXCEPT !.gone = @ \cup {c}]
  <2>1. ApplyCommentDeletion(v, c) = w
    BY <1>3 DEF ApplyCommentDeletion
  <2>2. w.tops = v.tops /\ w.gone = v.gone \cup {c} /\ w.replies = v.replies
    BY <1>0 DEF Views
  <2>3. w \in Views
    BY <1>0, <1>3, CommentFacts DEF Views
  <2> HIDE DEF w
  <2>4. ViewOK(w)
    BY <1>0, <1>3, <2>2, <2>3 DEF ViewOK
  <2> QED
    BY <1>3, <2>1, <2>2, <2>4 DEF Shows
<1>4. CASE ParentOf[c] = 0 /\ c \in ToSet(v.tops) /\ ~(v.replies[c] # <<>>)
  <2> DEFINE w == [v EXCEPT !.tops = Without(@, c), !.gone = @ \ {c}]
  <2>1. ApplyCommentDeletion(v, c) = w
    BY <1>4 DEF ApplyCommentDeletion
  <2>2. w.tops = Without(v.tops, c) /\ w.gone = v.gone \ {c} /\ w.replies = v.replies
    BY <1>0 DEF Views
  <2>3. /\ Without(v.tops, c) \in Seq(Tops)
        /\ ToSet(Without(v.tops, c)) = ToSet(v.tops) \ {c}
        /\ IsInjective(Without(v.tops, c))
    BY <1>0, WithoutFacts
  <2>4. w \in Views
    BY <1>0, <2>3 DEF Views
  <2> HIDE DEF w
  <2>5. ViewOK(w)
    BY <1>0, <2>2, <2>3, <2>4 DEF ViewOK
  <2> QED
    BY <1>4, <2>1, <2>2, <2>3, <2>5 DEF Shows
<1> QED
  BY <1>1, <1>2, <1>3, <1>4

\* What the server lists, and an answer to the request for more.
LEMMA ReverseFacts ==
  ASSUME NEW S, NEW s \in Seq(S)
  PROVE  /\ Reverse(s) \in Seq(S) /\ ToSet(Reverse(s)) = ToSet(s)
         /\ IsInjective(s) => IsInjective(Reverse(s))
<1> DEFINE r == Reverse(s)
<1>1. Len(s) \in Nat /\ DOMAIN s = 1..Len(s) /\ \A i \in 1..Len(s) : s[i] \in S /\ Len(s) - i + 1 \in 1..Len(s)
  OBVIOUS
<1>2. r = [i \in 1..Len(s) |-> s[(Len(s) - i) + 1]]
  BY DEF Reverse
<1>3. r \in [1..Len(s) -> S]
  BY <1>1, <1>2
<1> HIDE DEF r
<1>4. r \in Seq(S) /\ DOMAIN r = 1..Len(s)
  BY <1>1, <1>3, SeqDef
<1>5. \A i \in 1..Len(s) : r[i] = s[Len(s) - i + 1] /\ r[Len(s) - i + 1] = s[i]
  BY <1>1, <1>2
<1>6. ToSet(r) = ToSet(s)
  BY <1>1, <1>4, <1>5 DEF ToSet
<1>7. IsInjective(s) => IsInjective(r)
  <2> SUFFICES ASSUME IsInjective(s), NEW i \in 1..Len(s), NEW j \in 1..Len(s), r[i] = r[j] PROVE i = j
    BY <1>4 DEF IsInjective
  <2>1. Len(s) - i + 1 = Len(s) - j + 1
    BY <1>1, <1>5 DEF IsInjective
  <2> QED
    BY <1>1, <2>1
<1> QED
  BY <1>4, <1>6, <1>7 DEF r

LEMMA FirstRepliesFacts ==
  ASSUME NEW S \in SUBSET Comments
  PROVE  /\ FirstReplies(S) \in Seq(S) /\ FirstReplies(S) \in Seq(Comments)
         /\ ToSet(FirstReplies(S)) \subseteq S
         /\ IsInjective(FirstReplies(S))
<1>1. IsFiniteSet(S) /\ S \in SUBSET Nat
  BY CommentFacts, FS_Subset
<1>2. InOrder(S) \in Seq(S) /\ IsInjective(InOrder(S)) /\ ToSet(InOrder(S)) = S
  BY <1>1, InOrderFacts
<1>3. PICK s \in Seq(S) : s = InOrder(S) /\ IsInjective(s) /\ ToSet(s) = S
  BY <1>2
<1>4. FirstN(s, RepliesPage) \in Seq(S) /\ ToSet(FirstN(s, RepliesPage)) \subseteq ToSet(s)
      /\ IsInjective(FirstN(s, RepliesPage))
  BY <1>3, CommentFacts, FirstNFacts
<1>5. FirstReplies(S) = FirstN(s, RepliesPage)
  BY <1>3 DEF FirstReplies
<1>6. FirstReplies(S) \in Seq(Comments)
  BY <1>4, <1>5, SeqMonotonic
<1> QED
  BY <1>3, <1>4, <1>5, <1>6

LEMMA ListedOK == ViewOK(Listed)
<1> DEFINE T == {t \in Tops \cap made : t \notin deleted \/ LiveReplies(t) # {}}
           top == Reverse(InOrder(T))
           first == [t \in Tops |-> IF t \in T THEN FirstReplies(LiveReplies(t)) ELSE <<>>]
           number == [t \in Tops |-> IF t \in T THEN Cardinality(LiveReplies(t)) ELSE 0]
<1>1. T \in SUBSET Tops
  OBVIOUS
<1>2. Listed.tops = top /\ Listed.gone = T \cap deleted /\ Listed.replies = first /\ Listed.count = number
      /\ Listed = [tops |-> top, gone |-> T \cap deleted, replies |-> first, count |-> number]
  BY DEF Listed
<1> HIDE DEF T
<1>3. top \in Seq(Tops) /\ IsInjective(top) /\ ToSet(top) = T
  <2>1. T \in SUBSET Nat /\ IsFiniteSet(T)
    BY <1>1, CommentFacts, FS_Subset
  <2>2. InOrder(T) \in Seq(T) /\ IsInjective(InOrder(T)) /\ ToSet(InOrder(T)) = T
    BY <2>1, InOrderFacts
  <2>3. PICK s \in Seq(T) : s = InOrder(T) /\ IsInjective(s) /\ ToSet(s) = T
    BY <2>2
  <2>4. Reverse(s) \in Seq(T) /\ IsInjective(Reverse(s)) /\ ToSet(Reverse(s)) = ToSet(s)
    BY <2>3, ReverseFacts
  <2>5. Reverse(s) \in Seq(Tops)
    BY <1>1, <2>4, SeqMonotonic
  <2> QED
    BY <2>3, <2>4, <2>5
<1>4. \A t \in Tops : /\ LiveReplies(t) \in SUBSET Comments /\ LiveReplies(t) \subseteq Of(t)
                      /\ Cardinality(LiveReplies(t)) \in Nat
  <2> SUFFICES ASSUME NEW t \in Tops
               PROVE  /\ LiveReplies(t) \in SUBSET Comments /\ LiveReplies(t) \subseteq Of(t)
                      /\ Cardinality(LiveReplies(t)) \in Nat
    OBVIOUS
  <2>1. LiveReplies(t) \in SUBSET Comments /\ LiveReplies(t) \subseteq Of(t)
    BY CommentFacts DEF LiveReplies
  <2>2. IsFiniteSet(LiveReplies(t))
    BY <2>1, CommentFacts, FS_Subset
  <2> QED
    BY <2>1, <2>2, FS_CardinalityType
<1>5. \A t \in Tops : first[t] \in Seq(Comments) /\ IsInjective(first[t]) /\ ToSet(first[t]) \subseteq Of(t)
  <2> SUFFICES ASSUME NEW t \in Tops
               PROVE  first[t] \in Seq(Comments) /\ IsInjective(first[t]) /\ ToSet(first[t]) \subseteq Of(t)
    OBVIOUS
  <2>1. CASE t \in T
    BY <1>4, <2>1, FirstRepliesFacts
  <2>2. CASE t \notin T
    <3>1. first[t] = <<>>
      BY <2>2
    <3>2. <<>> \in Seq(Comments) /\ IsInjective(<<>>) /\ ToSet(<<>>) = {}
      BY DEF IsInjective, ToSet
    <3> QED
      BY <3>1, <3>2
  <2> QED
    BY <2>1, <2>2
<1>6. first \in [Tops -> Seq(Comments)] /\ number \in [Tops -> Nat]
  BY <1>4, <1>5
<1> HIDE DEF top, first, number
<1>7. Listed \in Views
  BY <1>1, <1>2, <1>3, <1>6 DEF Views
<1> QED
  BY <1>2, <1>3, <1>5, <1>7 DEF ViewOK

LEMMA MoreOK ==
  ASSUME NEW v, ViewOK(v), NEW t \in Tops, NEW data \in Seq(Comments),
         IsInjective(data), ToSet(data) \subseteq Of(t)
  PROVE  ViewOK([v EXCEPT !.replies[t] = @ \o Only(data, Comments \ ToSet(v.replies[t]))])
<1> DEFINE fresh == Only(data, Comments \ ToSet(v.replies[t]))
           w == [v EXCEPT !.replies[t] = @ \o fresh]
<1>1. /\ v \in Views /\ v.replies \in [Tops -> Seq(Comments)] /\ v.replies[t] \in Seq(Comments)
      /\ IsInjective(v.tops) /\ v.gone \subseteq ToSet(v.tops)
      /\ \A u \in Tops : IsInjective(v.replies[u]) /\ ToSet(v.replies[u]) \subseteq Of(u)
  BY DEF ViewOK, Views
<1>2. fresh \in Seq(Comments) /\ IsInjective(fresh)
      /\ ToSet(fresh) = ToSet(data) \cap (Comments \ ToSet(v.replies[t]))
  BY OnlyFacts
<1> HIDE DEF fresh
<1>3. PICK r \in Seq(Comments) : r = v.replies[t]
  BY <1>1
<1>4. IsInjective(r) /\ ToSet(r) \subseteq Of(t) /\ ToSet(r) \cap ToSet(fresh) = {}
  BY <1>1, <1>2, <1>3
<1>5. r \o fresh \in Seq(Comments) /\ IsInjective(r \o fresh) /\ ToSet(r \o fresh) = ToSet(r) \cup ToSet(fresh)
  BY <1>2, <1>4, ConcatFacts
<1>6. /\ w.tops = v.tops /\ w.gone = v.gone
      /\ w.replies = [v.replies EXCEPT ![t] = r \o fresh]
  BY <1>1, <1>3 DEF Views
<1>7. w \in Views
  <2>1. [v.replies EXCEPT ![t] = r \o fresh] \in [Tops -> Seq(Comments)]
    BY <1>1, <1>5
  <2> QED
    BY <1>1, <1>3, <2>1 DEF Views
<1>8. \A u \in Tops : IsInjective(w.replies[u]) /\ ToSet(w.replies[u]) \subseteq Of(u)
  <2> HIDE DEF w
  <2> SUFFICES ASSUME NEW u \in Tops
               PROVE  IsInjective(w.replies[u]) /\ ToSet(w.replies[u]) \subseteq Of(u)
    OBVIOUS
  <2>1. CASE u = t
    <3>1. w.replies[u] = r \o fresh
      BY <1>1, <1>6, <2>1
    <3> QED
      BY <1>2, <1>4, <1>5, <2>1, <3>1
  <2>2. CASE u # t
    BY <1>1, <1>6, <2>2
  <2> QED
    BY <2>1, <2>2
<1>9. ViewOK(w)
  <2> HIDE DEF w
  <2> QED
    BY <1>1, <1>6, <1>7, <1>8 DEF ViewOK
<1> QED
  BY <1>9 DEF fresh

-----------------------------------------------------------------------------
(* The invariant of the section. *)

Messages == {"new", "deleted"} \X Comments

ThreadTypes ==
  /\ deleted \subseteq made /\ made \subseteq Comments
  /\ unsent \in SUBSET Messages /\ events \in Seq(Messages)
  /\ joined \in BOOLEAN /\ restores \in 0..MaxRestores
  /\ listReq.at \in {"asked", "answered", "done"}
  /\ moreReq \in [at : {"none", "asked", "answered"}, top : Tops \cup {0}, data : Seq(Nat)]
  /\ ownReq \in [at : {"none", "added", "removed"}, id : Comments \cup {0}]
  /\ ownReq.at # "none" => ownReq.id \in Comments
  /\ outdated \subseteq Comments

\* Nothing the tab shows, or is about to be told, has a comment twice.
OnceOnly ==
  /\ ViewOK(view)
  /\ ViewOK(listReq.view)
  /\ moreReq.at # "none" => moreReq.top \in Tops
  /\ moreReq.at = "answered" =>
       /\ moreReq.data \in Seq(Comments) /\ IsInjective(moreReq.data)
       /\ ToSet(moreReq.data) \subseteq Of(moreReq.top)

ThreadInv == ThreadTypes /\ OnceOnly /\ DeletedDisappears

LEMMA ThreadInvImplies == ThreadInv => ThreadTypeOK /\ NoCommentTwice /\ DeletedDisappears
<1> SUFFICES ASSUME ThreadInv PROVE ThreadTypeOK /\ NoCommentTwice
  BY DEF ThreadInv
<1>1. /\ ViewOK(view) /\ view.tops \in Seq(Tops) /\ view.replies \in [Tops -> Seq(Comments)]
      /\ view.count \in [Tops -> Nat] /\ view.gone \subseteq ToSet(view.tops)
  BY DEF ThreadInv, OnceOnly, ViewOK, Views
<1>2. ToSet(view.tops) \subseteq Tops /\ ToSet(events) \subseteq Messages
  BY <1>1 DEF ThreadInv, ThreadTypes, ToSet
<1>3. \A t \in Tops : ToSet(view.replies[t]) \subseteq Of(t) /\ view.count[t] \in Nat
  BY <1>1 DEF ViewOK
<1>4. moreReq.at \in {"none", "asked", "answered"} /\ moreReq.top \in Tops \cup {0}
  BY DEF ThreadInv, ThreadTypes
<1>5. ThreadTypeOK
  BY <1>1, <1>2, <1>3, <1>4 DEF ThreadInv, ThreadTypes, ThreadTypeOK, Messages
<1>6. NoCommentTwice
  BY <1>1 DEF ViewOK, NoCommentTwice
<1> QED
  BY <1>5, <1>6

LEMMA RequestsOK ==
  /\ NoMore \in [at : {"none", "asked", "answered"}, top : Tops \cup {0}, data : Seq(Nat)] /\ NoMore.at = "none"
  /\ NoOwn \in [at : {"none", "added", "removed"}, id : Comments \cup {0}] /\ NoOwn.at = "none"
  /\ NoList.view = EmptyView
  /\ \A a : [NoList EXCEPT !.at = a].at = a /\ [NoList EXCEPT !.at = a].view = EmptyView
BY DEF NoMore, NoOwn, NoList

LEMMA ThreadInvInit == ThreadInit => ThreadInv
<1> SUFFICES ASSUME ThreadInit PROVE ThreadInv
  OBVIOUS
<1>1. ThreadTypes
  <2>1. <<>> \in Seq(Messages) /\ 0 \in 0..MaxRestores /\ listReq.at = "asked"
    BY RequestsOK, ThreadAssumption DEF ThreadInit
  <2>2. deleted = {} /\ made \in SUBSET Comments /\ unsent = {} /\ events = <<>> /\ outdated = {}
        /\ joined = FALSE /\ restores = 0 /\ moreReq = NoMore /\ ownReq = NoOwn
    BY DEF ThreadInit
  <2> QED
    BY <2>1, <2>2, RequestsOK DEF ThreadTypes
<1>2. OnceOnly
  BY RequestsOK, EmptyViewOK DEF ThreadInit, OnceOnly
<1>3. DeletedDisappears
  BY DEF ThreadInit, DeletedDisappears
<1> QED
  BY <1>1, <1>2, <1>3 DEF ThreadInv

\* The event of the deletion of c is yet to come.
Pending(c) == <<"deleted", c>> \in unsent \cup ToSet(events)

\* What a step leaves of DeletedDisappears: a comment deleted anew has its event
\* unsent, an event that comes or is lost has done its work, and a comment shown
\* anew is deleted only if its event is yet to come, or outdated.
LEMMA DisappearanceKept ==
  ASSUME ThreadInv,
         deleted' \subseteq Comments, outdated \subseteq outdated',
         \A c \in Comments : c \in deleted' /\ Shows(view', c) =>
           \/ c \in deleted /\ Shows(view, c) /\ (Pending(c) => Pending(c)' \/ c \in outdated')
           \/ Pending(c)' \/ c \in outdated'
  PROVE  DeletedDisappears'
<1> SUFFICES ASSUME NEW c \in Comments, c \in deleted', Shows(view', c)
             PROVE  c \in outdated' \/ Pending(c)'
  BY DEF DeletedDisappears, Pending, Shows
<1> QED
  BY DEF ThreadInv, DeletedDisappears, Pending

LEMMA ViewToldSafe ==
  ASSUME ThreadInv, NEW v, ViewTold(v), UNCHANGED <<deleted, made>>,
         \A c \in Comments : Pending(c) => Pending(c)'
  PROVE  DeletedDisappears' /\ outdated' \subseteq Comments /\ view' = v
<1>1. /\ view' = v
      /\ outdated' = outdated \cup
           {c \in Comments : Shows(v, c) /\ ~Shows(view, c) /\ ~IsLive(c) /\ ~Pending(c)}
  BY DEF ViewTold, Pending
<1>2. deleted' \subseteq Comments /\ outdated \subseteq Comments
  BY DEF ThreadInv, ThreadTypes
<1>3. \A c \in Comments : c \in deleted' => ~IsLive(c)
  BY DEF IsLive
<1> QED
  BY <1>1, <1>2, <1>3, DisappearanceKept

LEMMA ViewDeletedSafe ==
  ASSUME ThreadInv, NEW d \in Comments, view' = ApplyCommentDeletion(view, d), UNCHANGED <<deleted, outdated>>,
         \A c \in Comments \ {d} : Pending(c) => Pending(c)'
  PROVE  DeletedDisappears' /\ ViewOK(view')
<1>1. ViewOK(view')
  BY DeletionOK DEF ThreadInv, OnceOnly
<1>2. ~Shows(view', d) /\ \A c \in Comments : Shows(view', c) => Shows(view, c)
  BY DeletionOK DEF ThreadInv, OnceOnly
<1>3. deleted' \subseteq Comments
  BY DEF ThreadInv, ThreadTypes
<1> QED
  BY <1>1, <1>2, <1>3, DisappearanceKept

\* Changes of the server.
LEMMA CommitSafe ==
  ASSUME ThreadInv, NEW c \in Comments, Commit(c) \/ Delete(c), UNCHANGED <<events, view, outdated>>
  PROVE  /\ DeletedDisappears'
         /\ deleted' \subseteq made' /\ made' \subseteq Comments
         /\ unsent' \in SUBSET Messages /\ restores' = restores
<1>1. /\ deleted' \subseteq made' /\ made' \subseteq Comments
      /\ unsent' \in SUBSET Messages /\ restores' = restores
  BY DEF ThreadInv, ThreadTypes, Commit, Delete, IsLive, Messages
<1>2. \A d \in Comments : /\ Pending(d) => Pending(d)'
                          /\ d \in deleted' => d \in deleted \/ Pending(d)'
  BY DEF Commit, Delete, Pending
<1>3. DeletedDisappears'
  BY <1>1, <1>2, DisappearanceKept
<1> QED
  BY <1>1, <1>3

LEMMA ElsewhereSafe == ASSUME ThreadInv, NEW c \in Comments, Elsewhere(c) PROVE ThreadInv'
<1>1. DeletedDisappears' /\ ThreadTypes'
  BY CommitSafe DEF Elsewhere, ThreadInv, ThreadTypes
<1>2. OnceOnly'
  BY DEF Elsewhere, ThreadInv, OnceOnly, ViewOK
<1> QED
  BY <1>1, <1>2 DEF ThreadInv

LEMMA RestoreSafe == ASSUME ThreadInv, NEW c \in Comments, Restore(c) PROVE ThreadInv'
<1>1. ThreadTypes'
  BY ThreadAssumption DEF Restore, ThreadInv, ThreadTypes
<1>2. OnceOnly'
  BY DEF Restore, ThreadInv, OnceOnly, ViewOK
<1>3. DeletedDisappears'
  BY DEF Restore, ThreadInv, DeletedDisappears, Shows
<1> QED
  BY <1>1, <1>2, <1>3 DEF ThreadInv

LEMMA EmitSafe == ASSUME ThreadInv, NEW e \in unsent, Emit(e) PROVE ThreadInv'
<1>1. PICK kind \in {"new", "deleted"}, c \in Comments : e = <<kind, c>>
  BY DEF ThreadInv, ThreadTypes, Messages
<1>2. e \in Messages /\ events \in Seq(Messages)
  BY DEF ThreadInv, ThreadTypes
<1>3. PICK s : s = Append(events, e)
  OBVIOUS
<1>4. s \in Seq(Messages) /\ ToSet(s) = ToSet(events) \cup {e}
  <2>1. PICK one \in Seq(Messages) : one = <<e>> /\ ToSet(one) = {e}
    BY <1>2, Single
  <2>2. events \o one \in Seq(Messages) /\ ToSet(events \o one) = ToSet(events) \cup ToSet(one)
    BY <1>2, ConcatFacts
  <2>3. s = events \o one
    BY <1>2, <1>3, <2>1, AppendIsConcat
  <2> QED
    BY <2>1, <2>2, <2>3
<1>5. /\ unsent' = unsent \ {e} /\ events' = IF joined THEN s ELSE events
      /\ outdated' = IF joined THEN outdated ELSE outdated \cup {c}
      /\ UNCHANGED <<made, deleted, restores, joined, view, listReq, moreReq, ownReq>>
  BY <1>1, <1>3 DEF Emit
<1>6. ThreadTypes'
  BY <1>4, <1>5 DEF ThreadInv, ThreadTypes
<1>7. OnceOnly'
  BY <1>5 DEF ThreadInv, OnceOnly, ViewOK
<1>8. \A d \in Comments : Pending(d) => Pending(d)' \/ d \in outdated'
  <2> SUFFICES ASSUME NEW d \in Comments, <<"deleted", d>> \in unsent \cup ToSet(events)
               PROVE  <<"deleted", d>> \in unsent' \cup ToSet(events') \/ d \in outdated'
    BY DEF Pending, ToSet
  <2>1. CASE <<"deleted", d>> = e
    <3>1. d = c
      BY <1>1, <2>1
    <3> QED
      BY <1>4, <1>5, <2>1, <3>1
  <2>2. CASE <<"deleted", d>> # e
    BY <1>4, <1>5, <2>2
  <2> QED
    BY <2>1, <2>2
<1>9. DeletedDisappears'
  <2>1. deleted' \subseteq Comments /\ outdated \subseteq outdated'
    BY <1>5 DEF ThreadInv, ThreadTypes
  <2> QED
    BY <1>5, <1>8, <2>1, DisappearanceKept
<1> QED
  BY <1>6, <1>7, <1>9 DEF ThreadInv

LEMMA DisconnectSafe == ASSUME ThreadInv, Disconnect PROVE ThreadInv'
<1>1. /\ joined' = FALSE /\ events' = <<>>
      /\ outdated' = outdated \cup {e[2] : e \in ToSet(events)}
      /\ UNCHANGED <<made, deleted, restores, unsent, view, listReq, moreReq, ownReq>>
  BY DEF Disconnect, serverState
<1>2. \A e \in ToSet(events) : e \in Messages /\ e[2] \in Comments
  BY DEF ThreadInv, ThreadTypes, Messages, ToSet
<1>3. outdated' \subseteq Comments
  BY <1>1, <1>2 DEF ThreadInv, ThreadTypes
<1>4. ThreadTypes'
  <2>1. <<>> \in Seq(Messages)
    OBVIOUS
  <2> QED
    BY <1>1, <1>3, <2>1 DEF ThreadInv, ThreadTypes
<1>5. OnceOnly'
  BY <1>1 DEF ThreadInv, OnceOnly, ViewOK
<1>6. \A d \in Comments : Pending(d) => Pending(d)' \/ d \in outdated'
  <2> SUFFICES ASSUME NEW d \in Comments, <<"deleted", d>> \in ToSet(events), <<"deleted", d>> \notin unsent
               PROVE  d \in outdated'
    BY <1>1 DEF Pending
  <2>1. <<"deleted", d>>[2] = d
    OBVIOUS
  <2> QED
    BY <1>1, <2>1
<1>7. DeletedDisappears'
  <2>1. deleted' \subseteq Comments /\ outdated \subseteq outdated'
    BY <1>1 DEF ThreadInv, ThreadTypes
  <2> QED
    BY <1>1, <1>6, <2>1, DisappearanceKept
<1> QED
  BY <1>4, <1>5, <1>7 DEF ThreadInv

\* Answers and events that reach the tab.
LEMMA CommentsArriveSafe == ASSUME ThreadInv, CommentsArrive PROVE ThreadInv'
<1>1. ViewTold(listReq.view) /\ listReq' = [NoList EXCEPT !.at = "done"]
      /\ UNCHANGED <<made, deleted, restores, unsent, joined, events, moreReq, ownReq>>
  BY DEF CommentsArrive, serverState
<1>2. \A c \in Comments : Pending(c) => Pending(c)'
  BY <1>1 DEF Pending
<1>3. DeletedDisappears' /\ outdated' \subseteq Comments /\ view' = listReq.view
  BY <1>1, <1>2, ViewToldSafe
<1>4. listReq'.at = "done" /\ listReq'.view = EmptyView
  BY <1>1, RequestsOK
<1>5. ThreadTypes'
  BY <1>1, <1>3, <1>4 DEF ThreadInv, ThreadTypes
<1>6. ViewOK(view') /\ ViewOK(listReq'.view)
  BY <1>3, <1>4, EmptyViewOK DEF ThreadInv, OnceOnly
<1>7. OnceOnly'
  BY <1>1, <1>6 DEF ThreadInv, OnceOnly, ViewOK
<1> QED
  BY <1>3, <1>5, <1>7 DEF ThreadInv

LEMMA ListRequestSafe == ASSUME ThreadInv, ReadComments \/ CommentsFail PROVE ThreadInv'
<1>1. UNCHANGED <<made, deleted, restores, unsent, joined, events, view, moreReq, ownReq, outdated>>
  BY DEF ReadComments, CommentsFail, serverState
<1>2. listReq'.at \in {"asked", "answered", "done"} /\ ViewOK(listReq'.view)
  <2>1. CASE ReadComments
    <3>1. listReq'.at = "answered" /\ listReq'.view = Listed
      BY <2>1 DEF ReadComments
    <3> QED
      BY <3>1, ListedOK
  <2>2. CASE CommentsFail
    <3>1. listReq'.at = "done" /\ listReq'.view = EmptyView
      BY <2>2, RequestsOK DEF CommentsFail
    <3> QED
      BY <3>1, EmptyViewOK
  <2> QED
    BY <2>1, <2>2
<1>3. ThreadTypes'
  BY <1>1, <1>2 DEF ThreadInv, ThreadTypes
<1>4. OnceOnly'
  BY <1>1, <1>2 DEF ThreadInv, OnceOnly, ViewOK
<1>5. DeletedDisappears'
  BY <1>1 DEF ThreadInv, DeletedDisappears, Shows
<1> QED
  BY <1>3, <1>4, <1>5 DEF ThreadInv

LEMMA OnEventSafe == ASSUME ThreadInv, OnEvent PROVE ThreadInv'
<1>0. events \in Seq(Messages) /\ events # <<>> /\ events' = Tail(events)
      /\ UNCHANGED <<made, deleted, restores, unsent, joined, listReq, moreReq, ownReq>>
  BY DEF ThreadInv, ThreadTypes, OnEvent, serverState
<1>1. Tail(events) \in Seq(Messages) /\ Head(events) \in Messages
  BY <1>0
<1>2. PICK kind \in {"new", "deleted"}, c \in Comments : Head(events) = <<kind, c>>
  BY <1>1 DEF Messages
<1>3. \A x \in ToSet(events) : x = Head(events) \/ x \in ToSet(Tail(events))
  <2> SUFFICES ASSUME NEW n \in 1..Len(events), n # 1
               PROVE  events[n] \in ToSet(Tail(events))
    BY <1>0 DEF ToSet
  <2>1. n - 1 \in 1..Len(Tail(events)) /\ Tail(events)[n - 1] = events[n] /\ DOMAIN Tail(events) = 1..Len(Tail(events))
    BY <1>0
  <2> QED
    BY <2>1 DEF ToSet
<1>4. \A d \in Comments : Pending(d) => Pending(d)' \/ <<"deleted", d>> = <<kind, c>>
  BY <1>0, <1>2, <1>3 DEF Pending
<1>5. CASE kind = "new"
  <2>1. ViewTold(Upsert(view, c))
    BY <1>2, <1>5 DEF OnEvent
  <2>2. \A d \in Comments : Pending(d) => Pending(d)'
    BY <1>4, <1>5
  <2>3. DeletedDisappears' /\ outdated' \subseteq Comments /\ view' = Upsert(view, c)
    BY <1>0, <2>1, <2>2, ViewToldSafe
  <2>4. ViewOK(view')
    BY <2>3, UpsertOK DEF ThreadInv, OnceOnly
  <2>5. ThreadTypes'
    BY <1>0, <1>1, <2>3 DEF ThreadInv, ThreadTypes
  <2>6. OnceOnly'
    BY <1>0, <2>4 DEF ThreadInv, OnceOnly, ViewOK
  <2> QED
    BY <2>3, <2>5, <2>6 DEF ThreadInv
<1>6. CASE kind = "deleted"
  <2>1. view' = ApplyCommentDeletion(view, c) /\ UNCHANGED outdated
    BY <1>2, <1>6 DEF OnEvent
  <2>2. \A d \in Comments \ {c} : Pending(d) => Pending(d)'
    BY <1>4
  <2>3. DeletedDisappears' /\ ViewOK(view')
    BY <1>0, <2>1, <2>2, ViewDeletedSafe
  <2>4. ThreadTypes'
    BY <1>0, <1>1, <2>1 DEF ThreadInv, ThreadTypes
  <2>5. OnceOnly'
    BY <1>0, <2>3 DEF ThreadInv, OnceOnly, ViewOK
  <2> QED
    BY <2>3, <2>4, <2>5 DEF ThreadInv
<1> QED
  BY <1>5, <1>6

LEMMA OwnAnswerSafe == ASSUME ThreadInv, OwnAnswer PROVE ThreadInv'
<1>1. /\ ownReq' = NoOwn /\ ownReq.id \in Comments
      /\ UNCHANGED <<made, deleted, restores, unsent, joined, events, listReq, moreReq>>
  BY DEF OwnAnswer, serverState, ThreadInv, ThreadTypes
<1>2. PICK c \in Comments : c = ownReq.id
  BY <1>1
<1>3. \A d \in Comments : Pending(d) => Pending(d)'
  BY <1>1 DEF Pending
<1>4. DeletedDisappears' /\ outdated' \subseteq Comments /\ ViewOK(view')
  <2>1. CASE ViewTold(Upsert(view, c))
    <3>1. DeletedDisappears' /\ outdated' \subseteq Comments /\ view' = Upsert(view, c)
      BY <1>1, <1>3, <2>1, ViewToldSafe
    <3> QED
      BY <3>1, UpsertOK DEF ThreadInv, OnceOnly
  <2>2. CASE view' = ApplyCommentDeletion(view, c) /\ UNCHANGED outdated
    BY <1>1, <1>3, <2>2, ViewDeletedSafe DEF ThreadInv, ThreadTypes
  <2>3. CASE UNCHANGED <<view, outdated>>
    BY <1>1, <2>3 DEF ThreadInv, ThreadTypes, OnceOnly, DeletedDisappears, Shows
  <2> QED
    BY <1>2, <2>1, <2>2, <2>3 DEF OwnAnswer
<1>5. ThreadTypes'
  BY <1>1, <1>4, RequestsOK DEF ThreadInv, ThreadTypes
<1>6. OnceOnly'
  BY <1>1, <1>4 DEF ThreadInv, OnceOnly, ViewOK
<1> QED
  BY <1>4, <1>5, <1>6 DEF ThreadInv

LEMMA OwnRequestSafe == ASSUME ThreadInv, NEW c \in Comments, Submit(c) \/ RemoveOwn(c) PROVE ThreadInv'
<1>1. /\ Commit(c) \/ Delete(c)
      /\ UNCHANGED <<joined, events, view, listReq, moreReq, outdated>>
      /\ \E a \in {"added", "removed"} : ownReq' = [at |-> a, id |-> c]
  BY DEF Submit, RemoveOwn
<1>2. /\ DeletedDisappears'
      /\ deleted' \subseteq made' /\ made' \subseteq Comments
      /\ unsent' \in SUBSET Messages /\ restores' = restores
  BY <1>1, CommitSafe
<1>3. ThreadTypes'
  BY <1>1, <1>2 DEF ThreadInv, ThreadTypes
<1>4. OnceOnly'
  BY <1>1 DEF ThreadInv, OnceOnly, ViewOK
<1> QED
  BY <1>2, <1>3, <1>4 DEF ThreadInv

LEMMA MoreRequestSafe ==
  ASSUME ThreadInv, (\E c \in Comments : AskMoreReplies(c)) \/ ReadReplies \/ RepliesFail
  PROVE  ThreadInv'
<1>1. UNCHANGED <<made, deleted, restores, unsent, joined, events, view, listReq, ownReq, outdated>>
  BY DEF AskMoreReplies, ReadReplies, RepliesFail, serverState
<1>2. /\ moreReq' \in [at : {"none", "asked", "answered"}, top : Tops \cup {0}, data : Seq(Nat)]
      /\ moreReq'.at # "none" => moreReq'.top \in Tops
      /\ moreReq'.at = "answered" =>
           /\ moreReq'.data \in Seq(Comments) /\ IsInjective(moreReq'.data)
           /\ ToSet(moreReq'.data) \subseteq Of(moreReq'.top)
  <2>1. ASSUME NEW t \in Comments, AskMoreReplies(t)
        PROVE  /\ moreReq' \in [at : {"none", "asked", "answered"}, top : Tops \cup {0}, data : Seq(Nat)]
               /\ moreReq'.at = "asked" /\ moreReq'.top \in Tops
    <3> DEFINE loaded == view.replies[t]
               after == IF loaded = <<>> THEN 0 ELSE Last(loaded)
    <3>1. t \in ToSet(view.tops) /\ moreReq' = [at |-> "asked", top |-> t, data |-> <<after>>]
      BY <2>1 DEF AskMoreReplies
    <3>2. view.tops \in Seq(Tops) /\ view.replies \in [Tops -> Seq(Comments)]
      BY DEF ThreadInv, OnceOnly, ViewOK, Views
    <3>3. t \in Tops
      BY <3>1, <3>2 DEF ToSet
    <3>4. loaded \in Seq(Comments)
      BY <3>2, <3>3
    <3>5. after \in Nat
      <4> HIDE DEF loaded
      <4>1. CASE loaded # <<>>
        <5>1. Len(loaded) \in 1..Len(loaded)
          BY <3>4, <4>1, EmptySeq
        <5>2. loaded[Len(loaded)] \in Comments
          BY <3>4, <5>1, ElementOfSeq
        <5> QED
          BY <4>1, <5>2, CommentFacts DEF Last
      <4> QED
        BY <4>1
    <3> HIDE DEF after
    <3>6. <<after>> \in Seq(Nat)
      BY <3>5
    <3> QED
      BY <3>1, <3>3, <3>6
  <2>2. ASSUME ReadReplies
        PROVE  /\ moreReq' \in [at : {"none", "asked", "answered"}, top : Tops \cup {0}, data : Seq(Nat)]
               /\ moreReq'.top \in Tops
               /\ moreReq'.data \in Seq(Comments) /\ IsInjective(moreReq'.data)
               /\ ToSet(moreReq'.data) \subseteq Of(moreReq'.top)
    <3> DEFINE S == {c \in LiveReplies(moreReq.top) : c > moreReq.data[1]}
    <3>1. S \in SUBSET Comments /\ S \subseteq Of(moreReq.top)
      BY CommentFacts DEF LiveReplies
    <3>2. moreReq' = [moreReq EXCEPT !.at = "answered", !.data = FirstReplies(S)]
      BY <2>2 DEF ReadReplies
    <3>3. moreReq.top \in Tops /\ moreReq \in [at : {"none", "asked", "answered"}, top : Tops \cup {0}, data : Seq(Nat)]
      BY <2>2 DEF ReadReplies, ThreadInv, ThreadTypes, OnceOnly
    <3> HIDE DEF S
    <3>4. /\ FirstReplies(S) \in Seq(Comments) /\ ToSet(FirstReplies(S)) \subseteq S
          /\ IsInjective(FirstReplies(S))
      BY <3>1, FirstRepliesFacts
    <3>5. FirstReplies(S) \in Seq(Nat)
      BY <3>4, CommentFacts, SeqMonotonic
    <3>6. moreReq'.data = FirstReplies(S) /\ moreReq'.top = moreReq.top
      BY <3>2, <3>3
    <3> QED
      BY <3>1, <3>2, <3>3, <3>4, <3>5, <3>6
  <2>3. ASSUME RepliesFail
        PROVE  moreReq' = NoMore
    BY <2>3 DEF RepliesFail
  <2> QED
    BY <2>1, <2>2, <2>3, RequestsOK
<1>3. ThreadTypes'
  BY <1>1, <1>2 DEF ThreadInv, ThreadTypes
<1>4. OnceOnly'
  BY <1>1, <1>2 DEF ThreadInv, OnceOnly, ViewOK
<1>5. DeletedDisappears'
  BY <1>1 DEF ThreadInv, DeletedDisappears, Shows
<1> QED
  BY <1>3, <1>4, <1>5 DEF ThreadInv

LEMMA RepliesArriveSafe == ASSUME ThreadInv, RepliesArrive PROVE ThreadInv'
<1> DEFINE t == moreReq.top
           w == [view EXCEPT !.replies[t] = @ \o Only(moreReq.data, Comments \ ToSet(view.replies[t]))]
           v == IF t \in ToSet(view.tops) THEN w ELSE view
<1>1. ViewTold(v) /\ moreReq' = NoMore /\ moreReq.at = "answered"
      /\ UNCHANGED <<made, deleted, restores, unsent, joined, events, listReq, ownReq>>
  BY DEF RepliesArrive, serverState
<1>2. ViewOK(view) /\ ViewOK(w)
  BY <1>1, MoreOK DEF ThreadInv, OnceOnly
<1>3. ViewOK(v)
  BY <1>2
<1> HIDE DEF v
<1>4. \A c \in Comments : Pending(c) => Pending(c)'
  BY <1>1 DEF Pending
<1>5. DeletedDisappears' /\ outdated' \subseteq Comments /\ view' = v
  BY <1>1, <1>4, ViewToldSafe
<1>6. ThreadTypes'
  BY <1>1, <1>5, RequestsOK DEF ThreadInv, ThreadTypes
<1>7. OnceOnly'
  BY <1>1, <1>3, <1>5, RequestsOK DEF ThreadInv, OnceOnly, ViewOK
<1> QED
  BY <1>5, <1>6, <1>7 DEF ThreadInv

LEMMA JoinRoomSafe == ASSUME ThreadInv, JoinRoom PROVE ThreadInv'
<1>1. joined' = TRUE
      /\ UNCHANGED <<made, deleted, restores, unsent, events, view, listReq, moreReq, ownReq, outdated>>
  BY DEF JoinRoom, serverState
<1> QED
  BY <1>1 DEF ThreadInv, ThreadTypes, OnceOnly, ViewOK, DeletedDisappears, Shows

LEMMA ThreadInvStep == ThreadInv /\ [ThreadNext]_threadVars => ThreadInv'
<1> SUFFICES ASSUME ThreadInv, [ThreadNext]_threadVars PROVE ThreadInv'
  OBVIOUS
<1>1. CASE UNCHANGED threadVars
  BY <1>1 DEF threadVars, ThreadInv, ThreadTypes, OnceOnly, ViewOK, DeletedDisappears, Shows
<1>2. CASE ThreadNext
  BY <1>2, ElsewhereSafe, RestoreSafe, OwnRequestSafe, MoreRequestSafe, EmitSafe, JoinRoomSafe,
     DisconnectSafe, ListRequestSafe, CommentsArriveSafe, OnEventSafe, OwnAnswerSafe, RepliesArriveSafe
     DEF ThreadNext
<1> QED
  BY <1>1, <1>2

LEMMA ThreadInvariant == ThreadSpec => []ThreadInv
BY ThreadInvInit, ThreadInvStep, PTL DEF ThreadSpec

\* In whatever order the list, the answers and the events of the room arrive, the
\* section shows no comment twice, however many comments and replies there are.
THEOREM ThreadNeverRepeats == ThreadSpec => []NoCommentTwice
BY ThreadInvariant, ThreadInvImplies, PTL

\* A deleted comment that the section still shows is one whose event is yet to
\* come, or was lost, or had come before an answer or event that told of it again.
THEOREM DeletionReachesTab == ThreadSpec => []DeletedDisappears
BY ThreadInvariant, ThreadInvImplies, PTL

-----------------------------------------------------------------------------
(* The three side by side: a step of one leaves the others alone. *)

PostsInv == SearchInv /\ PagesInv /\ ThreadInv

LEMMA PostsInvStep == PostsInv /\ [Next]_vars => PostsInv'
<1> SUFFICES ASSUME PostsInv, [Next]_vars PROVE PostsInv'
  OBVIOUS
<1>1. [SearchNext]_<<accessVars, searchVars>>
  BY DEF Next, vars
<1>2. [PagesNext]_pagesVars
  BY DEF Next, vars
<1>3. [ThreadNext]_threadVars
  BY DEF Next, vars
<1> QED
  BY <1>1, <1>2, <1>3, SearchInvStep, PagesInvStep, ThreadInvStep DEF PostsInv

\* The index, the pages and the section keep their types, whichever of them moves.
THEOREM PostsTypeCorrect == Spec => []TypeOK
<1>1. Init => PostsInv
  BY SearchInvInit, PagesInvInit, ThreadInvInit DEF Init, PostsInv
<1>2. PostsInv => TypeOK
  BY PagesInvImplies, ThreadInvImplies DEF PostsInv, SearchInv, TypeOK
<1> QED
  BY <1>1, <1>2, PostsInvStep, PTL DEF Spec
=============================================================================
