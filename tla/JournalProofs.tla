----------------------------- MODULE JournalProofs -----------------------------
(***************************************************************************)
(* Proofs about the journal publisher, for any sections and files, any     *)
(* number of commits of others, of git calls that fail and of crashes.     *)
(***************************************************************************)
EXTENDS Journal, SequenceTheorems, FiniteSetTheorems, TLAPS

------------------------------------------------------------------------------
(* The two histories.  Main and the clone agree on main up to the clone's  *)
(* root.  From there main has taken some of the clone's own commits, in    *)
(* their order, and then only commits of others; the clone has those it    *)
(* took, and then the ones still queued.                                   *)

Made == {"sections", "restores"}  \* what a publish commits
AnyCommit == [what : Made \union Foreign, secs : SUBSET Section]
Ours == [what : Made, secs : SUBSET Section]
Theirs == [what : Foreign, secs : {{}}]

(* Main has taken the first k of the clone's own commits. *)
Taken(k) ==
  /\ k \in 0..Len(clone.own) /\ clone.root + k <= Len(remote)
  /\ \A i \in 1..k : remote[clone.root + i] = clone.own[i]
  /\ \A i \in 1..Len(remote) : i > clone.root + k => remote[i] \in Theirs

HistoryTyped ==
  /\ remote \in Seq(AnyCommit)
  /\ clone \in [made : BOOLEAN, root : Nat, tip : Nat, own : Seq(Ours)]
  /\ clone.root <= clone.tip /\ clone.tip <= Len(remote)

HistoryInv == HistoryTyped /\ \E k \in Nat : Taken(k)

LEMMA Lengths ==
  ASSUME HistoryTyped
  PROVE  /\ Len(remote) \in Nat /\ clone.root \in Nat /\ clone.tip \in Nat /\ Len(clone.own) \in Nat
         /\ \A i \in 1..Len(remote) : remote[i] \in AnyCommit
         /\ \A i \in 1..Len(clone.own) : clone.own[i] \in Ours
         /\ clone.own \in Seq(AnyCommit) /\ Ours \subseteq AnyCommit /\ Theirs \subseteq AnyCommit
         /\ Ours \intersect Theirs = {}
<1>1. Ours \subseteq AnyCommit /\ Theirs \subseteq AnyCommit
  BY DEF Ours, Theirs, AnyCommit
<1>2. Ours \intersect Theirs = {}
  BY JournalAssumption DEF Ours, Theirs, Made
<1>3. clone.own \in Seq(AnyCommit)
  BY <1>1, SeqMonotonic DEF HistoryTyped
<1> QED BY <1>1, <1>2, <1>3, LenProperties DEF HistoryTyped

LEMMA Grafted ==
  ASSUME NEW main \in Seq(AnyCommit), NEW root \in 0..Len(main), NEW own \in Seq(AnyCommit)
  PROVE  /\ SubSeq(main, 1, root) \o own \in Seq(AnyCommit)
         /\ Len(SubSeq(main, 1, root) \o own) = root + Len(own)
         /\ \A i \in 1..root + Len(own) :
              (SubSeq(main, 1, root) \o own)[i] = IF i <= root THEN main[i] ELSE own[i - root]
<1> DEFINE base == SubSeq(main, 1, root)
<1>1. Len(main) \in Nat /\ \A i \in 1..root : main[i] \in AnyCommit
  BY ElementOfSeq, LenProperties
<1>2. /\ base \in Seq(AnyCommit) /\ Len(base) = root
      /\ \A i \in 1..root : base[i] = main[i]
  <2>1. /\ base \in Seq(AnyCommit)
        /\ Len(base) = IF 1 <= root THEN root - 1 + 1 ELSE 0
        /\ \A i \in 1..root - 1 + 1 : base[i] = main[1 + i - 1]
    BY <1>1, SubSeqProperties
  <2> QED BY <1>1, <2>1
<1> HIDE DEF base
<1>3. /\ base \o own \in Seq(AnyCommit) /\ Len(base \o own) = Len(base) + Len(own)
      /\ \A i \in 1 .. Len(base) + Len(own) :
           (base \o own)[i] = IF i <= Len(base) THEN base[i] ELSE own[i - Len(base)]
  BY <1>2, ConcatProperties
<1> QED BY <1>1, <1>2, <1>3 DEF base

LEMMA BranchIs ==
  ASSUME HistoryTyped
  PROVE  /\ Branch \in Seq(AnyCommit) /\ Len(Branch) = clone.root + Len(clone.own)
         /\ \A i \in 1..Len(Branch) :
              Branch[i] = IF i <= clone.root THEN remote[i] ELSE clone.own[i - clone.root]
<1>1. clone.root \in 0..Len(remote) /\ clone.own \in Seq(AnyCommit) /\ remote \in Seq(AnyCommit)
  BY Lengths DEF HistoryTyped
<1> QED BY <1>1, Grafted DEF Branch, Base

LEMMA After ==
  ASSUME NEW main \in Seq(AnyCommit), NEW root \in Nat, NEW tip \in root..Len(main)
  PROVE  /\ SubSeq(main, root + 1, tip) \in Seq(AnyCommit)
         /\ Len(SubSeq(main, root + 1, tip)) = tip - root
         /\ \A i \in 1..(tip - root) : SubSeq(main, root + 1, tip)[i] = main[root + i]
<1>1. Len(main) \in Nat /\ \A i \in 1..Len(main) : main[i] \in AnyCommit
  BY LenProperties, ElementOfSeq
<1> DEFINE first == root + 1
           new == SubSeq(main, first, tip)
<1>2. first \in Int /\ tip \in Int /\ \A i \in first..tip : main[i] \in AnyCommit
  BY <1>1
<1> HIDE DEF first
<1>3. /\ new \in Seq(AnyCommit)
      /\ Len(new) = IF first <= tip THEN tip - first + 1 ELSE 0
      /\ \A i \in 1 .. tip - first + 1 : new[i] = main[first + i - 1]
  BY <1>2, SubSeqProperties
<1> HIDE DEF new
<1>4. Len(new) = tip - root
  BY <1>1, <1>3 DEF first
<1>5. ASSUME NEW i \in 1..(tip - root)
      PROVE  new[i] = main[root + i]
  <2>1. i \in 1 .. tip - first + 1 /\ first + i - 1 = root + i
    BY <1>1 DEF first
  <2> QED BY <1>3, <2>1
<1> QED BY <1>3, <1>4, <1>5 DEF new, first

LEMMA NewIs ==
  ASSUME HistoryTyped, NEW tip \in clone.root..Len(remote)
  PROVE  /\ New(tip) \in Seq(AnyCommit) /\ Len(New(tip)) = tip - clone.root
         /\ \A i \in 1..(tip - clone.root) : New(tip)[i] = remote[clone.root + i]
<1>1. remote \in Seq(AnyCommit) /\ clone.root \in Nat
  BY DEF HistoryTyped
<1> QED BY <1>1, After DEF New

(* Prefixes, by their entries. *)
LEMMA PrefixIff ==
  ASSUME NEW S, NEW s \in Seq(S), NEW t \in Seq(S)
  PROVE  IsPrefix(s, t) <=> Len(s) <= Len(t) /\ \A i \in 1..Len(s) : s[i] = t[i]
<1>1. Len(s) \in Nat /\ Len(t) \in Nat
  BY LenProperties
<1>2. SubSeq(s, 1, Len(s)) = s
  BY SubSeqFull
<1> SUFFICES ASSUME Len(s) <= Len(t)
             PROVE  s = SubSeq(t, 1, Len(s)) <=> \A i \in 1..Len(s) : s[i] = t[i]
  BY <1>2 DEF IsPrefix
<1>3. \A i \in 1..Len(s) : t[i] \in S
  BY <1>1, ElementOfSeq
<1>4. /\ SubSeq(t, 1, Len(s)) \in Seq(S) /\ Len(SubSeq(t, 1, Len(s))) = Len(s)
      /\ \A i \in 1..Len(s) : SubSeq(t, 1, Len(s))[i] = t[i]
  <2>1. /\ SubSeq(t, 1, Len(s)) \in Seq(S)
        /\ Len(SubSeq(t, 1, Len(s))) = IF 1 <= Len(s) THEN Len(s) - 1 + 1 ELSE 0
        /\ \A i \in 1..Len(s) - 1 + 1 : SubSeq(t, 1, Len(s))[i] = t[1 + i - 1]
    BY <1>1, <1>3, SubSeqProperties
  <2> QED BY <1>1, <2>1
<1>5. ASSUME \A i \in 1..Len(s) : s[i] = t[i]
      PROVE  s = SubSeq(t, 1, Len(s))
  BY <1>4, <1>5, SeqEqual
<1> QED BY <1>4, <1>5

(* new is what main got after the root: the first k of own, then nothing   *)
(* of it.  It begins own as long as it is no longer than that; otherwise   *)
(* k commits are all they share.                                           *)
LEMMA SharedPrefix ==
  ASSUME NEW new \in Seq(AnyCommit), NEW own \in Seq(AnyCommit), NEW k \in Nat, k <= Len(own),
         \A i \in 1..Len(new) : i <= k => new[i] = own[i],
         \A i \in 1..Len(new) : i > k => new[i] \notin Ours,
         \A i \in 1..Len(own) : own[i] \in Ours
  PROVE  /\ IsPrefix(new, own) <=> Len(new) <= k
         /\ Len(new) > k => Len(LongestCommonPrefix({new, own})) = k
<1>1. Len(new) \in Nat /\ Len(own) \in Nat
  BY LenProperties
<1>2. ASSUME Len(new) <= k
      PROVE  IsPrefix(new, own)
  <2>1. Len(new) <= Len(own)
    BY <1>1, <1>2
  <2>2. \A i \in 1..Len(new) : new[i] = own[i]
    BY <1>1, <1>2
  <2> QED BY <2>1, <2>2, PrefixIff
<1>3. ASSUME NEW s \in Seq(AnyCommit), IsPrefix(s, new), IsPrefix(s, own)
      PROVE  Len(s) \in Nat /\ Len(s) <= k
  <2>1. Len(s) \in Nat
    BY LenProperties
  <2>2. Len(s) <= Len(new) /\ \A i \in 1..Len(s) : s[i] = new[i]
    BY <1>3, PrefixIff
  <2>3. Len(s) <= Len(own) /\ \A i \in 1..Len(s) : s[i] = own[i]
    BY <1>3, PrefixIff
  <2>4. ASSUME Len(s) > k
        PROVE  FALSE
    <3> DEFINE next == k + 1
    <3>1. next \in 1..Len(s) /\ next \in 1..Len(new) /\ next \in 1..Len(own) /\ next > k
      BY <1>1, <2>1, <2>2, <2>3, <2>4
    <3> HIDE DEF next
    <3>2. new[next] = own[next]
      BY <2>2, <2>3, <3>1
    <3> QED BY <3>1, <3>2
  <2> QED BY <2>1, <2>4
<1>4. ASSUME Len(new) > k
      PROVE  ~IsPrefix(new, own) /\ Len(LongestCommonPrefix({new, own})) = k
  <2> DEFINE both == {new, own}
             shared == SubSeq(own, 1, k)
  <2>1. IsPrefix(new, new)
    BY PrefixIff
  <2>2. ~IsPrefix(new, own)
    BY <1>1, <1>3, <1>4, <2>1
  <2>3. shared \in Seq(AnyCommit) /\ Len(shared) = k /\ \A i \in 1..k : shared[i] = own[i]
    <3>1. \A i \in 1..k : own[i] \in AnyCommit
      BY <1>1, ElementOfSeq
    <3>2. /\ shared \in Seq(AnyCommit) /\ Len(shared) = IF 1 <= k THEN k - 1 + 1 ELSE 0
          /\ \A i \in 1..k - 1 + 1 : shared[i] = own[1 + i - 1]
      BY <3>1, SubSeqProperties
    <3> HIDE DEF shared
    <3> QED BY <3>2
  <2>4. shared \in Prefixes(own)
    BY <1>1 DEF Prefixes
  <2> HIDE DEF shared
  <2>5. IsPrefix(shared, own)
    BY <2>3, PrefixIff
  <2>6. IsPrefix(shared, new)
    <3>1. k <= Len(new) /\ \A i \in 1..k : shared[i] = new[i]
      BY <1>1, <1>4, <2>3
    <3> QED BY <2>3, <3>1, PrefixIff
  <2>7. shared \in CommonPrefixes(both)
    BY <2>4, <2>5, <2>6 DEF CommonPrefixes
  <2>8. \A other \in CommonPrefixes(both) : Len(other) \in Nat /\ Len(other) <= k
    <3> SUFFICES ASSUME NEW other \in CommonPrefixes(both)
                 PROVE  Len(other) \in Nat /\ Len(other) <= k
      OBVIOUS
    <3>1. /\ \E s \in both : other \in Prefixes(s)
          /\ IsPrefix(other, new) /\ IsPrefix(other, own)
      BY DEF CommonPrefixes
    <3>2. PICK s \in both : other \in Prefixes(s)
      BY <3>1
    <3>3. PICK l \in 0..Len(s) : other = SubSeq(s, 1, l)
      BY <3>2 DEF Prefixes
    <3>4. s \in Seq(AnyCommit) /\ Len(s) \in Nat
      BY <1>1
    <3> HIDE DEF both
    <3>5. \A i \in 1..l : s[i] \in AnyCommit
      BY <3>4, ElementOfSeq
    <3>6. other \in Seq(AnyCommit)
      BY <3>3, <3>5, SubSeqProperties
    <3> QED BY <1>3, <3>1, <3>6
  <2> HIDE DEF both
  <2>9. /\ LongestCommonPrefix(both) \in CommonPrefixes(both)
        /\ \A other \in CommonPrefixes(both) : Len(other) <= Len(LongestCommonPrefix(both))
    BY <2>3, <2>7, <2>8 DEF LongestCommonPrefix
  <2>10. PICK longest : longest = LongestCommonPrefix(both)
    OBVIOUS
  <2>11. Len(longest) \in Nat /\ Len(longest) <= k /\ k <= Len(longest)
    BY <2>3, <2>7, <2>8, <2>9, <2>10
  <2>12. Len(longest) = k
    BY <2>11
  <2> QED BY <2>2, <2>10, <2>12 DEF both
<1> QED BY <1>1, <1>2, <1>4

(* What main got after the root, of which the first k are the clone's own. *)
LEMMA NewAfter ==
  ASSUME HistoryTyped, NEW k \in Nat, Taken(k), NEW tip \in clone.root..Len(remote)
  PROVE  /\ New(tip) \in Seq(AnyCommit) /\ Len(New(tip)) = tip - clone.root
         /\ clone.own \in Seq(AnyCommit) /\ k <= Len(clone.own)
         /\ \A i \in 1..Len(New(tip)) : i <= k => New(tip)[i] = clone.own[i]
         /\ \A i \in 1..Len(New(tip)) : i > k => New(tip)[i] \notin Ours
         /\ \A i \in 1..Len(clone.own) : clone.own[i] \in Ours
<1>1. /\ New(tip) \in Seq(AnyCommit) /\ Len(New(tip)) = tip - clone.root
      /\ \A i \in 1..(tip - clone.root) : New(tip)[i] = remote[clone.root + i]
  BY NewIs
<1>2. /\ clone.own \in Seq(AnyCommit) /\ Len(clone.own) \in Nat /\ clone.root \in Nat
      /\ Len(remote) \in Nat
      /\ \A i \in 1..Len(clone.own) : clone.own[i] \in Ours
      /\ Ours \intersect Theirs = {}
  BY Lengths
<1>3. /\ k <= Len(clone.own)
      /\ \A i \in 1..k : remote[clone.root + i] = clone.own[i]
      /\ \A i \in 1..Len(remote) : i > clone.root + k => remote[i] \in Theirs
  BY <1>2 DEF Taken
<1>4. ASSUME NEW i \in 1..Len(New(tip)), i > k
      PROVE  New(tip)[i] \notin Ours
  <2>1. i \in 1..(tip - clone.root)
    BY <1>1
  <2>2. clone.root + i \in 1..Len(remote) /\ clone.root + i > clone.root + k
    BY <1>2, <1>4, <2>1
  <2>3. New(tip)[i] = remote[clone.root + i]
    BY <1>1, <2>1
  <2>4. remote[clone.root + i] \in Theirs
    BY <1>3, <2>2
  <2> QED BY <1>2, <2>3, <2>4
<1>5. ASSUME NEW i \in 1..Len(New(tip)), i <= k
      PROVE  New(tip)[i] = clone.own[i]
  <2>1. i \in 1..(tip - clone.root) /\ i \in 1..k
    BY <1>1, <1>2, <1>5
  <2> QED BY <1>1, <1>3, <2>1
<1> QED BY <1>1, <1>2, <1>3, <1>4, <1>5

(* A push is accepted, and a rebase keeps the old tree, as long as what    *)
(* main got are the clone's own commits.                                   *)
LEMMA RelatedIff ==
  ASSUME HistoryTyped, NEW k \in Nat, Taken(k), NEW tip \in clone.root..Len(remote)
  PROVE  Related(tip) <=> tip - clone.root <= k
<1>1. IsPrefix(New(tip), clone.own) <=> Len(New(tip)) <= k
  BY NewAfter, SharedPrefix
<1>2. Len(New(tip)) = tip - clone.root
  BY NewIs
<1> QED BY <1>1, <1>2 DEF Related

(* A replay finds out how many of the clone's commits main has taken. *)
LEMMA LandedIs ==
  ASSUME HistoryTyped, NEW k \in Nat, Taken(k), NEW tip \in clone.root..Len(remote), ~Related(tip)
  PROVE  Landed(tip) = k
<1>1. Len(New(tip)) > k
  <2>1. clone.root \in Nat /\ Len(remote) \in Nat
    BY Lengths
  <2> QED BY <2>1, NewAfter, RelatedIff
<1> QED BY <1>1, NewAfter, SharedPrefix DEF Landed

------------------------------------------------------------------------------
(* Sections on a branch *)

Distinct(branch) ==
  \A i, j \in 1..Len(branch) : i # j => branch[i].secs \intersect branch[j].secs = {}

(* d is b with sh commits that hold no section put in after the first lo.  *)
SpreadAt(b, d, lo, sh) ==
  /\ lo <= Len(b) /\ Len(d) = Len(b) + sh
  /\ \A i \in 1..lo : d[i] = b[i]
  /\ \A i \in 1..sh : d[lo + i].secs = {}
  /\ \A i \in 1..Len(b) : i > lo => d[i + sh] = b[i]
Spread(b, d) == \E lo, sh \in Nat : SpreadAt(b, d, lo, sh)

LEMMA SectionsIff ==
  ASSUME NEW b \in Seq(AnyCommit)
  PROVE  \A s : s \in SectionsOn(b) <=> \E i \in 1..Len(b) : s \in b[i].secs
<1>1. DOMAIN b = 1..Len(b)
  BY LenProperties
<1> QED BY <1>1 DEF SectionsOn, Commits

LEMMA SpreadKeeps ==
  ASSUME NEW b \in Seq(AnyCommit), NEW d \in Seq(AnyCommit), Spread(b, d)
  PROVE  SectionsOn(d) = SectionsOn(b) /\ (Distinct(b) => Distinct(d))
<1>1. PICK lo \in Nat, sh \in Nat : SpreadAt(b, d, lo, sh)
  BY DEF Spread
<1>2. Len(b) \in Nat /\ Len(d) \in Nat
  BY LenProperties
<1>3. \A i \in 1..Len(d) :
        \/ i <= lo /\ i \in 1..Len(b) /\ d[i] = b[i]
        \/ i > lo /\ i <= lo + sh /\ d[i].secs = {}
        \/ i > lo + sh /\ i - sh \in 1..Len(b) /\ d[i] = b[i - sh]
  <2> SUFFICES ASSUME NEW i \in 1..Len(d)
               PROVE  \/ i <= lo /\ i \in 1..Len(b) /\ d[i] = b[i]
                      \/ i > lo /\ i <= lo + sh /\ d[i].secs = {}
                      \/ i > lo + sh /\ i - sh \in 1..Len(b) /\ d[i] = b[i - sh]
    OBVIOUS
  <2>1. CASE i <= lo
    BY <1>1, <1>2, <2>1 DEF SpreadAt
  <2>2. CASE i > lo /\ i <= lo + sh
    <3>1. i - lo \in 1..sh /\ lo + (i - lo) = i
      BY <2>2
    <3> QED BY <1>1, <2>2, <3>1 DEF SpreadAt
  <2>3. CASE i > lo + sh
    <3>1. i - sh \in 1..Len(b) /\ i - sh > lo /\ (i - sh) + sh = i
      BY <1>1, <1>2, <2>3 DEF SpreadAt
    <3> QED BY <1>1, <2>3, <3>1 DEF SpreadAt
  <2> QED BY <2>1, <2>2, <2>3
<1>4. \A i \in 1..Len(b) :
        \/ i \in 1..Len(d) /\ d[i] = b[i]
        \/ i + sh \in 1..Len(d) /\ d[i + sh] = b[i]
  BY <1>1, <1>2 DEF SpreadAt
<1>5. \A s : s \in SectionsOn(d) => s \in SectionsOn(b)
  BY <1>3, SectionsIff
<1>6. \A s : s \in SectionsOn(b) => s \in SectionsOn(d)
  BY <1>4, SectionsIff
<1>7. ASSUME Distinct(b), NEW i \in 1..Len(d), NEW j \in 1..Len(d), i # j
      PROVE  d[i].secs \intersect d[j].secs = {}
  <2>1. CASE d[i].secs = {} \/ d[j].secs = {}
    BY <2>1
  <2>2. CASE d[i].secs # {} /\ d[j].secs # {}
    <3>1. /\ \/ i <= lo /\ i \in 1..Len(b) /\ d[i] = b[i]
             \/ i > lo + sh /\ i - sh \in 1..Len(b) /\ d[i] = b[i - sh]
          /\ \/ j <= lo /\ j \in 1..Len(b) /\ d[j] = b[j]
             \/ j > lo + sh /\ j - sh \in 1..Len(b) /\ d[j] = b[j - sh]
      BY <1>3, <2>2
    <3> DEFINE m == IF i <= lo THEN i ELSE i - sh
               n == IF j <= lo THEN j ELSE j - sh
    <3>2. m \in 1..Len(b) /\ d[i] = b[m] /\ n \in 1..Len(b) /\ d[j] = b[n]
      <4>1. m \in 1..Len(b) /\ d[i] = b[m]
        BY <3>1
      <4>2. n \in 1..Len(b) /\ d[j] = b[n]
        BY <3>1
      <4> QED BY <4>1, <4>2
    <3>3. m # n
      BY <1>7, <3>1
    <3> HIDE DEF m, n
    <3> QED BY <1>7, <3>2, <3>3 DEF Distinct
  <2> QED BY <2>1, <2>2
<1> QED BY <1>5, <1>6, <1>7 DEF Distinct

(* Main holds what it took, and nothing of a section besides.              *)
LEMMA MainIsBehind ==
  ASSUME HistoryTyped, NEW k \in Nat, Taken(k)
  PROVE  /\ SectionsOn(remote) \subseteq SectionsOn(Branch)
         /\ Distinct(Branch) => Distinct(remote)
<1>1. /\ Len(remote) \in Nat /\ clone.root \in Nat /\ Len(clone.own) \in Nat
      /\ clone.root <= Len(remote) /\ k <= Len(clone.own)
  BY Lengths DEF HistoryTyped, Taken
<1>2. /\ Branch \in Seq(AnyCommit) /\ Len(Branch) = clone.root + Len(clone.own)
      /\ \A i \in 1..Len(Branch) :
           Branch[i] = IF i <= clone.root THEN remote[i] ELSE clone.own[i - clone.root]
  BY BranchIs
<1>3. \A i \in 1..Len(remote) :
        remote[i].secs = {} \/ (i \in 1..Len(Branch) /\ Branch[i] = remote[i])
  <2> SUFFICES ASSUME NEW i \in 1..Len(remote)
               PROVE  remote[i].secs = {} \/ (i \in 1..Len(Branch) /\ Branch[i] = remote[i])
    OBVIOUS
  <2>1. CASE i <= clone.root
    BY <1>1, <1>2, <2>1
  <2>2. CASE i > clone.root /\ i <= clone.root + k
    <3>1. i - clone.root \in 1..k /\ clone.root + (i - clone.root) = i /\ i \in 1..Len(Branch)
      BY <1>1, <1>2, <2>2
    <3>2. remote[i] = clone.own[i - clone.root]
      BY <3>1 DEF Taken
    <3> QED BY <1>1, <1>2, <2>2, <3>1, <3>2
  <2>3. CASE i > clone.root + k
    BY <2>3 DEF Taken, Theirs
  <2> QED BY <1>1, <2>1, <2>2, <2>3
<1>4. \A s : s \in SectionsOn(remote) => s \in SectionsOn(Branch)
  <2>1. \A s : s \in SectionsOn(remote) <=> \E i \in 1..Len(remote) : s \in remote[i].secs
    BY SectionsIff DEF HistoryTyped
  <2>2. \A s : s \in SectionsOn(Branch) <=> \E i \in 1..Len(Branch) : s \in Branch[i].secs
    BY <1>2, SectionsIff
  <2> SUFFICES ASSUME NEW s \in SectionsOn(remote)
               PROVE  s \in SectionsOn(Branch)
    OBVIOUS
  <2>3. PICK i \in 1..Len(remote) : s \in remote[i].secs
    BY <2>1
  <2>4. i \in 1..Len(Branch) /\ s \in Branch[i].secs
    BY <1>3, <2>3
  <2> QED BY <2>2, <2>4
<1>5. Distinct(Branch) => Distinct(remote)
  <2> SUFFICES ASSUME Distinct(Branch), NEW i \in 1..Len(remote), NEW j \in 1..Len(remote), i # j
               PROVE  remote[i].secs \intersect remote[j].secs = {}
    BY DEF Distinct
  <2> QED BY <1>3 DEF Distinct
<1> QED BY <1>4, <1>5

------------------------------------------------------------------------------
(* Rebasing *)

LEMMA DropFirst ==
  ASSUME NEW S, NEW s \in Seq(S), NEW n \in 0..Len(s)
  PROVE  /\ SubSeq(s, n + 1, Len(s)) \in Seq(S) /\ Len(SubSeq(s, n + 1, Len(s))) = Len(s) - n
         /\ \A i \in 1..Len(s) - n : SubSeq(s, n + 1, Len(s))[i] = s[n + i]
<1>1. Len(s) \in Nat /\ \A i \in n + 1..Len(s) : s[i] \in S
  BY ElementOfSeq, LenProperties
<1>2. /\ SubSeq(s, n + 1, Len(s)) \in Seq(S)
      /\ Len(SubSeq(s, n + 1, Len(s))) = IF n + 1 <= Len(s) THEN Len(s) - (n + 1) + 1 ELSE 0
      /\ \A i \in 1..Len(s) - (n + 1) + 1 : SubSeq(s, n + 1, Len(s))[i] = s[n + 1 + i - 1]
  BY <1>1, SubSeqProperties
<1> QED BY <1>1, <1>2

(* What a rebase does to the clone. *)
LEMMA RebasedFields ==
  ASSUME HistoryTyped, NEW k \in Nat, Taken(k), NEW tip \in clone.root..Len(remote),
         clone' = Rebased(tip)
  PROVE  /\ clone'.tip = tip /\ clone'.made = clone.made
         /\ clone' \in [made : BOOLEAN, root : Nat, tip : Nat, own : Seq(Ours)]
         /\ \/ clone'.root = clone.root /\ clone'.own = clone.own
            \/ /\ clone'.root = tip /\ tip - clone.root <= k
               /\ Len(clone'.own) = Len(clone.own) - (tip - clone.root)
               /\ \A i \in 1..Len(clone'.own) : clone'.own[i] = clone.own[tip - clone.root + i]
            \/ /\ clone'.root = tip /\ tip - clone.root > k
               /\ \E pre \in 0..1 :
                    /\ Len(clone'.own) = pre + Len(clone.own) - k
                    /\ \A i \in 1..pre : clone'.own[i].secs = {}
                    /\ \A i \in 1..Len(clone.own) - k : clone'.own[pre + i] = clone.own[k + i]
<1>1. /\ Len(remote) \in Nat /\ clone.root \in Nat /\ Len(clone.own) \in Nat
      /\ clone.own \in Seq(Ours) /\ k <= Len(clone.own) /\ tip \in Nat
      /\ \A i \in 1..Len(clone.own) : clone.own[i] \in Ours
      /\ clone \in [made : BOOLEAN, root : Nat, tip : Nat, own : Seq(Ours)]
  BY Lengths DEF HistoryTyped, Taken
<1>2. Len(New(tip)) = tip - clone.root
  BY NewIs
<1>3. CASE RebaseRefused \/ (~Related(tip) /\ ReplayConflicts(tip))
  <2>1. clone' = [clone EXCEPT !.tip = tip]
    BY <1>3 DEF Rebased
  <2> QED BY <1>1, <2>1
<1>4. CASE ~(RebaseRefused \/ (~Related(tip) /\ ReplayConflicts(tip))) /\ Related(tip)
  <2> DEFINE n == tip - clone.root
             rest == SubSeq(clone.own, n + 1, Len(clone.own))
  <2>1. n <= k /\ n \in Nat
    BY <1>1, <1>4, RelatedIff
  <2>2. n \in 0..Len(clone.own)
    BY <1>1, <2>1
  <2>3. /\ rest \in Seq(Ours) /\ Len(rest) = Len(clone.own) - n
        /\ \A i \in 1..Len(clone.own) - n : rest[i] = clone.own[n + i]
    BY <1>1, <2>2, DropFirst
  <2>4. \A i \in 1..Len(rest) : rest[i] = clone.own[n + i]
    BY <2>3
  <2>5. clone' = [clone EXCEPT !.root = tip, !.tip = tip, !.own = rest]
    BY <1>2, <1>4 DEF Rebased
  <2> HIDE DEF rest
  <2> QED BY <1>1, <2>1, <2>3, <2>4, <2>5
<1>5. CASE ~(RebaseRefused \/ (~Related(tip) /\ ReplayConflicts(tip))) /\ ~Related(tip)
  <2> DEFINE rest == Unlanded(tip)
             own == Restored(tip) \o rest
  <2>1. tip - clone.root > k
    BY <1>1, <1>5, RelatedIff
  <2>2. Landed(tip) = k
    BY <1>5, LandedIs
  <2>5. /\ rest \in Seq(Ours) /\ Len(rest) = Len(clone.own) - k
        /\ \A i \in 1..Len(clone.own) - k : rest[i] = clone.own[k + i]
    BY <1>1, <2>2, DropFirst DEF Unlanded
  <2>6. PICK pre \in 0..1 : /\ Restored(tip) \in Seq(Ours) /\ Len(Restored(tip)) = pre
                            /\ \A i \in 1..pre : Restored(tip)[i].secs = {}
    <3>1. By("restores", {}) \in Ours /\ By("restores", {}).secs = {}
      BY DEF By, Ours, Made
    <3>2. <<>> \in Seq(Ours) /\ Len(<<>>) = 0
      BY EmptySeq
    <3>3. <<By("restores", {})>> \in Seq(Ours) /\ Len(<<By("restores", {})>>) = 1
          /\ <<By("restores", {})>>[1] = By("restores", {})
      BY <3>1
    <3>4. Restored(tip) = <<>> \/ Restored(tip) = <<By("restores", {})>>
      BY DEF Restored
    <3>5. CASE Restored(tip) = <<>>
      BY <3>2, <3>5
    <3>6. CASE Restored(tip) = <<By("restores", {})>>
      BY <3>1, <3>3, <3>6
    <3> QED BY <3>4, <3>5, <3>6
  <2> HIDE DEF rest
  <2>7. /\ own \in Seq(Ours) /\ Len(own) = Len(Restored(tip)) + Len(rest)
        /\ \A i \in 1..Len(Restored(tip)) + Len(rest) :
             own[i] = IF i <= Len(Restored(tip)) THEN Restored(tip)[i] ELSE rest[i - Len(Restored(tip))]
    <3>1. Restored(tip) \in Seq(Ours)
      BY <2>6
    <3>2. rest \in Seq(Ours)
      BY <2>5
    <3> QED BY <3>1, <3>2, ConcatProperties
  <2> HIDE DEF own
  <2>8. ASSUME NEW i \in 1..pre
        PROVE  own[i].secs = {}
    <3>1. Len(rest) \in Nat /\ Len(Restored(tip)) = pre
      BY <1>1, <2>5, <2>6
    <3>2. i \in 1..Len(Restored(tip)) + Len(rest) /\ i <= Len(Restored(tip))
      BY <3>1
    <3>3. own[i] = Restored(tip)[i]
      BY <2>7, <3>2
    <3> QED BY <2>6, <3>3
  <2>9. \A i \in 1..Len(clone.own) - k : own[pre + i] = clone.own[k + i]
    <3> SUFFICES ASSUME NEW i \in 1..Len(clone.own) - k
                 PROVE  own[pre + i] = clone.own[k + i]
      OBVIOUS
    <3>1. pre + i \in 1..pre + Len(rest) /\ pre + i > pre /\ (pre + i) - pre = i
      BY <1>1, <2>5
    <3>2. Len(Restored(tip)) = pre
      BY <2>6
    <3>3. own[pre + i] = IF pre + i <= pre THEN Restored(tip)[pre + i] ELSE rest[(pre + i) - pre]
      BY <2>7, <3>1, <3>2, Zenon
    <3>4. own[pre + i] = rest[i]
      BY <3>1, <3>3
    <3> QED BY <2>5, <3>4
  <2>10. clone' = [clone EXCEPT !.root = tip, !.tip = tip, !.own = own]
    BY <1>5 DEF Rebased, rest, own
  <2>11. /\ clone'.tip = tip /\ clone'.made = clone.made /\ clone'.root = tip /\ clone'.own = own
         /\ clone' \in [made : BOOLEAN, root : Nat, tip : Nat, own : Seq(Ours)]
    BY <1>1, <2>7, <2>10
  <2> QED BY <1>1, <2>1, <2>5, <2>6, <2>7, <2>8, <2>9, <2>11
<1> QED BY <1>3, <1>4, <1>5

(* A rebase loses no commit with a section and repeats none, and leaves    *)
(* the clone with histories of the same shape.                             *)
LEMMA RebaseKeeps ==
  ASSUME HistoryInv, NEW tip \in clone.tip..Len(remote), clone' = Rebased(tip), remote' = remote
  PROVE  HistoryInv' /\ Spread(Branch, Branch')
<1>1. HistoryTyped /\ tip \in clone.root..Len(remote)
  BY Lengths DEF HistoryInv, HistoryTyped
<1>2. PICK k \in Nat : Taken(k)
  BY DEF HistoryInv
<1>3. /\ Len(remote) \in Nat /\ clone.root \in Nat /\ Len(clone.own) \in Nat /\ k <= Len(clone.own)
      /\ clone.root + k <= Len(remote) /\ clone.root <= Len(remote) /\ tip \in Nat
  BY <1>1, <1>2, Lengths DEF HistoryTyped, Taken
<1>4. /\ clone'.tip = tip
      /\ clone' \in [made : BOOLEAN, root : Nat, tip : Nat, own : Seq(Ours)]
      /\ \/ clone'.root = clone.root /\ clone'.own = clone.own
         \/ /\ clone'.root = tip /\ tip - clone.root <= k
            /\ Len(clone'.own) = Len(clone.own) - (tip - clone.root)
            /\ \A i \in 1..Len(clone'.own) : clone'.own[i] = clone.own[tip - clone.root + i]
         \/ /\ clone'.root = tip /\ tip - clone.root > k
            /\ \E pre \in 0..1 :
                 /\ Len(clone'.own) = pre + Len(clone.own) - k
                 /\ \A i \in 1..pre : clone'.own[i].secs = {}
                 /\ \A i \in 1..Len(clone.own) - k : clone'.own[pre + i] = clone.own[k + i]
  BY <1>1, <1>2, RebasedFields
<1>5. HistoryTyped'
  BY <1>1, <1>3, <1>4 DEF HistoryTyped
<1>6a. PICK own, b : own = clone.own /\ b = Branch
  OBVIOUS
<1>6. PICK root \in Nat, n \in Nat, m \in Nat :
        root = clone.root /\ n = Len(own) /\ m = Len(remote)
  BY <1>3, <1>6a
<1>7a. PICK own2, d : own2 = clone'.own /\ d = Branch'
  OBVIOUS
<1>7. PICK root2 \in Nat, n2 \in Nat : root2 = clone'.root /\ n2 = Len(own2)
  <2>1. clone'.root \in Nat /\ clone'.own \in Seq(Ours)
    BY <1>4
  <2>2. Len(clone'.own) \in Nat
    BY <2>1, LenProperties
  <2> QED BY <1>7a, <2>1, <2>2
<1>8. /\ root <= m /\ k <= n /\ root + k <= m /\ tip \in Nat /\ root <= tip /\ tip <= m
      /\ \A i \in 1..k : remote[root + i] = own[i]
      /\ \A i \in 1..m : i > root + k => remote[i] \in Theirs
  BY <1>1, <1>2, <1>3, <1>6, <1>6a DEF Taken
<1>9. /\ b \in Seq(AnyCommit) /\ Len(b) = root + n
      /\ \A i \in 1..root + n : b[i] = IF i <= root THEN remote[i] ELSE own[i - root]
  BY <1>1, <1>6, <1>6a, BranchIs
<1>10. /\ d \in Seq(AnyCommit) /\ Len(d) = root2 + n2
       /\ \A i \in 1..root2 + n2 : d[i] = IF i <= root2 THEN remote[i] ELSE own2[i - root2]
  <2>1. root2 \in 0..Len(remote) /\ remote \in Seq(AnyCommit)
    BY <1>1, <1>4, <1>6, <1>6a, <1>7, <1>7a, <1>8 DEF HistoryTyped
  <2>2. own2 \in Seq(AnyCommit)
    BY <1>1, <1>4, <1>7, <1>7a, Lengths, SeqMonotonic
  <2>3. d = SubSeq(remote, 1, root2) \o own2
    BY <1>7, <1>7a DEF Branch, Base
  <2>4. PICK main : main = remote
    OBVIOUS
  <2>5. main \in Seq(AnyCommit) /\ root2 \in 0..Len(main)
    BY <2>1, <2>4
  <2>6. /\ SubSeq(main, 1, root2) \o own2 \in Seq(AnyCommit)
        /\ Len(SubSeq(main, 1, root2) \o own2) = root2 + Len(own2)
        /\ \A i \in 1..root2 + Len(own2) :
             (SubSeq(main, 1, root2) \o own2)[i] = IF i <= root2 THEN main[i] ELSE own2[i - root2]
    BY <2>2, <2>5, Grafted
  <2>7. d = SubSeq(main, 1, root2) \o own2 /\ n2 = Len(own2)
    BY <1>7, <2>3, <2>4
  <2> QED BY <2>4, <2>6, <2>7
<1>11. \/ root2 = root /\ own2 = own /\ n2 = n
       \/ /\ root2 = tip /\ tip - root <= k /\ n2 = n - (tip - root)
          /\ \A i \in 1..n2 : own2[i] = own[tip - root + i]
       \/ /\ root2 = tip /\ tip - root > k
          /\ \E pre \in 0..1 :
               /\ n2 = pre + n - k
               /\ \A i \in 1..pre : own2[i].secs = {}
               /\ \A i \in 1..n - k : own2[pre + i] = own[k + i]
  BY <1>4, <1>6, <1>6a, <1>7, <1>7a
<1>12. ASSUME NEW j \in Nat, j <= n2, root2 + j <= m,
              \A i \in 1..j : remote[root2 + i] = own2[i],
              \A i \in 1..m : i > root2 + j => remote[i] \in Theirs
       PROVE  HistoryInv'
  <2>1. Taken(j)'
    BY <1>6, <1>6a, <1>7, <1>7a, <1>12 DEF Taken
  <2> QED BY <1>5, <2>1 DEF HistoryInv
<1>13. ASSUME NEW lo \in Nat, NEW sh \in Nat, SpreadAt(b, d, lo, sh)
       PROVE  Spread(Branch, Branch')
  BY <1>6, <1>6a, <1>7, <1>7a, <1>13 DEF Spread
<1>14. CASE root2 = root /\ own2 = own /\ n2 = n
  <2>1. HistoryInv'
    BY <1>8, <1>12, <1>14
  <2>2. d = b
    BY <1>9, <1>10, <1>14, SeqEqual
  <2>3. SpreadAt(b, d, root + n, 0)
    BY <1>9, <2>2 DEF SpreadAt
  <2> QED BY <1>13, <2>1, <2>3
<1>15. CASE /\ root2 = tip /\ tip - root <= k /\ n2 = n - (tip - root)
            /\ \A i \in 1..n2 : own2[i] = own[tip - root + i]
  <2>1. HistoryInv'
    <3>1. k - (tip - root) \in Nat /\ k - (tip - root) <= n2 /\ root2 + (k - (tip - root)) = root + k
      BY <1>8, <1>15
    <3>2. ASSUME NEW i \in 1..(k - (tip - root))
          PROVE  remote[root2 + i] = own2[i]
      <4>1. i \in 1..n2 /\ tip - root + i \in 1..k /\ root + (tip - root + i) = root2 + i
        BY <1>8, <1>15
      <4> QED BY <1>8, <1>15, <4>1
    <3> QED BY <1>8, <1>12, <3>1, <3>2
  <2>2. ASSUME NEW i \in 1..root + n
        PROVE  d[i] = b[i]
    <3>1. i \in 1..root2 + n2
      BY <1>8, <1>15
    <3>2. CASE i <= root
      <4>1. i <= tip
        BY <1>8, <3>2
      <4>2. d[i] = remote[i]
        BY <1>10, <1>15, <3>1, <4>1
      <4>3. b[i] = remote[i]
        BY <1>9, <3>2
      <4> QED BY <4>2, <4>3
    <3>3. CASE i > root /\ i <= tip
      <4>1. i - root \in 1..k /\ root + (i - root) = i /\ ~(i <= root)
        BY <1>8, <1>15, <3>3
      <4>2. remote[i] = own[i - root]
        BY <1>8, <4>1
      <4> QED BY <1>9, <1>10, <1>15, <3>1, <3>3, <4>1, <4>2
    <3>4. CASE i > tip
      <4>1. i - tip \in 1..n2 /\ tip - root + (i - tip) = i - root /\ ~(i <= root) /\ ~(i <= tip)
        BY <1>8, <1>15, <3>4
      <4>2. own2[i - tip] = own[i - root]
        BY <1>15, <4>1
      <4> QED BY <1>9, <1>10, <1>15, <3>1, <4>1, <4>2
    <3> QED BY <3>2, <3>3, <3>4
  <2>3. SpreadAt(b, d, root + n, 0)
    BY <1>8, <1>9, <1>10, <1>15, <2>2 DEF SpreadAt
  <2> QED BY <1>13, <2>1, <2>3
<1>16. ASSUME root2 = tip, tip - root > k, NEW pre \in 0..1, n2 = pre + n - k,
              \A i \in 1..pre : own2[i].secs = {},
              \A i \in 1..n - k : own2[pre + i] = own[k + i]
       PROVE  HistoryInv' /\ Spread(Branch, Branch')
  <2>1. HistoryInv'
    <3>1. \A i \in 1..m : i > root2 + 0 => remote[i] \in Theirs
      BY <1>8, <1>16
    <3> QED BY <1>8, <1>12, <1>16, <3>1
  <2>2. PICK lo \in Nat, sh \in Nat : lo = root + k /\ sh = tip + pre - (root + k)
    BY <1>8, <1>16
  <2>3. ASSUME NEW i \in 1..lo
        PROVE  d[i] = b[i]
    <3>1. i \in 1..root + n /\ i \in 1..root2 + n2 /\ i <= tip
      BY <1>8, <1>16, <2>2
    <3>2. CASE i <= root
      <4>1. i <= root2
        BY <1>8, <1>16, <3>2
      <4>2. b[i] = remote[i]
        BY <1>9, <3>1, <3>2
      <4>3. d[i] = remote[i]
        BY <1>10, <3>1, <4>1
      <4> QED BY <4>2, <4>3
    <3>3. CASE i > root
      <4>1. i - root \in 1..k /\ root + (i - root) = i /\ ~(i <= root)
        BY <2>2, <3>3
      <4>2. remote[i] = own[i - root]
        BY <1>8, <4>1
      <4> QED BY <1>9, <1>10, <1>16, <3>1, <4>1, <4>2
    <3> QED BY <3>2, <3>3
  <2>4. ASSUME NEW i \in 1..sh
        PROVE  d[lo + i].secs = {}
    <3>1. lo + i \in 1..root2 + n2 /\ lo + i > root + k
      BY <1>8, <1>16, <2>2
    <3>2. CASE lo + i <= tip
      <4>1. lo + i \in 1..m
        BY <1>8, <3>2
      <4>2. remote[lo + i] \in Theirs
        BY <1>8, <3>1, <4>1
      <4>3. d[lo + i] = remote[lo + i]
        BY <1>10, <1>16, <3>1, <3>2
      <4> QED BY <4>2, <4>3 DEF Theirs
    <3>3. CASE lo + i > tip
      <4>1. lo + i - tip \in 1..pre /\ ~(lo + i <= tip)
        BY <1>8, <2>2, <3>3
      <4>2. d[lo + i] = own2[lo + i - tip]
        BY <1>10, <1>16, <3>1, <4>1
      <4> QED BY <1>16, <4>1, <4>2
    <3> QED BY <1>8, <3>2, <3>3
  <2>5. ASSUME NEW i \in 1..root + n, i > lo
        PROVE  d[i + sh] = b[i]
    <3>1. i + sh \in 1..root2 + n2 /\ ~(i + sh <= tip) /\ ~(i <= root)
      BY <1>8, <1>16, <2>2, <2>5
    <3>2. b[i] = own[i - root]
      BY <1>9, <3>1
    <3>3. d[i + sh] = own2[i + sh - tip]
      BY <1>10, <1>16, <3>1
    <3>4. i - lo \in 1..n - k /\ pre + (i - lo) = i + sh - tip /\ k + (i - lo) = i - root
      BY <1>8, <2>2, <2>5
    <3>5. own2[pre + (i - lo)] = own[k + (i - lo)]
      BY <1>16, <3>4
    <3> QED BY <3>2, <3>3, <3>4, <3>5
  <2>6. lo <= Len(b) /\ Len(d) = Len(b) + sh
    BY <1>8, <1>9, <1>10, <1>16, <2>2
  <2>7. SpreadAt(b, d, lo, sh)
    BY <1>9, <2>3, <2>4, <2>5, <2>6 DEF SpreadAt
  <2> QED BY <1>13, <2>1, <2>7
<1> QED BY <1>11, <1>14, <1>15, <1>16

------------------------------------------------------------------------------
(* Every step on the two histories *)

(* The clone knows of no history before it is made. *)
MadeInv ==
  clone.made \/ (clone.root = 0 /\ clone.own = <<>> /\ publisher.at \in {"none", "clone"})

(* A commit of what is staged. *)
Grows == Branch' = Append(Branch, By("sections", staged)) /\ staged' = {}

LEMMA SpreadRefl ==
  ASSUME NEW b \in Seq(AnyCommit)
  PROVE  Spread(b, b)
<1>1. Len(b) \in Nat
  BY LenProperties
<1>2. SpreadAt(b, b, Len(b), 0)
  BY <1>1 DEF SpreadAt
<1> QED BY <1>1, <1>2 DEF Spread

LEMMA HistoryStays ==
  ASSUME HistoryInv, UNCHANGED <<remote, clone>>
  PROVE  HistoryInv' /\ Spread(Branch, Branch')
<1>1. HistoryInv'
  BY DEF HistoryInv, HistoryTyped, Taken
<1>2. Branch' = Branch
  BY DEF Branch, Base
<1>3. Branch \in Seq(AnyCommit)
  BY BranchIs DEF HistoryInv
<1> QED BY <1>1, <1>2, <1>3, SpreadRefl

(* Main takes the branch. *)
LEMMA PushKeeps ==
  ASSUME HistoryInv, Related(Len(remote)), remote' = Branch,
         clone' = clone \/ clone' = [clone EXCEPT !.tip = Len(Branch)]
  PROVE  HistoryInv' /\ Spread(Branch, Branch')
<1>1. PICK k \in Nat : Taken(k)
  BY DEF HistoryInv
<1>2. HistoryTyped
  BY DEF HistoryInv
<1>3. /\ Len(remote) \in Nat /\ clone.root \in Nat /\ Len(clone.own) \in Nat /\ clone.tip \in Nat
      /\ clone.root <= clone.tip /\ clone.tip <= Len(remote) /\ k <= Len(clone.own)
      /\ clone.own \in Seq(AnyCommit)
  BY <1>1, <1>2, Lengths DEF HistoryTyped, Taken
<1>4. Len(remote) - clone.root <= k
  BY <1>1, <1>2, <1>3, RelatedIff
<1>5. /\ Branch \in Seq(AnyCommit) /\ Len(Branch) = clone.root + Len(clone.own)
      /\ \A i \in 1..Len(Branch) :
           Branch[i] = IF i <= clone.root THEN remote[i] ELSE clone.own[i - clone.root]
  BY <1>2, BranchIs
<1>6. /\ clone'.root = clone.root /\ clone'.own = clone.own /\ clone'.tip \in {clone.tip, Len(Branch)}
      /\ clone' \in [made : BOOLEAN, root : Nat, tip : Nat, own : Seq(Ours)]
  BY <1>2, <1>3, <1>5 DEF HistoryTyped
<1>7. HistoryTyped'
  <2>1. clone.tip <= Len(Branch) /\ clone.root <= Len(Branch)
    BY <1>3, <1>4, <1>5
  <2> QED BY <1>3, <1>5, <1>6, <2>1 DEF HistoryTyped
<1>8. Taken(Len(clone.own))'
  <2>1. \A i \in 1..Len(clone.own) : Branch[clone.root + i] = clone.own[i]
    <3> SUFFICES ASSUME NEW i \in 1..Len(clone.own)
                 PROVE  Branch[clone.root + i] = clone.own[i]
      OBVIOUS
    <3>1. clone.root + i \in 1..Len(Branch) /\ ~(clone.root + i <= clone.root)
          /\ (clone.root + i) - clone.root = i
      BY <1>3, <1>5
    <3> QED BY <1>5, <3>1
  <2>2. \A i \in 1..Len(Branch) : ~(i > clone.root + Len(clone.own))
    BY <1>3, <1>5
  <2>3. clone'.own = clone.own /\ clone'.root = clone.root /\ Len(clone.own) \in 0..Len(clone.own)
        /\ clone.root + Len(clone.own) <= Len(Branch)
    BY <1>3, <1>5, <1>6
  <2> QED BY <2>1, <2>2, <2>3 DEF Taken
<1>9. Branch' = Branch
  <2>1. clone.root \in 0..Len(Branch)
    BY <1>3, <1>5
  <2> DEFINE d == SubSeq(Branch, 1, clone.root) \o clone.own
  <2>1a. clone.own \in Seq(AnyCommit) /\ Branch \in Seq(AnyCommit)
    BY <1>3, <1>5
  <2>2. /\ d \in Seq(AnyCommit) /\ Len(d) = clone.root + Len(clone.own)
        /\ \A i \in 1..clone.root + Len(clone.own) :
             d[i] = IF i <= clone.root THEN Branch[i] ELSE clone.own[i - clone.root]
    BY <2>1, <2>1a, Grafted
  <2>3. Branch' = d
    BY <1>6 DEF Branch, Base
  <2> HIDE DEF d
  <2>4. d = Branch
    BY <1>5, <2>2, SeqEqual
  <2> QED BY <2>3, <2>4
<1>10. HistoryInv'
  BY <1>3, <1>6, <1>7, <1>8 DEF HistoryInv
<1> QED BY <1>5, <1>9, <1>10, SpreadRefl

(* Others put a commit on main. *)
LEMMA OthersKeep ==
  ASSUME HistoryInv, NEW what \in Foreign, OthersCommit(what)
  PROVE  HistoryInv' /\ Spread(Branch, Branch')
<1>1. PICK k \in Nat : Taken(k)
  BY DEF HistoryInv
<1>2. HistoryTyped /\ remote \in Seq(AnyCommit) /\ clone.own \in Seq(AnyCommit)
  BY Lengths DEF HistoryInv, HistoryTyped
<1>3. /\ Len(remote) \in Nat /\ clone.root \in Nat /\ Len(clone.own) \in Nat /\ clone.tip \in Nat
      /\ clone.root <= clone.tip /\ clone.tip <= Len(remote)
      /\ k <= Len(clone.own) /\ clone.root + k <= Len(remote)
  BY <1>1, <1>2, Lengths DEF HistoryTyped, Taken
<1>4. By(what, {}) \in AnyCommit /\ By(what, {}) \in Theirs
  BY DEF By, AnyCommit, Theirs
<1>5. PICK m : m = Append(remote, By(what, {}))
  OBVIOUS
<1>6. /\ m \in Seq(AnyCommit) /\ Len(m) = Len(remote) + 1
      /\ \A i \in 1..Len(remote) : m[i] = remote[i]
      /\ m[Len(remote) + 1] = By(what, {})
  BY <1>2, <1>4, <1>5, AppendProperties
<1>7. remote' = m /\ clone' = clone
  BY <1>5 DEF OthersCommit, disk
<1>8. HistoryTyped'
  BY <1>2, <1>3, <1>6, <1>7 DEF HistoryTyped
<1>9. Taken(k)'
  <2>1. \A i \in 1..k : m[clone.root + i] = clone.own[i]
    <3>1. \A i \in 1..k : clone.root + i \in 1..Len(remote)
      BY <1>3
    <3> QED BY <1>1, <1>6, <3>1 DEF Taken
  <2>2. \A i \in 1..Len(m) : i > clone.root + k => m[i] \in Theirs
    <3>1. \A i \in 1..Len(m) : i \in 1..Len(remote) \/ i = Len(remote) + 1
      BY <1>3, <1>6
    <3> QED BY <1>1, <1>4, <1>6, <3>1 DEF Taken
  <2>3. k \in 0..Len(clone.own) /\ clone.root + k <= Len(m)
    BY <1>3, <1>6
  <2> QED BY <1>7, <2>1, <2>2, <2>3 DEF Taken
<1>10. Branch' = Branch
  <2>1. clone.root \in 0..Len(m) /\ clone.root \in 0..Len(remote)
    BY <1>3, <1>6
  <2> DEFINE d == SubSeq(m, 1, clone.root) \o clone.own
  <2>2. /\ d \in Seq(AnyCommit) /\ Len(d) = clone.root + Len(clone.own)
        /\ \A i \in 1..clone.root + Len(clone.own) :
             d[i] = IF i <= clone.root THEN m[i] ELSE clone.own[i - clone.root]
    BY <1>2, <1>6, <2>1, Grafted
  <2>3. /\ Branch \in Seq(AnyCommit) /\ Len(Branch) = clone.root + Len(clone.own)
        /\ \A i \in 1..Len(Branch) :
             Branch[i] = IF i <= clone.root THEN remote[i] ELSE clone.own[i - clone.root]
    BY <1>2, BranchIs
  <2>4. Branch' = d
    BY <1>7 DEF Branch, Base
  <2> HIDE DEF d
  <2>5. \A i \in 1..clone.root : m[i] = remote[i]
    BY <1>3, <1>6
  <2>6. ASSUME NEW i \in 1..Len(d)
        PROVE  d[i] = Branch[i]
    <3>1. i \in 1..clone.root + Len(clone.own) /\ i \in 1..Len(Branch)
      BY <2>2, <2>3
    <3>2. d[i] = IF i <= clone.root THEN m[i] ELSE clone.own[i - clone.root]
      BY <2>2, <3>1
    <3>3. Branch[i] = IF i <= clone.root THEN remote[i] ELSE clone.own[i - clone.root]
      BY <2>3, <3>1
    <3>4. i <= clone.root => m[i] = remote[i]
      BY <1>3, <2>5
    <3> QED BY <3>2, <3>3, <3>4
  <2>7. d = Branch
    BY <2>2, <2>3, <2>6, SeqEqual
  <2> QED BY <2>4, <2>7
<1>11. HistoryInv'
  BY <1>8, <1>9 DEF HistoryInv
<1>12. Branch \in Seq(AnyCommit)
  BY <1>2, BranchIs
<1> QED BY <1>10, <1>11, <1>12, SpreadRefl

(* A publish commits. *)
LEMMA CommitKeeps ==
  ASSUME HistoryInv, staged \in SUBSET Section, Commit
  PROVE  HistoryInv' /\ Grows
<1>1. PICK k \in Nat : Taken(k)
  BY DEF HistoryInv
<1>2. HistoryTyped /\ remote \in Seq(AnyCommit) /\ clone.own \in Seq(Ours) /\ clone.own \in Seq(AnyCommit)
  BY Lengths DEF HistoryInv, HistoryTyped
<1>3. /\ Len(remote) \in Nat /\ clone.root \in Nat /\ Len(clone.own) \in Nat /\ clone.tip \in Nat
      /\ clone.root <= clone.tip /\ clone.tip <= Len(remote)
      /\ k <= Len(clone.own) /\ clone.root + k <= Len(remote)
  BY <1>1, <1>2, Lengths DEF HistoryTyped, Taken
<1>4. PICK c : c = By("sections", staged)
  OBVIOUS
<1>5. c \in Ours /\ c \in AnyCommit
  BY <1>4 DEF By, Ours, AnyCommit, Made
<1>6. PICK own2 : own2 = Append(clone.own, c)
  OBVIOUS
<1>7. /\ own2 \in Seq(Ours) /\ Len(own2) = Len(clone.own) + 1
      /\ \A i \in 1..Len(clone.own) : own2[i] = clone.own[i]
      /\ own2[Len(clone.own) + 1] = c
  BY <1>2, <1>5, <1>6, AppendProperties
<1>8. clone' = [clone EXCEPT !.own = own2] /\ remote' = remote /\ staged' = {}
  BY <1>4, <1>6 DEF Commit
<1>9. /\ clone'.own = own2 /\ clone'.root = clone.root /\ clone'.tip = clone.tip
      /\ clone' \in [made : BOOLEAN, root : Nat, tip : Nat, own : Seq(Ours)]
  BY <1>2, <1>7, <1>8 DEF HistoryTyped
<1>10. HistoryTyped'
  BY <1>2, <1>3, <1>8, <1>9 DEF HistoryTyped
<1>11. Taken(k)'
  <2>1. \A i \in 1..k : remote[clone.root + i] = own2[i]
    <3>1. \A i \in 1..k : i \in 1..Len(clone.own)
      BY <1>3
    <3> QED BY <1>1, <1>7, <3>1 DEF Taken
  <2>2. k \in 0..Len(own2)
    BY <1>3, <1>7
  <2> QED BY <1>1, <1>8, <1>9, <2>1, <2>2 DEF Taken
<1>12. Branch' = Append(Branch, c)
  <2>1. clone.root \in 0..Len(remote) /\ own2 \in Seq(AnyCommit)
    <3>1. Ours \subseteq AnyCommit
      BY <1>2, Lengths
    <3> QED BY <1>3, <1>7, <3>1, SeqMonotonic
  <2> DEFINE d == SubSeq(remote, 1, clone.root) \o own2
  <2>2. /\ d \in Seq(AnyCommit) /\ Len(d) = clone.root + Len(own2)
        /\ \A i \in 1..clone.root + Len(own2) :
             d[i] = IF i <= clone.root THEN remote[i] ELSE own2[i - clone.root]
    BY <1>2, <2>1, Grafted
  <2>3. Branch' = d
    BY <1>8, <1>9 DEF Branch, Base
  <2> HIDE DEF d
  <2>4. PICK b : b = Branch
    OBVIOUS
  <2>5. /\ b \in Seq(AnyCommit) /\ Len(b) = clone.root + Len(clone.own)
        /\ \A i \in 1..Len(b) :
             b[i] = IF i <= clone.root THEN remote[i] ELSE clone.own[i - clone.root]
    BY <1>2, <2>4, BranchIs
  <2>6. /\ Append(b, c) \in Seq(AnyCommit) /\ Len(Append(b, c)) = Len(b) + 1
        /\ \A i \in 1..Len(b) : Append(b, c)[i] = b[i]
        /\ Append(b, c)[Len(b) + 1] = c
    BY <1>5, <2>5, AppendProperties
  <2>7. /\ Len(d) = Len(b) + 1 /\ Len(own2) = Len(clone.own) + 1
        /\ Len(b) = clone.root + Len(clone.own) /\ Len(b) \in Nat
    <3>1. Len(own2) = Len(clone.own) + 1 /\ Len(d) = clone.root + Len(own2)
      BY <1>7, <2>2
    <3>2. Len(b) = clone.root + Len(clone.own)
      BY <2>5
    <3> QED BY <1>3, <3>1, <3>2
  <2>8. ASSUME NEW i \in 1..Len(d)
        PROVE  d[i] = Append(b, c)[i]
    <3>1. CASE i = Len(b) + 1
      <4>0. PICK r \in Nat, o \in Nat : r = clone.root /\ o = Len(clone.own)
        BY <1>3
      <4>1. i \in 1..clone.root + Len(own2) /\ ~(i <= clone.root) /\ i - clone.root = Len(clone.own) + 1
        <5>1. i = r + o + 1
          BY <2>7, <3>1, <4>0
        <5>2. i \in 1..r + (o + 1) /\ ~(i <= r) /\ i - r = o + 1
          BY <5>1
        <5> QED BY <2>7, <4>0, <5>2
      <4>2. d[i] = c
        BY <1>7, <2>2, <4>1
      <4> QED BY <2>6, <3>1, <4>2
    <3>2. CASE i # Len(b) + 1 /\ i <= clone.root
      <4>1. i \in 1..Len(b) /\ i \in 1..clone.root + Len(own2)
        BY <1>3, <2>7, <3>2
      <4>2. d[i] = remote[i]
        BY <2>2, <3>2, <4>1
      <4>3. b[i] = remote[i]
        BY <2>5, <3>2, <4>1
      <4> QED BY <2>6, <4>1, <4>2, <4>3
    <3>3. CASE i # Len(b) + 1 /\ ~(i <= clone.root)
      <4>0. PICK r \in Nat, o \in Nat : r = clone.root /\ o = Len(clone.own)
        BY <1>3
      <4>1. i \in 1..Len(b) /\ i \in 1..clone.root + Len(own2) /\ i - clone.root \in 1..Len(clone.own)
        <5>1. i \in 1..r + o + 1 /\ i # r + o + 1 /\ i > r
          BY <2>7, <3>3, <4>0
        <5>2. i \in 1..r + o /\ i \in 1..r + (o + 1) /\ i - r \in 1..o
          BY <5>1
        <5> QED BY <2>7, <4>0, <5>2
      <4>2. d[i] = clone.own[i - clone.root]
        <5>1. own2[i - clone.root] = clone.own[i - clone.root]
          BY <1>7, <4>1
        <5>2. d[i] = own2[i - clone.root]
          BY <2>2, <3>3, <4>1
        <5> QED BY <5>1, <5>2
      <4> QED BY <2>5, <2>6, <3>3, <4>1, <4>2
    <3> QED BY <3>1, <3>2, <3>3
  <2>9. d = Append(b, c)
    BY <2>2, <2>6, <2>7, <2>8, SeqEqual
  <2> QED BY <2>3, <2>4, <2>9
<1>13. HistoryInv'
  BY <1>10, <1>11 DEF HistoryInv
<1> QED BY <1>4, <1>8, <1>12, <1>13 DEF Grows

(* The clone is made, of a main without sections. *)
LEMMA CloneKeeps ==
  ASSUME HistoryInv, MadeInv, EnsureClone
  PROVE  HistoryInv' /\ Spread(Branch, Branch')
<1>1. CASE clone.made
  <2>1. UNCHANGED <<remote, clone>>
    BY <1>1 DEF EnsureClone
  <2> QED BY <2>1, HistoryStays
<1>2. CASE ~clone.made
  <2>1. PICK k \in Nat : Taken(k)
    BY DEF HistoryInv
  <2>2. HistoryTyped /\ Len(remote) \in Nat /\ remote \in Seq(AnyCommit)
    BY Lengths DEF HistoryInv, HistoryTyped
  <2>3. <<>> \in Seq(Ours) /\ <<>> \in Seq(AnyCommit) /\ Len(<<>>) = 0
    BY EmptySeq
  <2>4. clone.root = 0 /\ clone.own = <<>>
    BY <1>2 DEF MadeInv
  <2>5. \A i \in 1..Len(remote) : remote[i] \in Theirs
    BY <2>1, <2>2, <2>3, <2>4 DEF Taken
  <2>6. clone' = [made |-> TRUE, root |-> Len(remote), tip |-> Len(remote), own |-> <<>>]
        /\ remote' = remote
    BY <1>2 DEF EnsureClone
  <2>7. HistoryTyped'
    BY <2>2, <2>3, <2>6 DEF HistoryTyped
  <2>8. Taken(0)'
    BY <2>2, <2>3, <2>6 DEF Taken
  <2>9. HistoryInv'
    BY <2>7, <2>8 DEF HistoryInv
  <2>10. /\ Branch \in Seq(AnyCommit) /\ Len(Branch) = 0
    BY <2>2, <2>3, <2>4, BranchIs
  <2> DEFINE d == SubSeq(remote, 1, Len(remote)) \o <<>>
  <2>11. /\ d \in Seq(AnyCommit) /\ Len(d) = Len(remote)
         /\ \A i \in 1..Len(remote) : d[i] = remote[i]
    <3>1. Len(remote) \in 0..Len(remote)
      BY <2>2
    <3>2. /\ d \in Seq(AnyCommit) /\ Len(d) = Len(remote) + Len(<<>>)
          /\ \A i \in 1..Len(remote) + Len(<<>>) :
               d[i] = IF i <= Len(remote) THEN remote[i] ELSE <<>>[i - Len(remote)]
      BY <2>2, <2>3, <3>1, Grafted
    <3> HIDE DEF d
    <3> QED BY <2>2, <2>3, <3>2
  <2>12. Branch' = d
    BY <2>6 DEF Branch, Base
  <2> HIDE DEF d
  <2>13. SpreadAt(Branch, d, 0, Len(remote))
    BY <2>2, <2>5, <2>10, <2>11 DEF SpreadAt, Theirs
  <2> QED BY <2>2, <2>9, <2>12, <2>13 DEF Spread
<1> QED BY <1>1, <1>2

------------------------------------------------------------------------------
(* The publisher and the sections it has still to write *)

Status == {"unrecorded", "waiting", "publishing"} \union Ended

(* A rejected push is counted once, and the third one is the last.         *)
Counted ==
  /\ publisher.at = "push" => publisher.pushes \in 0..2
  /\ publisher.at = "resync" => publisher.pushes \in 1..3
  /\ publisher.at \notin {"push", "resync"} => publisher.pushes = 0

PublisherInv ==
  /\ dirty \subseteq Section /\ staged \subseteq Section
  /\ publisher \in [sec : Section, at : Place, pushes : 0..3, fetched : BOOLEAN] \union {NoPublisher}
  /\ status \in [Section -> Status]
  /\ \A s \in Section : status[s] = "publishing" <=> s = publisher.sec
  /\ Counted

(* Nothing of section s is in a file of the clone or in a commit yet.      *)
Unwritten(s) ==
  \/ status[s] \in {"unrecorded", "waiting"}
  \/ s = publisher.sec /\ publisher.at \in {"clone", "sync", "append"}

SectionsInv ==
  /\ Distinct(Branch)
  /\ dirty \intersect staged = {}
  /\ (dirty \union staged) \intersect SectionsOn(Branch) = {}
  /\ \A s \in Section : Unwritten(s) => s \notin dirty \union staged \union SectionsOn(Branch)

JournalInv == HistoryInv /\ MadeInv /\ PublisherInv /\ SectionsInv

LEMMA JournalStarts ==
  JournalInit => JournalInv
<1> SUFFICES ASSUME JournalInit
             PROVE  JournalInv
  OBVIOUS
<1>1. <<>> \in Seq(Ours) /\ <<>> \in Seq(AnyCommit) /\ Len(<<>>) = 0
  BY EmptySeq
<1>2. HistoryTyped
  BY <1>1 DEF JournalInit, HistoryTyped
<1>3. Taken(0)
  BY <1>1 DEF JournalInit, Taken
<1>4. MadeInv
  BY DEF JournalInit, MadeInv, NoPublisher
<1>5. PublisherInv
  BY JournalAssumption DEF JournalInit, PublisherInv, Counted, NoPublisher, Status
<1>6. Branch \in Seq(AnyCommit) /\ Len(Branch) = 0
  BY <1>1, <1>2, BranchIs DEF JournalInit
<1>7. SectionsOn(Branch) = {} /\ Distinct(Branch)
  <2>1. 1..Len(Branch) = {}
    BY <1>6
  <2>2. \A s : s \notin SectionsOn(Branch)
    BY <1>6, <2>1, SectionsIff, Zenon
  <2> QED BY <2>1, <2>2 DEF Distinct
<1>8. SectionsInv
  BY <1>7 DEF JournalInit, SectionsInv
<1> QED BY <1>2, <1>3, <1>4, <1>5, <1>8 DEF JournalInv, HistoryInv

(* The ways a publish ends leave it typed. *)
LEMMA EndKeepsPublisher ==
  ASSUME PublisherInv, NEW how \in Ended, publisher.at \in Place, Ends(how),
         UNCHANGED <<dirty, staged>>
  PROVE  PublisherInv'
<1>1. publisher.at # NoPublisher.at
  BY DEF NoPublisher, Place
<1>2. publisher.sec \in Section /\ NoSection \notin Section
  BY <1>1, JournalAssumption DEF PublisherInv
<1>3. publisher' = NoPublisher /\ status' = [status EXCEPT ![publisher.sec] = how]
  BY DEF Ends
<1>4. status' \in [Section -> Status]
  BY <1>2, <1>3 DEF PublisherInv, Status
<1>5. how # "publishing"
  BY DEF Ended
<1>6. \A s \in Section : status'[s] = "publishing" <=> s = publisher'.sec
  BY <1>2, <1>3, <1>5 DEF PublisherInv, NoPublisher
<1>7. Counted'
  BY <1>3 DEF Counted, NoPublisher
<1> QED BY <1>3, <1>4, <1>6, <1>7 DEF PublisherInv

(* A step of the publisher that stays typed and counted. *)
LEMMA StepKeepsPublisher ==
  ASSUME PublisherInv, publisher.at \in Place,
         dirty' \subseteq Section, staged' \subseteq Section, status' = status,
         publisher' \in [sec : {publisher.sec}, at : Place, pushes : 0..3, fetched : BOOLEAN],
         Counted'
  PROVE  PublisherInv'
<1>1. publisher.at # NoPublisher.at
  BY DEF NoPublisher, Place
<1>2. publisher.sec \in Section /\ publisher'.sec = publisher.sec
  BY <1>1 DEF PublisherInv
<1>3. publisher' \in [sec : Section, at : Place, pushes : 0..3, fetched : BOOLEAN]
  BY <1>2
<1> QED BY <1>2, <1>3 DEF PublisherInv

LEMMA PublisherStep ==
  ASSUME PublisherInv, [JournalNext]_journalVars
  PROVE  PublisherInv'
<1> USE DEF Goes
<1>0. ASSUME publisher.at \in Place
      PROVE  publisher \in [sec : Section, at : Place, pushes : 0..3, fetched : BOOLEAN]
  BY <1>0 DEF PublisherInv, NoPublisher, Place
<1>1. ASSUME NEW s \in Section, Record(s)
      PROVE  PublisherInv'
  BY <1>1 DEF Record, PublisherInv, Counted, Status, disk
<1>2. ASSUME NEW s \in Section, TakeLock(s)
      PROVE  PublisherInv'
  <2>1. publisher' = [sec |-> s, at |-> "clone", pushes |-> 0, fetched |-> TRUE]
    BY <1>2 DEF TakeLock, NoPublisher
  <2>2. status' = [status EXCEPT ![s] = "publishing"] /\ UNCHANGED <<dirty, staged>>
    BY <1>2 DEF TakeLock, disk
  <2>3. publisher.sec \notin Section
    BY <1>2, JournalAssumption DEF TakeLock, NoPublisher
  <2>4. Counted'
    BY <2>1 DEF Counted
  <2>5. \A t \in Section : status'[t] = "publishing" <=> t = publisher'.sec
    BY <2>1, <2>2, <2>3 DEF PublisherInv
  <2>6. status' \in [Section -> Status]
    BY <2>2 DEF PublisherInv, Status
  <2> QED BY <2>1, <2>2, <2>4, <2>5, <2>6 DEF PublisherInv, Place
<1>3. CASE EnsureClone
  BY <1>0, <1>3, StepKeepsPublisher DEF EnsureClone, PublisherInv, Counted, Place
<1>4. CASE Sync
  <2>1. publisher.at \in Place /\ UNCHANGED <<dirty, staged>> /\ AfterSync
    BY <1>4 DEF Sync, Place
  <2>2. CASE publisher.at = "sync"
    BY <1>0, <2>1, <2>2, StepKeepsPublisher DEF AfterSync, PublisherInv, Counted, Place
  <2>3. CASE publisher.at = "resync" /\ publisher.pushes < 3
    BY <1>0, <2>1, <2>3, StepKeepsPublisher DEF AfterSync, PublisherInv, Counted, Place
  <2>4. CASE publisher.at = "resync" /\ ~(publisher.pushes < 3)
    <3>1. PICK how \in {"gaveUp", "failed"} : Ends(how)
      BY <2>1, <2>4 DEF AfterSync
    <3>2. how \in Ended
      BY DEF Ended
    <3> QED BY <2>1, <3>1, <3>2, EndKeepsPublisher
  <2> QED BY <1>4, <2>2, <2>3, <2>4 DEF Sync
<1>5. CASE AppendSection
  BY <1>0, <1>5, StepKeepsPublisher DEF AppendSection, PublisherInv, Counted, Place
<1>6. CASE Add
  BY <1>0, <1>6, StepKeepsPublisher DEF Add, PublisherInv, Counted, Place
<1>7. CASE Commit
  BY <1>0, <1>7, StepKeepsPublisher DEF Commit, PublisherInv, Counted, Place
<1>8. CASE Push
  <2>1. publisher.at = "push" /\ publisher.at \in Place /\ UNCHANGED <<dirty, staged>>
    BY <1>8 DEF Push, Place
  <2>2. CASE Ends("pushed")
    BY <2>1, <2>2, EndKeepsPublisher DEF Ended
  <2>3. CASE publisher' = [publisher EXCEPT !.at = "resync", !.pushes = @ + 1] /\ status' = status
    <3>1. publisher.pushes \in 0..2
      BY <2>1 DEF PublisherInv, Counted
    <3>2. publisher.pushes + 1 \in 1..3
      BY <3>1
    <3>3. publisher' \in [sec : {publisher.sec}, at : Place, pushes : 0..3, fetched : BOOLEAN]
          /\ publisher'.at = "resync" /\ publisher'.pushes = publisher.pushes + 1
      <4>1. PICK n \in 0..3 : n = publisher.pushes + 1
        BY <3>2
      <4>2. publisher' = [publisher EXCEPT !.at = "resync", !.pushes = n]
        BY <2>3, <4>1
      <4> QED BY <1>0, <2>1, <4>1, <4>2 DEF Place
    <3>4. Counted'
      BY <3>2, <3>3 DEF Counted
    <3>5. dirty' \subseteq Section /\ staged' \subseteq Section
      BY <2>1 DEF PublisherInv
    <3> QED BY <2>1, <2>3, <3>3, <3>4, <3>5, StepKeepsPublisher
  <2> QED BY <1>8, <2>2, <2>3 DEF Push
<1>9. CASE Unreachable
  <2>1. UNCHANGED <<dirty, staged>> /\ publisher.at \in Place
    BY <1>9 DEF Unreachable, Place
  <2>2. CASE Ends("unreachable") \/ Ends("failed")
    BY <2>1, <2>2, EndKeepsPublisher DEF Ended
  <2>3. CASE /\ publisher.at = "sync" /\ status' = status
             /\ publisher' = [publisher EXCEPT !.at = "append", !.fetched = FALSE]
    BY <1>0, <2>1, <2>3, StepKeepsPublisher DEF PublisherInv, Counted, Place
  <2>4. CASE /\ publisher.at = "resync" /\ status' = status /\ publisher.pushes < 3
             /\ publisher' = [publisher EXCEPT !.at = "push", !.fetched = FALSE]
    <3>1. publisher.pushes \in 0..2
      BY <1>0, <2>1, <2>4
    <3>2. publisher' \in [sec : {publisher.sec}, at : Place, pushes : 0..3, fetched : BOOLEAN]
          /\ publisher'.at = "push" /\ publisher'.pushes = publisher.pushes
      BY <1>0, <2>1, <2>4 DEF Place
    <3>3. Counted'
      BY <3>1, <3>2 DEF Counted
    <3>4. dirty' \subseteq Section /\ staged' \subseteq Section
      BY <2>1 DEF PublisherInv
    <3> QED BY <2>1, <2>4, <3>2, <3>3, <3>4, StepKeepsPublisher
  <2> QED BY <1>9, <2>2, <2>3, <2>4 DEF Unreachable
<1>10. CASE Fail
  BY <1>10, EndKeepsPublisher DEF Fail, Ended, disk
<1>11. CASE Crash
  <2>1. publisher' = NoPublisher /\ UNCHANGED <<dirty, staged>>
        /\ status' = [s \in Section |-> IF status[s] \in {"waiting", "publishing"}
                                          THEN "killed" ELSE status[s]]
    BY <1>11 DEF Crash, disk
  <2>2. status' \in [Section -> Status]
    BY <2>1 DEF PublisherInv, Status, Ended
  <2>3. \A s \in Section : status'[s] # "publishing" /\ s # publisher'.sec
    BY <2>1, JournalAssumption DEF NoPublisher
  <2>4. Counted'
    BY <2>1 DEF Counted, NoPublisher
  <2> QED BY <2>1, <2>2, <2>3, <2>4 DEF PublisherInv
<1>12. ASSUME NEW what \in Foreign, OthersCommit(what)
       PROVE  PublisherInv'
  BY <1>12 DEF OthersCommit, PublisherInv, Counted, disk
<1>13. CASE UNCHANGED journalVars
  BY <1>13 DEF journalVars, disk, PublisherInv, Counted
<1> QED
  BY <1>1, <1>2, <1>3, <1>4, <1>5, <1>6, <1>7, <1>8, <1>9, <1>10, <1>11, <1>12, <1>13
     DEF JournalNext, Publish

(* Every step keeps the shape of the histories, and only a commit puts     *)
(* sections on the branch.                                                 *)
LEMMA HistoryStep ==
  ASSUME HistoryInv, MadeInv, PublisherInv, [JournalNext]_journalVars
  PROVE  HistoryInv' /\ (Spread(Branch, Branch') \/ (Commit /\ Grows))
<1> USE DEF disk
<1>0. Len(remote) \in clone.tip..Len(remote) /\ clone.tip \in clone.tip..Len(remote)
  BY Lengths DEF HistoryInv, HistoryTyped
<1>1. ASSUME NEW s \in Section, Record(s) \/ TakeLock(s)
      PROVE  HistoryInv' /\ Spread(Branch, Branch')
  BY <1>1, HistoryStays DEF Record, TakeLock
<1>2. CASE EnsureClone
  BY <1>2, CloneKeeps
<1>3. CASE Sync
  BY <1>0, <1>3, RebaseKeeps DEF Sync
<1>4. CASE AppendSection
  BY <1>4, HistoryStays DEF AppendSection
<1>5. CASE Add
  BY <1>5, HistoryStays DEF Add
<1>6. CASE Commit
  BY <1>6, CommitKeeps DEF PublisherInv
<1>7. CASE Push
  <2>1. CASE Related(Len(remote))
    BY <1>7, <2>1, PushKeeps DEF Push, Accepted
  <2>2. CASE ~Related(Len(remote))
    BY <1>7, <2>2, HistoryStays DEF Push
  <2> QED BY <2>1, <2>2
<1>8. CASE Unreachable
  <2>1. CASE UNCHANGED clone
    BY <1>8, <2>1, HistoryStays DEF Unreachable
  <2>2. CASE clone' = Rebased(clone.tip)
    BY <1>0, <1>8, <2>2, RebaseKeeps DEF Unreachable
  <2> QED BY <1>8, <2>1, <2>2 DEF Unreachable
<1>9. CASE Fail
  <2>1. CASE remote' = remote
    BY <1>9, <2>1, HistoryStays DEF Fail
  <2>2. CASE Related(Len(remote)) /\ remote' = Branch
    BY <1>9, <2>2, PushKeeps DEF Fail
  <2> QED BY <1>9, <2>1, <2>2 DEF Fail
<1>10. CASE Crash
  BY <1>10, HistoryStays DEF Crash
<1>11. ASSUME NEW what \in Foreign, OthersCommit(what)
       PROVE  HistoryInv' /\ Spread(Branch, Branch')
  BY <1>11, OthersKeep
<1>12. CASE UNCHANGED journalVars
  BY <1>12, HistoryStays DEF journalVars
<1> QED
  BY <1>1, <1>2, <1>3, <1>4, <1>5, <1>6, <1>7, <1>8, <1>9, <1>10, <1>11, <1>12
     DEF JournalNext, Publish

LEMMA MadeStep ==
  ASSUME HistoryInv, MadeInv, PublisherInv, [JournalNext]_journalVars
  PROVE  MadeInv'
<1> USE DEF disk, Goes, Ends, NoPublisher
<1>0. ASSUME NEW tip, clone' = Rebased(tip)
      PROVE  clone'.made = clone.made
  BY <1>0 DEF Rebased, HistoryInv, HistoryTyped
<1>1. ASSUME NEW s \in Section, Record(s) \/ TakeLock(s)
      PROVE  MadeInv'
  BY <1>1 DEF Record, TakeLock, MadeInv
<1>2. CASE EnsureClone
  BY <1>2 DEF EnsureClone, MadeInv
<1>3. CASE Sync
  <2>1. clone.made
    BY <1>3 DEF Sync, MadeInv
  <2>2. clone'.made
    BY <1>0, <1>3, <2>1 DEF Sync
  <2> QED BY <2>2 DEF MadeInv
<1>4. CASE AppendSection \/ Add
  BY <1>4 DEF AppendSection, Add, MadeInv
<1>5. CASE Commit
  <2>1. clone.made
    BY <1>5 DEF Commit, MadeInv
  <2>2. clone'.made
    BY <1>5, <2>1 DEF Commit, HistoryInv, HistoryTyped
  <2> QED BY <2>2 DEF MadeInv
<1>6. CASE Push
  <2>1. clone.made
    BY <1>6 DEF Push, MadeInv
  <2>2. clone'.made
    BY <1>6, <2>1 DEF Push, Accepted, HistoryInv, HistoryTyped
  <2> QED BY <2>2 DEF MadeInv
<1>7. CASE Unreachable
  <2>1. CASE UNCHANGED clone
    <3>1. publisher.at = "clone" \/ clone.made
      BY <1>7, <2>1 DEF Unreachable, MadeInv
    <3>2. publisher'.at = "none" \/ clone.made
      BY <1>7, <2>1, <3>1 DEF Unreachable
    <3> QED BY <2>1, <3>2 DEF MadeInv
  <2>2. CASE publisher.at = "resync" /\ clone' = Rebased(clone.tip)
    <3>1. clone.made
      BY <2>2 DEF MadeInv
    <3>2. clone'.made
      BY <1>0, <2>2, <3>1
    <3> QED BY <3>2 DEF MadeInv
  <2> QED BY <1>7, <2>1, <2>2 DEF Unreachable
<1>8. CASE Fail \/ Crash
  <2>1. UNCHANGED clone /\ publisher'.at = "none"
    BY <1>8 DEF Fail, Crash
  <2> QED BY <2>1 DEF MadeInv
<1>9. ASSUME NEW what \in Foreign, OthersCommit(what)
      PROVE  MadeInv'
  BY <1>9 DEF OthersCommit, MadeInv
<1>10. CASE UNCHANGED journalVars
  BY <1>10 DEF journalVars, MadeInv
<1> QED
  BY <1>1, <1>2, <1>3, <1>4, <1>5, <1>6, <1>7, <1>8, <1>9, <1>10
     DEF JournalNext, Publish

(* A step that leaves the files of the clone alone.                        *)
LEMMA SectionsStay ==
  ASSUME SectionsInv, UNCHANGED <<dirty, staged>>,
         SectionsOn(Branch') = SectionsOn(Branch), Distinct(Branch'),
         \A s \in Section : Unwritten(s)' => Unwritten(s)
  PROVE  SectionsInv'
<1>1. SectionsOn(Branch)' = SectionsOn(Branch)
  BY DEF SectionsOn, Commits
<1>2. Distinct(Branch)'
  BY DEF Distinct
<1> QED BY <1>1, <1>2 DEF SectionsInv

(* A commit moves what is staged onto the branch.                          *)
LEMMA SectionsCommitted ==
  ASSUME NEW b \in Seq(AnyCommit), NEW secs \in SUBSET Section
  PROVE  /\ SectionsOn(Append(b, By("sections", secs))) = SectionsOn(b) \union secs
         /\ Distinct(b) /\ SectionsOn(b) \intersect secs = {}
              => Distinct(Append(b, By("sections", secs)))
<1>1. PICK c : c = By("sections", secs)
  OBVIOUS
<1>2. c \in AnyCommit /\ c.secs = secs
  BY <1>1 DEF By, AnyCommit, Made
<1>3. PICK d : d = Append(b, c)
  OBVIOUS
<1>4. /\ d \in Seq(AnyCommit) /\ Len(d) = Len(b) + 1 /\ d[Len(b) + 1] = c
      /\ \A i \in 1..Len(b) : d[i] = b[i]
  BY <1>2, <1>3, AppendProperties
<1>5. Len(b) \in Nat
  BY LenProperties
<1>6. \A i \in 1..Len(d) : i \in 1..Len(b) \/ i = Len(b) + 1
  BY <1>4, <1>5
<1>7. 1..Len(b) \subseteq 1..Len(d) /\ Len(b) + 1 \in 1..Len(d)
  BY <1>4, <1>5
<1>8. \A s : s \in SectionsOn(d) <=> \E i \in 1..Len(d) : s \in d[i].secs
  BY <1>4, SectionsIff
<1>9. \A s : s \in SectionsOn(b) <=> \E i \in 1..Len(b) : s \in b[i].secs
  BY SectionsIff
<1>10. SectionsOn(d) = SectionsOn(b) \union secs
  BY <1>2, <1>4, <1>6, <1>7, <1>8, <1>9, Zenon
<1>11. ASSUME Distinct(b), SectionsOn(b) \intersect secs = {},
              NEW i \in 1..Len(d), NEW j \in 1..Len(d), i # j
       PROVE  d[i].secs \intersect d[j].secs = {}
  <2>1. CASE i \in 1..Len(b) /\ j \in 1..Len(b)
    BY <1>4, <1>11, <2>1 DEF Distinct
  <2>2. CASE i = Len(b) + 1
    <3>1. j \in 1..Len(b) /\ d[i].secs = secs /\ d[j] = b[j]
      BY <1>2, <1>4, <1>6, <1>11, <2>2
    <3> QED BY <1>9, <1>11, <3>1
  <2>3. CASE j = Len(b) + 1
    <3>1. i \in 1..Len(b) /\ d[j].secs = secs /\ d[i] = b[i]
      BY <1>2, <1>4, <1>6, <1>11, <2>3
    <3> QED BY <1>9, <1>11, <3>1
  <2> QED BY <1>6, <2>1, <2>2, <2>3
<1> QED BY <1>1, <1>3, <1>10, <1>11 DEF Distinct

LEMMA NextBranch ==
  ASSUME HistoryInv'
  PROVE  Branch' \in Seq(AnyCommit)
<1>1. /\ remote' \in Seq(AnyCommit) /\ clone' \in [made : BOOLEAN, root : Nat, tip : Nat, own : Seq(Ours)]
      /\ clone'.root <= clone'.tip /\ clone'.tip <= Len(remote')
  BY DEF HistoryInv, HistoryTyped
<1>2. clone'.own \in Seq(Ours) /\ clone'.root \in Nat /\ clone'.tip \in Nat /\ Len(remote') \in Nat
  BY <1>1, LenProperties
<1>3. Ours \subseteq AnyCommit
  BY DEF Ours, AnyCommit
<1>4. clone'.own \in Seq(AnyCommit)
  BY <1>2, <1>3, SeqMonotonic
<1> QED BY <1>1, <1>2, <1>4, Grafted DEF Branch, Base

LEMMA SectionsStep ==
  ASSUME JournalInv, [JournalNext]_journalVars
  PROVE  SectionsInv'
<1> USE DEF disk, Goes
<1>1. HistoryInv' /\ (Spread(Branch, Branch') \/ (Commit /\ Grows))
  BY HistoryStep DEF JournalInv
<1>2. Branch \in Seq(AnyCommit) /\ PublisherInv /\ SectionsInv
  BY BranchIs DEF JournalInv, HistoryInv
<1>3. Branch' \in Seq(AnyCommit)
  BY <1>1, NextBranch
<1>4. ASSUME ~Commit
      PROVE  SectionsOn(Branch') = SectionsOn(Branch) /\ Distinct(Branch')
  BY <1>1, <1>2, <1>3, <1>4, SpreadKeeps DEF SectionsInv
<1>5. ASSUME publisher.at \in Place
      PROVE  publisher.sec \in Section /\ status[publisher.sec] = "publishing"
             /\ publisher \in [sec : Section, at : Place, pushes : 0..3, fetched : BOOLEAN]
  BY <1>2, <1>5 DEF PublisherInv, NoPublisher, Place
<1>6. ASSUME ~Commit, UNCHANGED <<dirty, staged>>,
             \A s \in Section : Unwritten(s)' => Unwritten(s)
      PROVE  SectionsInv'
  BY <1>2, <1>4, <1>6, SectionsStay
<1>7. ASSUME NEW how, how \in Ended, publisher.at \in Place, Ends(how)
      PROVE  \A s \in Section : Unwritten(s)' => Unwritten(s)
  <2>1. publisher'.at = "none" /\ status' = [status EXCEPT ![publisher.sec] = how]
    BY <1>7 DEF Ends, NoPublisher
  <2>2. how \notin {"unrecorded", "waiting"}
    BY <1>7 DEF Ended
  <2> QED BY <1>2, <1>5, <1>7, <2>1, <2>2 DEF Unwritten, PublisherInv
<1>8. ASSUME publisher'.sec = publisher.sec, status' = status,
             publisher'.at \in {"clone", "sync", "append"} => publisher.at \in {"clone", "sync", "append"}
      PROVE  \A s \in Section : Unwritten(s)' => Unwritten(s)
  BY <1>8 DEF Unwritten
<1>9. CASE Commit
  <2>1. /\ publisher.at = "commit" /\ publisher' = [publisher EXCEPT !.at = "push"]
        /\ dirty' = dirty /\ status' = status /\ staged' = {}
        /\ publisher.at \in Place
    BY <1>9 DEF Commit, Place
  <2>2. Grows
    BY <1>2, <1>9, CommitKeeps DEF JournalInv, PublisherInv
  <2>3. SectionsOn(Branch') = SectionsOn(Branch) \union staged /\ Distinct(Branch')
    BY <1>2, <2>2, SectionsCommitted DEF Grows, PublisherInv, SectionsInv
  <2>4. SectionsOn(Branch)' = SectionsOn(Branch) \union staged
    BY <2>3 DEF SectionsOn, Commits
  <2>5. Distinct(Branch)'
    BY <2>3 DEF Distinct
  <2>6. \A s \in Section : Unwritten(s)' => Unwritten(s)
    BY <1>5, <1>8, <2>1
  <2> QED BY <1>2, <2>1, <2>4, <2>5, <2>6 DEF SectionsInv
<1>10. CASE AppendSection
  <2>1. /\ publisher.at = "append" /\ publisher' = [publisher EXCEPT !.at = "add"]
        /\ dirty' = dirty \union {publisher.sec} /\ status' = status /\ staged' = staged
        /\ ~Commit /\ publisher.at \in Place
    BY <1>10 DEF AppendSection, Commit, Place
  <2>2. Unwritten(publisher.sec) /\ publisher.sec \in Section
        /\ \A s \in Section : Unwritten(s)' => Unwritten(s) /\ s # publisher.sec
    <3>1. publisher'.sec = publisher.sec /\ publisher'.at = "add"
      BY <1>5, <2>1
    <3>2. ~(status'[publisher.sec] \in {"unrecorded", "waiting"})
      BY <1>5, <2>1
    <3> QED BY <1>5, <2>1, <3>1, <3>2 DEF Unwritten
  <2>3. publisher.sec \notin dirty \union staged \union SectionsOn(Branch)
    BY <1>2, <2>2 DEF SectionsInv
  <2>4. SectionsOn(Branch)' = SectionsOn(Branch)
    BY <1>4, <2>1 DEF SectionsOn, Commits
  <2>5. Distinct(Branch)'
    BY <1>4, <2>1 DEF Distinct
  <2>6. ASSUME NEW s \in Section, Unwritten(s)'
        PROVE  s \notin dirty' \union staged' \union SectionsOn(Branch)
    <3>1. Unwritten(s) /\ s # publisher.sec
      BY <2>2, <2>6
    <3> QED BY <1>2, <2>1, <3>1 DEF SectionsInv
  <2> QED BY <1>2, <2>1, <2>3, <2>4, <2>5, <2>6 DEF SectionsInv
<1>11. CASE Add
  <2>1. /\ publisher.at = "add" /\ publisher' = [publisher EXCEPT !.at = "commit"] /\ status' = status
        /\ ~Commit /\ publisher.at \in Place
        /\ \E found \in SUBSET dirty : staged' = staged \union found /\ dirty' = dirty \ found
    BY <1>11 DEF Add, Commit, Place
  <2>2. \A s \in Section : Unwritten(s)' => Unwritten(s)
    BY <1>5, <1>8, <2>1
  <2>3. SectionsOn(Branch)' = SectionsOn(Branch)
    BY <1>4, <2>1 DEF SectionsOn, Commits
  <2>4. Distinct(Branch)'
    BY <1>4, <2>1 DEF Distinct
  <2>5. dirty' \union staged' = dirty \union staged
    BY <2>1
  <2> QED BY <1>2, <2>1, <2>2, <2>3, <2>4, <2>5 DEF SectionsInv
<1>12. ASSUME NEW s \in Section, Record(s)
       PROVE  SectionsInv'
  <2>1. \A t \in Section : Unwritten(t)' => Unwritten(t)
    BY <1>2, <1>12 DEF Record, Unwritten, PublisherInv
  <2>2. UNCHANGED <<dirty, staged>>
    BY <1>12 DEF Record
  <2> QED BY <1>6, <1>9, <2>1, <2>2
<1>13. ASSUME NEW s \in Section, TakeLock(s)
       PROVE  SectionsInv'
  <2>1. \A t \in Section : Unwritten(t)' => Unwritten(t)
    BY <1>2, <1>13 DEF TakeLock, Unwritten, PublisherInv, NoPublisher
  <2>2. UNCHANGED <<dirty, staged>>
    BY <1>13 DEF TakeLock
  <2> QED BY <1>6, <1>9, <2>1, <2>2
<1>14. CASE EnsureClone
  <2>1. UNCHANGED <<dirty, staged, status>> /\ publisher' = [publisher EXCEPT !.at = "sync"]
        /\ publisher.at = "clone" /\ publisher.at \in Place
    BY <1>14 DEF EnsureClone, Place
  <2> QED BY <1>5, <1>6, <1>8, <1>9, <2>1
<1>15. CASE Sync
  <2>1. UNCHANGED <<dirty, staged>> /\ publisher.at \in {"sync", "resync"} /\ publisher.at \in Place /\ AfterSync
    BY <1>15 DEF Sync, Place
  <2>2. CASE /\ status' = status
             /\ \/ publisher.at = "sync" /\ publisher' = [publisher EXCEPT !.at = "append"]
                \/ publisher' = [publisher EXCEPT !.at = "push"]
    BY <1>5, <1>6, <1>8, <1>9, <2>1, <2>2
  <2>3. CASE Ends("gaveUp") \/ Ends("failed")
    BY <1>6, <1>7, <1>9, <2>1, <2>3 DEF Ended
  <2> QED BY <2>1, <2>2, <2>3 DEF AfterSync
<1>16. CASE Push
  <2>1. UNCHANGED <<dirty, staged>> /\ publisher.at = "push" /\ publisher.at \in Place
    BY <1>16 DEF Push, Place
  <2>2. CASE Ends("pushed")
    BY <1>6, <1>7, <1>9, <2>1, <2>2 DEF Ended
  <2>3. CASE /\ status' = status
             /\ publisher' = [publisher EXCEPT !.at = "resync", !.pushes = @ + 1]
    BY <1>5, <1>6, <1>8, <1>9, <2>1, <2>3
  <2> QED BY <1>16, <2>2, <2>3 DEF Push
<1>17. CASE Unreachable
  <2>1. UNCHANGED <<dirty, staged>> /\ publisher.at \in Place
    BY <1>17 DEF Unreachable, Place
  <2>2. CASE Ends("unreachable") \/ Ends("failed")
    BY <1>6, <1>7, <1>9, <2>1, <2>2 DEF Ended
  <2>3. CASE /\ status' = status
             /\ \/ publisher.at = "sync" /\ publisher' = [publisher EXCEPT !.at = "append", !.fetched = FALSE]
                \/ publisher' = [publisher EXCEPT !.at = "push", !.fetched = FALSE]
    BY <1>5, <1>6, <1>8, <1>9, <2>1, <2>3
  <2> QED BY <1>17, <2>2, <2>3 DEF Unreachable
<1>18. CASE Fail
  BY <1>6, <1>7, <1>9, <1>18 DEF Fail, Ended
<1>19. CASE Crash
  <2>1. \A t \in Section : Unwritten(t)' => Unwritten(t)
    BY <1>2, <1>19 DEF Crash, Unwritten, PublisherInv, NoPublisher
  <2> QED BY <1>6, <1>9, <1>19, <2>1 DEF Crash
<1>20. ASSUME NEW what \in Foreign, OthersCommit(what)
       PROVE  SectionsInv'
  BY <1>6, <1>9, <1>20 DEF OthersCommit, Unwritten
<1>21. CASE UNCHANGED journalVars
  BY <1>6, <1>9, <1>21 DEF journalVars, Unwritten
<1> QED
  BY <1>9, <1>10, <1>11, <1>12, <1>13, <1>14, <1>15, <1>16, <1>17, <1>18, <1>19, <1>20, <1>21
     DEF JournalNext, Publish

------------------------------------------------------------------------------
(* Theorems *)

LEMMA JournalKeepsInv ==
  ASSUME JournalInv, [JournalNext]_journalVars
  PROVE  JournalInv'
<1>1. HistoryInv'
  BY HistoryStep DEF JournalInv
<1>2. MadeInv' /\ PublisherInv'
  BY MadeStep, PublisherStep DEF JournalInv
<1>3. SectionsInv'
  BY SectionsStep
<1> QED BY <1>1, <1>2, <1>3 DEF JournalInv

(* The invariant all that follows rests on: the shape of the two           *)
(* histories, the place of the publisher, and where a section can be       *)
(* before and after its commit (journal.py, _publish).                     *)
THEOREM JournalInvariant == JournalSpec => []JournalInv
<1>1. JournalInv /\ [JournalNext]_journalVars => JournalInv'
  BY JournalKeepsInv
<1> QED BY <1>1, JournalStarts, PTL DEF JournalSpec

(* Commits name sections, the root of the clone is a commit of main it has *)
(* fetched, a publish pushes at most three times, and the lock belongs to  *)
(* the thread that publishes (journal.py, _publish).                       *)
THEOREM JournalTyped == JournalSpec => []JournalTypeOK
<1>1. JournalInv => JournalTypeOK
  <2> SUFFICES ASSUME JournalInv
               PROVE  JournalTypeOK
    OBVIOUS
  <2>1. HistoryTyped /\ PublisherInv
    BY DEF JournalInv, HistoryInv
  <2>2. AnyCommit = [what : {"sections", "restores"} \union Foreign, secs : SUBSET Section]
    BY DEF AnyCommit, Made
  <2>3. clone \in [made : BOOLEAN, root : 0..clone.tip, tip : 0..Len(remote), own : Seq(AnyCommit)]
    <3>1. clone.root \in 0..clone.tip /\ clone.tip \in 0..Len(remote) /\ clone.own \in Seq(AnyCommit)
      BY <2>1, Lengths DEF HistoryTyped
    <3> QED BY <2>1, <3>1 DEF HistoryTyped
  <2> QED BY <2>1, <2>2, <2>3 DEF JournalTypeOK, HistoryTyped, PublisherInv
<1> QED BY <1>1, JournalInvariant, PTL

(* Neither main nor the branch that goes out next holds a section in two   *)
(* commits, whatever git call fails or is answered late, and whatever the  *)
(* rebase replays (journal.py, _publish and _ensure_clone).                *)
THEOREM SectionAppearsOnce == JournalSpec => []SectionOnce
<1>1. JournalInv => SectionOnce
  <2> SUFFICES ASSUME JournalInv
               PROVE  SectionOnce
    OBVIOUS
  <2>1. HistoryTyped /\ Distinct(Branch)
    BY DEF JournalInv, HistoryInv, SectionsInv
  <2>2. PICK k \in Nat : Taken(k)
    BY DEF JournalInv, HistoryInv
  <2>3. Distinct(remote)
    BY <2>1, <2>2, MainIsBehind
  <2>4. remote \in Seq(AnyCommit) /\ Branch \in Seq(AnyCommit)
    BY <2>1, BranchIs DEF HistoryTyped
  <2>5. DOMAIN remote = 1..Len(remote) /\ DOMAIN Branch = 1..Len(Branch)
    BY <2>4, LenProperties
  <2> QED BY <2>1, <2>3, <2>5 DEF SectionOnce, Distinct
<1> QED BY <1>1, JournalInvariant, PTL

(* What a publish committed is on main or in the clone from then on: no    *)
(* rejected push, rebase, failure or power-off loses it (journal.py,       *)
(* _publish: "commits that failed to push earlier ... stay queued").       *)
THEOREM CommittedStays == JournalSpec => CommittedIsKept
<1>1. JournalInv => Kept = SectionsOn(Branch) /\ Branch \in Seq(AnyCommit)
  <2> SUFFICES ASSUME JournalInv
               PROVE  Kept = SectionsOn(Branch) /\ Branch \in Seq(AnyCommit)
    OBVIOUS
  <2>1. HistoryTyped
    BY DEF JournalInv, HistoryInv
  <2>2. PICK k \in Nat : Taken(k)
    BY DEF JournalInv, HistoryInv
  <2> QED BY <2>1, <2>2, BranchIs, MainIsBehind DEF Kept
<1>2. JournalInv /\ JournalInv' /\ [JournalNext]_journalVars => Kept \subseteq Kept'
  <2> SUFFICES ASSUME JournalInv, JournalInv', [JournalNext]_journalVars
               PROVE  Kept \subseteq Kept'
    OBVIOUS
  <2>1. Spread(Branch, Branch') \/ (Commit /\ Grows)
    BY HistoryStep DEF JournalInv
  <2>2. Branch \in Seq(AnyCommit) /\ Branch' \in Seq(AnyCommit) /\ Kept = SectionsOn(Branch)
    BY <1>1, NextBranch DEF JournalInv
  <2>3. SectionsOn(Branch') \subseteq Kept'
    BY DEF Kept, SectionsOn, Commits
  <2>4. SectionsOn(Branch) \subseteq SectionsOn(Branch')
    <3>1. CASE Spread(Branch, Branch')
      BY <2>2, <3>1, SpreadKeeps
    <3>2. CASE Grows
      <4>1. staged \in SUBSET Section
        BY DEF JournalInv, PublisherInv
      <4> QED BY <2>2, <3>2, <4>1, SectionsCommitted DEF Grows
    <3> QED BY <2>1, <3>1, <3>2
  <2> QED BY <2>2, <2>3, <2>4
<1> QED BY <1>2, JournalInvariant, PTL DEF JournalSpec, CommittedIsKept

------------------------------------------------------------------------------
(* Why a publish gives up *)

(* The first n commits of main that are from others. *)
FromOthers(main, n) == {i \in 1..n : main[i].what \in Foreign}

(* The causes GaveUpForCause names, of a main and the threads' status.     *)
Caused(main, how) ==
  \/ \E i \in 1..Len(main) : main[i].what = "modifies"
  \/ \E i, j \in 1..Len(main) : i # j /\ Files(main[i].secs) \intersect Files(main[j].secs) # {}
  \/ \E s \in Section : how[s] \in {"killed", "failed"}
  \/ Cardinality(FromOthers(main, Len(main))) >= 3

(* Without a cause: no rebase is refused, and each rejected push that was  *)
(* fetched for stands for another commit of others that the clone has.     *)
Clean ==
  /\ dirty = IF publisher.at = "add" THEN {publisher.sec} ELSE {}
  /\ publisher.at # "commit" => staged = {}
  /\ publisher.at = "push" /\ publisher.fetched
       => Cardinality(FromOthers(remote, clone.root)) >= publisher.pushes
  /\ publisher.at = "resync" /\ publisher.fetched
       => Cardinality(FromOthers(remote, Len(remote))) >= publisher.pushes
  /\ \A s \in Section : status[s] # "gaveUp"

CleanInv == Caused(remote, status) \/ Clean

LEMMA OthersFinite ==
  ASSUME NEW main, NEW n \in Nat
  PROVE  IsFiniteSet(FromOthers(main, n)) /\ Cardinality(FromOthers(main, n)) \in Nat
<1>1. IsFiniteSet(1..n)
  BY FS_Interval
<1>2. FromOthers(main, n) \in SUBSET (1..n)
  BY DEF FromOthers
<1>3. IsFiniteSet(FromOthers(main, n))
  BY <1>1, <1>2, FS_Subset
<1> QED BY <1>3, FS_CardinalityType

(* More of a longer main is from others. *)
LEMMA OthersGrow ==
  ASSUME NEW main, NEW n \in Nat, NEW main2, NEW n2 \in Nat, n <= n2,
         \A i \in 1..n : main2[i] = main[i]
  PROVE  /\ Cardinality(FromOthers(main, n)) <= Cardinality(FromOthers(main2, n2))
         /\ n < n2 /\ main2[n2].what \in Foreign
              => Cardinality(FromOthers(main, n)) + 1 <= Cardinality(FromOthers(main2, n2))
<1> DEFINE a == FromOthers(main, n)
           b == FromOthers(main2, n2)
<1>1. IsFiniteSet(a) /\ IsFiniteSet(b) /\ Cardinality(a) \in Nat /\ Cardinality(b) \in Nat
  BY OthersFinite
<1>2. a \in SUBSET b
  BY DEF FromOthers
<1>3. ASSUME n < n2, main2[n2].what \in Foreign
      PROVE  n2 \notin a /\ (a \union {n2}) \in SUBSET b
  BY <1>2, <1>3 DEF FromOthers
<1> HIDE DEF a, b
<1>4. Cardinality(a) <= Cardinality(b)
  BY <1>1, <1>2, FS_Subset
<1>5. ASSUME n < n2, main2[n2].what \in Foreign
      PROVE  Cardinality(a) + 1 <= Cardinality(b)
  <2>1. n2 \notin a /\ (a \union {n2}) \in SUBSET b
    BY <1>3, <1>5
  <2>2. Cardinality(a \union {n2}) = Cardinality(a) + 1
    BY <1>1, <2>1, FS_AddElement
  <2>3. Cardinality(a \union {n2}) <= Cardinality(b)
    BY <1>1, <2>1, FS_Subset
  <2> QED BY <2>2, <2>3
<1> QED BY <1>4, <1>5 DEF a, b

(* A cause stays one. *)
LEMMA CauseStays ==
  ASSUME NEW main \in Seq(AnyCommit), NEW main2 \in Seq(AnyCommit), Len(main) <= Len(main2),
         \A i \in 1..Len(main) : main2[i] = main[i],
         NEW how, NEW how2,
         \A s \in Section : how[s] \in {"killed", "failed"} => how2[s] = how[s],
         Caused(main, how)
  PROVE  Caused(main2, how2)
<1>1. Len(main) \in Nat /\ Len(main2) \in Nat
  BY LenProperties
<1>2. 1..Len(main) \subseteq 1..Len(main2)
  BY <1>1
<1>3. CASE \E i \in 1..Len(main) : main[i].what = "modifies"
  BY <1>2, <1>3 DEF Caused
<1>4. CASE \E i, j \in 1..Len(main) : i # j /\ Files(main[i].secs) \intersect Files(main[j].secs) # {}
  BY <1>2, <1>4 DEF Caused
<1>5. CASE \E s \in Section : how[s] \in {"killed", "failed"}
  BY <1>5 DEF Caused
<1>6. CASE Cardinality(FromOthers(main, Len(main))) >= 3
  <2>1. Cardinality(FromOthers(main, Len(main))) <= Cardinality(FromOthers(main2, Len(main2)))
        /\ Cardinality(FromOthers(main, Len(main))) \in Nat
        /\ Cardinality(FromOthers(main2, Len(main2))) \in Nat
    BY <1>1, OthersFinite, OthersGrow
  <2>2. Cardinality(FromOthers(main2, Len(main2))) >= 3
    BY <1>6, <2>1
  <2> QED BY <2>2 DEF Caused
<1> QED BY <1>3, <1>4, <1>5, <1>6 DEF Caused

(* Main is only ever added to. *)
LEMMA MainGrows ==
  ASSUME JournalInv, [JournalNext]_journalVars
  PROVE  /\ Len(remote) <= Len(remote')
         /\ \A i \in 1..Len(remote) : remote'[i] = remote[i]
<1>1. PICK k \in Nat : Taken(k)
  BY DEF JournalInv, HistoryInv
<1>2. HistoryTyped
  BY DEF JournalInv, HistoryInv
<1>3. /\ Len(remote) \in Nat /\ clone.root \in Nat /\ Len(clone.own) \in Nat
      /\ clone.root <= Len(remote) /\ k <= Len(clone.own) /\ remote \in Seq(AnyCommit)
  BY <1>1, <1>2, Lengths DEF HistoryTyped, Taken
<1>4. CASE UNCHANGED remote
  BY <1>3, <1>4
<1>5. CASE Related(Len(remote)) /\ remote' = Branch
  <2>1. Len(remote) \in clone.root..Len(remote)
    BY <1>3
  <2>2. Len(remote) - clone.root <= k
    BY <1>1, <1>2, <1>5, <2>1, RelatedIff
  <2>3. /\ Len(Branch) = clone.root + Len(clone.own)
        /\ \A i \in 1..Len(Branch) :
             Branch[i] = IF i <= clone.root THEN remote[i] ELSE clone.own[i - clone.root]
    BY <1>2, BranchIs
  <2>4. Len(remote) <= Len(Branch)
    BY <1>3, <2>2, <2>3
  <2>5. ASSUME NEW i \in 1..Len(remote)
        PROVE  Branch[i] = remote[i]
    <3>1. i \in 1..Len(Branch)
      BY <1>3, <2>3, <2>4
    <3>2. CASE i <= clone.root
      BY <2>3, <3>1, <3>2
    <3>3. CASE ~(i <= clone.root)
      <4>1. i - clone.root \in 1..k /\ clone.root + (i - clone.root) = i
        BY <1>3, <2>2, <3>3
      <4>2. remote[i] = clone.own[i - clone.root]
        BY <1>1, <4>1 DEF Taken
      <4> QED BY <2>3, <3>1, <3>3, <4>2
    <3> QED BY <3>2, <3>3
  <2> QED BY <1>5, <2>4, <2>5
<1>6. ASSUME NEW what \in Foreign, OthersCommit(what)
      PROVE  /\ Len(remote) <= Len(remote')
             /\ \A i \in 1..Len(remote) : remote'[i] = remote[i]
  <2>1. By(what, {}) \in AnyCommit
    BY DEF By, AnyCommit
  <2>2. remote' = Append(remote, By(what, {}))
    BY <1>6 DEF OthersCommit
  <2> QED BY <1>3, <2>1, <2>2, AppendProperties
<1> QED
  BY <1>4, <1>5, <1>6 DEF JournalNext, Publish, Record, TakeLock, EnsureClone, Sync, AppendSection,
     Add, Commit, Push, Accepted, Unreachable, Fail, Crash, journalVars

(* What a thread came to is final. *)
LEMMA EndsAreFinal ==
  ASSUME PublisherInv, [JournalNext]_journalVars
  PROVE  \A s \in Section : status[s] \in {"killed", "failed"} => status'[s] = status[s]
<1> SUFFICES ASSUME NEW s \in Section, status[s] \in {"killed", "failed"}
             PROVE  status'[s] = status[s]
  OBVIOUS
<1>1. s # publisher.sec /\ status \in [Section -> Status]
  BY DEF PublisherInv
<1>2. ASSUME NEW how, Ends(how)
      PROVE  status'[s] = status[s]
  BY <1>1, <1>2 DEF Ends
<1>3. CASE UNCHANGED status
  BY <1>3
<1>4. ASSUME NEW t \in Section, Record(t) \/ TakeLock(t)
      PROVE  status'[s] = status[s]
  BY <1>1, <1>4 DEF Record, TakeLock
<1>5. CASE Crash
  BY <1>1, <1>5 DEF Crash
<1> QED
  BY <1>2, <1>3, <1>4, <1>5 DEF JournalNext, Publish, EnsureClone, Sync, AfterSync, AppendSection,
     Add, Commit, Push, Unreachable, Fail, OthersCommit, journalVars

LEMMA CauseStep ==
  ASSUME JournalInv, [JournalNext]_journalVars, Caused(remote, status)
  PROVE  Caused(remote', status')
<1>1. HistoryInv' /\ HistoryInv
  BY HistoryStep DEF JournalInv
<1>2. remote \in Seq(AnyCommit) /\ remote' \in Seq(AnyCommit)
  BY <1>1 DEF HistoryInv, HistoryTyped
<1>3. \A s \in Section : status[s] \in {"killed", "failed"} => status'[s] = status[s]
  BY EndsAreFinal DEF JournalInv
<1> QED BY <1>2, <1>3, MainGrows, CauseStays

(* Without a cause the clone can always be rebased.                        *)
LEMMA RebaseGoesThrough ==
  ASSUME JournalInv, ~Caused(remote, status), dirty = {}, staged = {}, clone' = Rebased(Len(remote))
  PROVE  clone'.root = Len(remote)
<1>1. HistoryTyped /\ remote \in Seq(AnyCommit)
  BY DEF JournalInv, HistoryInv, HistoryTyped
<1>2. /\ Len(remote) \in Nat /\ clone.root \in Nat /\ Len(remote) \in clone.root..Len(remote)
      /\ clone.root \in 0..Len(remote)
  BY <1>1, Lengths DEF HistoryTyped
<1>3. PICK len \in Nat : len = Len(remote) - clone.root
  BY <1>2
<1>3a. PICK new : new = New(Len(remote))
  OBVIOUS
<1>4. /\ new \in Seq(AnyCommit) /\ Len(new) = len
      /\ \A i \in 1..len : new[i] = remote[clone.root + i]
  BY <1>1, <1>2, <1>3, <1>3a, NewIs
<1>5. DOMAIN new = 1..len
  BY <1>4, LenProperties
<1>6. \A i \in 1..len : clone.root + i \in 1..Len(remote)
  BY <1>2, <1>3
<1>7. ~RebaseRefused
  BY DEF RebaseRefused, Files
<1>8. ~(\E c \in Commits(new) : c.what = "modifies")
  BY <1>4, <1>5, <1>6 DEF Commits, Caused
<1>9. ASSUME NEW i \in 1..len
      PROVE  Files(new[i].secs) \intersect Files(SectionsOn(Base \o SubSeq(new, 1, i - 1))) = {}
  <2>1. PICK before : before = SubSeq(new, 1, i - 1)
    OBVIOUS
  <2>2. /\ before \in Seq(AnyCommit) /\ Len(before) = i - 1
        /\ \A j \in 1..i - 1 : before[j] = new[j]
    <3>1. \A j \in 1..i - 1 : new[j] \in AnyCommit
      BY <1>4, ElementOfSeq
    <3>2. /\ SubSeq(new, 1, i - 1) \in Seq(AnyCommit)
          /\ Len(SubSeq(new, 1, i - 1)) = IF 1 <= i - 1 THEN i - 1 - 1 + 1 ELSE 0
          /\ \A j \in 1..i - 1 - 1 + 1 : SubSeq(new, 1, i - 1)[j] = new[1 + j - 1]
      BY <3>1, SubSeqProperties
    <3> QED BY <2>1, <3>2
  <2>3. PICK older : older = Base \o before
    OBVIOUS
  <2>4. /\ older \in Seq(AnyCommit) /\ Len(older) = clone.root + Len(before)
        /\ \A j \in 1..clone.root + Len(before) :
             older[j] = IF j <= clone.root THEN remote[j] ELSE before[j - clone.root]
    BY <1>1, <1>2, <2>2, <2>3, Grafted DEF Base
  <2>5. ASSUME NEW j \in 1..Len(older)
        PROVE  j \in 1..Len(remote) /\ j # clone.root + i /\ older[j] = remote[j]
    <3>1. j \in 1..clone.root + (i - 1)
      BY <2>2, <2>4
    <3>2. j \in 1..Len(remote) /\ j # clone.root + i
      BY <1>2, <1>3, <3>1
    <3>3. CASE j <= clone.root
      BY <2>2, <2>4, <3>1, <3>2, <3>3
    <3>4. CASE ~(j <= clone.root)
      <4>1. j - clone.root \in 1..i - 1 /\ j - clone.root \in 1..len /\ clone.root + (j - clone.root) = j
        BY <1>2, <3>1, <3>4
      <4>2. older[j] = before[j - clone.root]
        BY <2>2, <2>4, <3>1, <3>4
      <4> QED BY <1>4, <2>2, <3>2, <4>1, <4>2
    <3> QED BY <3>3, <3>4
  <2>6. ASSUME NEW s \in SectionsOn(older), NEW t \in new[i].secs
        PROVE  FileOf[s] # FileOf[t]
    <3>1. PICK j \in 1..Len(older) : s \in older[j].secs
      BY <2>4, SectionsIff
    <3>2. s \in remote[j].secs /\ j \in 1..Len(remote) /\ j # clone.root + i
      BY <2>5, <3>1
    <3>3. t \in remote[clone.root + i].secs /\ clone.root + i \in 1..Len(remote)
      BY <1>4, <1>6
    <3>4. Files(remote[clone.root + i].secs) \intersect Files(remote[j].secs) = {}
      BY <3>2, <3>3 DEF Caused
    <3> QED BY <3>2, <3>3, <3>4 DEF Files
  <2> QED BY <2>1, <2>3, <2>6 DEF Files
<1>10. ~ReplayConflicts(Len(remote))
  BY <1>3a, <1>5, <1>8, <1>9 DEF ReplayConflicts
<1>11. clone \in [made : BOOLEAN, root : Nat, tip : Nat, own : Seq(Ours)]
  BY <1>1 DEF HistoryTyped
<1>12. PICK own2 : clone' = [clone EXCEPT !.root = Len(remote), !.tip = Len(remote), !.own = own2]
  <2>1. CASE Related(Len(remote))
    BY <1>7, <2>1 DEF Rebased
  <2>2. CASE ~Related(Len(remote))
    BY <1>7, <1>10, <2>2 DEF Rebased
  <2> QED BY <2>1, <2>2
<1> QED BY <1>11, <1>12

(* A publish that is cut short is a cause.                                 *)
LEMMA CutShortIsCause ==
  ASSUME NEW s \in Section, status'[s] \in {"killed", "failed"}
  PROVE  Caused(remote', status')
BY DEF Caused

LEMMA CleanStep ==
  ASSUME JournalInv, ~Caused(remote, status), Clean, [JournalNext]_journalVars, ~Caused(remote', status')
  PROVE  Clean'
<1> USE DEF disk, Goes
<1>1. PublisherInv /\ HistoryTyped
  BY DEF JournalInv, HistoryInv
<1>2. /\ Len(remote) \in Nat /\ clone.root \in Nat /\ clone.root <= Len(remote)
      /\ Len(remote) \in clone.root..Len(remote)
  BY <1>1, Lengths DEF HistoryTyped
<1>3. ASSUME publisher.at \in Place
      PROVE  publisher.sec \in Section /\ status[publisher.sec] = "publishing"
             /\ publisher \in [sec : Section, at : Place, pushes : 0..3, fetched : BOOLEAN]
  BY <1>1, <1>3 DEF PublisherInv, NoPublisher, Place
<1>4. ASSUME publisher.at \in Place, NEW how, Ends(how)
      PROVE  how # "failed" /\ publisher'.at = "none"
             /\ (how # "gaveUp" => \A s \in Section : status'[s] # "gaveUp")
  <2>1. status' = [status EXCEPT ![publisher.sec] = how] /\ publisher'.at = "none"
    BY <1>4 DEF Ends, NoPublisher
  <2>2. status'[publisher.sec] = how
    BY <1>1, <1>3, <1>4, <2>1 DEF PublisherInv
  <2>3. how # "failed"
    BY <1>3, <1>4, <2>2 DEF Caused
  <2> QED BY <1>1, <2>1, <2>3 DEF Clean, PublisherInv
<1>5. ASSUME dirty' = {}, staged' = {}, publisher'.at \notin {"add", "push", "resync"},
             \A s \in Section : status'[s] # "gaveUp"
      PROVE  Clean'
  BY <1>5 DEF Clean
<1>6. ASSUME publisher.at \notin {"add", "commit"}
      PROVE  dirty = {} /\ staged = {}
  BY <1>6 DEF Clean
<1>7. ASSUME NEW s \in Section, Record(s) \/ TakeLock(s)
      PROVE  Clean'
  <2>1. \A t \in Section : status'[t] # "gaveUp"
    BY <1>1, <1>7 DEF Record, TakeLock, Clean, PublisherInv
  <2>2. CASE Record(s)
    BY <2>1, <2>2 DEF Record, Clean
  <2>3. CASE TakeLock(s)
    <3>1. publisher.at = "none" /\ publisher'.at = "clone" /\ UNCHANGED <<dirty, staged>>
      BY <2>3 DEF TakeLock, NoPublisher
    <3> QED BY <1>5, <1>6, <2>1, <3>1
  <2> QED BY <1>7, <2>2, <2>3
<1>8. CASE EnsureClone \/ AppendSection \/ Add
  <2>1. publisher.at \in Place /\ status' = status
    BY <1>8 DEF EnsureClone, AppendSection, Add, Place
  <2>2. \A s \in Section : status'[s] # "gaveUp"
    BY <2>1 DEF Clean
  <2>3. CASE EnsureClone
    BY <1>3, <1>5, <1>6, <2>1, <2>2, <2>3 DEF EnsureClone
  <2>4. CASE AppendSection
    <3>1. /\ publisher'.at = "add" /\ publisher'.sec = publisher.sec /\ publisher.at = "append"
          /\ dirty' = dirty \union {publisher.sec} /\ staged' = staged
      BY <1>3, <2>1, <2>4 DEF AppendSection
    <3>2. dirty' = {publisher.sec} /\ staged' = {}
      BY <1>6, <3>1
    <3> QED BY <2>2, <3>1, <3>2 DEF Clean
  <2>5. CASE Add
    <3>1. publisher'.at = "commit" /\ dirty = {publisher.sec}
      BY <1>3, <2>1, <2>5 DEF Add, Clean
    <3>2. dirty' = {}
      BY <2>5, <3>1 DEF Add
    <3> QED BY <2>2, <3>1, <3>2 DEF Clean
  <2> QED BY <1>8, <2>3, <2>4, <2>5
<1>9. CASE Commit
  <2>1. /\ publisher.at = "commit" /\ publisher.at \in Place /\ staged' = {} /\ dirty' = dirty
        /\ status' = status /\ remote' = remote
        /\ publisher' = [publisher EXCEPT !.at = "push"]
        /\ clone' = [clone EXCEPT !.own = Append(@, By("sections", staged))]
    BY <1>9 DEF Commit, Place
  <2>2. publisher'.at = "push" /\ publisher'.pushes = 0
    BY <1>1, <1>3, <2>1 DEF PublisherInv, Counted
  <2>3. Cardinality(FromOthers(remote, clone'.root)) \in Nat
    BY <1>1, <1>2, <2>1, OthersFinite DEF HistoryTyped
  <2>4. Cardinality(FromOthers(remote', clone'.root)) >= publisher'.pushes
    BY <2>1, <2>2, <2>3
  <2> QED BY <2>1, <2>2, <2>4 DEF Clean
<1>10. CASE Push
  <2>1. publisher.at = "push" /\ publisher.at \in Place /\ UNCHANGED <<dirty, staged>>
        /\ dirty = {} /\ staged = {}
    BY <1>6, <1>10 DEF Push, Place
  <2>2. CASE Ends("pushed")
    BY <1>4, <1>5, <2>1, <2>2
  <2>3. CASE /\ ~Related(Len(remote)) /\ UNCHANGED <<remote, status>>
             /\ publisher' = [publisher EXCEPT !.at = "resync", !.pushes = @ + 1]
    <3>1. PICK k \in Nat : Taken(k)
      BY DEF JournalInv, HistoryInv
    <3>2. Len(remote) - clone.root > k
      BY <1>1, <1>2, <2>3, <3>1, RelatedIff
    <3>3. clone.root < Len(remote) /\ Len(remote) \in 1..Len(remote) /\ Len(remote) > clone.root + k
      BY <1>2, <3>2
    <3>4. remote[Len(remote)].what \in Foreign
      BY <3>1, <3>3 DEF Taken, Theirs
    <3>5. Cardinality(FromOthers(remote, clone.root)) + 1 <= Cardinality(FromOthers(remote, Len(remote)))
      BY <1>2, <3>3, <3>4, OthersGrow
    <3>6. /\ Cardinality(FromOthers(remote, clone.root)) \in Nat
          /\ Cardinality(FromOthers(remote, Len(remote))) \in Nat
      BY <1>2, OthersFinite
    <3>7. /\ publisher'.at = "resync" /\ publisher'.pushes = publisher.pushes + 1
          /\ publisher'.fetched = publisher.fetched /\ publisher.pushes \in Nat
      BY <1>3, <2>1, <2>3
    <3>8. publisher.fetched => Cardinality(FromOthers(remote, clone.root)) >= publisher.pushes
      BY <2>1 DEF Clean
    <3>9. publisher'.fetched => Cardinality(FromOthers(remote, Len(remote))) >= publisher'.pushes
      BY <3>5, <3>6, <3>7, <3>8
    <3>10. remote' = remote /\ \A s \in Section : status'[s] # "gaveUp"
      BY <2>3 DEF Clean
    <3> QED BY <2>1, <3>7, <3>9, <3>10 DEF Clean
  <2> QED BY <1>10, <2>2, <2>3 DEF Push
<1>11. CASE Sync
  <2>1. /\ publisher.at \in {"sync", "resync"} /\ publisher.at \in Place /\ UNCHANGED <<dirty, staged, remote>>
        /\ dirty = {} /\ staged = {} /\ AfterSync /\ clone' = Rebased(Len(remote))
    BY <1>6, <1>11 DEF Sync, Place
  <2>2. CASE publisher.at = "sync"
    BY <1>3, <1>5, <2>1, <2>2 DEF AfterSync, Clean
  <2>3. CASE publisher.at = "resync" /\ publisher.pushes < 3
    <3>1. status' = status /\ publisher'.at = "push" /\ publisher'.pushes = publisher.pushes
          /\ publisher'.fetched = publisher.fetched
      BY <1>3, <2>1, <2>3 DEF AfterSync
    <3>2. clone'.root = Len(remote)
      BY <2>1, RebaseGoesThrough
    <3> QED BY <2>1, <2>3, <3>1, <3>2 DEF Clean
  <2>4. CASE publisher.at = "resync" /\ ~(publisher.pushes < 3)
    <3>1. Ends(IF publisher.fetched THEN "gaveUp" ELSE "failed")
      BY <2>1, <2>4 DEF AfterSync
    <3>2. publisher.fetched
      BY <1>4, <2>1, <3>1
    <3>3. Cardinality(FromOthers(remote, Len(remote))) >= publisher.pushes /\ publisher.pushes = 3
      BY <1>3, <2>1, <2>4, <3>2 DEF Clean
    <3> QED BY <3>3 DEF Caused
  <2> QED BY <2>1, <2>2, <2>3, <2>4
<1>12. CASE Unreachable
  <2>1. publisher.at \in Place /\ UNCHANGED <<dirty, staged>> /\ dirty = {} /\ staged = {}
    BY <1>6, <1>12 DEF Unreachable, Place
  <2>2. CASE Ends("unreachable") \/ Ends("failed")
    BY <1>4, <1>5, <2>1, <2>2
  <2>3. CASE /\ status' = status
             /\ \E place \in {"append", "push"} :
                  publisher' = [publisher EXCEPT !.at = place, !.fetched = FALSE]
    <3>1. publisher'.at \in {"append", "push"} /\ ~publisher'.fetched
      BY <1>3, <2>1, <2>3
    <3> QED BY <2>1, <2>3, <3>1 DEF Clean
  <2> QED BY <1>12, <2>2, <2>3 DEF Unreachable
<1>13. CASE Fail
  BY <1>4, <1>13 DEF Fail
<1>14. CASE Crash
  <2>1. publisher.at \notin Place
    BY <1>3, <1>14 DEF Crash, Caused
  <2>2. UNCHANGED <<dirty, staged>> /\ publisher'.at = "none" /\ dirty = {} /\ staged = {}
    BY <1>6, <1>14, <2>1 DEF Crash, NoPublisher, Place
  <2>3. \A s \in Section : status'[s] # "gaveUp"
    BY <1>14 DEF Crash, Clean
  <2> QED BY <1>5, <2>2, <2>3
<1>15. ASSUME NEW what \in Foreign, OthersCommit(what)
       PROVE  Clean'
  <2>1. UNCHANGED <<clone, dirty, staged, publisher, status>>
    BY <1>15 DEF OthersCommit
  <2>2. Len(remote') \in Nat /\ Len(remote) <= Len(remote')
        /\ \A i \in 1..Len(remote) : remote'[i] = remote[i]
    <3>1. remote' \in Seq(AnyCommit)
      BY HistoryStep DEF JournalInv, HistoryInv, HistoryTyped
    <3> QED BY <3>1, MainGrows, LenProperties
  <2>3. /\ Cardinality(FromOthers(remote, clone.root)) <= Cardinality(FromOthers(remote', clone.root))
        /\ Cardinality(FromOthers(remote, Len(remote))) <= Cardinality(FromOthers(remote', Len(remote')))
    <3>1. \A i \in 1..clone.root : remote'[i] = remote[i]
      BY <1>2, <2>2
    <3> QED BY <1>2, <2>2, <3>1, OthersGrow
  <2>4. /\ Cardinality(FromOthers(remote, clone.root)) \in Nat
        /\ Cardinality(FromOthers(remote', clone.root)) \in Nat
        /\ Cardinality(FromOthers(remote, Len(remote))) \in Nat
        /\ Cardinality(FromOthers(remote', Len(remote'))) \in Nat
    BY <1>2, <2>2, OthersFinite
  <2>5. publisher.at \in {"push", "resync"} => publisher.pushes \in Nat
    BY <1>3 DEF Place
  <2>6. /\ publisher.at = "push" /\ publisher.fetched
             => Cardinality(FromOthers(remote', clone.root)) >= publisher.pushes
        /\ publisher.at = "resync" /\ publisher.fetched
             => Cardinality(FromOthers(remote', Len(remote'))) >= publisher.pushes
    BY <2>3, <2>4, <2>5 DEF Clean
  <2> QED BY <2>1, <2>6 DEF Clean
<1>16. CASE UNCHANGED journalVars
  BY <1>16 DEF journalVars, Clean
<1> QED
  BY <1>7, <1>8, <1>9, <1>10, <1>11, <1>12, <1>13, <1>14, <1>15, <1>16 DEF JournalNext, Publish

(* A publish that GitHub answered at every call gives up only for one of   *)
(* the causes the property names: a commit of main that the replay of the  *)
(* old tree collides with, a publish that was cut short, or three commits  *)
(* of others (journal.py, _publish: three attempts, a sync after each).    *)
THEOREM GivesUpForCause == JournalSpec => []GaveUpForCause
<1>1. JournalInit => CleanInv
  BY DEF JournalInit, CleanInv, Clean, NoPublisher
<1>2. JournalInv /\ CleanInv /\ [JournalNext]_journalVars => CleanInv'
  BY CauseStep, CleanStep DEF CleanInv
<1>3. JournalInv /\ CleanInv => GaveUpForCause
  <2> SUFFICES ASSUME JournalInv, CleanInv, NEW s \in Section, status[s] = "gaveUp"
               PROVE  GaveUpForCause
    BY DEF GaveUpForCause
  <2>1. Caused(remote, status)
    BY DEF CleanInv, Clean
  <2>2. remote \in Seq(AnyCommit)
    BY DEF JournalInv, HistoryInv, HistoryTyped
  <2>3. DOMAIN remote = 1..Len(remote)
    BY <2>2, LenProperties
  <2>4. \A i \in 1..Len(remote) : remote[i] \in Commits(remote)
    BY <2>3 DEF Commits
  <2> QED BY <2>1, <2>3, <2>4 DEF GaveUpForCause, Caused, FromOthers
<1> QED BY <1>1, <1>2, <1>3, JournalInvariant, PTL DEF JournalSpec
==============================================================================
