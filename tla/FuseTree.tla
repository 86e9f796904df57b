------------------------------ MODULE FuseTree ------------------------------
(***************************************************************************)
(* Lemmas about the trees of FuseMutable: what adding, removing and moving *)
(* an entry does to a lookup tree and a directory map that agree.          *)
(***************************************************************************)
EXTENDS FuseMutable, TLAPS

Root == <<RootInodeID, "/">>

\* A lookup tree L has the root and the entries of the directory map R, each
\* inode once.  Of the directories D those in the tree have a list of entries.
TreeOf(L, R, D) ==
    /\ Root \in DOMAIN L /\ L[Root] = RootInodeID
    /\ \A k \in DOMAIN L \ {Root} :
          /\ k = <<k[1], k[2]>> /\ k[1] \in DOMAIN R /\ k[2] \in Names
          /\ L[k] \in DOMAIN R[k[1]] /\ R[k[1]][L[k]].name = k[2]
    /\ \A d \in DOMAIN R : \A i \in DOMAIN R[d] :
          /\ R[d][i].name \in Names
          /\ <<d, R[d][i].name>> \in DOMAIN L /\ L[<<d, R[d][i].name>>] = i
    /\ \A k, l \in DOMAIN L : L[k] = L[l] => k = l
    /\ \A k \in DOMAIN L : L[k] \in INodes /\ (L[k] \in D <=> L[k] \in DOMAIN R)
    /\ \A d \in DOMAIN R : \E k \in DOMAIN L : L[k] = d

\* The entries of the directories, as a relation between inodes.
KidsOf(R) == [d \in INodes |-> IF d \in DOMAIN R THEN DOMAIN R[d] ELSE {}]

\* A set that has, with a directory, its entries.
ClosedUnder(K, S) == \A d \in S : K[d] \subseteq S

\* What is i or below it, and whether T is below the root.
Under(K, i) ==
    {x \in INodes : \A S \in SUBSET INodes : i \in S /\ ClosedUnder(K, S) => x \in S}
Reaches(K, T) ==
    \A S \in SUBSET INodes : RootInodeID \in S /\ ClosedUnder(K, S) => T \subseteq S
OneParent(K) == \A d, e \in INodes : \A c \in K[d] : c \in K[e] => d = e
KeepsBut(K, M, p, i) == \A d \in INodes : \A c \in K[d] : c \in M[d] \/ (d = p /\ c = i)

\* All of the tree is below the root.
ReachOf(L, R) == Reaches(KidsOf(R), Range(L))

\* P is R without the inode i in the list of p.
Unlisted(R, p, i, P) ==
    /\ DOMAIN P = DOMAIN R
    /\ \A d \in DOMAIN R : P[d] = IF d = p THEN Drop(R[d], i) ELSE R[d]

\* M and Q are L and R without the entry k.
Without(L, R, k, M, Q) ==
    /\ DOMAIN M = DOMAIN L \ {k} /\ \A l \in DOMAIN M : M[l] = L[l]
    /\ DOMAIN Q = DOMAIN R \ {L[k]}
    /\ \A d \in DOMAIN Q : /\ DOMAIN Q[d] = DOMAIN R[d] \ {L[k]}
                           /\ \A c \in DOMAIN Q[d] : Q[d][c] = R[d][c]

\* M and Q are L and R with the entry k at t.
MovedTo(L, R, k, t, M, Q) ==
    /\ DOMAIN M = (DOMAIN L \ {k}) \cup {t} /\ M[t] = L[k]
    /\ \A l \in DOMAIN L \ {k} : M[l] = L[l]
    /\ DOMAIN Q = DOMAIN R /\ L[k] \in DOMAIN Q[t[1]] /\ Q[t[1]][L[k]].name = t[2]
    /\ \A d \in DOMAIN R : \A c \in DOMAIN R[d] :
          c # L[k] => c \in DOMAIN Q[d] /\ Q[d][c] = R[d][c]
    /\ \A d \in DOMAIN R : \A c \in DOMAIN Q[d] :
          (c = L[k] /\ d = t[1]) \/ (c # L[k] /\ c \in DOMAIN R[d])

\* M and Q are L and R with an entry t for the inode i, a directory or not.
WithEntry(L, R, t, i, dir, M, Q) ==
    /\ DOMAIN M = DOMAIN L \cup {t} /\ M[t] = i /\ \A l \in DOMAIN L : M[l] = L[l]
    /\ DOMAIN Q = IF dir THEN DOMAIN R \cup {i} ELSE DOMAIN R
    /\ dir => DOMAIN Q[i] = {}
    /\ DOMAIN Q[t[1]] = DOMAIN R[t[1]] \cup {i} /\ Q[t[1]][i].name = t[2]
    /\ \A c \in DOMAIN R[t[1]] : Q[t[1]][c] = R[t[1]][c]
    /\ \A d \in DOMAIN R : d # t[1] => Q[d] = R[d]

-----------------------------------------------------------------------------
(* Trees.                                                                  *)

\* A nil map has no keys.
LEMMA NoEntries == DOMAIN <<>> = {}
OBVIOUS

\* Below i is what every closed set with i has.  When the subtree at i moves from
\* p to q, which is not below i, what was below r still is.
LEMMA Moved ==
  ASSUME NEW K \in [INodes -> SUBSET INodes], NEW M \in [INodes -> SUBSET INodes],
         NEW p \in INodes, NEW q \in INodes, NEW i \in INodes, NEW T \in SUBSET INodes,
         OneParent(K), Reaches(K, T), q \in T, q \notin Under(K, i),
         KeepsBut(K, M, p, i),
         i \in M[q]
  PROVE  Reaches(M, T)
<1> DEFINE V == INodes
           r == RootInodeID
           B == Under(K, i)
<1>0. /\ \A d, e \in V : \A c \in K[d] : c \in K[e] => d = e
      /\ \A S \in SUBSET V : r \in S /\ ClosedUnder(K, S) => T \subseteq S
  BY DEF OneParent, Reaches
<1>1. B \in SUBSET V /\ i \in B /\ q \notin B
  BY DEF Under
<1>2. \A S \in SUBSET V : i \in S /\ ClosedUnder(K, S) => B \subseteq S
  BY DEF Under
<1>3. ClosedUnder(K, B)
  <2> SUFFICES ASSUME NEW d \in B, NEW c \in K[d], NEW S \in SUBSET V, i \in S, ClosedUnder(K, S)
               PROVE  c \in S
    BY <1>1 DEF ClosedUnder, Under
  <2>1. d \in S
    BY <1>2
  <2> QED BY <2>1 DEF ClosedUnder
<1> HIDE DEF B
<1>4. ASSUME NEW d \in V \ B, NEW c \in K[d], c \in B, c # i PROVE FALSE
  <2> DEFINE C == B \ {c}
  <2>1. ClosedUnder(K, C)
    <3> SUFFICES ASSUME NEW x \in C, NEW y \in K[x] PROVE y \in C
      BY DEF ClosedUnder
    <3>1. x \in V /\ x \in B /\ y \in B
      BY <1>1, <1>3 DEF ClosedUnder
    <3>2. y # c
      BY <1>0, <1>4, <3>1
    <3> QED BY <3>1, <3>2
  <2>2. C \in SUBSET V /\ i \in C
    BY <1>1, <1>4
  <2>3. B \subseteq C
    BY <1>2, <2>1, <2>2
  <2> QED BY <1>4, <2>3
<1> SUFFICES ASSUME NEW S \in SUBSET V, r \in S, ClosedUnder(M, S) PROVE T \subseteq S
  BY DEF Reaches
<1>5. \A d \in S : \A c \in K[d] : c \in S \/ (d = p /\ c = i)
  BY DEF ClosedUnder, KeepsBut
<1>6. T \subseteq S \cup B
  <2>1. ClosedUnder(K, S \cup B)
    BY <1>1, <1>3, <1>5 DEF ClosedUnder
  <2>2. S \cup B \in SUBSET V
    BY <1>1
  <2> QED BY <1>0, <2>1, <2>2
<1>7. i \in S
  <2>1. q \in S
    BY <1>1, <1>6
  <2> QED BY <2>1 DEF ClosedUnder
<1>8. B \subseteq S
  <2> DEFINE C == S \cup (V \ B)
  <2>1. ClosedUnder(K, C)
    <3> SUFFICES ASSUME NEW x \in C, NEW y \in K[x] PROVE y \in C
      BY DEF ClosedUnder
    <3>0. x \in V /\ y \in V
      OBVIOUS
    <3>1. CASE x \in S
      BY <1>5, <1>7, <3>1
    <3>2. CASE x \in V \ B
      BY <1>4, <1>7, <3>0, <3>2
    <3> QED BY <3>1, <3>2
  <2>2. C \in SUBSET V /\ i \in C
    BY <1>7
  <2>3. B \subseteq C
    BY <1>2, <2>1, <2>2
  <2> QED BY <1>1, <2>3
<1> QED BY <1>6, <1>8

\* A tree lists an inode in one directory only, and below no inode but those that
\* it has.
LEMMA TreeKids ==
  ASSUME NEW L, NEW R, NEW D, TreeOf(L, R, D)
  PROVE  /\ KidsOf(R) \in [INodes -> SUBSET INodes]
         /\ DOMAIN R \subseteq INodes /\ Range(L) \subseteq INodes
         /\ \A d \in DOMAIN R : \A c \in DOMAIN R[d] : c \in INodes
         /\ \A d, e \in DOMAIN R : \A c \in DOMAIN R[d] : c \in DOMAIN R[e] => d = e
         /\ \A d \in DOMAIN R : RootInodeID \notin DOMAIN R[d]
         /\ OneParent(KidsOf(R))
<1>1. DOMAIN R \subseteq INodes
  BY DEF TreeOf
<1>2. ASSUME NEW d \in DOMAIN R, NEW c \in DOMAIN R[d] PROVE c \in INodes
  <2>1. <<d, R[d][c].name>> \in DOMAIN L /\ L[<<d, R[d][c].name>>] = c
    BY DEF TreeOf
  <2>2. L[<<d, R[d][c].name>>] \in INodes
    BY <2>1 DEF TreeOf
  <2> QED BY <2>1, <2>2
<1>3. ASSUME NEW d \in DOMAIN R, NEW e \in DOMAIN R, NEW c \in DOMAIN R[d], c \in DOMAIN R[e]
      PROVE  d = e
  <2>1. /\ <<d, R[d][c].name>> \in DOMAIN L /\ L[<<d, R[d][c].name>>] = c
        /\ <<e, R[e][c].name>> \in DOMAIN L /\ L[<<e, R[e][c].name>>] = c
    BY <1>3 DEF TreeOf
  <2>2. <<d, R[d][c].name>> = <<e, R[e][c].name>>
    BY <2>1 DEF TreeOf
  <2> QED BY <2>2
<1>4. \A d \in DOMAIN R : RootInodeID \notin DOMAIN R[d]
  <2> SUFFICES ASSUME NEW d \in DOMAIN R, RootInodeID \in DOMAIN R[d] PROVE FALSE
    OBVIOUS
  <2>1. /\ <<d, R[d][RootInodeID].name>> \in DOMAIN L
        /\ L[<<d, R[d][RootInodeID].name>>] = RootInodeID
        /\ R[d][RootInodeID].name \in Names /\ Root \in DOMAIN L /\ L[Root] = RootInodeID
    BY DEF TreeOf
  <2>2. <<d, R[d][RootInodeID].name>> = Root
    BY <2>1 DEF TreeOf
  <2> QED BY <2>1, <2>2, FuseAssumption DEF Root
<1>5. \A d \in INodes : KidsOf(R)[d] = IF d \in DOMAIN R THEN DOMAIN R[d] ELSE {}
  BY DEF KidsOf
<1>6. KidsOf(R) \in [INodes -> SUBSET INodes]
  BY <1>2 DEF KidsOf
<1>7. Range(L) \subseteq INodes
  BY DEF TreeOf, Range
<1>8. OneParent(KidsOf(R))
  BY <1>3, <1>5 DEF OneParent
<1> QED BY <1>1, <1>2, <1>3, <1>4, <1>6, <1>7, <1>8

\* deleteNSEntry: the entry goes from both structures, with the list of a
\* directory.
LEMMA RemoveEffect ==
  ASSUME NEW L, NEW R, NEW D, TreeOf(L, R, D), NEW k \in DOMAIN L \ {Root}, NEW j, j = L[k],
         NEW P, Unlisted(R, k[1], j, P),
         NEW M, M = Drop(L, k), NEW Q, Q = IF j \in D THEN Drop(P, j) ELSE P
  PROVE  Without(L, R, k, M, Q)
<1>0. /\ k[1] \in DOMAIN R /\ j \in DOMAIN R[k[1]]
      /\ j \in D <=> j \in DOMAIN R
  BY DEF TreeOf
<1>1. DOMAIN M = DOMAIN L \ {k} /\ \A l \in DOMAIN M : M[l] = L[l]
  BY DEF Drop, Restrict
<1>p. /\ DOMAIN P = DOMAIN R
      /\ \A d \in DOMAIN R : P[d] = IF d = k[1] THEN Drop(R[d], j) ELSE R[d]
  BY DEF Unlisted
<1>2. DOMAIN Q = DOMAIN R \ {j} /\ \A d \in DOMAIN Q : Q[d] = P[d]
  BY <1>0, <1>p DEF Drop, Restrict
<1>4. ASSUME NEW d \in DOMAIN Q
      PROVE  DOMAIN Q[d] = DOMAIN R[d] \ {j} /\ \A c \in DOMAIN Q[d] : Q[d][c] = R[d][c]
  <2>0. d \in DOMAIN R /\ Q[d] = P[d]
    BY <1>2
  <2>1. CASE d = k[1]
    <3>1. Q[d] = Drop(R[d], j)
      BY <1>p, <2>0, <2>1
    <3> QED BY <3>1 DEF Drop, Restrict
  <2>2. CASE d # k[1]
    <3>1. j \notin DOMAIN R[d]
      BY <1>0, <2>0, <2>2, TreeKids
    <3>2. Q[d] = R[d]
      BY <1>p, <2>0, <2>2
    <3> QED BY <3>1, <3>2
  <2> QED BY <2>1, <2>2
<1> QED BY <1>1, <1>2, <1>4 DEF Without

\* The tree stays a tree when the entry has no entries itself.
LEMMA EntryRemoved ==
  ASSUME NEW L, NEW R, NEW D, TreeOf(L, R, D), ReachOf(L, R),
         NEW k \in DOMAIN L \ {Root}, L[k] \in DOMAIN R => DOMAIN R[L[k]] = {},
         NEW M, NEW Q, Without(L, R, k, M, Q)
  PROVE  TreeOf(M, Q, D) /\ ReachOf(M, Q)
<1> DEFINE j == L[k]
<1>0. /\ k[1] \in DOMAIN R /\ j \in DOMAIN R[k[1]] /\ j \in INodes
      /\ j \in D <=> j \in DOMAIN R
      /\ j # RootInodeID
  BY DEF TreeOf
<1>1. DOMAIN M = DOMAIN L \ {k} /\ \A l \in DOMAIN M : M[l] = L[l]
  BY DEF Without
<1>2. DOMAIN Q = DOMAIN R \ {j}
  BY DEF Without
<1>4. ASSUME NEW d \in DOMAIN Q
      PROVE  DOMAIN Q[d] = DOMAIN R[d] \ {j} /\ \A c \in DOMAIN Q[d] : Q[d][c] = R[d][c]
  BY DEF Without
<1>5. j \in DOMAIN R => DOMAIN R[j] = {}
  BY ZenonT(30)
<1>6. \A l \in DOMAIN M : L[l] # j
  BY <1>1 DEF TreeOf
<1> HIDE DEF j
<1>7. TreeOf(M, Q, D)
  <2>1. Root \in DOMAIN M /\ M[Root] = RootInodeID
    BY <1>1 DEF TreeOf
  <2>2. ASSUME NEW l \in DOMAIN M \ {Root}
        PROVE  /\ l = <<l[1], l[2]>> /\ l[1] \in DOMAIN Q /\ l[2] \in Names
               /\ M[l] \in DOMAIN Q[l[1]] /\ Q[l[1]][M[l]].name = l[2]
    <3>1. /\ l = <<l[1], l[2]>> /\ l[1] \in DOMAIN R /\ l[2] \in Names
          /\ L[l] \in DOMAIN R[l[1]] /\ R[l[1]][L[l]].name = l[2]
      BY <1>1 DEF TreeOf
    <3>2. l[1] # j
      BY <1>5, <3>1
    <3>3. l[1] \in DOMAIN Q /\ M[l] = L[l] /\ L[l] # j
      BY <1>1, <1>2, <1>6, <3>1, <3>2
    <3>4. L[l] \in DOMAIN Q[l[1]] /\ Q[l[1]][L[l]] = R[l[1]][L[l]]
      BY ZenonT(30), <1>4, <3>1, <3>3
    <3> QED BY <3>1, <3>3, <3>4
  <2>3. ASSUME NEW d \in DOMAIN Q, NEW i \in DOMAIN Q[d]
        PROVE  /\ Q[d][i].name \in Names
               /\ <<d, Q[d][i].name>> \in DOMAIN M /\ M[<<d, Q[d][i].name>>] = i
    <3>1. d \in DOMAIN R /\ i \in DOMAIN R[d] /\ Q[d][i] = R[d][i] /\ i # j
      <4>1. DOMAIN Q[d] = DOMAIN R[d] \ {j} /\ Q[d][i] = R[d][i]
        BY <1>4
      <4> QED BY <1>2, <4>1
    <3>2. /\ R[d][i].name \in Names
          /\ <<d, R[d][i].name>> \in DOMAIN L /\ L[<<d, R[d][i].name>>] = i
      BY <3>1 DEF TreeOf
    <3>3. <<d, R[d][i].name>> # k
      BY <3>1, <3>2 DEF j
    <3> QED BY <1>1, <3>1, <3>2, <3>3
  <2>4. \A l, m \in DOMAIN M : M[l] = M[m] => l = m
    BY <1>1 DEF TreeOf
  <2>5. \A l \in DOMAIN M : M[l] \in INodes /\ (M[l] \in D <=> M[l] \in DOMAIN Q)
    BY <1>1, <1>2, <1>6 DEF TreeOf
  <2>6. ASSUME NEW d \in DOMAIN Q PROVE \E l \in DOMAIN M : M[l] = d
    <3>1. d \in DOMAIN R /\ d # j
      BY <1>2
    <3>2. PICK l \in DOMAIN L : L[l] = d
      BY <3>1 DEF TreeOf
    <3> QED BY <1>1, <3>1, <3>2 DEF j
  <2> QED BY <2>1, <2>2, <2>3, <2>4, <2>5, <2>6 DEF TreeOf
<1>8. ReachOf(M, Q)
  <2> SUFFICES ASSUME NEW S \in SUBSET INodes, RootInodeID \in S, ClosedUnder(KidsOf(Q), S)
               PROVE  Range(M) \subseteq S
    BY DEF ReachOf, Reaches
  <2>1. ClosedUnder(KidsOf(R), S \cup {j})
    <3> SUFFICES ASSUME NEW d \in S \cup {j}, NEW c \in KidsOf(R)[d] PROVE c \in S \cup {j}
      BY DEF ClosedUnder
    <3>1. d \in INodes /\ d \in DOMAIN R /\ c \in DOMAIN R[d]
      BY <1>0 DEF KidsOf
    <3>2. d # j
      BY <1>5, <3>1
    <3>3. CASE c # j
      <4>1. c \in KidsOf(Q)[d]
        BY <1>2, <1>4, <3>1, <3>2, <3>3 DEF KidsOf
      <4> QED BY <3>2, <4>1 DEF ClosedUnder
    <3> QED BY <3>3
  <2>2. Range(L) \subseteq S \cup {j}
    BY <1>0, <2>1 DEF ReachOf, Reaches
  <2> QED BY <1>1, <1>6, <2>2 DEF Range
<1> QED BY <1>7, <1>8

\* Rename: the entry k goes from one directory to the directory q, which lists it.
LEMMA MoveEffect ==
  ASSUME NEW L, NEW R, NEW D, TreeOf(L, R, D), NEW k \in DOMAIN L \ {Root},
         NEW i, i = L[k], NEW q \in DOMAIN R, NEW m, NEW t, t = <<q, m>>,
         NEW e, e.name = m, NEW M, M = With(Drop(L, k), t, i), t \notin DOMAIN L,
         NEW P, Unlisted(R, k[1], i, P),
         NEW Q, Q = With(P, q, With(P[q], i, e))
  PROVE  MovedTo(L, R, k, t, M, Q)
<1>0. k[1] \in DOMAIN R /\ i \in DOMAIN R[k[1]]
  BY DEF TreeOf
<1>1. \A d \in DOMAIN R : d # k[1] => i \notin DOMAIN R[d]
  BY <1>0, TreeKids
<1>2. /\ DOMAIN P = DOMAIN R
      /\ \A d \in DOMAIN R : P[d] = IF d = k[1] THEN Drop(R[d], i) ELSE R[d]
  BY DEF Unlisted
<1>3. DOMAIN Q = DOMAIN R /\ \A d \in DOMAIN R : Q[d] = IF d = q THEN With(P[d], i, e) ELSE P[d]
  BY ZenonT(30), <1>2 DEF With
<1>5. ASSUME NEW d \in DOMAIN R
      PROVE  DOMAIN P[d] = DOMAIN R[d] \ {i} /\ \A c \in DOMAIN P[d] : P[d][c] = R[d][c]
  <2>1. CASE d = k[1]
    <3>1. P[d] = Drop(R[d], i)
      BY <1>2, <2>1
    <3> QED BY <3>1 DEF Drop, Restrict
  <2>2. CASE d # k[1]
    <3>1. P[d] = R[d]
      BY <1>2, <2>2
    <3> QED BY <1>1, <2>2, <3>1
  <2> QED BY <2>1, <2>2
<1>6. ASSUME NEW d \in DOMAIN R
      PROVE  /\ DOMAIN Q[d] = (DOMAIN R[d] \ {i}) \cup (IF d = q THEN {i} ELSE {})
             /\ \A c \in DOMAIN R[d] \ {i} : Q[d][c] = R[d][c]
             /\ d = q => Q[d][i] = e
  <2>1. DOMAIN P[d] = DOMAIN R[d] \ {i} /\ \A c \in DOMAIN R[d] \ {i} : P[d][c] = R[d][c]
    BY <1>5
  <2>2. CASE d = q
    <3>1. Q[d] = With(P[d], i, e)
      BY <1>3, <2>2
    <3>2. /\ DOMAIN Q[d] = DOMAIN P[d] \cup {i} /\ Q[d][i] = e
          /\ \A c \in DOMAIN P[d] \ {i} : Q[d][c] = P[d][c]
      BY <3>1 DEF With
    <3>3. \A c \in DOMAIN R[d] \ {i} : Q[d][c] = R[d][c]
      BY <2>1, <3>2
    <3> QED BY <2>1, <2>2, <3>2, <3>3
  <2>3. CASE d # q
    <3>1. Q[d] = P[d]
      BY <1>3, <2>3
    <3> QED BY <2>1, <2>3, <3>1
  <2> QED BY <2>2, <2>3
<1>7. i \in DOMAIN Q[q] /\ Q[q][i] = e
  BY <1>6
<1>8. ASSUME NEW d \in DOMAIN R, NEW c \in DOMAIN R[d], c # i
      PROVE  c \in DOMAIN Q[d] /\ Q[d][c] = R[d][c]
  BY <1>6, <1>8
<1>9. ASSUME NEW d \in DOMAIN R, NEW c \in DOMAIN Q[d]
      PROVE  (c = i /\ d = q) \/ (c # i /\ c \in DOMAIN R[d])
  <2>1. DOMAIN Q[d] = (DOMAIN R[d] \ {i}) \cup (IF d = q THEN {i} ELSE {})
    BY <1>6
  <2> QED BY <2>1
<1>10. /\ DOMAIN M = (DOMAIN L \ {k}) \cup {t} /\ M[t] = i
       /\ \A l \in DOMAIN L \ {k} : M[l] = L[l]
  BY DEF With, Drop, Restrict
<1>11. t[1] = q /\ t[2] = m
  OBVIOUS
<1> QED BY <1>3, <1>7, <1>8, <1>9, <1>10, <1>11 DEF MovedTo

\* The tree stays a tree when the directory is not below what the entry names.
LEMMA EntryMoved ==
  ASSUME NEW L, NEW R, NEW D, TreeOf(L, R, D), ReachOf(L, R),
         NEW k \in DOMAIN L \ {Root}, NEW q \in DOMAIN R, NEW m \in Names,
         NEW t, t = <<q, m>>, t \notin DOMAIN L, q \notin Under(KidsOf(R), L[k]),
         NEW M, NEW Q, MovedTo(L, R, k, t, M, Q)
  PROVE  TreeOf(M, Q, D) /\ ReachOf(M, Q)
<1>i. PICK i : i = L[k]
  OBVIOUS
<1>m. /\ DOMAIN M = (DOMAIN L \ {k}) \cup {t} /\ M[t] = i
      /\ \A l \in DOMAIN L \ {k} : M[l] = L[l]
      /\ DOMAIN Q = DOMAIN R /\ i \in DOMAIN Q[q] /\ Q[q][i].name = m
      /\ \A d \in DOMAIN R : \A c \in DOMAIN R[d] : c # i => c \in DOMAIN Q[d] /\ Q[d][c] = R[d][c]
      /\ \A d \in DOMAIN R : \A c \in DOMAIN Q[d] :
            (c = i /\ d = q) \/ (c # i /\ c \in DOMAIN R[d])
      /\ q \notin Under(KidsOf(R), i)
  BY <1>i DEF MovedTo
<1> USE <1>i, <1>m
<1> DEFINE p == k[1]
<1>0. /\ p \in DOMAIN R /\ i \in DOMAIN R[p] /\ i \in INodes /\ p \in INodes /\ q \in INodes
      /\ i # RootInodeID
  <2>1. p \in DOMAIN R /\ i \in DOMAIN R[p] /\ i \in INodes /\ i # RootInodeID
    BY DEF TreeOf
  <2> QED BY <2>1, TreeKids
<1>2. \A l \in DOMAIN L \ {k} : L[l] # i
  BY DEF TreeOf
<1>4. \A d \in DOMAIN R : d # p => i \notin DOMAIN R[d]
  BY <1>0, TreeKids
<1> HIDE DEF p
<1>11. TreeOf(M, Q, D)
  <2>1. Root \in DOMAIN M /\ M[Root] = RootInodeID
    BY DEF TreeOf
  <2>2. ASSUME NEW l \in DOMAIN M \ {Root}
        PROVE  /\ l = <<l[1], l[2]>> /\ l[1] \in DOMAIN Q /\ l[2] \in Names
               /\ M[l] \in DOMAIN Q[l[1]] /\ Q[l[1]][M[l]].name = l[2]
    <3>1. CASE l = t
      <4>1. l[1] = q /\ l[2] = m /\ l = <<q, m>>
        BY <3>1
      <4> QED BY <3>1, <4>1
    <3>2. CASE l # t
      <4>1. l \in DOMAIN L \ {k, Root} /\ M[l] = L[l] /\ L[l] # i
        BY <1>2, <3>2
      <4>2. /\ l = <<l[1], l[2]>> /\ l[1] \in DOMAIN R /\ l[2] \in Names
            /\ L[l] \in DOMAIN R[l[1]] /\ R[l[1]][L[l]].name = l[2]
        BY <4>1 DEF TreeOf
      <4>3. L[l] \in DOMAIN Q[l[1]] /\ Q[l[1]][L[l]] = R[l[1]][L[l]]
        BY <4>1, <4>2
      <4> QED BY <4>1, <4>2, <4>3
    <3> QED BY <3>1, <3>2
  <2>3. ASSUME NEW d \in DOMAIN Q, NEW c \in DOMAIN Q[d]
        PROVE  /\ Q[d][c].name \in Names
               /\ <<d, Q[d][c].name>> \in DOMAIN M /\ M[<<d, Q[d][c].name>>] = c
    <3>1. CASE c = i /\ d = q
      BY <3>1
    <3>2. CASE c # i /\ c \in DOMAIN R[d]
      <4>0. Q[d][c] = R[d][c]
        BY <3>2
      <4>1. /\ R[d][c].name \in Names
            /\ <<d, R[d][c].name>> \in DOMAIN L /\ L[<<d, R[d][c].name>>] = c
        BY <3>2 DEF TreeOf
      <4>2. <<d, R[d][c].name>> # k
        BY <3>2, <4>1
      <4> QED BY <4>0, <4>1, <4>2
    <3> QED BY <3>1, <3>2
  <2>4. ASSUME NEW l \in DOMAIN M, NEW n \in DOMAIN M, M[l] = M[n] PROVE l = n
    <3>1. CASE l # t /\ n # t
      BY <2>4, <3>1 DEF TreeOf
    <3>2. CASE l = t \/ n = t
      BY <1>2, <2>4, <3>2
    <3> QED BY <3>1, <3>2
  <2>5. \A l \in DOMAIN M : M[l] \in INodes /\ (M[l] \in D <=> M[l] \in DOMAIN Q)
    <3>1. \A l \in DOMAIN L : L[l] \in INodes /\ (L[l] \in D <=> L[l] \in DOMAIN R)
      BY DEF TreeOf
    <3> QED BY <3>1
  <2>6. ASSUME NEW d \in DOMAIN Q PROVE \E l \in DOMAIN M : M[l] = d
    <3>1. PICK l \in DOMAIN L : L[l] = d
      BY DEF TreeOf
    <3> QED BY <3>1
  <2> QED BY <2>1, <2>2, <2>3, <2>4, <2>5, <2>6 DEF TreeOf
<1>12. Range(M) \subseteq Range(L)
  BY DEF Range
<1>13. ReachOf(M, Q)
  <2> DEFINE K == KidsOf(R)
             N == KidsOf(Q)
             T == Range(L)
  <2>1. K \in [INodes -> SUBSET INodes] /\ N \in [INodes -> SUBSET INodes] /\ T \in SUBSET INodes
    BY <1>11, TreeKids
  <2>2. OneParent(K) /\ Reaches(K, T)
    BY TreeKids DEF ReachOf
  <2>3. q \notin Under(K, i)
    OBVIOUS
  <2>7. q \in T
    BY DEF TreeOf, Range
  <2>4. KeepsBut(K, N, p, i)
    <3> SUFFICES ASSUME NEW d \in INodes, NEW c \in K[d], ~ (d = p /\ c = i) PROVE c \in N[d]
      BY DEF KeepsBut
    <3>1. d \in DOMAIN R /\ c \in DOMAIN R[d]
      BY DEF KidsOf
    <3>2. c # i
      BY <1>4, <3>1
    <3>3. c \in DOMAIN Q[d] /\ d \in DOMAIN Q
      BY <3>1, <3>2
    <3> QED BY <3>3 DEF KidsOf
  <2>5. i \in N[q]
    BY <1>0 DEF KidsOf
  <2> HIDE DEF K, N, T, p
  <2>6. Reaches(N, T)
    BY <1>0, <2>1, <2>2, <2>3, <2>4, <2>5, <2>7, Moved
  <2> QED BY <1>12, <2>6 DEF ReachOf, Reaches, N, T
<1> QED BY <1>11, <1>13

\* createNode: an inode that is not in the tree gets an entry in the directory p,
\* and if it is a directory an empty list of its own.
LEMMA AddEffect ==
  ASSUME NEW L, NEW R, NEW D, TreeOf(L, R, D), NEW p \in DOMAIN R, NEW n,
         NEW t, t = <<p, n>>, t \notin DOMAIN L, NEW i, i \notin Range(L), NEW e, e.name = n,
         NEW dir \in BOOLEAN, NEW M, M = With(L, t, i),
         NEW P, P = IF dir THEN With(R, i, <<>>) ELSE R,
         NEW Q, Q = With(P, p, With(P[p], i, e))
  PROVE  WithEntry(L, R, t, i, dir, M, Q)
<1>1. \A d \in DOMAIN R : d # i
  BY DEF TreeOf, Range
<1>2. \A d \in DOMAIN R : \A c \in DOMAIN R[d] : c # i
  <2>1. \A l \in DOMAIN L : L[l] # i
    BY DEF Range
  <2> SUFFICES ASSUME NEW d \in DOMAIN R, i \in DOMAIN R[d] PROVE FALSE
    OBVIOUS
  <2>2. <<d, R[d][i].name>> \in DOMAIN L /\ L[<<d, R[d][i].name>>] = i
    BY DEF TreeOf
  <2> QED BY <2>1, <2>2
<1>3. DOMAIN M = DOMAIN L \cup {t} /\ M[t] = i /\ \A l \in DOMAIN L : M[l] = L[l]
  BY DEF With
<1>4. /\ DOMAIN P = IF dir THEN DOMAIN R \cup {i} ELSE DOMAIN R
      /\ \A d \in DOMAIN R : P[d] = R[d]
      /\ dir => P[i] = <<>>
  BY <1>1 DEF With
<1>5. /\ DOMAIN Q = DOMAIN P /\ Q[p] = With(R[p], i, e)
      /\ \A d \in DOMAIN P : d # p => Q[d] = P[d]
  BY <1>4 DEF With
<1>6. DOMAIN <<>> = {}
  BY NoEntries
<1>7. dir => DOMAIN Q[i] = {}
  BY <1>1, <1>4, <1>5, <1>6
<1>8. /\ DOMAIN Q[p] = DOMAIN R[p] \cup {i} /\ Q[p][i] = e
      /\ \A c \in DOMAIN R[p] : Q[p][c] = R[p][c]
  BY <1>2, <1>5 DEF With
<1>9. t[1] = p /\ t[2] = n
  OBVIOUS
<1>10. \A d \in DOMAIN R : d # p => Q[d] = R[d]
  BY <1>4, <1>5
<1>11. DOMAIN Q = IF dir THEN DOMAIN R \cup {i} ELSE DOMAIN R
  BY <1>4, <1>5
<1> QED BY <1>3, <1>7, <1>8, <1>9, <1>10, <1>11 DEF WithEntry

\* The tree stays a tree, with one more directory if it is one.
LEMMA EntryAdded ==
  ASSUME NEW L, NEW R, NEW D, TreeOf(L, R, D), ReachOf(L, R),
         NEW p \in DOMAIN R, NEW n \in Names, NEW t, t = <<p, n>>, t \notin DOMAIN L,
         NEW i \in INodes, i \notin Range(L), i \notin D, NEW dir \in BOOLEAN,
         NEW C, C = IF dir THEN D \cup {i} ELSE D,
         NEW M, NEW Q, WithEntry(L, R, t, i, dir, M, Q)
  PROVE  TreeOf(M, Q, C) /\ ReachOf(M, Q)
<1>w. /\ DOMAIN M = DOMAIN L \cup {t} /\ M[t] = i /\ \A l \in DOMAIN L : M[l] = L[l]
      /\ DOMAIN Q = IF dir THEN DOMAIN R \cup {i} ELSE DOMAIN R
      /\ dir => DOMAIN Q[i] = {}
  BY DEF WithEntry
<1> USE <1>w
<1>1. \A l \in DOMAIN L : L[l] # i
  BY DEF Range
<1>2. i \notin DOMAIN R
  BY <1>1 DEF TreeOf
<1>3. \A d \in DOMAIN R : i \notin DOMAIN R[d]
  <2> SUFFICES ASSUME NEW d \in DOMAIN R, i \in DOMAIN R[d] PROVE FALSE
    OBVIOUS
  <2>1. <<d, R[d][i].name>> \in DOMAIN L /\ L[<<d, R[d][i].name>>] = i
    BY DEF TreeOf
  <2> QED BY <1>1, <2>1
<1>4. /\ DOMAIN Q[p] = DOMAIN R[p] \cup {i} /\ Q[p][i].name = n
      /\ \A c \in DOMAIN R[p] : Q[p][c] = R[p][c]
  BY DEF WithEntry
<1>5. \A d \in DOMAIN R : d # p => Q[d] = R[d]
  BY DEF WithEntry
<1>6. ASSUME NEW d \in DOMAIN R, NEW c \in DOMAIN R[d]
      PROVE  d \in DOMAIN Q /\ c \in DOMAIN Q[d] /\ Q[d][c] = R[d][c]
  BY <1>4, <1>5
<1>7. ASSUME NEW d \in DOMAIN Q, NEW c \in DOMAIN Q[d]
      PROVE  (d = p /\ c = i) \/ (d \in DOMAIN R /\ c \in DOMAIN R[d])
  <2>1. d \in DOMAIN R
    OBVIOUS
  <2>2. CASE d = p
    BY <1>4, <2>1, <2>2
  <2>3. CASE d # p
    BY <1>5, <2>1, <2>3
  <2> QED BY <2>2, <2>3
<1>8. TreeOf(M, Q, C)
  <2>1. Root \in DOMAIN M /\ M[Root] = RootInodeID
    BY DEF TreeOf
  <2>2. ASSUME NEW l \in DOMAIN M \ {Root}
        PROVE  /\ l = <<l[1], l[2]>> /\ l[1] \in DOMAIN Q /\ l[2] \in Names
               /\ M[l] \in DOMAIN Q[l[1]] /\ Q[l[1]][M[l]].name = l[2]
    <3>1. CASE l = t
      <4>1. l[1] = p /\ l[2] = n /\ l = <<p, n>>
        BY <3>1
      <4> QED BY <1>4, <3>1, <4>1
    <3>2. CASE l # t
      <4>1. l \in DOMAIN L \ {Root} /\ M[l] = L[l]
        BY <3>2
      <4>2. /\ l = <<l[1], l[2]>> /\ l[1] \in DOMAIN R /\ l[2] \in Names
            /\ L[l] \in DOMAIN R[l[1]] /\ R[l[1]][L[l]].name = l[2]
        BY <4>1 DEF TreeOf
      <4>3. l[1] \in DOMAIN Q /\ L[l] \in DOMAIN Q[l[1]] /\ Q[l[1]][L[l]] = R[l[1]][L[l]]
        BY <1>6, <4>2
      <4> QED BY <4>1, <4>2, <4>3
    <3> QED BY ZenonT(30), <3>1, <3>2
  <2>3. ASSUME NEW d \in DOMAIN Q, NEW c \in DOMAIN Q[d]
        PROVE  /\ Q[d][c].name \in Names
               /\ <<d, Q[d][c].name>> \in DOMAIN M /\ M[<<d, Q[d][c].name>>] = c
    <3>1. CASE d = p /\ c = i
      BY <1>4, <3>1
    <3>2. CASE d \in DOMAIN R /\ c \in DOMAIN R[d]
      <4>1. Q[d][c] = R[d][c]
        BY <1>6, <3>2
      <4>2. /\ R[d][c].name \in Names
            /\ <<d, R[d][c].name>> \in DOMAIN L /\ L[<<d, R[d][c].name>>] = c
        BY <3>2 DEF TreeOf
      <4> QED BY <4>1, <4>2
    <3> QED BY <1>7, <3>1, <3>2
  <2>4. ASSUME NEW l \in DOMAIN M, NEW m \in DOMAIN M, M[l] = M[m] PROVE l = m
    <3>1. CASE l # t /\ m # t
      BY <2>4, <3>1 DEF TreeOf
    <3>2. CASE l = t \/ m = t
      BY <1>1, <2>4, <3>2
    <3> QED BY <3>1, <3>2
  <2>5. ASSUME NEW l \in DOMAIN M PROVE M[l] \in INodes /\ (M[l] \in C <=> M[l] \in DOMAIN Q)
    <3>1. CASE l = t
      BY <1>2, <3>1
    <3>2. CASE l # t
      <4>1. l \in DOMAIN L /\ M[l] = L[l] /\ L[l] # i
        BY <1>1, <3>2
      <4>2. L[l] \in INodes /\ (L[l] \in D <=> L[l] \in DOMAIN R)
        BY <4>1 DEF TreeOf
      <4> QED BY <4>1, <4>2
    <3> QED BY <3>1, <3>2
  <2>6. ASSUME NEW d \in DOMAIN Q PROVE \E l \in DOMAIN M : M[l] = d
    <3>1. CASE d = i
      BY <3>1
    <3>2. CASE d # i
      <4>1. PICK l \in DOMAIN L : L[l] = d
        BY <3>2 DEF TreeOf
      <4> QED BY <4>1
    <3> QED BY <3>1, <3>2
  <2> QED BY ZenonT(30), <2>1, <2>2, <2>3, <2>4, <2>5, <2>6 DEF TreeOf
<1>9. ReachOf(M, Q)
  <2> SUFFICES ASSUME NEW S \in SUBSET INodes, RootInodeID \in S, ClosedUnder(KidsOf(Q), S)
               PROVE  Range(M) \subseteq S
    BY DEF ReachOf, Reaches
  <2>1. ClosedUnder(KidsOf(R), S)
    <3> SUFFICES ASSUME NEW d \in S, NEW c \in KidsOf(R)[d] PROVE c \in S
      BY DEF ClosedUnder
    <3>1. d \in INodes /\ d \in DOMAIN R /\ c \in DOMAIN R[d]
      BY DEF KidsOf
    <3>2. d \in DOMAIN Q /\ c \in DOMAIN Q[d]
      BY <1>6, <3>1
    <3>3. c \in KidsOf(Q)[d]
      BY <3>1, <3>2 DEF KidsOf
    <3> QED BY <3>3 DEF ClosedUnder
  <2>2. Range(L) \subseteq S
    BY <2>1 DEF ReachOf, Reaches
  <2>3. i \in S
    <3>0. PICK l \in DOMAIN L : L[l] = p
      BY DEF TreeOf
    <3>1. p \in Range(L) /\ p \in INodes
      BY <3>0, TreeKids DEF Range
    <3>2. p \in S
      BY <2>2, <3>1
    <3>3. i \in KidsOf(Q)[p]
      BY <1>4, <3>1 DEF KidsOf
    <3> QED BY <3>2, <3>3 DEF ClosedUnder
  <2> QED BY <2>2, <2>3 DEF Range
<1> QED BY <1>8, <1>9
=============================================================================
