-------------------------- MODULE NamespaceProofs --------------------------
(***************************************************************************)
(* Theorems about Namespace, for every tree of paths, every set of users   *)
(* and any number of calls.                                                *)
(***************************************************************************)
EXTENDS Namespace, TLAPS

-----------------------------------------------------------------------------
(***************************************************************************)
(* Attributes.                                                             *)
(***************************************************************************)
LEMMA NewIsAttribute ==
  ASSUME NEW kind \in {"dir", "file", "link"}, NEW linked \in BOOLEAN, NEW uid \in Users
  PROVE  /\ New(kind, linked, uid) \in Attribute
         /\ New(kind, linked, uid).kind = kind
         /\ \A n \in Names : New(kind, linked, uid).list[n] = 0
BY DEF New, Attribute, NoNames

\* Editing the list of an attribute changes one count of it and no more.
LEMMA EditedAttribute ==
  ASSUME NEW x \in Attribute, NEW n \in Names
  PROVE  /\ Push(x, n) \in Attribute
         /\ Push(x, n).kind = x.kind
         /\ \A m \in Names : Push(x, n).list[m] = IF m = n THEN x.list[m] + 1 ELSE x.list[m]
         /\ Strike(x, n) \in Attribute
         /\ Strike(x, n).kind = x.kind
         /\ \A m \in Names : Strike(x, n).list[m] = IF m = n THEN 0 ELSE x.list[m]
         /\ x.list[n] > 0 => Erase(x, n) \in Attribute
         /\ Erase(x, n).kind = x.kind
         /\ \A m \in Names : Erase(x, n).list[m] = IF m = n THEN x.list[m] - 1 ELSE x.list[m]
BY DEF Push, Strike, Erase, Attribute

-----------------------------------------------------------------------------
(***************************************************************************)
(* What the calls do, path by path.                                        *)
(***************************************************************************)
LEMMA ParentExists ==
  ASSUME NEW p, Resolves(p)
  PROVE  /\ p \in Inner /\ p \in Paths /\ p # Root
         /\ Parent[p] \in Paths /\ Parent[p] # p
         /\ Leaf[p] \in Names
         /\ IsDir(Parent[p])
BY NamespaceAssumption DEF Resolves, Inner

LEMMA DirectoryHasAttribute ==
  ASSUME TypeOK, NEW p \in Paths, Exists(p)
  PROVE  attr[p] \in Attribute
BY DEF TypeOK, Exists

LEMMA Registered ==
  ASSUME TypeOK, NEW p, Resolves(p), NEW x, Register(p, x)
  PROVE  \A d \in Paths : attr'[d] = IF d = p THEN x
                                     ELSE IF d = Parent[p] THEN Push(attr[d], Leaf[p])
                                     ELSE attr[d]
BY ParentExists DEF TypeOK, Register

LEMMA Removed ==
  ASSUME TypeOK, NEW p, Resolves(p),
         attr' = [attr EXCEPT ![p] = Missing, ![Parent[p]] = Strike(@, Leaf[p])]
  PROVE  \A d \in Paths : attr'[d] = IF d = p THEN Missing
                                     ELSE IF d = Parent[p] THEN Strike(attr[d], Leaf[p])
                                     ELSE attr[d]
BY ParentExists DEF TypeOK

\* The attribute of d when rename has erased the old leaf.
WithoutLeaf(p, d) == IF d = Parent[p] THEN Erase(attr[d], Leaf[p]) ELSE attr[d]

LEMMA Renamed ==
  ASSUME TypeOK, NEW p, NEW q, MayRename(p, q), attr' = Moved(p, q)
  PROVE  /\ p # Parent[q] /\ q # Parent[p]
         /\ \A d \in Paths :
              attr'[d] = IF d = p THEN Missing
                         ELSE IF d = q THEN attr[p]
                         ELSE IF d = Parent[q] THEN Push(WithoutLeaf(p, d), Leaf[q])
                         ELSE WithoutLeaf(p, d)
<1>1. Resolves(p) /\ Resolves(q)
  BY DEF MayRename, MayRemove
<1>2. p # q /\ p # Parent[q] /\ q # Parent[p]
  BY <1>1, ParentExists, NamespaceAssumption DEF MayRename, Resolves
<1> DEFINE erased == [attr EXCEPT ![Parent[p]] = Erase(@, Leaf[p])]
<1> DEFINE pushed == [erased EXCEPT ![Parent[q]] = Push(@, Leaf[q])]
<1>3. attr' = [pushed EXCEPT ![q] = pushed[p], ![p] = Missing]
  BY DEF Moved
<1>4. \A d \in Paths : erased[d] = WithoutLeaf(p, d)
  BY <1>1, ParentExists DEF TypeOK, WithoutLeaf
<1>5. \A d \in Paths : pushed[d] = IF d = Parent[q] THEN Push(erased[d], Leaf[q]) ELSE erased[d]
  BY <1>1, ParentExists DEF TypeOK
<1>6. pushed[p] = attr[p]
  BY <1>1, <1>2, <1>4, <1>5, ParentExists DEF WithoutLeaf
<1>7. pushed \in [Paths -> {pushed[d] : d \in Paths}] /\ DOMAIN pushed = Paths
  BY DEF TypeOK
<1>8. \A d \in Paths : attr'[d] = IF d = p THEN Missing ELSE IF d = q THEN pushed[p] ELSE pushed[d]
  <2> HIDE DEF pushed
  <2> QED  BY <1>1, <1>2, <1>3, <1>7, ParentExists
<1>9. QED
  <2> HIDE DEF erased, pushed
  <2> QED  BY <1>2, <1>4, <1>5, <1>6, <1>8

-----------------------------------------------------------------------------
(***************************************************************************)
(* A step that registers, removes or renames a path keeps the tree.        *)
(***************************************************************************)
LEMMA FlightsArePaths ==
  ASSUME TypeOK
  PROVE  \A f \in flights : f.path \in Inner /\ f.path \in Paths /\ f.value \in Attribute
BY DEF TypeOK, Inner

\* purge empties the entry of its path, and knows the flights of it.
LEMMA Purged ==
  ASSUME TypeOK, NEW p \in Inner, Purge(p)
  PROVE  /\ \A r \in Paths : stored'[r] = IF r = p THEN Missing ELSE stored[r]
         /\ stored' \in [Paths -> Attribute \cup {Missing}]
         /\ flights' = flights /\ raced \subseteq raced' /\ raced' \subseteq Inner
         /\ \A f \in flights : f.path = p => p \in raced'
BY DEF Purge, TypeOK, Inner

\* A path without an attribute has nothing below it.
LEMMA NothingBelow ==
  ASSUME ListingExact, NEW p \in Inner, p \notin loose, ~IsDir(p)
  PROVE  \A c \in Inner : Parent[c] = p => ~Exists(c)
BY DEF ListingExact, Exists

LEMMA RegisterKeepsTree ==
  ASSUME TypeOK, TreeInv, NEW p, MayCreate(p),
         NEW kind \in {"dir", "file", "link"}, NEW linked \in BOOLEAN, NEW uid \in Users,
         Register(p, New(kind, linked, uid)), UNCHANGED <<stored, flights, loose, raced>>
  PROVE  TreeInv' /\ attr' \in [Paths -> Attribute \cup {Missing}]
<1> DEFINE x == New(kind, linked, uid)
<1> DEFINE up == Parent[p]
<1>1. Resolves(p) /\ ~Exists(p)
  BY DEF MayCreate
<1>2. p \in Inner /\ p \in Paths /\ up \in Paths /\ up # p /\ Leaf[p] \in Names /\ IsDir(up)
  BY <1>1, ParentExists
<1>3. x \in Attribute /\ x # Missing /\ \A n \in Names : x.list[n] = 0
  BY NewIsAttribute, MissingAssumption
<1>4. attr[up] \in Attribute
  BY <1>2, DirectoryHasAttribute DEF IsDir, Exists
<1> DEFINE y == Push(attr[up], Leaf[p])
<1>5. /\ y \in Attribute /\ y # Missing /\ y.kind = "dir"
      /\ \A m \in Names : y.list[m] = IF m = Leaf[p] THEN attr[up].list[m] + 1 ELSE attr[up].list[m]
  <2>1. attr[up].kind = "dir" /\ Leaf[p] \in Names
    BY <1>2 DEF IsDir
  <2>2. /\ y \in Attribute /\ y.kind = attr[up].kind
        /\ \A m \in Names : y.list[m] = IF m = Leaf[p] THEN attr[up].list[m] + 1 ELSE attr[up].list[m]
    BY <1>2, <1>4, EditedAttribute
  <2>3. QED  BY <2>1, <2>2, MissingAssumption
<1> HIDE DEF x, y
<1>6. \A d \in Paths : attr'[d] = IF d = p THEN x ELSE IF d = up THEN y ELSE attr[d]
  BY <1>1, Registered DEF x, y
<1>7. \A d \in Paths : Exists(d)' <=> Exists(d) \/ d = p
  BY <1>2, <1>3, <1>5, <1>6 DEF Exists, IsDir
<1>8. \A d \in Paths : d # p => (IsDir(d)' <=> IsDir(d))
  BY <1>2, <1>5, <1>6 DEF IsDir
<1>9. \A c \in Inner : c \in Paths /\ Parent[c] \in Paths /\ Leaf[c] \in Names
  BY NamespaceAssumption DEF Inner
<1>10. \A c \in Inner : Parent[c] = up /\ Leaf[c] = Leaf[p] => c = p
  BY <1>2, NamespaceAssumption
<1>11. ListingExact'
  <2> SUFFICES ASSUME NEW c \in Inner, Parent[c] \notin loose
               PROVE  /\ Exists(c)' => IsDir(Parent[c])'
                      /\ IsDir(Parent[c])' =>
                           attr'[Parent[c]].list[Leaf[c]] = IF Exists(c)' THEN 1 ELSE 0
    BY DEF ListingExact
  <2>1. /\ Exists(c) => IsDir(Parent[c])
        /\ IsDir(Parent[c]) => attr[Parent[c]].list[Leaf[c]] = IF Exists(c) THEN 1 ELSE 0
    BY DEF TreeInv, ListingExact
  <2>2. CASE Parent[c] = p
    <3>1. ~Exists(c) /\ c # p
      BY <1>1, <1>2, <2>1, <2>2 DEF IsDir, Exists
    <3>2. QED  BY <1>2, <1>3, <1>6, <1>7, <1>9, <2>2, <3>1
  <2>3. CASE c = p
    BY <1>1, <1>2, <1>5, <1>6, <1>7, <1>8, <2>1, <2>3
  <2>4. CASE Parent[c] # p /\ c # p
    <3>1. (Exists(c)' <=> Exists(c)) /\ (IsDir(Parent[c])' <=> IsDir(Parent[c]))
      BY <1>7, <1>8, <1>9, <2>4
    <3>2. attr'[Parent[c]].list[Leaf[c]] = attr[Parent[c]].list[Leaf[c]]
      BY <1>5, <1>6, <1>9, <1>10, <2>4
    <3>3. QED  BY <2>1, <3>1, <3>2
  <2>5. QED  BY <2>2, <2>3, <2>4
<1>12. ListedExist'
  <2> SUFFICES ASSUME NEW d \in Paths \ loose, IsDir(d)', NEW n \in Names, attr'[d].list[n] > 0
               PROVE  \E c \in Inner : Parent[c] = d /\ Exists(c)' /\ Leaf[c] = n
    BY DEF ListedExist, Children
  <2>1. d # p
    BY <1>2, <1>3, <1>6
  <2>2. CASE d = up /\ n = Leaf[p]
    BY <1>2, <1>7, <2>2
  <2>3. CASE ~(d = up /\ n = Leaf[p])
    <3>1. IsDir(d) /\ attr[d].list[n] > 0
      BY <1>5, <1>6, <1>8, <2>1, <2>3
    <3>2. \E c \in Children(d) : Leaf[c] = n
      BY <3>1 DEF TreeInv, ListedExist
    <3>3. QED  BY <3>2, <1>7, <1>9 DEF Children
  <2>4. QED  BY <2>2, <2>3
<1>13. DirectoriesUnstored' /\ StoredExists' /\ FlightsExist'
  BY <1>7, <1>9, FlightsArePaths DEF TreeInv, DirectoriesUnstored, StoredExists, FlightsExist
<1>14. attr' \in [Paths -> Attribute \cup {Missing}]
  <2>1. \A d \in Paths : attr'[d] \in Attribute \cup {Missing}
    BY <1>3, <1>5, <1>6 DEF TypeOK
  <2>2. attr' \in [Paths -> {attr'[d] : d \in Paths}]
    BY DEF Register, TypeOK
  <2>3. QED  BY <2>1, <2>2
<1>15. QED  BY <1>11, <1>12, <1>13, <1>14 DEF TreeInv

LEMMA RemovalKeepsTree ==
  ASSUME TypeOK, TreeInv, NEW p, MayRemove(p),
         attr' = [attr EXCEPT ![p] = Missing, ![Parent[p]] = Strike(@, Leaf[p])],
         Purge(p),
         loose' = loose \/ loose' = loose \cup {p},
         IsDir(p) /\ Children(p) # {} => p \in loose'
  PROVE  TreeInv' /\ attr' \in [Paths -> Attribute \cup {Missing}]
<1> DEFINE up == Parent[p]
<1>1. Resolves(p)
  BY DEF MayRemove
<1>2. p \in Inner /\ p \in Paths /\ up \in Paths /\ up # p /\ Leaf[p] \in Names /\ IsDir(up)
  BY <1>1, ParentExists
<1>3. attr[up] \in Attribute /\ attr[up].kind = "dir"
  BY <1>2, DirectoryHasAttribute DEF IsDir, Exists
<1> DEFINE y == Strike(attr[up], Leaf[p])
<1>4. /\ y \in Attribute /\ y # Missing /\ y.kind = "dir"
      /\ \A m \in Names : y.list[m] = IF m = Leaf[p] THEN 0 ELSE attr[up].list[m]
  <2>1. /\ y \in Attribute /\ y.kind = attr[up].kind
        /\ \A m \in Names : y.list[m] = IF m = Leaf[p] THEN 0 ELSE attr[up].list[m]
    BY <1>2, <1>3, EditedAttribute
  <2>2. QED  BY <1>3, <2>1, MissingAssumption
<1> HIDE DEF y
<1>5. \A d \in Paths : attr'[d] = IF d = p THEN Missing ELSE IF d = up THEN y ELSE attr[d]
  BY <1>1, Removed DEF y
<1>6. \A d \in Paths : Exists(d)' <=> Exists(d) /\ d # p
  BY <1>2, <1>4, <1>5 DEF Exists, IsDir
<1>7. \A d \in Paths : IsDir(d)' <=> IsDir(d) /\ d # p
  BY <1>2, <1>4, <1>5 DEF IsDir
<1>8. \A c \in Inner : c \in Paths /\ Parent[c] \in Paths /\ Leaf[c] \in Names
  BY NamespaceAssumption DEF Inner
<1>9. \A c \in Inner : Parent[c] = up /\ Leaf[c] = Leaf[p] => c = p
  BY <1>2, NamespaceAssumption
<1>10. ListingExact'
  <2> SUFFICES ASSUME NEW c \in Inner, Parent[c] \notin loose'
               PROVE  /\ Exists(c)' => IsDir(Parent[c])'
                      /\ IsDir(Parent[c])' =>
                           attr'[Parent[c]].list[Leaf[c]] = IF Exists(c)' THEN 1 ELSE 0
    BY DEF ListingExact
  <2>1. /\ Exists(c) => IsDir(Parent[c])
        /\ IsDir(Parent[c]) => attr[Parent[c]].list[Leaf[c]] = IF Exists(c) THEN 1 ELSE 0
    BY DEF TreeInv, ListingExact
  <2>2. CASE Parent[c] = p
    <3>1. ~Exists(c)
      BY <2>1, <2>2 DEF Children
    <3>2. QED  BY <1>2, <1>6, <1>7, <1>8, <2>2, <3>1
  <2>3. CASE c = p
    BY <1>2, <1>4, <1>5, <1>6, <2>3
  <2>4. CASE Parent[c] # p /\ c # p
    <3>1. (Exists(c)' <=> Exists(c)) /\ (IsDir(Parent[c])' <=> IsDir(Parent[c]))
      BY <1>6, <1>7, <1>8, <2>4
    <3>2. attr'[Parent[c]].list[Leaf[c]] = attr[Parent[c]].list[Leaf[c]]
      <4>1. CASE Parent[c] = up
        <5>1. Leaf[c] # Leaf[p] /\ Leaf[c] \in Names
          BY <1>8, <1>9, <2>4, <4>1
        <5>2. attr'[up] = y /\ y.list[Leaf[c]] = attr[up].list[Leaf[c]]
          BY <1>2, <1>4, <1>5, <5>1
        <5>3. QED  BY <4>1, <5>2
      <4>2. CASE Parent[c] # up
        BY <1>5, <1>8, <2>4, <4>2
      <4>3. QED  BY <4>1, <4>2
    <3>3. QED  BY <2>1, <3>1, <3>2
  <2>5. QED  BY <2>2, <2>3, <2>4
<1>11. ListedExist'
  <2> SUFFICES ASSUME NEW d \in Paths \ loose', IsDir(d)', NEW n \in Names, attr'[d].list[n] > 0
               PROVE  \E c \in Inner : Parent[c] = d /\ Exists(c)' /\ Leaf[c] = n
    BY DEF ListedExist, Children
  <2>1. d # p /\ IsDir(d)
    BY <1>7
  <2>2. attr[d].list[n] > 0 /\ ~(d = up /\ n = Leaf[p])
    <3>1. CASE d = up
      <4>1. attr'[d] = y /\ y.list[n] > 0
        BY <1>5, <2>1, <3>1
      <4>2. y.list[n] = IF n = Leaf[p] THEN 0 ELSE attr[d].list[n]
        BY <1>4, <3>1
      <4>3. QED  BY <4>1, <4>2
    <3>2. CASE d # up
      BY <1>5, <2>1, <3>2
    <3>3. QED  BY <3>1, <3>2
  <2>3. \E c \in Children(d) : Leaf[c] = n
    BY <2>1, <2>2 DEF TreeInv, ListedExist
  <2>4. QED  BY <2>2, <2>3, <1>6, <1>8 DEF Children
<1>12. DirectoriesUnstored' /\ StoredExists'
  BY <1>2, <1>6, <1>8, Purged DEF TreeInv, DirectoriesUnstored, StoredExists
<1>13. FlightsExist'
  BY <1>2, <1>6, Purged, FlightsArePaths DEF TreeInv, FlightsExist
<1>14. attr' \in [Paths -> Attribute \cup {Missing}]
  <2>1. \A d \in Paths : attr'[d] \in Attribute \cup {Missing}
    BY <1>4, <1>5 DEF TypeOK
  <2>2. attr' \in [Paths -> {attr'[d] : d \in Paths}]
    BY DEF TypeOK
  <2>3. QED  BY <2>1, <2>2
<1>15. QED  BY <1>10, <1>11, <1>12, <1>13, <1>14 DEF TreeInv

LEMMA RenameKeepsTree ==
  ASSUME TypeOK, TreeInv, NEW p, NEW q, Rename(p, q)
  PROVE  TreeInv' /\ attr' \in [Paths -> Attribute \cup {Missing}]
<1> DEFINE from == Parent[p]
<1> DEFINE to == Parent[q]
<1>1. MayRename(p, q) /\ Resolves(p) /\ Resolves(q) /\ Exists(p) /\ p # q
  BY DEF Rename, MayRename, MayRemove
<1>2. /\ p \in Inner /\ p \in Paths /\ from \in Paths /\ from # p /\ Leaf[p] \in Names /\ IsDir(from)
      /\ q \in Inner /\ q \in Paths /\ to \in Paths /\ to # q /\ Leaf[q] \in Names /\ IsDir(to)
      /\ attr[from].list[Leaf[p]] > 0
  BY <1>1, ParentExists DEF Rename
<1>3. /\ p # to /\ q # from
      /\ \A d \in Paths :
           attr'[d] = IF d = p THEN Missing
                      ELSE IF d = q THEN attr[p]
                      ELSE IF d = to THEN Push(WithoutLeaf(p, d), Leaf[q])
                      ELSE WithoutLeaf(p, d)
  BY <1>1, Renamed DEF Rename
<1> DEFINE Count(d, n) ==
      attr[d].list[n] - (IF d = from /\ n = Leaf[p] THEN 1 ELSE 0)
                      + (IF d = to /\ n = Leaf[q] THEN 1 ELSE 0)
<1>4. \A d \in Paths : IsDir(d) /\ d # p /\ d # q =>
        /\ attr'[d] \in Attribute /\ attr'[d].kind = "dir"
        /\ \A n \in Names : attr'[d].list[n] = Count(d, n)
  <2> SUFFICES ASSUME NEW d \in Paths, IsDir(d), d # p, d # q
               PROVE  /\ attr'[d] \in Attribute /\ attr'[d].kind = "dir"
                      /\ \A n \in Names : attr'[d].list[n] = Count(d, n)
    OBVIOUS
  <2>1. attr[d] \in Attribute /\ attr[d].kind = "dir" /\ \A n \in Names : attr[d].list[n] \in Nat
    BY DirectoryHasAttribute DEF IsDir, Exists, Attribute
  <2> DEFINE w == WithoutLeaf(p, d)
  <2>2. /\ w \in Attribute /\ w.kind = attr[d].kind
        /\ \A n \in Names : w.list[n] = attr[d].list[n] - (IF d = from /\ n = Leaf[p] THEN 1 ELSE 0)
    <3>1. CASE d = from
      <4>1. w = Erase(attr[d], Leaf[p]) /\ attr[d].list[Leaf[p]] > 0
        BY <1>2, <3>1 DEF WithoutLeaf
      <4>2. /\ Erase(attr[d], Leaf[p]) \in Attribute
            /\ Erase(attr[d], Leaf[p]).kind = attr[d].kind
            /\ \A m \in Names : Erase(attr[d], Leaf[p]).list[m]
                                  = IF m = Leaf[p] THEN attr[d].list[m] - 1 ELSE attr[d].list[m]
        BY <1>2, <2>1, <4>1, EditedAttribute
      <4> HIDE DEF w
      <4>3. QED  BY <2>1, <3>1, <4>1, <4>2
    <3>2. CASE d # from
      BY <2>1, <3>2 DEF WithoutLeaf
    <3>3. QED  BY <3>1, <3>2
  <2>3. \A n \in Names : w.list[n] \in Nat
    BY <2>2 DEF Attribute
  <2> HIDE DEF w
  <2>4. CASE d = to
    <3>1. attr'[d] = Push(w, Leaf[q])
      BY <1>3, <2>4 DEF w
    <3>2. /\ Push(w, Leaf[q]) \in Attribute /\ Push(w, Leaf[q]).kind = w.kind
          /\ \A m \in Names : Push(w, Leaf[q]).list[m]
                                = IF m = Leaf[q] THEN w.list[m] + 1 ELSE w.list[m]
      BY <1>2, <2>2, EditedAttribute
    <3>3. QED  BY <2>1, <2>2, <2>3, <2>4, <3>1, <3>2
  <2>5. CASE d # to
    <3>1. attr'[d] = w
      BY <1>3, <2>5 DEF w
    <3>2. QED  BY <2>1, <2>2, <2>3, <2>5, <3>1
  <2>6. QED  BY <2>4, <2>5
<1>5. \A d \in Paths : ~IsDir(d) /\ d # p /\ d # q => attr'[d] = attr[d]
  BY <1>2, <1>3 DEF WithoutLeaf
<1>6. attr'[p] = Missing /\ attr'[q] = attr[p] /\ attr[p] \in Attribute
  BY <1>1, <1>2, <1>3, DirectoryHasAttribute
<1> HIDE DEF Count
<1>7. \A d \in Paths : Exists(d)' <=> d = q \/ (Exists(d) /\ d # p)
  BY <1>1, <1>4, <1>5, <1>6, MissingAssumption DEF Exists, IsDir
<1>8. \A d \in Paths : IsDir(d)' <=> IF d = q THEN IsDir(p) ELSE IsDir(d) /\ d # p
  BY <1>1, <1>4, <1>5, <1>6, MissingAssumption DEF IsDir
<1>9. \A c \in Inner : c \in Paths /\ Parent[c] \in Paths /\ Leaf[c] \in Names
  BY NamespaceAssumption DEF Inner
<1>10. \A c, d \in Inner : Parent[c] = Parent[d] /\ Leaf[c] = Leaf[d] => c = d
  BY NamespaceAssumption
<1>11. /\ loose \subseteq loose'
       /\ Exists(q) => to \in loose'
       /\ (p \in loose \/ Children(p) # {} \/ Children(q) # {}) => p \in loose' /\ q \in loose'
  BY DEF Rename, Loosened
<1>12. q \notin loose' => \A n \in Names : IsDir(p) => attr[p].list[n] = 0
  <2> SUFFICES ASSUME q \notin loose', NEW n \in Names, IsDir(p)
               PROVE  attr[p].list[n] = 0
    OBVIOUS
  <2>1. ~(attr[p].list[n] > 0)
    BY <1>2, <1>11 DEF TreeInv, ListedExist
  <2>2. attr[p].list[n] \in Nat
    BY <1>6 DEF Attribute
  <2>3. QED  BY <2>1, <2>2
<1>13. ListingExact'
  <2> SUFFICES ASSUME NEW c \in Inner, Parent[c] \notin loose'
               PROVE  /\ Exists(c)' => IsDir(Parent[c])'
                      /\ IsDir(Parent[c])' =>
                           attr'[Parent[c]].list[Leaf[c]] = IF Exists(c)' THEN 1 ELSE 0
    BY DEF ListingExact
  <2>1. /\ Exists(c) => IsDir(Parent[c])
        /\ IsDir(Parent[c]) => attr[Parent[c]].list[Leaf[c]] = IF Exists(c) THEN 1 ELSE 0
    BY <1>11 DEF TreeInv, ListingExact
  <2>2. CASE Parent[c] = p
    <3>1. ~Exists(c) /\ c # q
      BY <1>3, <1>11, <2>2 DEF Children
    <3>2. QED  BY <1>1, <1>2, <1>7, <1>8, <1>9, <2>2, <3>1
  <2>3. CASE Parent[c] = q
    <3>1. ~Exists(c) /\ c # q
      BY <1>2, <1>11, <2>3 DEF Children
    <3>2. ~Exists(c)'
      BY <1>7, <1>9, <3>1
    <3>3. IsDir(q)' => attr'[q].list[Leaf[c]] = 0
      BY <1>2, <1>6, <1>8, <1>9, <1>12, <2>3
    <3>4. QED  BY <2>3, <3>2, <3>3
  <2>4. CASE Parent[c] # p /\ Parent[c] # q
    <3>1. IsDir(Parent[c])' <=> IsDir(Parent[c])
      BY <1>8, <1>9, <2>4
    <3>2. IsDir(Parent[c]) => attr'[Parent[c]].list[Leaf[c]] = Count(Parent[c], Leaf[c])
      BY <1>4, <1>9, <2>4
    <3>3. CASE c = p
      <4>1. Count(Parent[c], Leaf[c]) = attr[from].list[Leaf[p]] - 1
        <5>1. ~(from = to /\ Leaf[p] = Leaf[q])
          BY <1>1, <1>2, <1>10
        <5>2. attr[from].list[Leaf[p]] \in Nat
          BY <1>2, DirectoryHasAttribute DEF IsDir, Exists, Attribute
        <5>3. QED  BY <3>3, <5>1, <5>2 DEF Count
      <4>2. attr[from].list[Leaf[p]] = 1
        BY <1>1, <1>2, <2>1, <3>3
      <4>3. QED  BY <1>1, <1>2, <1>7, <3>1, <3>2, <3>3, <4>1, <4>2
    <3>4. CASE c = q
      <4>1. attr[to].list[Leaf[q]] = 0
        BY <1>2, <1>11, <2>1, <3>4
      <4>2. Count(to, Leaf[q]) = 1
        <5>1. ~(to = from /\ Leaf[q] = Leaf[p])
          BY <1>1, <1>2, <1>10
        <5>2. QED  BY <4>1, <5>1 DEF Count
      <4>3. IsDir(Parent[c])' /\ attr'[Parent[c]].list[Leaf[c]] = 1
        BY <1>2, <3>1, <3>2, <3>4, <4>2
      <4>4. Exists(c)'
        BY <1>6, <3>4, MissingAssumption DEF Exists
      <4>5. QED  BY <4>3, <4>4
    <3>5. CASE c # p /\ c # q
      <4>1. Exists(c)' <=> Exists(c)
        BY <1>7, <1>9, <3>5
      <4>2. /\ ~(Parent[c] = from /\ Leaf[c] = Leaf[p])
            /\ ~(Parent[c] = to /\ Leaf[c] = Leaf[q])
        BY <1>2, <1>10, <3>5
      <4>3. IsDir(Parent[c]) => Count(Parent[c], Leaf[c]) = attr[Parent[c]].list[Leaf[c]]
        BY <2>1, <4>2 DEF Count
      <4>4. QED  BY <2>1, <3>1, <3>2, <4>1, <4>3
    <3>6. QED  BY <3>3, <3>4, <3>5
  <2>5. QED  BY <2>2, <2>3, <2>4
<1>14. ListedExist'
  <2> SUFFICES ASSUME NEW d \in Paths \ loose', IsDir(d)', NEW n \in Names, attr'[d].list[n] > 0
               PROVE  \E c \in Inner : Parent[c] = d /\ Exists(c)' /\ Leaf[c] = n
    BY DEF ListedExist, Children
  <2>1. d # q
    <3> SUFFICES ASSUME d = q  PROVE FALSE
      OBVIOUS
    <3>1. IsDir(p) /\ attr'[q].list[n] = 0
      BY <1>6, <1>8, <1>12
    <3>2. QED  BY <3>1
  <2>2. d # p /\ IsDir(d) /\ attr'[d].list[n] = Count(d, n)
    BY <1>4, <1>8, <2>1
  <2>3. CASE d = to /\ n = Leaf[q]
    <3>1. Exists(q)'
      BY <1>6, MissingAssumption DEF Exists
    <3>2. QED  BY <1>2, <2>3, <3>1
  <2>4. CASE ~(d = to /\ n = Leaf[q])
    <3>1. attr[d].list[n] \in Nat
      BY <2>2, DirectoryHasAttribute DEF IsDir, Exists, Attribute
    <3>2. attr[d].list[n] > 0
      BY <2>2, <2>4, <3>1 DEF Count
    <3>3. PICK c \in Children(d) : Leaf[c] = n
      BY <1>11, <2>2, <3>2 DEF TreeInv, ListedExist
    <3>4. c # p
      <4> SUFFICES ASSUME c = p  PROVE FALSE
        OBVIOUS
      <4>1. d = from /\ n = Leaf[p] /\ from \notin loose
        BY <1>11, <3>3 DEF Children
      <4>2. attr[d].list[n] = 1
        BY <1>1, <1>2, <4>1 DEF TreeInv, ListingExact
      <4>3. Count(d, n) = 0
        BY <2>4, <4>1, <4>2 DEF Count
      <4>4. QED  BY <2>2, <4>3
    <3>5. QED  BY <1>7, <1>9, <3>3, <3>4 DEF Children
  <2>5. QED  BY <2>3, <2>4
<1>15. DirectoriesUnstored' /\ StoredExists'
  BY <1>2, <1>7, <1>9, Purged DEF Rename, TreeInv, DirectoriesUnstored, StoredExists
<1>16. FlightsExist'
  BY <1>2, <1>7, Purged, FlightsArePaths DEF Rename, TreeInv, FlightsExist
<1>17. attr' \in [Paths -> Attribute \cup {Missing}]
  <2>1. \A d \in Paths : attr'[d] \in Attribute \cup {Missing}
    BY <1>4, <1>5, <1>6 DEF TypeOK
  <2>2. attr' \in [Paths -> {attr'[d] : d \in Paths}]
    BY DEF Rename, Moved, TypeOK
  <2>3. QED  BY <2>1, <2>2
<1>18. QED  BY <1>13, <1>14, <1>15, <1>16, <1>17 DEF TreeInv

LEMMA ChownKeepsTree ==
  ASSUME TypeOK, TreeInv, NEW p \in Inner, NEW u \in Users, Chown(p, u)
  PROVE  TreeInv' /\ attr' \in [Paths -> Attribute \cup {Missing}]
<1>1. p \in Paths /\ Exists(p)
  BY DEF Chown, MayRemove, Inner
<1>2. attr[p] \in Attribute
  BY <1>1, DirectoryHasAttribute
<1> DEFINE y == [attr[p] EXCEPT !.uid = u]
<1>3. y \in Attribute /\ y.kind = attr[p].kind /\ y.list = attr[p].list
  BY <1>2 DEF Attribute
<1>4. y # Missing
  BY <1>3, MissingAssumption
<1> HIDE DEF y
<1>5. \A d \in Paths : attr'[d] = IF d = p THEN y ELSE attr[d]
  BY <1>1 DEF Chown, TypeOK, y
<1>6. \A d \in Paths : /\ Exists(d)' <=> Exists(d)
                       /\ IsDir(d)' <=> IsDir(d)
                       /\ attr'[d].list = attr[d].list
  BY <1>1, <1>3, <1>4, <1>5 DEF Exists, IsDir
<1>7. \A c \in Inner : c \in Paths /\ Parent[c] \in Paths
  BY NamespaceAssumption DEF Inner
<1>8. UNCHANGED <<stored, flights, loose, raced>>
  BY DEF Chown
<1>9. ListingExact'
  BY <1>6, <1>7, <1>8 DEF TreeInv, ListingExact
<1>10. ListedExist'
  <2> SUFFICES ASSUME NEW d \in Paths \ loose, IsDir(d)', NEW n \in Names, attr'[d].list[n] > 0
               PROVE  \E c \in Inner : Parent[c] = d /\ Exists(c)' /\ Leaf[c] = n
    BY <1>8 DEF ListedExist, Children
  <2>1. \E c \in Children(d) : Leaf[c] = n
    BY <1>6 DEF TreeInv, ListedExist
  <2>2. QED  BY <2>1, <1>6, <1>7 DEF Children
<1>11. DirectoriesUnstored' /\ StoredExists' /\ FlightsExist'
  BY <1>6, <1>7, <1>8, FlightsArePaths DEF TreeInv, DirectoriesUnstored, StoredExists, FlightsExist
<1>12. attr' \in [Paths -> Attribute \cup {Missing}]
  <2>1. \A d \in Paths : attr'[d] \in Attribute \cup {Missing}
    BY <1>3, <1>5 DEF TypeOK
  <2>2. attr' \in [Paths -> {attr'[d] : d \in Paths}]
    BY DEF Chown, TypeOK
  <2>3. QED  BY <2>1, <2>2
<1>13. QED  BY <1>9, <1>10, <1>11, <1>12 DEF TreeInv

\* What is serialised is no directory, and exists.
LEMMA SerialiseKeepsTree ==
  ASSUME TypeOK, TreeInv, NEW p \in Inner, Serialise(p)
  PROVE  TreeInv' /\ flights' \subseteq [path : Inner, value : Attribute]
<1>1. p \in Paths /\ Exists(p) /\ attr[p].kind # "dir" /\ attr[p] \in Attribute
  BY DirectoryHasAttribute DEF Serialise, MayRemove, Inner
<1>2. /\ UNCHANGED <<attr, stored, loose, raced>>
      /\ flights' = flights \cup {[path |-> p, value |-> attr[p]]}
  BY DEF Serialise
<1>3. ListingExact' /\ ListedExist' /\ DirectoriesUnstored' /\ StoredExists'
  BY <1>2 DEF TreeInv, ListingExact, ListedExist, DirectoriesUnstored, StoredExists, Children, IsDir, Exists
<1>4. FlightsExist'
  BY <1>1, <1>2 DEF TreeInv, FlightsExist, Exists
<1>5. flights' \subseteq [path : Inner, value : Attribute]
  BY <1>1, <1>2 DEF TypeOK
<1>6. QED  BY <1>3, <1>4, <1>5 DEF TreeInv

LEMMA StoreKeepsTree ==
  ASSUME TypeOK, TreeInv, NEW f \in flights, Store(f)
  PROVE  TreeInv' /\ stored' \in [Paths -> Attribute \cup {Missing}]
<1>1. f.path \in Paths /\ f.path # Root /\ f.value \in Attribute /\ f.value.kind # "dir"
  BY FlightsArePaths DEF TreeInv, FlightsExist, Inner
<1>2. /\ \A r \in Paths : stored'[r] = IF r = f.path THEN f.value ELSE stored[r]
      /\ stored' \in [Paths -> Attribute \cup {Missing}]
  BY <1>1 DEF Store, TypeOK
<1>3. UNCHANGED <<attr, loose, raced>> /\ flights' \subseteq flights
  BY DEF Store
<1>4. ListingExact' /\ ListedExist'
  BY <1>3 DEF TreeInv, ListingExact, ListedExist, Children, IsDir, Exists
<1>5. DirectoriesUnstored'
  BY <1>1, <1>2 DEF TreeInv, DirectoriesUnstored
<1>6. StoredExists'
  BY <1>1, <1>2, <1>3 DEF TreeInv, StoredExists, FlightsExist, Exists, Inner
<1>7. FlightsExist'
  BY <1>3 DEF TreeInv, FlightsExist, Exists
<1>8. QED  BY <1>2, <1>4, <1>5, <1>6, <1>7 DEF TreeInv

\* After a mount the root is the only directory, and what it does not list
\* is below a directory in loose.
LEMMA RemountKeepsTree ==
  ASSUME TypeOK, TreeInv, Remount
  PROVE  TreeInv' /\ attr' \in [Paths -> Attribute \cup {Missing}]
<1> DEFINE x == New("dir", TRUE, Superuser)
<1>1. x \in Attribute /\ x # Missing /\ x.kind = "dir" /\ \A n \in Names : x.list[n] = 0
  BY NewIsAttribute, NamespaceAssumption, MissingAssumption
<1> HIDE DEF x
<1>2. \A d \in Paths : attr'[d] = IF d = Root THEN x ELSE stored[d]
  BY NamespaceAssumption DEF Remount, TypeOK, x
<1>3. \A c \in Inner : c \in Paths /\ c # Root /\ Parent[c] \in Paths /\ Leaf[c] \in Names
  BY NamespaceAssumption DEF Inner
<1>4. /\ stored' = stored /\ flights' = {}
      /\ loose' = {Parent[p] : p \in {i \in Inner : stored[i] # Missing}}
  BY DEF Remount
<1>5. \A d \in Paths : IsDir(d)' => d = Root
  BY <1>2 DEF IsDir, TreeInv, DirectoriesUnstored
<1>6. \A c \in Inner : Parent[c] \notin loose' => ~Exists(c)'
  BY <1>2, <1>3, <1>4 DEF Exists
<1>7. ListingExact'
  <2> SUFFICES ASSUME NEW c \in Inner, Parent[c] \notin loose'
               PROVE  /\ Exists(c)' => IsDir(Parent[c])'
                      /\ IsDir(Parent[c])' =>
                           attr'[Parent[c]].list[Leaf[c]] = IF Exists(c)' THEN 1 ELSE 0
    BY DEF ListingExact
  <2>1. ~Exists(c)'
    BY <1>6
  <2>2. IsDir(Parent[c])' => attr'[Parent[c]].list[Leaf[c]] = 0
    BY <1>1, <1>2, <1>3, <1>5
  <2>3. QED  BY <2>1, <2>2
<1>8. ListedExist'
  BY <1>1, <1>2, <1>5 DEF ListedExist
<1>9. DirectoriesUnstored' /\ StoredExists' /\ FlightsExist'
  BY <1>2, <1>3, <1>4 DEF TreeInv, DirectoriesUnstored, StoredExists, FlightsExist, Exists
<1>10. attr' \in [Paths -> Attribute \cup {Missing}]
  BY <1>1 DEF Remount, TypeOK, x
<1>11. QED  BY <1>7, <1>8, <1>9, <1>10 DEF TreeInv

-----------------------------------------------------------------------------
(***************************************************************************)
(* The tree invariant.                                                     *)
(***************************************************************************)
LEMMA InitTree == Init => TypeOK /\ TreeInv
<1> SUFFICES ASSUME Init  PROVE TypeOK /\ TreeInv
  OBVIOUS
<1> DEFINE x == New("dir", TRUE, Superuser)
<1>1. x \in Attribute /\ x # Missing /\ \A n \in Names : x.list[n] = 0
  BY NewIsAttribute, NamespaceAssumption, MissingAssumption
<1> HIDE DEF x
<1>2. \A d \in Paths : attr[d] = IF d = Root THEN x ELSE Missing
  BY DEF Init, x
<1>3. \A c \in Inner : c \in Paths /\ c # Root /\ Parent[c] \in Paths /\ Leaf[c] \in Names
  BY NamespaceAssumption DEF Inner
<1>4. \A d \in Paths : /\ Exists(d) <=> d = Root
                       /\ IsDir(d) => d = Root
  BY <1>1, <1>2 DEF Exists, IsDir
<1>5. ListingExact
  BY <1>1, <1>2, <1>3, <1>4 DEF ListingExact
<1>6. ListedExist
  BY <1>1, <1>2, <1>4 DEF ListedExist
<1>7. DirectoriesUnstored /\ StoredExists /\ FlightsExist
  BY <1>3 DEF Init, DirectoriesUnstored, StoredExists, FlightsExist
<1>8. TypeOK
  <2>1. attr \in [Paths -> Attribute \cup {Missing}] /\ stored \in [Paths -> Attribute \cup {Missing}]
    BY <1>1 DEF Init, x
  <2>2. /\ broken \in BOOLEAN /\ loose \subseteq Paths /\ raced \subseteq Inner
        /\ flights \subseteq [path : Inner, value : Attribute]
    BY DEF Init
  <2>3. ops \in 0..MaxOps
    BY NamespaceAssumption DEF Init
  <2>4. QED  BY <2>1, <2>2, <2>3 DEF TypeOK
<1>9. QED  BY <1>5, <1>6, <1>7, <1>8 DEF TreeInv

\* Steps that touch neither an attribute nor what is stored.
LEMMA TreeUntouched ==
  ASSUME TreeInv, UNCHANGED <<attr, stored, flights, loose, raced>>
  PROVE  TreeInv'
BY DEF TreeInv, ListingExact, ListedExist, DirectoriesUnstored, StoredExists, FlightsExist,
       Children, IsDir, Exists

LEMMA TreeStep == TypeOK /\ TreeInv /\ [Next]_vars => TypeOK' /\ TreeInv'
<1> SUFFICES ASSUME TypeOK, TreeInv, [Next]_vars  PROVE TypeOK' /\ TreeInv'
  OBVIOUS
<1> DEFINE Rest == /\ stored' \in [Paths -> Attribute \cup {Missing}]
                   /\ flights' \subseteq [path : Inner, value : Attribute]
                   /\ broken' \in BOOLEAN /\ loose' \subseteq Paths /\ raced' \subseteq Inner
                   /\ ops' \in 0..MaxOps
<1>1. Call => ops' \in 0..MaxOps
  BY NamespaceAssumption DEF Call, TypeOK
<1>2. \A p \in Inner : Purge(p) =>
        /\ stored' \in [Paths -> Attribute \cup {Missing}] /\ raced' \subseteq Inner
        /\ flights' \subseteq [path : Inner, value : Attribute]
  <2>1. flights \subseteq [path : Inner, value : Attribute]
    BY DEF TypeOK
  <2>2. QED  BY <2>1, Purged
<1>3. ASSUME NEW p \in Inner, Create(p)  PROVE TypeOK' /\ TreeInv'
  <2>1. MayCreate(p) /\ Register(p, New("file", TRUE, Daemon)) /\ UNCHANGED <<stored, flights, loose, raced>>
    BY <1>3 DEF Create
  <2>2. TreeInv' /\ attr' \in [Paths -> Attribute \cup {Missing}]
    BY <2>1, RegisterKeepsTree, NamespaceAssumption
  <2>3. Rest
    BY <1>1, <1>3 DEF Create, TypeOK
  <2>4. QED  BY <2>2, <2>3 DEF TypeOK
<1>4. ASSUME NEW p \in Inner, Mkdir(p)  PROVE TypeOK' /\ TreeInv'
  <2>1. MayCreate(p) /\ Register(p, New("dir", TRUE, Daemon)) /\ UNCHANGED <<stored, flights, loose, raced>>
    BY <1>4 DEF Mkdir
  <2>2. TreeInv' /\ attr' \in [Paths -> Attribute \cup {Missing}]
    BY <2>1, RegisterKeepsTree, NamespaceAssumption
  <2>3. Rest
    BY <1>1, <1>4 DEF Mkdir, TypeOK
  <2>4. QED  BY <2>2, <2>3 DEF TypeOK
<1>5. ASSUME NEW p \in Inner, Symlink(p)  PROVE TypeOK' /\ TreeInv'
  <2>1. MayCreate(p) /\ Register(p, New("link", FALSE, Superuser)) /\ UNCHANGED <<stored, flights, loose, raced>>
    BY <1>5 DEF Symlink
  <2>2. TreeInv' /\ attr' \in [Paths -> Attribute \cup {Missing}]
    BY <2>1, RegisterKeepsTree, NamespaceAssumption
  <2>3. Rest
    BY <1>1, <1>5 DEF Symlink, TypeOK
  <2>4. QED  BY <2>2, <2>3 DEF TypeOK
<1>6. ASSUME NEW p \in Inner, NEW u \in Users, Chown(p, u)  PROVE TypeOK' /\ TreeInv'
  <2>1. TreeInv' /\ attr' \in [Paths -> Attribute \cup {Missing}]
    BY <1>6, ChownKeepsTree
  <2>2. Rest
    BY <1>1, <1>6 DEF Chown, TypeOK
  <2>3. QED  BY <2>1, <2>2 DEF TypeOK
<1>7. ASSUME NEW p \in Inner, Unlink(p)  PROVE TypeOK' /\ TreeInv'
  <2>1. /\ MayRemove(p) /\ ~IsDir(p) /\ Purge(p) /\ loose' = loose
        /\ attr' = [attr EXCEPT ![p] = Missing, ![Parent[p]] = Strike(@, Leaf[p])]
    BY <1>7 DEF Unlink
  <2>2. TreeInv' /\ attr' \in [Paths -> Attribute \cup {Missing}]
    BY <2>1, RemovalKeepsTree
  <2>3. Rest
    BY <1>1, <1>2, <1>7, <2>1 DEF Unlink, TypeOK
  <2>4. QED  BY <2>2, <2>3 DEF TypeOK
<1>8. ASSUME NEW p \in Inner, UnlinkDenied(p)  PROVE TypeOK' /\ TreeInv'
  <2>1. TreeInv'
    BY <1>8, TreeUntouched DEF UnlinkDenied
  <2>2. attr' = attr /\ Rest
    BY <1>1, <1>8 DEF UnlinkDenied, TypeOK
  <2>3. QED  BY <2>1, <2>2 DEF TypeOK
<1>9. ASSUME NEW p \in Inner, Rmdir(p)  PROVE TypeOK' /\ TreeInv'
  <2>1. /\ MayRemove(p) /\ Purge(p)
        /\ attr' = [attr EXCEPT ![p] = Missing, ![Parent[p]] = Strike(@, Leaf[p])]
    BY <1>9 DEF Rmdir
  <2>2. /\ loose' = loose \/ loose' = loose \cup {p}
        /\ IsDir(p) /\ Children(p) # {} => p \in loose'
    BY <1>9 DEF Rmdir
  <2>3. TreeInv' /\ attr' \in [Paths -> Attribute \cup {Missing}]
    BY <2>1, <2>2, RemovalKeepsTree
  <2>4. Rest
    BY <1>1, <1>2, <1>9, <2>1, <2>2 DEF Rmdir, TypeOK, Inner
  <2>5. QED  BY <2>3, <2>4 DEF TypeOK
<1>10. ASSUME NEW p \in Inner, NEW q \in Inner, Rename(p, q)  PROVE TypeOK' /\ TreeInv'
  <2>1. TreeInv' /\ attr' \in [Paths -> Attribute \cup {Missing}]
    BY <1>10, RenameKeepsTree
  <2>2. loose' \subseteq Paths
    BY <1>10, NamespaceAssumption DEF Rename, Loosened, TypeOK, Inner
  <2>3. Rest
    BY <1>1, <1>2, <1>10, <2>2 DEF Rename, TypeOK
  <2>4. QED  BY <2>1, <2>3 DEF TypeOK
<1>11. ASSUME NEW p \in Inner, NEW q \in Inner, RenameUnlisted(p, q)  PROVE TypeOK' /\ TreeInv'
  <2>1. TreeInv'
    BY <1>11, TreeUntouched DEF RenameUnlisted
  <2>2. attr' = attr /\ Rest
    BY <1>1, <1>11 DEF RenameUnlisted, TypeOK
  <2>3. QED  BY <2>1, <2>2 DEF TypeOK
<1>12. ASSUME NEW p \in Inner, Serialise(p)  PROVE TypeOK' /\ TreeInv'
  <2>1. TreeInv' /\ flights' \subseteq [path : Inner, value : Attribute]
    BY <1>12, SerialiseKeepsTree
  <2>2. attr' = attr /\ Rest
    BY <1>1, <1>12, <2>1 DEF Serialise, TypeOK
  <2>3. QED  BY <2>1, <2>2 DEF TypeOK
<1>13. ASSUME NEW f \in flights, Store(f)  PROVE TypeOK' /\ TreeInv'
  <2>1. TreeInv' /\ stored' \in [Paths -> Attribute \cup {Missing}]
    BY <1>13, StoreKeepsTree
  <2>2. attr' = attr /\ Rest
    BY <1>13, <2>1 DEF Store, TypeOK
  <2>3. QED  BY <2>1, <2>2 DEF TypeOK
<1>14. CASE Remount
  <2>1. TreeInv' /\ attr' \in [Paths -> Attribute \cup {Missing}]
    BY <1>14, RemountKeepsTree
  <2>2. loose' \subseteq Paths
    BY <1>14, NamespaceAssumption DEF Remount
  <2>3. Rest
    <3>1. ops' \in 0..MaxOps
      BY <1>14, NamespaceAssumption DEF Remount, TypeOK
    <3>2. stored' = stored /\ broken' = FALSE /\ flights' = {} /\ raced' = {}
      BY <1>14 DEF Remount
    <3>3. QED  BY <2>2, <3>1, <3>2 DEF TypeOK
  <2>4. QED  BY <2>1, <2>3 DEF TypeOK
<1>15. CASE UNCHANGED vars
  <2>1. TreeInv'
    BY <1>15, TreeUntouched DEF vars
  <2>2. QED  BY <1>15, <2>1 DEF vars, TypeOK
<1>16. QED
  BY <1>3, <1>4, <1>5, <1>6, <1>7, <1>8, <1>9, <1>10, <1>11, <1>12, <1>13, <1>14, <1>15 DEF Next

LEMMA TreeInvariance == Spec => [](TypeOK /\ TreeInv)
BY InitTree, TreeStep, PTL DEF Spec

-----------------------------------------------------------------------------
(***************************************************************************)
(* Every path has an attribute or none, and every count of a list is a     *)
(* natural number: rename never erases a name that is not listed.          *)
(***************************************************************************)
THEOREM TreeTypeCorrect == Spec => []TypeOK
BY TreeInvariance, PTL

(***************************************************************************)
(* In every tree, after any sequence of calls and mounts, a directory      *)
(* outside loose lists exactly the paths below it that have an attribute,  *)
(* each once, and whatever has an attribute is below a directory.          *)
(***************************************************************************)
THEOREM ListingIsExact == Spec => []ListingExact
<1>1. TreeInv => ListingExact
  BY DEF TreeInv
<1>2. QED  BY <1>1, TreeInvariance, PTL

(***************************************************************************)
(* What was removed or renamed away is not in the DHT, from which the next *)
(* mount would bring it back, unless a flush of it was in flight.          *)
(***************************************************************************)
THEOREM NothingComesBack == Spec => []StoredExists
<1>1. TreeInv => StoredExists
  BY DEF TreeInv
<1>2. QED  BY <1>1, TreeInvariance, PTL

-----------------------------------------------------------------------------
(***************************************************************************)
(* Link counts.                                                            *)
(***************************************************************************)
Valid(x) == ~x.linked => x.kind = "link"

LEMMA LinkInvIs ==
  /\ LinkInv <=> /\ \A p \in Paths : attr[p] # Missing => Valid(attr[p])
                 /\ \A p \in Paths : stored[p] # Missing => Valid(stored[p])
                 /\ \A f \in flights : Valid(f.value)
  /\ LinkInv' <=> /\ \A p \in Paths : attr'[p] # Missing => Valid(attr'[p])
                  /\ \A p \in Paths : stored'[p] # Missing => Valid(stored'[p])
                  /\ \A f \in flights' : Valid(f.value)
BY Zenon DEF LinkInv, OnlyLinksInvalid, Exists, Valid

LEMMA EditedIsValid ==
  ASSUME NEW x \in Attribute, NEW n, NEW u, Valid(x)
  PROVE  Valid(Push(x, n)) /\ Valid(Strike(x, n)) /\ Valid(Erase(x, n)) /\ Valid([x EXCEPT !.uid = u])
BY DEF Push, Strike, Erase, Attribute, Valid

LEMMA NewIsValid ==
  ASSUME NEW kind, NEW linked, NEW uid, linked = TRUE \/ kind = "link"
  PROVE  Valid(New(kind, linked, uid))
BY DEF New, Valid

\* purge adds nothing, and a task carries what it finds.
LEMMA PurgeKeepsLinks ==
  ASSUME TypeOK, LinkInv, NEW p \in Inner, Purge(p), \A d \in Paths : attr'[d] # Missing => Valid(attr'[d])
  PROVE  LinkInv'
BY Purged, LinkInvIs

LEMMA LinkStep == TypeOK /\ LinkInv /\ [Next]_vars => LinkInv'
<1> SUFFICES ASSUME TypeOK, LinkInv, [Next]_vars  PROVE LinkInv'
  OBVIOUS
<1>1. /\ \A d \in Paths : attr[d] # Missing => Valid(attr[d]) /\ attr[d] \in Attribute
      /\ \A d \in Paths : stored[d] # Missing => Valid(stored[d])
      /\ \A f \in flights : Valid(f.value)
  BY LinkInvIs DEF TypeOK
<1>2. ASSUME NEW p \in Inner, Create(p) \/ Mkdir(p) \/ Symlink(p)  PROVE LinkInv'
  <2>1. PICK x : Valid(x) /\ Register(p, x)
    BY <1>2, NewIsValid DEF Create, Mkdir, Symlink
  <2>2. Resolves(p) /\ UNCHANGED <<stored, flights>>
    BY <1>2 DEF Create, Mkdir, Symlink, MayCreate
  <2>3. attr[Parent[p]] \in Attribute /\ Valid(Push(attr[Parent[p]], Leaf[p]))
    BY <1>1, <2>2, ParentExists, EditedIsValid DEF IsDir
  <2>4. \A d \in Paths : attr'[d] # Missing => Valid(attr'[d])
    BY <1>1, <2>1, <2>2, <2>3, Registered
  <2>5. QED  BY <1>1, <2>2, <2>4, LinkInvIs
<1>3. ASSUME NEW p \in Inner, NEW u \in Users, Chown(p, u)  PROVE LinkInv'
  <2>1. p \in Paths /\ attr[p] \in Attribute /\ Valid([attr[p] EXCEPT !.uid = u])
    BY <1>1, <1>3, EditedIsValid DEF Chown, MayRemove, Exists, Inner
  <2>2. \A d \in Paths : attr'[d] = IF d = p THEN [attr[p] EXCEPT !.uid = u] ELSE attr[d]
    BY <1>3, <2>1 DEF Chown, TypeOK
  <2>3. UNCHANGED <<stored, flights>>
    BY <1>3 DEF Chown
  <2>4. QED  BY <1>1, <2>1, <2>2, <2>3, LinkInvIs
<1>4. ASSUME NEW p \in Inner, Unlink(p) \/ Rmdir(p)  PROVE LinkInv'
  <2>1. /\ Resolves(p) /\ Purge(p)
        /\ attr' = [attr EXCEPT ![p] = Missing, ![Parent[p]] = Strike(@, Leaf[p])]
    BY <1>4 DEF Unlink, Rmdir, MayRemove
  <2>2. attr[Parent[p]] \in Attribute /\ Valid(Strike(attr[Parent[p]], Leaf[p]))
    BY <1>1, <2>1, ParentExists, EditedIsValid DEF IsDir
  <2>3. \A d \in Paths : attr'[d] # Missing => Valid(attr'[d])
    <3>1. \A d \in Paths : attr'[d] = IF d = p THEN Missing
                                       ELSE IF d = Parent[p] THEN Strike(attr[d], Leaf[p]) ELSE attr[d]
      BY <2>1, Removed
    <3>2. QED  BY <1>1, <2>2, <3>1
  <2>4. QED  BY <2>1, <2>3, PurgeKeepsLinks
<1>5. ASSUME NEW p \in Inner, NEW q \in Inner, Rename(p, q)  PROVE LinkInv'
  <2>1. /\ MayRename(p, q) /\ Purge(p) /\ attr' = Moved(p, q) /\ Resolves(p) /\ Resolves(q)
        /\ attr[Parent[p]].list[Leaf[p]] > 0 /\ Exists(p) /\ p \in Paths
    BY <1>5 DEF Rename, MayRename, MayRemove, Inner
  <2>2. \A d \in Paths : IsDir(d) => attr[d] \in Attribute /\ Valid(attr[d])
    BY <1>1 DEF IsDir
  <2>3. /\ IsDir(Parent[p]) /\ Parent[p] \in Paths /\ Leaf[p] \in Names
        /\ IsDir(Parent[q]) /\ Parent[q] \in Paths /\ Leaf[q] \in Names
    BY <2>1, ParentExists
  <2>4. \A d \in Paths : IsDir(d) => WithoutLeaf(p, d) \in Attribute /\ Valid(WithoutLeaf(p, d))
    <3>1. Erase(attr[Parent[p]], Leaf[p]) \in Attribute /\ Valid(Erase(attr[Parent[p]], Leaf[p]))
      BY <2>1, <2>2, <2>3, EditedAttribute, EditedIsValid
    <3>2. QED  BY <2>2, <3>1 DEF WithoutLeaf
  <2>5. Valid(Push(WithoutLeaf(p, Parent[q]), Leaf[q]))
    BY <2>3, <2>4, EditedIsValid
  <2>6. ASSUME NEW d \in Paths, attr'[d] # Missing  PROVE Valid(attr'[d])
    <3>1. d # Parent[p] => WithoutLeaf(p, d) = attr[d]
      BY DEF WithoutLeaf
    <3>2. QED  BY <1>1, <2>1, <2>3, <2>4, <2>5, <2>6, <3>1, Renamed DEF Exists
  <2>7. QED  BY <2>1, <2>6, PurgeKeepsLinks
<1>6. ASSUME NEW p \in Inner, UnlinkDenied(p) \/ \E q \in Inner : RenameUnlisted(p, q)  PROVE LinkInv'
  <2>1. UNCHANGED <<attr, stored, flights>>
    BY <1>6 DEF UnlinkDenied, RenameUnlisted
  <2>2. QED  BY <1>1, <2>1, LinkInvIs
<1>7. ASSUME NEW p \in Inner, Serialise(p)  PROVE LinkInv'
  <2>1. /\ flights' = flights \cup {[path |-> p, value |-> attr[p]]} /\ UNCHANGED <<attr, stored>>
        /\ attr[p] # Missing /\ p \in Paths
    BY <1>7 DEF Serialise, MayRemove, Exists, Inner
  <2>2. \A f \in flights' : Valid(f.value)
    BY <1>1, <2>1
  <2>3. QED  BY <1>1, <2>1, <2>2, LinkInvIs
<1>8. ASSUME NEW f \in flights, Store(f)  PROVE LinkInv'
  <2>1. /\ f.path \in Paths
        /\ \A d \in Paths : stored'[d] = IF d = f.path THEN f.value ELSE stored[d]
    BY <1>8, FlightsArePaths DEF Store, TypeOK
  <2>2. flights' \subseteq flights /\ attr' = attr
    BY <1>8 DEF Store
  <2>3. QED  BY <1>1, <2>1, <2>2, LinkInvIs
<1>9. CASE Remount
  <2>1. /\ flights' = {} /\ stored' = stored /\ Root \in Paths
        /\ \A d \in Paths : attr'[d] = IF d = Root THEN New("dir", TRUE, Superuser) ELSE stored[d]
    BY <1>9, NamespaceAssumption DEF Remount, TypeOK
  <2>2. Valid(New("dir", TRUE, Superuser))
    BY NewIsValid
  <2>3. \A d \in Paths : attr'[d] # Missing => Valid(attr'[d])
    BY <1>1, <2>1, <2>2
  <2>4. QED  BY <1>1, <2>1, <2>3, LinkInvIs
<1>10. CASE UNCHANGED vars
  <2>1. UNCHANGED <<attr, stored, flights>>
    BY <1>10 DEF vars
  <2>2. QED  BY <1>1, <2>1, LinkInvIs
<1>11. QED
  BY <1>2, <1>3, <1>4, <1>5, <1>6, <1>7, <1>8, <1>9, <1>10 DEF Next

(***************************************************************************)
(* Only a link can have the attribute getattr asserts no attribute to be:  *)
(* whatever is moved, re-owned, flushed or found by a new mount keeps the  *)
(* link count it was created with.                                         *)
(***************************************************************************)
THEOREM LinksAloneAreInvalid == Spec => []OnlyLinksInvalid
<1>1. Init => LinkInv
  <2> SUFFICES ASSUME Init  PROVE LinkInv
    OBVIOUS
  <2>1. Valid(New("dir", TRUE, Superuser))
    BY NewIsValid
  <2>2. QED  BY <2>1, LinkInvIs DEF Init
<1>2. LinkInv => OnlyLinksInvalid
  BY DEF LinkInv
<1>3. QED
  <2>1. Init => TypeOK
    BY InitTree
  <2>2. QED  BY <1>1, <1>2, LinkStep, TreeInvariance, PTL DEF Spec

=============================================================================
