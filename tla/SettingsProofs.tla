--------------------------- MODULE SettingsProofs ---------------------------
(***************************************************************************)
(* No copy runs another's runtime, a portable copy runs its own receiver,  *)
(* and a typed root survives: for any set of copies and of typed paths.    *)
(*                                                                         *)
(* Then the environment of the receiver: what is set is found, the sort    *)
(* puts every entry in a place of its own and keeps those of one name in   *)
(* order, and so the block answers for every name as it did unsorted.      *)
(*                                                                         *)
(* Then the receiver's command line: the runtime reads back what the host  *)
(* quoted, for any arguments; so the receiver is told what the window      *)
(* shows, and a setting survives its way through config.ini.               *)
(***************************************************************************)
EXTENDS Settings, Form, FiniteSetTheorems, SequenceTheorems, WellFoundedInduction, TLAPS

\* What a copy holds: a portable one nothing of the file's, any other a typed root or a detected
\* one, and only a typed root is marked as the file's.
HeldInv ==
  /\ Up => app.msys \in {None, Msys, app.copy} \cup Typed
  /\ app.msysFromFile => app.msys \in Typed
  /\ app.copy \in Portable =>
       /\ app.uxplay \in {None, app.copy, InRepo[app.copy]}
       /\ app.msys = app.copy
       /\ ~app.uxplayFromFile /\ ~app.msysFromFile

IInv == TypeOK /\ HeldInv /\ PortableRunsItsOwn /\ RuntimeIsTyped

\* The initial states are in the invariant.
LEMMA InitInv == Init => IInv
BY SettingsAssumption
   DEF Init, IInv, TypeOK, HeldInv, PortableRunsItsOwn, RuntimeIsTyped, Closed, Up, Path

\* A load gives a copy its own paths or typed ones.
LEMMA LoadedHolds ==
  ASSUME TypeOK, NEW c \in Copy, app' = Loaded(c)
  PROVE  /\ app' \in [copy : Copy \cup {None}, uxplay : Path \cup {None},
                      msys : Path \cup {None, Msys},
                      uxplayFromFile : BOOLEAN, msysFromFile : BOOLEAN]
         /\ app'.copy = c
         /\ HeldInv'
BY SettingsAssumption
   DEF TypeOK, Loaded, DefaultMsysRoot, DefaultUxplayPath, HeldInv, Up, Path

\* A save writes a typed root or none.
LEMMA SavedTyped ==
  ASSUME TypeOK, HeldInv, NEW uxplay \in Path \cup {None}
  PROVE  Saved([app EXCEPT !.uxplay = uxplay])
           \in [uxplay : Path \cup {None}, msys : Typed \cup {None}]
BY DEF TypeOK, HeldInv, Saved

\* The same of a copy's paths as they are.
LEMMA SavedTypedAsIs ==
  ASSUME TypeOK, HeldInv
  PROVE  Saved(app) \in [uxplay : Path \cup {None}, msys : Typed \cup {None}]
BY DEF TypeOK, HeldInv, Saved

\* Every step of a copy, the disk and the person stays in the invariant.
LEMMA NextInv == IInv /\ [Next]_vars => IInv'
<1> SUFFICES ASSUME IInv, [Next]_vars PROVE IInv'
  OBVIOUS
<1> USE DEF IInv
<1>1. CASE \E c \in Copy : Launch(c)
  BY <1>1, LoadedHolds, SettingsAssumption
     DEF Launch, TypeOK, PortableRunsItsOwn, RuntimeIsTyped, Path
<1>2. CASE Start
  <2> DEFINE uxplay == IF app.uxplay \in disk THEN app.uxplay ELSE DefaultUxplayPath(app.copy)
  <2>1. uxplay \in Path \cup {None} /\ (app.copy \in Portable => uxplay \in {None, app.copy, InRepo[app.copy]})
    BY <1>2 DEF Start, TypeOK, HeldInv, DefaultUxplayPath, Up, Path
  <2>2. file' \in [uxplay : Path \cup {None}, msys : Typed \cup {None}]
    BY <1>2, <2>1, SavedTyped DEF Start
  <2>3. app' = [app EXCEPT !.uxplay = uxplay] /\ UNCHANGED <<disk, msys2>>
    BY <1>2 DEF Start
  <2>4. ran' = IF uxplay = None THEN ran ELSE [uxplay |-> uxplay, msys |-> app.msys]
    BY <1>2 DEF Start
  <2> HIDE DEF uxplay
  <2>5. TypeOK'
    BY <2>1, <2>2, <2>3, <2>4 DEF TypeOK
  <2>6. HeldInv'
    BY <2>1, <2>3 DEF TypeOK, HeldInv, Up
  <2>7. PortableRunsItsOwn' /\ RuntimeIsTyped'
    BY <1>2, <2>1, <2>3, <2>4 DEF Start, TypeOK, HeldInv, PortableRunsItsOwn, RuntimeIsTyped, Up
  <2> QED
    BY <2>5, <2>6, <2>7
<1>3. CASE Save
  BY <1>3, SavedTypedAsIs DEF Save, TypeOK, HeldInv, PortableRunsItsOwn, RuntimeIsTyped, Up
<1>4. CASE Exit
  BY <1>4, SavedTypedAsIs, SettingsAssumption
     DEF Exit, TypeOK, HeldInv, PortableRunsItsOwn, RuntimeIsTyped, Up, Closed
<1>5. CASE DiskChanges
  <2>1. disk' \subseteq Path /\ msys2' \in BOOLEAN /\ UNCHANGED <<file, app, ran>>
    BY <1>5 DEF DiskChanges, TypeOK
  <2> QED
    BY <2>1 DEF TypeOK, HeldInv, PortableRunsItsOwn, RuntimeIsTyped, Up
<1>6. CASE Edit
  BY <1>6 DEF Edit, TypeOK, HeldInv, PortableRunsItsOwn, RuntimeIsTyped, Up, Path
<1>7. CASE UNCHANGED vars
  BY <1>7 DEF vars, TypeOK, HeldInv, PortableRunsItsOwn, RuntimeIsTyped, Up
<1> QED
  BY <1>1, <1>2, <1>3, <1>4, <1>5, <1>6, <1>7 DEF Next

\* The variables keep their types: the file never holds a detected runtime root.
THEOREM TypeCorrect == Spec => []TypeOK
<1>1. IInv => TypeOK
  BY DEF IInv
<1> QED
  BY InitInv, NextInv, <1>1, PTL DEF Spec

\* A portable copy runs what is in its own folder or in the build tree around it.
THEOREM PortableAlwaysRunsItsOwn == Spec => []PortableRunsItsOwn
<1>1. IInv => PortableRunsItsOwn
  BY DEF IInv
<1> QED
  BY InitInv, NextInv, <1>1, PTL DEF Spec

\* No copy runs with the runtime tree of another.
THEOREM RuntimeAlwaysTyped == Spec => []RuntimeIsTyped
<1>1. IInv => RuntimeIsTyped
  BY DEF IInv
<1> QED
  BY InitInv, NextInv, <1>1, PTL DEF Spec

\* The root a person typed survives every step of the copy that follows it.
THEOREM TypedRootAlwaysSurvives == Spec => TypedRootSurvives
<1>1. IInv /\ [Next]_vars
        => [app.msysFromFile /\ Up /\ app.msys = file.msys => file'.msys = file.msys]_vars
  <2> SUFFICES ASSUME IInv, Next, app.msysFromFile, Up, app.msys = file.msys
               PROVE  file'.msys = file.msys
    OBVIOUS
  <2>1. CASE Start
    BY <2>1 DEF Start, Saved, IInv, TypeOK
  <2>2. CASE Save \/ Exit
    BY <2>2 DEF Save, Exit, Saved
  <2>3. CASE DiskChanges
    BY <2>3 DEF DiskChanges
  <2> QED
    BY <2>1, <2>2, <2>3 DEF Next, Launch, Edit
<1> QED
  BY InitInv, NextInv, <1>1, PTL DEF Spec, TypedRootSurvives

-----------------------------------------------------------------------------
\* The smallest of a set of numbers is in it and no other is below.
LEMMA MinIsThere ==
  ASSUME NEW S, S \subseteq Nat, S # {}
  PROVE  Min(S) \in S /\ \A y \in S : Min(S) <= y
<1>1. \E x \in S : \A y \in S : x <= y
  <2> DEFINE R == OpToRel(<, Nat)
  <2>1. \A x, y \in Nat : y < x => <<y, x>> \in R
    BY DEF OpToRel
  <2>2. IsWellFoundedOn(R, Nat)
    BY NatLessThanWellFounded DEF R
  <2>3. PICK x \in S : \A y \in S : <<y, x>> \notin R
    <3> HIDE DEF R
    <3> QED
      BY <2>2, WFMin
  <2> HIDE DEF R
  <2>4. \A y \in S : x <= y
    <3> SUFFICES ASSUME NEW y \in S PROVE x <= y
      OBVIOUS
    <3>1. x \in Nat /\ y \in Nat /\ ~(y < x)
      BY <2>1, <2>3
    <3> QED
      BY <3>1
  <2> QED
    BY <2>4
<1> QED
  BY <1>1 DEF Min

\* No other number is the smallest.
LEMMA MinIs ==
  ASSUME NEW S, S \subseteq Nat, NEW x \in S, \A y \in S : x <= y
  PROVE  Min(S) = x
<1>1. Min(S) \in S /\ \A y \in S : Min(S) <= y
  BY MinIsThere
<1>2. Min(S) \in Nat /\ x \in Nat /\ Min(S) <= x /\ x <= Min(S)
  BY <1>1
<1> QED
  BY <1>2

\* An environment: a list of names, each with a value.
Env(block) ==
  /\ Len(block) \in Nat
  /\ block = [i \in 1 .. Len(block) |-> Entry(block[i].name, block[i].value)]
  /\ \A i \in 1 .. Len(block) : block[i].name.word \in Listed

\* An environment by its entries.
LEMMA EnvOf ==
  ASSUME NEW n \in Nat, NEW s, s = [i \in 1 .. n |-> s[i]],
         \A i \in 1 .. n : s[i] = Entry(s[i].name, s[i].value) /\ s[i].name.word \in Listed
  PROVE  Env(s) /\ DOMAIN s = 1 .. n /\ Len(s) = n
<1> DEFINE E == {s[i] : i \in 1 .. n}
<1>1. s \in [1 .. n -> E]
  BY Zenon
<1>2. s \in Seq(E)
  BY <1>1
<1>3. Len(s) = n /\ DOMAIN s = 1 .. n
  BY <1>1, <1>2
<1> QED
  BY <1>3 DEF Env

\* Its entries.
LEMMA EnvHas ==
  ASSUME NEW block, Env(block)
  PROVE  /\ Len(block) \in Nat /\ DOMAIN block = 1 .. Len(block)
         /\ block = [i \in 1 .. Len(block) |-> block[i]]
         /\ \A e : block \in Seq({block[i] : i \in 1 .. Len(block)} \cup {e})
         /\ \A i \in 1 .. Len(block) :
              block[i] = Entry(block[i].name, block[i].value) /\ block[i].name.word \in Listed
<1> DEFINE n == Len(block)
<1>1. n \in Nat /\ block = [i \in 1 .. n |-> Entry(block[i].name, block[i].value)]
  BY DEF Env
<1>2. DOMAIN block = 1 .. n
  BY <1>1
<1>3. block = [i \in 1 .. n |-> block[i]]
  BY <1>1, <1>2
<1>4. block \in [1 .. n -> {block[i] : i \in 1 .. n}]
  BY <1>3, Zenon
<1>5. \A e : block \in Seq({block[i] : i \in 1 .. n} \cup {e})
  <2> SUFFICES ASSUME NEW e PROVE block \in Seq({block[i] : i \in 1 .. n} \cup {e})
    OBVIOUS
  <2> DEFINE E == {block[i] : i \in 1 .. n}
  <2>1. block \in [1 .. n -> E \cup {e}]
    <3>1. block \in [1 .. n -> E]
      BY <1>4
    <3> HIDE DEF E
    <3> QED
      BY <3>1
  <2> HIDE DEF E
  <2>2. block \in Seq(E \cup {e})
    BY <1>1, <2>1
  <2> QED
    BY <2>2 DEF E
<1>6. \A i \in 1 .. n : block[i] = Entry(block[i].name, block[i].value)
  BY <1>1
<1> QED
  BY <1>1, <1>2, <1>3, <1>5, <1>6 DEF Env

\* A name's entries are places in the environment; the first of them counts.
LEMMA FirstEntry ==
  ASSUME NEW block, Env(block), NEW name, Entries(block, name) # {}
  PROVE  /\ Min(Entries(block, name)) \in 1 .. Len(block)
         /\ block[Min(Entries(block, name))].name.word = name.word
         /\ \A i \in Entries(block, name) : Min(Entries(block, name)) <= i
<1>1. Entries(block, name) \subseteq 1 .. Len(block) /\ Len(block) \in Nat
  BY EnvHas DEF Entries
<1>2. Entries(block, name) \subseteq Nat
  BY <1>1
<1>3. Min(Entries(block, name)) \in Entries(block, name)
      /\ \A i \in Entries(block, name) : Min(Entries(block, name)) <= i
  BY <1>2, MinIsThere
<1> QED
  BY <1>1, <1>3 DEF Entries

\* A variable that is set is found, and no other has changed.
LEMMA SetThenGet ==
  ASSUME NEW block, Env(block), NEW name, name.word \in Listed, NEW value
  PROVE  /\ Env(SetVar(block, name, value))
         /\ GetVar(SetVar(block, name, value), name) = value
         /\ \A other : other.word # name.word
              => GetVar(SetVar(block, name, value), other) = GetVar(block, other)
<1> DEFINE n == Len(block)
           s == SetVar(block, name, value)
<1>1. /\ n \in Nat /\ DOMAIN block = 1 .. n /\ block = [i \in 1 .. n |-> block[i]]
      /\ \A e : block \in Seq({block[i] : i \in 1 .. n} \cup {e})
      /\ \A i \in 1 .. n : block[i] = Entry(block[i].name, block[i].value) /\ block[i].name.word \in Listed
  BY EnvHas
<1> HIDE DEF n
<1>2. CASE Entries(block, name) = {}
  <2> DEFINE e == Entry(name, value)
  <2>1. e.name = name /\ e.value = value /\ e = Entry(e.name, e.value)
    BY DEF Entry
  <2>2. s = Append(block, e)
    BY <1>2 DEF SetVar
  <2> HIDE DEF e
  <2> HIDE DEF s
  <2> DEFINE E == {block[i] : i \in 1 .. n} \cup {e}
  <2>3. block \in Seq(E) /\ e \in E
    BY <1>1
  <2> HIDE DEF E
  <2>4. /\ s[n + 1] = e /\ \A i \in 1 .. n : s[i] = block[i]
        /\ s = [i \in 1 .. n + 1 |-> s[i]] /\ n + 1 \in Nat
    <3>1. /\ s \in Seq(E) /\ Len(s) = n + 1 /\ s[n + 1] = e
          /\ \A i \in 1 .. n : s[i] = block[i]
      BY <2>2, <2>3, AppendProperties DEF n
    <3>2. s = [i \in 1 .. n + 1 |-> s[i]]
      BY <3>1
    <3>3. n + 1 \in Nat
      BY <1>1
    <3> QED
      BY <3>1, <3>2, <3>3, Zenon
  <2>5. \A i \in 1 .. n + 1 : i = n + 1 \/ i \in 1 .. n
    BY <1>1
  <2>6. \A i \in 1 .. n + 1 : s[i] = Entry(s[i].name, s[i].value) /\ s[i].name.word \in Listed
    BY <1>1, <2>1, <2>4, <2>5
  <2>7. Env(s) /\ DOMAIN s = 1 .. n + 1
    BY <2>4, <2>6, EnvOf
  <2>8. Entries(s, name) = {n + 1}
    <3>1. \A i \in 1 .. n : s[i].name.word # name.word
      BY <1>1, <1>2, <2>4 DEF Entries
    <3>2. s[n + 1].name.word = name.word /\ n + 1 \in 1 .. n + 1
      BY <1>1, <2>1, <2>4
    <3> QED
      BY <2>5, <2>7, <3>1, <3>2 DEF Entries
  <2>9. GetVar(s, name) = value
    <3>1. Min({n + 1}) = n + 1
      <4>1. {n + 1} \subseteq Nat /\ n + 1 \in {n + 1} /\ \A y \in {n + 1} : n + 1 <= y
        BY <1>1
      <4> QED
        BY <4>1, MinIs
    <3> QED
      BY <2>1, <2>4, <2>8, <3>1 DEF GetVar
  <2>10. ASSUME NEW other, other.word # name.word
         PROVE  GetVar(s, other) = GetVar(block, other)
    <3>1. Entries(s, other) = Entries(block, other)
      <4>1. \A i \in 1 .. n : i \in 1 .. n + 1 /\ s[i].name.word = block[i].name.word
        <5>1. \A i \in 1 .. n : i \in 1 .. n + 1
          BY <1>1
        <5> QED
          BY <2>4, <5>1, Zenon
      <4>2. s[n + 1].name.word # other.word
        BY <2>1, <2>4, <2>10
      <4> QED
        BY <1>1, <2>5, <2>7, <4>1, <4>2 DEF Entries
    <3>2. Entries(block, other) # {} => Min(Entries(block, other)) \in 1 .. n
      BY FirstEntry DEF n
    <3> QED
      BY <2>4, <3>1, <3>2 DEF GetVar
  <2> QED
    BY <2>7, <2>9, <2>10 DEF s
<1>3. CASE Entries(block, name) # {}
  <2> DEFINE m == Min(Entries(block, name))
  <2>1. m \in 1 .. n /\ block[m].name.word = name.word
    BY <1>3, FirstEntry DEF n
  <2>2. s = [block EXCEPT ![m].value = value]
    BY <1>3 DEF SetVar
  <2> HIDE DEF m, s
  <2>3. /\ s = [i \in 1 .. n |-> s[i]]
        /\ \A i \in 1 .. n : i # m => s[i] = block[i]
        /\ s[m] = [block[m] EXCEPT !.value = value]
    BY <1>1, <2>1, <2>2
  <2>4. s[m] = Entry(block[m].name, value) /\ s[m].name = block[m].name /\ s[m].value = value
    <3>1. block[m] = Entry(block[m].name, block[m].value)
      BY <1>1, <2>1
    <3>2. [Entry(block[m].name, block[m].value) EXCEPT !.value = value] = Entry(block[m].name, value)
      BY DEF Entry
    <3>3. s[m] = Entry(block[m].name, value)
      BY <2>3, <3>1, <3>2
    <3> QED
      BY <3>3 DEF Entry
  <2>5. \A i \in 1 .. n : s[i].name = block[i].name
    BY <2>3, <2>4
  <2>6. \A i \in 1 .. n : s[i] = Entry(s[i].name, s[i].value) /\ s[i].name.word \in Listed
    <3> SUFFICES ASSUME NEW i \in 1 .. n
                 PROVE  s[i] = Entry(s[i].name, s[i].value) /\ s[i].name.word \in Listed
      OBVIOUS
    <3>1. CASE i = m
      BY <1>1, <2>4, <3>1
    <3>2. CASE i # m
      BY <1>1, <2>3, <3>2
    <3> QED
      BY <3>1, <3>2
  <2>7. Env(s) /\ DOMAIN s = 1 .. n
    BY <1>1, <2>3, <2>6, EnvOf
  <2>8. ASSUME NEW other
        PROVE  Entries(s, other) = Entries(block, other)
    BY <1>1, <2>5, <2>7 DEF Entries
  <2>9. GetVar(s, name) = value
    BY <1>3, <2>4, <2>8 DEF GetVar, m
  <2>10. ASSUME NEW other, other.word # name.word
         PROVE  GetVar(s, other) = GetVar(block, other)
    <3>1. Entries(block, other) # {}
            => Min(Entries(block, other)) \in 1 .. n /\ Min(Entries(block, other)) # m
      BY <2>1, <2>10, FirstEntry DEF n
    <3> QED
      BY <2>3, <2>8, <3>1 DEF GetVar
  <2> QED
    BY <2>7, <2>9, <2>10 DEF s
<1> QED
  BY <1>2, <1>3

-----------------------------------------------------------------------------
\* Equal words, equal ranks; a rank is a number.
LEMMA RankIs ==
  ASSUME NEW name, name.word \in Listed
  PROVE  Rank(name) \in Nat /\ \A other : other.word = name.word => Rank(other) = Rank(name)
<1>1. DOMAIN Words \subseteq Nat
  BY DEF Words
<1>2. \E i \in DOMAIN Words : Words[i] = name.word
  BY DEF Listed
<1>3. Rank(name) \in DOMAIN Words
  <2> HIDE DEF Words
  <2> QED
    BY <1>2 DEF Rank
<1>4. \A other : other.word = name.word => Rank(other) = Rank(name)
  BY DEF Rank
<1> QED
  BY <1>1, <1>3, <1>4

\* The sort puts every entry in a place of its own, and no two out of order.
LEMMA PlaceIs ==
  ASSUME NEW block, Env(block)
  PROVE  LET W == Written(block)
             n == Cardinality(W)
         IN  /\ n \in Nat
             /\ \A i \in W : Place(block, i) \in 1 .. n
             /\ \A i, j \in W : Before(block, i, j) => Place(block, i) < Place(block, j)
             /\ \A i, j \in W : i # j => Before(block, i, j) \/ Before(block, j, i)
             /\ \A k \in 1 .. n : \E i \in W : Place(block, i) = k
<1> DEFINE W == Written(block)
           n == Cardinality(W)
           Ahead(i) == {j \in W : Before(block, j, i)}
<1>1. W \subseteq 1 .. Len(block) /\ Len(block) \in Nat
      /\ \A i \in W : Rank(block[i].name) \in Nat
  BY EnvHas, RankIs DEF Written
<1>2. IsFiniteSet(W) /\ n \in Nat
  <2>1. IsFiniteSet(1 .. Len(block))
    <3>1. 1 \in Int /\ Len(block) \in Int
      BY <1>1
    <3> QED
      BY <3>1, FS_Interval
  <2> QED
    BY <1>1, <2>1, FS_Subset, FS_CardinalityType
<1>3. \A i \in W : i \in Nat
  BY <1>1
<1> HIDE DEF W, n
<1>4. \A i, j \in W : i # j => Before(block, i, j) \/ Before(block, j, i)
  BY <1>1, <1>3 DEF Before
<1>5. \A i \in W : ~Before(block, i, i)
  BY <1>1, <1>3 DEF Before
<1>6. \A i, j, k \in W : Before(block, i, j) /\ Before(block, j, k) => Before(block, i, k)
  BY <1>1, <1>3 DEF Before
<1>7. \A i \in W : /\ IsFiniteSet(Ahead(i)) /\ Cardinality(Ahead(i)) \in Nat
                   /\ Place(block, i) = 1 + Cardinality(Ahead(i))
  <2> SUFFICES ASSUME NEW i \in W
               PROVE  /\ IsFiniteSet(Ahead(i)) /\ Cardinality(Ahead(i)) \in Nat
                      /\ Place(block, i) = 1 + Cardinality(Ahead(i))
    OBVIOUS
  <2>1. Ahead(i) \in SUBSET W
    OBVIOUS
  <2> QED
    BY <1>2, <2>1, FS_Subset, FS_CardinalityType DEF Place, W
<1>8. ASSUME NEW i \in W, NEW T \in SUBSET W, IsFiniteSet(T), Ahead(i) \subseteq T \ {i}, i \in T
      PROVE  Cardinality(Ahead(i)) + 1 <= Cardinality(T)
  <2>1. IsFiniteSet(T \ {i}) /\ Cardinality(T \ {i}) = Cardinality(T) - 1
    BY <1>8, FS_RemoveElement
  <2>2. Cardinality(Ahead(i)) <= Cardinality(T \ {i})
    BY <1>8, <2>1, FS_Subset
  <2>3. Cardinality(T) \in Nat /\ Cardinality(Ahead(i)) \in Nat
    BY <1>7, <1>8, FS_CardinalityType
  <2> HIDE DEF Ahead
  <2> QED
    BY <2>1, <2>2, <2>3
<1>9. \A i \in W : Place(block, i) \in 1 .. n
  <2> SUFFICES ASSUME NEW i \in W PROVE Place(block, i) \in 1 .. n
    OBVIOUS
  <2>1. Ahead(i) \subseteq W \ {i}
    BY <1>5
  <2>2. Cardinality(Ahead(i)) + 1 <= n
    <3> HIDE DEF Ahead
    <3> QED
      BY <1>2, <1>8, <2>1 DEF n
  <2>3. Cardinality(Ahead(i)) \in Nat /\ Place(block, i) = 1 + Cardinality(Ahead(i))
    BY <1>7
  <2> HIDE DEF Ahead
  <2> QED
    BY <1>2, <2>2, <2>3
<1>10. \A i, j \in W : Before(block, i, j) => Place(block, i) < Place(block, j)
  <2> SUFFICES ASSUME NEW i \in W, NEW j \in W, Before(block, i, j)
               PROVE  Place(block, i) < Place(block, j)
    OBVIOUS
  <2>1. Ahead(i) \subseteq Ahead(j) \ {i} /\ i \in Ahead(j)
    BY <1>5, <1>6
  <2>2. Ahead(j) \in SUBSET W
    OBVIOUS
  <2>3. Cardinality(Ahead(i)) + 1 <= Cardinality(Ahead(j))
    <3> HIDE DEF Ahead
    <3> QED
      BY <1>7, <1>8, <2>1, <2>2
  <2>4. /\ Cardinality(Ahead(i)) \in Nat /\ Place(block, i) = 1 + Cardinality(Ahead(i))
        /\ Cardinality(Ahead(j)) \in Nat /\ Place(block, j) = 1 + Cardinality(Ahead(j))
    BY <1>7
  <2> HIDE DEF Ahead
  <2> QED
    BY <2>3, <2>4
<1>11. \A k \in 1 .. n : \E i \in W : Place(block, i) = k
  <2> DEFINE f == [i \in W |-> Place(block, i)]
  <2>1. f \in Injection(W, 1 .. n)
    <3>1. f \in [W -> 1 .. n]
      BY <1>9
    <3>2. \A i, j \in W : f[i] = f[j] => i = j
      <4> SUFFICES ASSUME NEW i \in W, NEW j \in W, i # j PROVE f[i] # f[j]
        OBVIOUS
      <4>1. Place(block, i) \in Nat /\ Place(block, j) \in Nat
        BY <1>2, <1>9
      <4>2. Place(block, i) < Place(block, j) \/ Place(block, j) < Place(block, i)
        BY <1>4, <1>10
      <4> QED
        BY <4>1, <4>2
    <3> QED
      BY <3>1, <3>2 DEF Injection, IsInjective
  <2>2. IsFiniteSet(1 .. n) /\ Cardinality(1 .. n) = n
    BY <1>2, FS_Interval
  <2>3. f \in Surjection(W, 1 .. n)
    <3> HIDE DEF f
    <3> QED
      BY <2>1, <2>2, FS_Injection DEF n
  <2> QED
    BY <2>3 DEF Surjection
<1> QED
  BY <1>2, <1>4, <1>9, <1>10, <1>11 DEF W, n

\* The sorted environment answers as the one it was made from, and is in order.
LEMMA SortedAnswers ==
  ASSUME NEW block, Env(block)
  PROVE  LET env == SortedByName(block)
         IN  /\ \A i, j \in DOMAIN env : i < j => Rank(env[i].name) <= Rank(env[j].name)
             /\ \A name : name.word # "" => GetVar(env, name) = GetVar(block, name)
<1> DEFINE W == Written(block)
           n == Cardinality(W)
           env == SortedByName(block)
           From(k) == CHOOSE i \in W : Place(block, i) = k
<1>1. /\ n \in Nat
      /\ \A i \in W : Place(block, i) \in 1 .. n
      /\ \A i, j \in W : Before(block, i, j) => Place(block, i) < Place(block, j)
      /\ \A i, j \in W : i # j => Before(block, i, j) \/ Before(block, j, i)
      /\ \A k \in 1 .. n : \E i \in W : Place(block, i) = k
  BY PlaceIs
<1>2. W \subseteq 1 .. Len(block) /\ Len(block) \in Nat /\ DOMAIN block = 1 .. Len(block)
      /\ \A i \in W : Rank(block[i].name) \in Nat /\ block[i].name.word \in Listed
  BY EnvHas, RankIs DEF Written
<1>3. \A i \in 1 .. Len(block) : block[i].name.word # "" => i \in W
  BY <1>2 DEF Written
<1>4. env = [k \in 1 .. n |-> block[From(k)]]
  BY DEF SortedByName
<1>5. \A i \in W : i \in Nat
  BY <1>2
<1> HIDE DEF W, n, env
<1>6. \A k \in 1 .. n : From(k) \in W /\ Place(block, From(k)) = k
  BY <1>1
<1> HIDE DEF From
<1>7. DOMAIN env = 1 .. n /\ \A k \in 1 .. n : env[k] = block[From(k)] /\ k \in Nat
  BY <1>1, <1>4
<1>8. ASSUME NEW i \in W, NEW j \in W, Place(block, i) < Place(block, j)
      PROVE  Before(block, i, j)
  <2>1. Place(block, i) \in Nat /\ Place(block, j) \in Nat
    BY <1>1
  <2>2. i # j /\ ~Before(block, j, i)
    BY <1>1, <1>8, <2>1
  <2> QED
    BY <1>1, <2>2
<1>9. \A i \in W : From(Place(block, i)) = i
  <2> SUFFICES ASSUME NEW i \in W PROVE From(Place(block, i)) = i
    OBVIOUS
  <2> DEFINE k == Place(block, i)
  <2>1. k \in 1 .. n /\ k \in Nat
    BY <1>1
  <2>2. From(k) \in W /\ Place(block, From(k)) = k
    BY <1>6, <2>1
  <2>3. ~(Place(block, i) < Place(block, From(k))) /\ ~(Place(block, From(k)) < Place(block, i))
    BY <2>1, <2>2
  <2> QED
    BY <1>1, <2>2, <2>3
<1>10. ASSUME NEW i \in 1 .. n, NEW j \in 1 .. n, i < j
       PROVE  Rank(env[i].name) <= Rank(env[j].name)
  <2>1. Before(block, From(i), From(j))
    BY <1>6, <1>8, <1>10
  <2> DEFINE a == Rank(block[From(i)].name)
             b == Rank(block[From(j)].name)
  <2>2. a < b \/ a = b
    BY <2>1 DEF Before
  <2>3. From(i) \in W /\ From(j) \in W
    BY <1>6
  <2>4. a \in Nat /\ b \in Nat
    BY <1>2, <2>3
  <2>5. Rank(env[i].name) = a /\ Rank(env[j].name) = b
    BY <1>7
  <2> HIDE DEF a, b
  <2>6. a <= b
    BY <2>2, <2>4
  <2> QED
    BY <2>5, <2>6
<1>11. ASSUME NEW name, name.word # ""
       PROVE  GetVar(env, name) = GetVar(block, name)
  <2> DEFINE m == Min(Entries(block, name))
  <2>1. \A i \in Entries(block, name) : i \in W /\ block[i].name.word = name.word
    BY <1>2, <1>3, <1>11 DEF Entries
  <2>2. \A k \in Entries(env, name) :
          k \in 1 .. n /\ From(k) \in W /\ From(k) \in Entries(block, name) /\ Place(block, From(k)) = k
    BY <1>2, <1>6, <1>7 DEF Entries
  <2>3. CASE Entries(block, name) = {}
    <3>1. Entries(env, name) = {}
      BY <2>2, <2>3
    <3> QED
      BY <2>3, <3>1 DEF GetVar
  <2>4. CASE Entries(block, name) # {}
    <3>1. m \in W /\ block[m].name.word = name.word /\ \A i \in Entries(block, name) : m <= i
      BY <2>4, <1>3, <1>11, FirstEntry
    <3> DEFINE p == Place(block, m)
    <3>2. p \in 1 .. n /\ env[p] = block[m] /\ p \in Nat
      BY <1>1, <1>7, <1>9, <3>1
    <3> HIDE DEF m
    <3>3. p \in Entries(env, name)
      BY <1>7, <3>1, <3>2 DEF Entries
    <3>4. \A k \in Entries(env, name) : p <= k
      <4> SUFFICES ASSUME NEW k \in Entries(env, name) PROVE p <= k
        OBVIOUS
      <4>1. /\ k \in 1 .. n /\ From(k) \in W /\ Place(block, From(k)) = k /\ m <= From(k)
            /\ block[From(k)].name.word = name.word /\ k \in Nat
        BY <2>1, <2>2, <3>1
      <4>2. CASE From(k) = m
        BY <3>2, <4>1, <4>2
      <4>3. CASE From(k) # m
        <5>1. m < From(k)
          <6>1. m \in Nat /\ From(k) \in Nat
            BY <1>5, <3>1, <4>1
          <6> QED
            BY <4>1, <4>3, <6>1
        <5>2. Rank(block[m].name) = Rank(block[From(k)].name)
          BY <1>2, <3>1, <4>1, RankIs
        <5>3. Before(block, m, From(k))
          BY <5>1, <5>2 DEF Before
        <5> QED
          BY <1>1, <3>1, <3>2, <4>1, <5>3
      <4> QED
        BY <4>2, <4>3
    <3>5. Min(Entries(env, name)) = p
      <4>1. Entries(env, name) \subseteq Nat
        BY <2>2
      <4> HIDE DEF p
      <4> QED
        BY <3>3, <3>4, <4>1, MinIs
    <3> HIDE DEF p
    <3> QED
      BY <2>4, <3>2, <3>3, <3>5 DEF GetVar, m
  <2> QED
    BY <2>3, <2>4
<1> QED
  BY <1>7, <1>10, <1>11 DEF env

\* The names the receiver's block is made with are words of the list, all different.
LEMMA NamesAre ==
  /\ \A word : Name(word).word = word
  /\ {"path", "gst_plugin_system_path", "gst_plugin_scanner", "home", "xdg_config_homedir",
      "gst_registry"} \subseteq Listed
<1>1. \A word : Name(word).word = word
  BY DEF Name
<1>2. Words[8] = "path" /\ Words[4] = "gst_plugin_system_path" /\ Words[3] = "gst_plugin_scanner"
      /\ Words[6] = "home" /\ Words[9] = "xdg_config_homedir" /\ Words[5] = "gst_registry"
      /\ {8, 4, 3, 6, 9, 5} \subseteq DOMAIN Words
  BY DEF Words
<1> HIDE DEF Words
<1> QED
  BY <1>1, <1>2 DEF Listed

\* The runtime tree is put first in PATH and its plugins are the ones looked for.
LEMMA RuntimeAnswers ==
  ASSUME NEW block, Env(block), NEW root, NEW hasScanner \in BOOLEAN
  PROVE  LET env == WithRuntime(block, root, hasScanner)
         IN  /\ Env(env)
             /\ GetVar(env, Name("path")) = <<Of(root, "bin")>> \o GetVar(block, Name("path"))
             /\ GetVar(env, Name("gst_plugin_system_path")) = <<Of(root, "plugins")>>
             /\ hasScanner => GetVar(env, Name("gst_plugin_scanner")) = <<Of(root, "scanner")>>
             /\ \A word \in {"home", "other"} : GetVar(env, Name(word)) = GetVar(block, Name(word))
<1> DEFINE value == <<Of(root, "bin")>> \o GetVar(block, Name("path"))
           path == SetVar(block, Name("path"), value)
           plugins == SetVar(path, Name("gst_plugin_system_path"), <<Of(root, "plugins")>>)
           scanner == SetVar(plugins, Name("gst_plugin_scanner"), <<Of(root, "scanner")>>)
           Kept(env) == \A word \in {"home", "other"} :
                          GetVar(env, Name(word)) = GetVar(block, Name(word))
<1>1. WithRuntime(block, root, hasScanner) = IF hasScanner THEN scanner ELSE plugins
  BY DEF WithRuntime
<1> HIDE DEF value
<1>2. Env(path) /\ GetVar(path, Name("path")) = value /\ Kept(path)
  BY SetThenGet, NamesAre
<1> HIDE DEF path
<1>3. /\ Env(plugins) /\ GetVar(plugins, Name("path")) = value /\ Kept(plugins)
      /\ GetVar(plugins, Name("gst_plugin_system_path")) = <<Of(root, "plugins")>>
  BY <1>2, SetThenGet, NamesAre
<1> HIDE DEF plugins
<1>4. /\ Env(scanner) /\ GetVar(scanner, Name("path")) = value /\ Kept(scanner)
      /\ GetVar(scanner, Name("gst_plugin_system_path")) = <<Of(root, "plugins")>>
      /\ GetVar(scanner, Name("gst_plugin_scanner")) = <<Of(root, "scanner")>>
  BY <1>3, SetThenGet, NamesAre
<1> HIDE DEF scanner
<1> QED
  BY <1>1, <1>3, <1>4 DEF value

\* The receiver's home is set last, if there is one, and leaves the runtime as it is.
LEMMA HomeAnswers ==
  ASSUME NEW block, Env(block), NEW hasHome \in BOOLEAN
  PROVE  LET env == WithHome(block, hasHome)
         IN  /\ Env(env)
             /\ GetVar(env, Name("home"))
                  = IF hasHome THEN <<"home">> ELSE GetVar(block, Name("home"))
             /\ \A word \in {"path", "gst_plugin_system_path", "gst_plugin_scanner", "other"} :
                  GetVar(env, Name(word)) = GetVar(block, Name(word))
<1> DEFINE first == SetVar(block, Name("home"), <<"home">>)
           twin == SetVar(first, Name("xdg_config_homedir"), <<"home">>)
           homes == IF hasHome THEN twin ELSE block
           last == SetVar(homes, Name("gst_registry"), <<"registry">>)
           home == IF hasHome THEN <<"home">> ELSE GetVar(block, Name("home"))
           Kept(env) ==
             \A word \in {"path", "gst_plugin_system_path", "gst_plugin_scanner", "other"} :
               GetVar(env, Name(word)) = GetVar(block, Name(word))
<1>1. WithHome(block, hasHome) = last
  BY DEF WithHome
<1>2. Env(first) /\ GetVar(first, Name("home")) = <<"home">> /\ Kept(first)
  BY SetThenGet, NamesAre
<1> HIDE DEF first
<1>3. Env(twin) /\ GetVar(twin, Name("home")) = <<"home">> /\ Kept(twin)
  BY <1>2, SetThenGet, NamesAre
<1> HIDE DEF twin
<1>4. Env(homes) /\ GetVar(homes, Name("home")) = home /\ Kept(homes)
  BY <1>3
<1> HIDE DEF homes, home
<1>5. Env(last) /\ GetVar(last, Name("home")) = home /\ Kept(last)
  BY <1>4, SetThenGet, NamesAre
<1> QED
  BY <1>1, <1>5 DEF home

\* PATH, the plugins, the scanner and HOME answer with the runtime root and the application's
\* folder before any other (child_env.cpp:85), for every environment a copy may be started with:
\* whatever it holds, in whatever order, spelling and number.
THEOREM OwnRuntimeAlwaysFirst == Spec => []OwnRuntimeFirst
<1>1. OwnRuntimeFirst
  <2> SUFFICES
        ASSUME NEW parent \in Parents, NEW hasScanner \in BOOLEAN, NEW hasHome \in BOOLEAN
        PROVE  LET env == ChildEnvironment(parent, ran.msys, None, hasScanner, hasHome)
                   Runtime == <<Of(ran.msys, "bin")>>
                   inherited == GetVar(parent, Name("path"))
               IN  /\ GetVar(env, Name("home"))
                        = IF hasHome THEN <<"home">> ELSE GetVar(parent, Name("home"))
                   /\ GetVar(env, Name("other")) = GetVar(parent, Name("other"))
                   /\ GetVar(env, Name("path"))
                        = IF ran.msys = None THEN inherited ELSE Runtime \o inherited
                   /\ ran.msys # None =>
                        /\ GetVar(env, Name("gst_plugin_system_path"))
                             = <<Of(ran.msys, "plugins")>>
                        /\ hasScanner => GetVar(env, Name("gst_plugin_scanner"))
                                           = <<Of(ran.msys, "scanner")>>
                   /\ \A i, j \in DOMAIN env : i < j => Rank(env[i].name) <= Rank(env[j].name)
    BY DEF OwnRuntimeFirst
  <2> DEFINE runtime == IF ran.msys = None THEN parent
                        ELSE WithRuntime(parent, ran.msys, hasScanner)
             whole == WithHome(runtime, hasHome)
             env == SortedByName(whole)
  <2>1. Env(parent)
    BY ParentsAssumption DEF Env
  <2>2. /\ Env(runtime)
        /\ GetVar(runtime, Name("path"))
             = IF ran.msys = None THEN GetVar(parent, Name("path"))
               ELSE <<Of(ran.msys, "bin")>> \o GetVar(parent, Name("path"))
        /\ ran.msys # None =>
             /\ GetVar(runtime, Name("gst_plugin_system_path")) = <<Of(ran.msys, "plugins")>>
             /\ hasScanner => GetVar(runtime, Name("gst_plugin_scanner"))
                                = <<Of(ran.msys, "scanner")>>
        /\ \A word \in {"home", "other"} :
             GetVar(runtime, Name(word)) = GetVar(parent, Name(word))
    BY <2>1, RuntimeAnswers
  <2> HIDE DEF runtime
  <2>3. /\ Env(whole)
        /\ GetVar(whole, Name("home"))
             = IF hasHome THEN <<"home">> ELSE GetVar(runtime, Name("home"))
        /\ \A word \in {"path", "gst_plugin_system_path", "gst_plugin_scanner", "other"} :
             GetVar(whole, Name(word)) = GetVar(runtime, Name(word))
    BY <2>2, HomeAnswers
  <2> HIDE DEF whole
  <2>4. /\ \A i, j \in DOMAIN env : i < j => Rank(env[i].name) <= Rank(env[j].name)
        /\ \A name : name.word # "" => GetVar(env, name) = GetVar(whole, name)
    BY <2>3, SortedAnswers
  <2>5. \A word \in {"home", "other", "path", "gst_plugin_system_path", "gst_plugin_scanner"} :
          GetVar(env, Name(word)) = GetVar(whole, Name(word))
    BY <2>4, NamesAre
  <2>6. ChildEnvironment(parent, ran.msys, None, hasScanner, hasHome) = env
    BY DEF ChildEnvironment, whole, runtime
  <2> HIDE DEF env
  <2> QED
    BY <2>2, <2>3, <2>4, <2>5, <2>6
<1> QED
  BY <1>1, PTL

-----------------------------------------------------------------------------
\* Counting, and computing in steps.

\* What holds of a number if it holds of all smaller ones holds of every number.
LEMMA Inductive ==
  ASSUME NEW S, \A n \in Nat : (\A m \in 0 .. n - 1 : m \in S) => n \in S
  PROVE  \A n \in Nat : n \in S
<1> DEFINE missing == {n \in Nat : n \notin S}
           R == OpToRel(<, Nat)
<1>1. \A x, y \in Nat : y < x => <<y, x>> \in R
  BY DEF OpToRel
<1>2. missing \subseteq Nat
  OBVIOUS
<1> SUFFICES ASSUME missing # {} PROVE FALSE
  OBVIOUS
<1>3. IsWellFoundedOn(R, Nat)
  BY NatLessThanWellFounded DEF R
<1>4. PICK n \in missing : \A m \in missing : <<m, n>> \notin R
  <2> HIDE DEF missing, R
  <2> QED
    BY <1>2, <1>3, WFMin
<1>5. \A m \in 0 .. n - 1 : m \in S
  <2> HIDE DEF R
  <2>1. n \in Nat
    BY <1>4
  <2> SUFFICES ASSUME NEW m \in 0 .. n - 1, m \notin S PROVE FALSE
    OBVIOUS
  <2>2. m \in Nat /\ m < n
    BY <2>1
  <2>3. m \in missing
    BY <2>2
  <2> HIDE DEF missing
  <2> QED
    BY <1>1, <1>4, <2>1, <2>2, <2>3
<1> QED
  BY <1>4, <1>5

\* One number after the other.
LEMMA Counting ==
  ASSUME NEW S, 0 \in S, \A n \in Nat : n \in S => n + 1 \in S
  PROVE  \A n \in Nat : n \in S
<1>1. ASSUME NEW n \in Nat, \A m \in 0 .. n - 1 : m \in S
      PROVE  n \in S
  <2>1. CASE n = 0
    BY <2>1
  <2>2. CASE n # 0
    <3>1. n - 1 \in Nat /\ n - 1 \in 0 .. n - 1 /\ (n - 1) + 1 = n
      BY <2>2
    <3> QED
      BY <1>1, <3>1
  <2> QED
    BY <2>1, <2>2
<1> QED
  BY <1>1, Inductive

\* One more behind two texts.
LEMMA ConcatAppend ==
  ASSUME NEW S, NEW s \in Seq(S), NEW t \in Seq(S), NEW x \in S
  PROVE  s \o Append(t, x) = Append(s \o t, x) /\ s \o t \in Seq(S)
<1>1. Append(t, x) = t \o <<x>> /\ <<x>> \in Seq(S)
  BY AppendIsConcat
<1>2. s \o t \in Seq(S)
  BY ConcatProperties
<1>3. Append(s \o t, x) = (s \o t) \o <<x>>
  BY <1>2, AppendIsConcat
<1>4. (s \o t) \o <<x>> = s \o (t \o <<x>>)
  BY <1>1, ConcatAssociative
<1> QED
  BY <1>1, <1>2, <1>3, <1>4

\* A computation of n steps, each from the state before.
Computes(f, Q, n, start, step) ==
  f \in [0 .. n -> Q] /\ f[0] = start /\ \A i \in 1 .. n : f[i] = step[<<f[i - 1], i>>]

LEMMA Steps ==
  ASSUME NEW Q, NEW n \in Nat, NEW start \in Q, NEW step \in [Q \X (1 .. n) -> Q]
  PROVE  \E f : Computes(f, Q, n, start, step)
<1> DEFINE Upto(m, f) == f \in [0 .. m -> Q] /\ f[0] = start
                         /\ \A i \in 1 .. m : f[i] = step[<<f[i - 1], i>>]
           S == {m \in Nat : m <= n => \E f : Upto(m, f)}
<1>1. 0 \in S
  <2>1. Upto(0, [i \in 0 .. 0 |-> start])
    OBVIOUS
  <2> QED
    BY <2>1
<1>2. ASSUME NEW m \in Nat, m \in S
      PROVE  m + 1 \in S
  <2> SUFFICES ASSUME m + 1 <= n PROVE \E f : Upto(m + 1, f)
    OBVIOUS
  <2>1. PICK f : Upto(m, f)
    BY <1>2
  <2> DEFINE g == [i \in 0 .. m + 1 |-> IF i = m + 1 THEN step[<<f[m], m + 1>>] ELSE f[i]]
  <2>2. f[m] \in Q /\ <<f[m], m + 1>> \in Q \X (1 .. n)
    BY <2>1
  <2>3. step[<<f[m], m + 1>>] \in Q
    BY <2>2
  <2>4. g \in [0 .. m + 1 -> Q]
    BY <2>1, <2>3
  <2>5. g[m + 1] = step[<<g[m], m + 1>>] /\ g[0] = start
    <3>1. m \in 0 .. m + 1 /\ 0 \in 0 .. m + 1 /\ m + 1 \in 0 .. m + 1 /\ m # m + 1 /\ 0 # m + 1
      OBVIOUS
    <3>2. g[m] = f[m] /\ g[0] = f[0] /\ g[m + 1] = step[<<f[m], m + 1>>]
      BY <3>1
    <3> HIDE DEF g
    <3> QED
      BY <2>1, <3>2
  <2>6. ASSUME NEW i \in 1 .. m PROVE g[i] = step[<<g[i - 1], i>>]
    <3>1. i \in 0 .. m /\ i - 1 \in 0 .. m /\ i # m + 1 /\ i - 1 # m + 1
      OBVIOUS
    <3>2. g[i] = f[i] /\ g[i - 1] = f[i - 1]
      BY <3>1
    <3> HIDE DEF g
    <3> QED
      BY <2>1, <3>2
  <2>7. \A i \in 1 .. m + 1 : i = m + 1 \/ i \in 1 .. m
    OBVIOUS
  <2>8. \A i \in 1 .. m + 1 : g[i] = step[<<g[i - 1], i>>]
    <3> SUFFICES ASSUME NEW i \in 1 .. m + 1 PROVE g[i] = step[<<g[i - 1], i>>]
      OBVIOUS
    <3>1. CASE i = m + 1
      <4>1. i - 1 = m
        BY <3>1
      <4> HIDE DEF g
      <4> QED
        BY <2>5, <3>1, <4>1
    <3>2. CASE i \in 1 .. m
      <4> HIDE DEF g
      <4> QED
        BY <2>6, <3>2
    <3> QED
      BY <2>7, <3>1, <3>2
  <2> HIDE DEF g
  <2>9. Upto(m + 1, g)
    BY <2>4, <2>5, <2>8
  <2> QED
    BY <2>9
<1> HIDE DEF S
<1>3. n \in S
  BY <1>1, <1>2, Counting
<1> QED
  BY <1>3 DEF S, Computes

\* A run of backslashes is a text, and one more goes behind it.
LEMMA SlashesAre ==
  ASSUME NEW C, Slash \in C, NEW n \in Nat
  PROVE  /\ Slashes(n) \in Seq(C)
         /\ Slashes(0) = <<>>
         /\ Slashes(n + 1) = Append(Slashes(n), Slash)
         /\ \A s \in Seq(C) : s \o Slashes(0) = s /\ s \o Slashes(n) \in Seq(C)
                              /\ s \o Slashes(n + 1) = Append(s \o Slashes(n), Slash)
<1>1. Slashes(n) \in Seq(C)
  BY DEF Slashes
<1>2. Slashes(0) = <<>>
  BY DEF Slashes
<1>3. Slashes(n + 1) = Append(Slashes(n), Slash)
  BY DEF Slashes
<1>4. ASSUME NEW s \in Seq(C)
      PROVE  s \o Slashes(0) = s /\ s \o Slashes(n) \in Seq(C)
             /\ s \o Slashes(n + 1) = Append(s \o Slashes(n), Slash)
  <2>1. s \o Append(Slashes(n), Slash) = Append(s \o Slashes(n), Slash)
        /\ s \o Slashes(n) \in Seq(C)
    BY <1>1, ConcatAppend
  <2>2. s \o <<>> = s
    BY ConcatEmptySeq
  <2> QED
    BY <1>2, <1>3, <2>1, <2>2, Zenon
<1> QED
  BY <1>1, <1>2, <1>3, <1>4

-----------------------------------------------------------------------------
\* What quoting has made of an argument, up to each of its characters.
LEMMA QuotingSteps ==
  ASSUME NEW C, Slash \in C, Quote \in C, NEW arg \in Seq(C)
  PROVE  \E q \in [0 .. Len(arg) -> [slashes : Nat, out : Seq(C)]] :
           /\ q[0] = [slashes |-> 0, out |-> <<Quote>>]
           /\ \A i \in 1 .. Len(arg) : q[i] = QuoteCharacter(q[i - 1], arg[i])
           /\ Quoting(arg) = q[Len(arg)]
<1> DEFINE n == Len(arg)
           Q == [slashes : Nat, out : Seq(C)]
           start == [slashes |-> 0, out |-> <<Quote>>]
           step == [x \in Q \X (1 .. n) |-> QuoteCharacter(x[1], arg[x[2]])]
           IsRun(q) == q = [i \in 0 .. n |->
                              IF i = 0 THEN start ELSE QuoteCharacter(q[i - 1], arg[i])]
           run == CHOOSE q : IsRun(q)
<1>1. start \in Q /\ n \in Nat
  OBVIOUS
<1>2. ASSUME NEW q \in Q, NEW ch \in C PROVE QuoteCharacter(q, ch) \in Q
  <2>1. q.slashes \in Nat /\ q.out \in Seq(C) /\ q.slashes + 1 \in Nat
        /\ 2 * q.slashes + 1 \in Nat
    OBVIOUS
  <2>2. CASE ch = Slash
    BY <2>1, <2>2 DEF QuoteCharacter
  <2>3. CASE ch # Slash
    <3> DEFINE m == IF ch = Quote THEN 2 * q.slashes + 1 ELSE q.slashes
    <3>1. m \in Nat
      BY <2>1
    <3>2. QuoteCharacter(q, ch) = [slashes |-> 0, out |-> q.out \o Slashes(m) \o <<ch>>]
      BY <2>3 DEF QuoteCharacter
    <3> HIDE DEF m
    <3>3. q.out \o Slashes(m) \in Seq(C)
      BY <2>1, <3>1, SlashesAre
    <3>4. q.out \o Slashes(m) \o <<ch>> \in Seq(C)
      BY <3>3
    <3> QED
      BY <3>2, <3>4
  <2> QED
    BY <2>2, <2>3
<1>3. step \in [Q \X (1 .. n) -> Q]
  <2> SUFFICES ASSUME NEW x \in Q \X (1 .. n) PROVE QuoteCharacter(x[1], arg[x[2]]) \in Q
    OBVIOUS
  <2>1. x[1] \in Q /\ arg[x[2]] \in C
    OBVIOUS
  <2> QED
    BY <1>2, <2>1
<1>4. \A q \in Q, i \in 1 .. n : step[<<q, i>>] = QuoteCharacter(q, arg[i])
  OBVIOUS
<1> HIDE DEF Q, start, step, n
<1>5. PICK f \in [0 .. n -> Q] : f[0] = start /\ \A i \in 1 .. n : f[i] = step[<<f[i - 1], i>>]
  <2> HIDE DEF IsRun, run
  <2>1. start \in Q
    BY <1>1
  <2>2. n \in Nat
    BY <1>1
  <2>3. step \in [Q \X (1 .. n) -> Q]
    BY <1>3
  <2> QED
    <3> DEFINE P(f) == Computes(f, Q, n, start, step)
    <3>1. \E f : P(f)
      BY <2>1, <2>2, <2>3, Steps
    <3> QED
      BY <3>1 DEF Computes
<1>6. IsRun(f)
  <2>1. ASSUME NEW i \in 0 .. n, i # 0 PROVE f[i] = QuoteCharacter(f[i - 1], arg[i])
    <3>1. i \in 1 .. n /\ i - 1 \in 0 .. n
      BY <1>1, <2>1
    <3> QED
      BY <1>4, <1>5, <3>1
  <2>2. f = [i \in 0 .. n |-> f[i]]
    OBVIOUS
  <2> QED
    BY <1>5, <2>1, <2>2
<1>7. IsRun(run)
  <2> HIDE DEF IsRun
  <2> QED
    BY <1>6
<1>8. Quoting(arg) = run[n]
  BY DEF Quoting, start, n
<1> HIDE DEF run
<1>9. run[0] = start /\ \A i \in 1 .. n : run[i] = QuoteCharacter(run[i - 1], arg[i])
  <2>1. 0 \in 0 .. n /\ \A i \in 1 .. n : i \in 0 .. n /\ i # 0
    BY <1>1
  <2> QED
    BY <1>7, <2>1
<1>10. run = f
  <2> DEFINE S == {k \in Nat : k <= n => run[k] = f[k]}
  <2>1. 0 \in S
    BY <1>5, <1>9
  <2>2. ASSUME NEW k \in Nat, k \in S PROVE k + 1 \in S
    <3> SUFFICES ASSUME k + 1 <= n PROVE run[k + 1] = f[k + 1]
      OBVIOUS
    <3>1. k + 1 \in 1 .. n /\ (k + 1) - 1 = k /\ run[k] = f[k] /\ k + 1 \in 0 .. n /\ k + 1 # 0
      BY <1>1, <2>2
    <3> QED
      BY <1>6, <1>9, <3>1
  <2> HIDE DEF S
  <2>3. \A k \in 0 .. n : k \in S
    BY <1>1, <2>1, <2>2, Counting
  <2>4. \A k \in 0 .. n : run[k] = f[k]
    BY <1>1, <2>3 DEF S
  <2>5. DOMAIN run = 0 .. n /\ run = [i \in 0 .. n |-> run[i]]
    BY <1>7
  <2> QED
    BY <2>4, <2>5
<1> QED
  BY <1>5, <1>8, <1>9, <1>10 DEF n, Q, start

\* Where the reading of a line can be.
Parses(C) == [args : Seq(Seq(C)), arg : Seq(C), began : BOOLEAN, quoted : BOOLEAN, slashes : Nat]

\* Reading a character stays there.
LEMMA ParseCharacterIs ==
  ASSUME NEW C, Slash \in C, Quote \in C, NEW p \in Parses(C), NEW ch \in C
  PROVE  ParseCharacter(p, ch) \in Parses(C)
<1> DEFINE s == p.arg \o Slashes(p.slashes)
           h == p.arg \o Slashes(p.slashes \div 2)
           kept == [p EXCEPT !.arg = @ \o Slashes(p.slashes), !.slashes = 0]
           halved == [p EXCEPT !.arg = @ \o Slashes(p.slashes \div 2), !.slashes = 0, !.began = TRUE]
<1>1. p.slashes \in Nat /\ p.slashes + 1 \in Nat /\ p.slashes \div 2 \in Nat /\ p.arg \in Seq(C)
      /\ p.args \in Seq(Seq(C)) /\ p.began \in BOOLEAN /\ p.quoted \in BOOLEAN
  BY DEF Parses
<1>2. s \in Seq(C) /\ h \in Seq(C)
  BY <1>1, SlashesAre
<1>3. kept = [p EXCEPT !.arg = s, !.slashes = 0]
      /\ halved = [p EXCEPT !.arg = h, !.slashes = 0, !.began = TRUE]
  OBVIOUS
<1> HIDE DEF s, h
<1>4. kept \in Parses(C) /\ halved \in Parses(C) /\ kept.arg = s /\ halved.arg = h
  BY <1>1, <1>2, <1>3 DEF Parses
<1> HIDE DEF kept, halved
<1>5. CASE ch = Slash
  <2>1. ParseCharacter(p, ch) = [p EXCEPT !.slashes = @ + 1, !.began = TRUE]
    BY <1>5 DEF ParseCharacter
  <2> QED
    BY <1>1, <2>1 DEF Parses
<1>6. CASE ch # Slash /\ ch = Quote
  <2>1. ParseCharacter(p, ch) = IF p.slashes % 2 = 1 THEN [halved EXCEPT !.arg = Append(@, Quote)]
                                ELSE [halved EXCEPT !.quoted = ~@]
    BY <1>6 DEF ParseCharacter, halved
  <2> DEFINE a == Append(halved.arg, Quote)
  <2>2. a \in Seq(C)
    BY <1>2, <1>4
  <2>3. [halved EXCEPT !.arg = Append(@, Quote)] = [halved EXCEPT !.arg = a]
    BY <1>4 DEF Parses
  <2> HIDE DEF a
  <2>4. [halved EXCEPT !.arg = a] \in Parses(C) /\ [halved EXCEPT !.quoted = ~@] \in Parses(C)
    BY <1>4, <2>2 DEF Parses
  <2>5. \/ ParseCharacter(p, ch) = [halved EXCEPT !.arg = a]
        \/ ParseCharacter(p, ch) = [halved EXCEPT !.quoted = ~@]
    BY <2>1, <2>3, Zenon
  <2> QED
    BY <2>4, <2>5, Zenon
<1>7. CASE ch # Slash /\ ch # Quote /\ ch = Blank /\ ~p.quoted
  <2>1. ParseCharacter(p, ch) = IF p.began THEN [Parsing EXCEPT !.args = Append(p.args, kept.arg)] ELSE p
    BY <1>7 DEF ParseCharacter, kept
  <2> DEFINE a == Append(p.args, kept.arg)
  <2>2. a \in Seq(Seq(C))
    BY <1>1, <1>2, <1>4
  <2>3. ParseCharacter(p, ch) = [Parsing EXCEPT !.args = a] \/ ParseCharacter(p, ch) = p
    BY <2>1
  <2> HIDE DEF a
  <2>4. <<>> \in Seq(C) /\ <<>> \in Seq(Seq(C))
    OBVIOUS
  <2>5. Parsing \in Parses(C)
    BY <2>4 DEF Parsing, Parses
  <2>6. [Parsing EXCEPT !.args = a] \in Parses(C)
    BY <2>2, <2>5 DEF Parses
  <2> QED
    BY <2>3, <2>6, Zenon
<1>8. CASE ch # Slash /\ ch # Quote /\ ~(ch = Blank /\ ~p.quoted)
  <2>1. ParseCharacter(p, ch) = [kept EXCEPT !.arg = Append(@, ch), !.began = TRUE]
    BY <1>8 DEF ParseCharacter, kept
  <2>2. Append(kept.arg, ch) \in Seq(C)
    BY <1>2, <1>4
  <2> QED
    BY <1>4, <2>1, <2>2 DEF Parses
<1> QED
  BY <1>5, <1>6, <1>7, <1>8

\* The reading of a text, character by character: there is one, and Parsed is its end.
IsParsing(p, text) ==
  p = [i \in 0 .. Len(text) |-> IF i = 0 THEN Parsing ELSE ParseCharacter(p[i - 1], text[i])]

LEMMA ParsingSteps ==
  ASSUME NEW C, Slash \in C, Quote \in C, NEW text \in Seq(C)
  PROVE  \E p : /\ IsParsing(p, text)
                /\ \A i \in 0 .. Len(text) : p[i] \in Parses(C)
                /\ Parsed(text) = p[Len(text)]
<1> DEFINE n == Len(text)
           Q == Parses(C)
           step == [x \in Q \X (1 .. n) |-> ParseCharacter(x[1], text[x[2]])]
           run == CHOOSE p : IsParsing(p, text)
<1>1. Parsing \in Q /\ n \in Nat
  BY DEF Parses, Parsing
<1> HIDE DEF Q
<1>2. \A q \in Q, ch \in C : ParseCharacter(q, ch) \in Q
  BY ParseCharacterIs DEF Q
<1>3. step \in [Q \X (1 .. n) -> Q]
  <2> SUFFICES ASSUME NEW x \in Q \X (1 .. n) PROVE ParseCharacter(x[1], text[x[2]]) \in Q
    OBVIOUS
  <2>1. x[1] \in Q /\ text[x[2]] \in C
    OBVIOUS
  <2> QED
    BY <1>2, <2>1
<1>4. \A q \in Q, i \in 1 .. n : step[<<q, i>>] = ParseCharacter(q, text[i])
  OBVIOUS
<1> HIDE DEF step, n
<1>5. PICK f \in [0 .. n -> Q] : f[0] = Parsing /\ \A i \in 1 .. n : f[i] = step[<<f[i - 1], i>>]
  <2>1. step \in [Q \X (1 .. n) -> Q]
    BY <1>3
  <2> DEFINE P(f) == Computes(f, Q, n, Parsing, step)
  <2>2. \E f : P(f)
    BY <1>1, <2>1, Steps
  <2> QED
    BY <2>2 DEF Computes
<1>6. IsParsing(f, text)
  <2>1. ASSUME NEW i \in 0 .. n, i # 0 PROVE f[i] = ParseCharacter(f[i - 1], text[i])
    <3>1. i \in 1 .. n /\ i - 1 \in 0 .. n
      BY <1>1, <2>1
    <3> QED
      BY <1>4, <1>5, <3>1
  <2>2. f = [i \in 0 .. n |-> f[i]]
    OBVIOUS
  <2> QED
    BY <1>5, <2>1, <2>2 DEF IsParsing, n
<1>7. IsParsing(run, text)
  BY <1>6
<1>8. Parsed(text) = run[n]
  BY DEF Parsed, IsParsing, n
<1> HIDE DEF run
<1>9. \A i \in 0 .. n : run[i] = IF i = 0 THEN Parsing ELSE ParseCharacter(run[i - 1], text[i])
  BY <1>7 DEF IsParsing, n
<1>10. \A i \in 0 .. n : run[i] \in Q
  <2> DEFINE S == {k \in Nat : k <= n => run[k] \in Q}
  <2>1. 0 \in S
    BY <1>1, <1>9
  <2>2. ASSUME NEW k \in Nat, k \in S PROVE k + 1 \in S
    <3> SUFFICES ASSUME k + 1 <= n PROVE run[k + 1] \in Q
      OBVIOUS
    <3>1. k + 1 \in 0 .. n /\ k + 1 # 0 /\ (k + 1) - 1 = k /\ run[k] \in Q /\ k + 1 \in 1 .. n
      BY <1>1, <2>2
    <3>2. text[k + 1] \in C
      BY <3>1 DEF n
    <3> QED
      BY <1>2, <1>9, <3>1, <3>2
  <2> HIDE DEF S
  <2>3. \A k \in 0 .. n : k \in S
    BY <1>1, <2>1, <2>2, Counting
  <2> QED
    BY <1>1, <2>3 DEF S
<1> QED
  BY <1>7, <1>8, <1>10 DEF n, Q

\* Nothing is read of nothing, and a longer text is read one character further.
LEMMA ParsedNothing == Parsed(<<>>) = Parsing
<1> DEFINE C == {Slash, Quote}
<1>1. <<>> \in Seq(C) /\ Slash \in C /\ Quote \in C /\ Len(<<>>) = 0
  OBVIOUS
<1> HIDE DEF C
<1>2. PICK p : IsParsing(p, <<>>) /\ Parsed(<<>>) = p[Len(<<>>)]
  BY <1>1, ParsingSteps
<1> QED
  BY <1>1, <1>2 DEF IsParsing

LEMMA ParsedAppend ==
  ASSUME NEW C, Slash \in C, Quote \in C, NEW text \in Seq(C), NEW ch \in C
  PROVE  /\ Parsed(text) \in Parses(C)
         /\ Parsed(Append(text, ch)) = ParseCharacter(Parsed(text), ch)
<1> DEFINE n == Len(text)
           longer == Append(text, ch)
<1>1. n \in Nat /\ longer \in Seq(C) /\ Len(longer) = n + 1 /\ longer[n + 1] = ch
      /\ \A i \in 1 .. n : longer[i] = text[i]
  OBVIOUS
<1> HIDE DEF longer
<1>2. PICK p : IsParsing(p, text) /\ (\A i \in 0 .. n : p[i] \in Parses(C)) /\ Parsed(text) = p[n]
  BY ParsingSteps
<1>3. PICK q : IsParsing(q, longer) /\ Parsed(longer) = q[Len(longer)]
  BY <1>1, ParsingSteps
<1> HIDE DEF n
<1>4. \A i \in 0 .. n : p[i] = IF i = 0 THEN Parsing ELSE ParseCharacter(p[i - 1], text[i])
  BY <1>2 DEF IsParsing, n
<1>5. \A i \in 0 .. n + 1 : q[i] = IF i = 0 THEN Parsing ELSE ParseCharacter(q[i - 1], longer[i])
  BY <1>1, <1>3 DEF IsParsing
<1> DEFINE S == {k \in Nat : k <= n => p[k] = q[k]}
<1>6. 0 \in S
  BY <1>1, <1>4, <1>5
<1>7. ASSUME NEW k \in Nat, k \in S PROVE k + 1 \in S
  <2> SUFFICES ASSUME k + 1 <= n PROVE p[k + 1] = q[k + 1]
    OBVIOUS
  <2>1. k + 1 \in 0 .. n /\ k + 1 \in 0 .. n + 1 /\ k + 1 # 0 /\ (k + 1) - 1 = k /\ k + 1 \in 1 .. n
        /\ p[k] = q[k]
    BY <1>1, <1>7
  <2>2. text[k + 1] = longer[k + 1]
    BY <1>1, <2>1
  <2> QED
    BY <1>4, <1>5, <2>1, <2>2
<1> HIDE DEF S
<1>8. n \in S
  BY <1>1, <1>6, <1>7, Counting
<1>9. p[n] = q[n]
  BY <1>1, <1>8 DEF S
<1>10. n + 1 \in 0 .. n + 1 /\ n + 1 # 0 /\ (n + 1) - 1 = n
  BY <1>1
<1>11. q[n + 1] = ParseCharacter(q[n], ch)
  BY <1>1, <1>5, <1>10
<1>12. n \in 0 .. n
  BY <1>1
<1> QED
  BY <1>1, <1>2, <1>3, <1>9, <1>11, <1>12 DEF longer

-----------------------------------------------------------------------------
\* Reading a run of backslashes counts them.
LEMMA ReadSlashes ==
  ASSUME NEW C, Slash \in C, Quote \in C, NEW text \in Seq(C), Parsed(text).began = TRUE, NEW n \in Nat
  PROVE  /\ text \o Slashes(n) \in Seq(C)
         /\ Parsed(text \o Slashes(n)) = [Parsed(text) EXCEPT !.slashes = @ + n]
<1> DEFINE p == Parsed(text)
           S == {k \in Nat : Parsed(text \o Slashes(k)) = [p EXCEPT !.slashes = @ + k]}
<1>1. p \in Parses(C) /\ p.slashes \in Nat /\ p.began = TRUE
  <2>1. p \in Parses(C)
    BY ParsedAppend
  <2> HIDE DEF p
  <2> QED
    BY <2>1 DEF Parses, p
<1> HIDE DEF p
<1>2. 0 \in S
  <2>1. text \o Slashes(0) = text /\ [p EXCEPT !.slashes = @ + 0] = p
    BY <1>1, SlashesAre DEF Parses
  <2> QED
    BY <2>1 DEF p
<1>3. ASSUME NEW k \in Nat, k \in S PROVE k + 1 \in S
  <2>1. text \o Slashes(k) \in Seq(C) /\ text \o Slashes(k + 1) = Append(text \o Slashes(k), Slash)
    BY SlashesAre
  <2>2. Parsed(text \o Slashes(k + 1)) = ParseCharacter(Parsed(text \o Slashes(k)), Slash)
    BY <2>1, ParsedAppend
  <2> DEFINE m == p.slashes + k
             q == [p EXCEPT !.slashes = m]
  <2>3. Parsed(text \o Slashes(k)) = q
    BY <1>3
  <2>4. m \in Nat /\ m + 1 = p.slashes + (k + 1)
    BY <1>1
  <2> HIDE DEF m
  <2>5. ParseCharacter(q, Slash) = [q EXCEPT !.slashes = q.slashes + 1, !.began = TRUE]
    BY DEF ParseCharacter
  <2>6. q.slashes = m
    BY <1>1 DEF Parses
  <2>7. [q EXCEPT !.slashes = m + 1, !.began = TRUE] = [p EXCEPT !.slashes = m + 1]
    BY <1>1 DEF Parses
  <2> HIDE DEF q
  <2>8. Parsed(text \o Slashes(k + 1)) = [p EXCEPT !.slashes = m + 1]
    BY <2>2, <2>3, <2>5, <2>6, <2>7
  <2> QED
    BY <2>4, <2>8
<1> HIDE DEF S
<1>4. n \in S
  BY <1>2, <1>3, Counting
<1> QED
  BY <1>4, SlashesAre DEF S, p

\* The beginning of a text: none of it, and one character more.
LEMMA Beginnings ==
  ASSUME NEW C, NEW arg \in Seq(C)
  PROVE  /\ SubSeq(arg, 1, 0) = <<>>
         /\ SubSeq(arg, 1, Len(arg)) = arg
         /\ \A k \in Nat : k + 1 <= Len(arg) =>
              /\ SubSeq(arg, 1, k) \in Seq(C) /\ arg[k + 1] \in C
              /\ SubSeq(arg, 1, k + 1) = Append(SubSeq(arg, 1, k), arg[k + 1])
<1>1. SubSeq(arg, 1, 0) = <<>>
  OBVIOUS
<1>2. SubSeq(arg, 1, Len(arg)) = arg
  OBVIOUS
<1>3. ASSUME NEW k \in Nat, k + 1 <= Len(arg)
      PROVE  /\ SubSeq(arg, 1, k) \in Seq(C) /\ arg[k + 1] \in C
             /\ SubSeq(arg, 1, k + 1) = Append(SubSeq(arg, 1, k), arg[k + 1])
  <2>1. arg[k + 1] \in C
    BY <1>3
  <2>2. SubSeq(arg, 1, k) \in Seq(C)
    BY <1>3
  <2>3. SubSeq(arg, 1, k + 1) = Append(SubSeq(arg, 1, k), arg[k + 1])
    BY <1>3
  <2> QED
    BY <2>1, <2>2, <2>3
<1> QED
  BY <1>1, <1>2, <1>3

\* Between two arguments: so many have been read, and nothing of the next.
Between(args) == [Parsing EXCEPT !.args = args]

\* A blank behind an argument ends it.
LEMMA ReadBlank ==
  ASSUME NEW C, NEW p \in Parses(C), p.began = TRUE, p.quoted = FALSE
  PROVE  ParseCharacter(p, Blank) = Between(Append(p.args, p.arg \o Slashes(p.slashes)))
<1>1. Blank # Slash /\ Blank # Quote
  BY DEF Blank, Slash, Quote
<1>2. [p EXCEPT !.arg = @ \o Slashes(p.slashes), !.slashes = 0].arg = p.arg \o Slashes(p.slashes)
  BY DEF Parses
<1> QED
  BY <1>1, <1>2 DEF ParseCharacter, Between

\* An argument without quotes around it is read as it is.
LEMMA ReadUnquoted ==
  ASSUME NEW C, Slash \in C, Quote \in C, Blank \in C, NEW text \in Seq(C), NEW args,
         Parsed(text) = Between(args), NEW arg \in Seq(C), ~NeedsQuotes(arg)
  PROVE  /\ text \o arg \in Seq(C)
         /\ Parsed(Append(text \o arg, Blank)) = Between(Append(args, arg))
<1> DEFINE n == Len(arg)
           Upto(k) == SubSeq(arg, 1, k)
           Read(p, k) == /\ p.args = args /\ p.quoted = FALSE /\ (p.began = TRUE <=> k > 0)
                         /\ p.arg \o Slashes(p.slashes) = Upto(k)
           S == {k \in Nat : k <= n => Read(Parsed(text \o Upto(k)), k)}
<1>1. n \in Nat /\ n > 0 /\ \A i \in 1 .. n : arg[i] \in C /\ arg[i] # Blank /\ arg[i] # Quote
  BY DEF NeedsQuotes
<1>2. Upto(0) = <<>> /\ Upto(n) = arg
      /\ \A k \in Nat : k + 1 <= n => Upto(k) \in Seq(C) /\ Upto(k + 1) = Append(Upto(k), arg[k + 1])
  BY Beginnings
<1> HIDE DEF n, Upto
<1>3. 0 \in S
  <2>1. text \o Upto(0) = text
    BY <1>2, ConcatEmptySeq
  <2>2. <<>> \o Slashes(0) = <<>>
    BY DEF Slashes
  <2> DEFINE p == Between(args)
  <2>3. p.args = args /\ p.quoted = FALSE /\ p.began = FALSE /\ p.arg = <<>> /\ p.slashes = 0
    BY DEF Between, Parsing
  <2> HIDE DEF p
  <2>4. Read(p, 0)
    BY <1>2, <2>2, <2>3
  <2> HIDE DEF Read
  <2> QED
    BY <2>1, <2>4 DEF p
<1>4. ASSUME NEW k \in Nat, k \in S PROVE k + 1 \in S
  <2> SUFFICES ASSUME k + 1 <= n PROVE Read(Parsed(text \o Upto(k + 1)), k + 1)
    <3> HIDE DEF Read
    <3> QED
      OBVIOUS
  <2> DEFINE p == Parsed(text \o Upto(k))
             ch == arg[k + 1]
  <2>1. k <= n /\ k + 1 \in 1 .. n /\ k + 1 > 0
    BY <1>1
  <2>2. ch \in C /\ ch # Blank /\ ch # Quote
    BY <1>1, <2>1
  <2>3. Upto(k) \in Seq(C) /\ Upto(k + 1) = Append(Upto(k), ch)
    BY <1>2
  <2> HIDE DEF ch
  <2>4. text \o Upto(k) \in Seq(C) /\ text \o Upto(k + 1) = Append(text \o Upto(k), ch)
    <3>1. text \o Append(Upto(k), ch) = Append(text \o Upto(k), ch) /\ text \o Upto(k) \in Seq(C)
      <4> DEFINE u == Upto(k)
      <4>1. u \in Seq(C)
        BY <2>3
      <4> HIDE DEF u
      <4>2. text \o Append(u, ch) = Append(text \o u, ch) /\ text \o u \in Seq(C)
        BY <2>2, <4>1, ConcatAppend
      <4> QED
        BY <4>2 DEF u
    <3> QED
      BY <2>3, <3>1
  <2>5. p \in Parses(C) /\ Parsed(text \o Upto(k + 1)) = ParseCharacter(p, ch)
    BY <2>2, <2>4, ParsedAppend
  <2>6. Read(p, k)
    BY <1>4, <2>1
  <2> HIDE DEF p, ch
  <2>7. p.slashes \in Nat /\ p.arg \in Seq(C)
    BY <2>5 DEF Parses
  <2>8. CASE ch = Slash
    <3>1. ParseCharacter(p, ch) = [p EXCEPT !.slashes = @ + 1, !.began = TRUE]
      BY <2>8 DEF ParseCharacter
    <3>2. p.arg \o Slashes(p.slashes + 1) = Append(p.arg \o Slashes(p.slashes), Slash)
      BY <2>7, SlashesAre
    <3> QED
      BY <2>1, <2>3, <2>5, <2>6, <2>8, <3>1, <3>2 DEF Parses
  <2>9. CASE ch # Slash
    <3> DEFINE a == p.arg \o Slashes(p.slashes)
    <3>1. ParseCharacter(p, ch) = [[p EXCEPT !.arg = a, !.slashes = 0] EXCEPT
                                    !.arg = Append(@, ch), !.began = TRUE]
      BY <2>2, <2>5, <2>9 DEF ParseCharacter, Parses
    <3>2. a = Upto(k)
      BY <2>6
    <3> HIDE DEF a
    <3> DEFINE b == Append(a, ch)
    <3>3. b \o Slashes(0) = b
      <4>1. b \in Seq(C)
        BY <2>2, <2>3, <3>2
      <4> QED
        BY <4>1, SlashesAre, 0 \in Nat
    <3>4. ParseCharacter(p, ch) = [p EXCEPT !.arg = b, !.slashes = 0, !.began = TRUE]
      BY <2>5, <3>1 DEF Parses
    <3>5. b = Upto(k + 1)
      BY <2>3, <3>2
    <3> HIDE DEF b
    <3> QED
      BY <2>1, <2>5, <2>6, <3>3, <3>4, <3>5 DEF Parses
  <2> QED
    BY <2>8, <2>9
<1> HIDE DEF S
<1>5. n \in S
  BY <1>1, <1>3, <1>4, Counting
<1>6. text \o arg \in Seq(C)
  OBVIOUS
<1> DEFINE p == Parsed(text \o arg)
<1>7. Read(p, n)
  <2>1. n <= n
    BY <1>1
  <2> HIDE DEF Read
  <2> QED
    BY <1>2, <1>5, <2>1 DEF S
<1>8. p \in Parses(C) /\ Parsed(Append(text \o arg, Blank)) = ParseCharacter(p, Blank)
  BY <1>6, ParsedAppend
<1> HIDE DEF p
<1>9. p.began = TRUE /\ p.quoted = FALSE /\ p.args = args /\ p.arg \o Slashes(p.slashes) = arg
  BY <1>1, <1>2, <1>7
<1> QED
  BY <1>6, <1>8, <1>9, ReadBlank

\* Inside quotes: what a quote makes of the backslashes before it, and what any other character.
LEMMA ReadInQuotes ==
  ASSUME NEW C, NEW p \in Parses(C), p.quoted = TRUE, p.began = TRUE, NEW n \in Nat
  PROVE  /\ p.slashes = 2 * n + 1 =>
              ParseCharacter(p, Quote)
                = [p EXCEPT !.arg = Append(p.arg \o Slashes(n), Quote), !.slashes = 0]
         /\ p.slashes = 2 * n =>
              ParseCharacter(p, Quote)
                = [p EXCEPT !.arg = p.arg \o Slashes(n), !.slashes = 0, !.quoted = FALSE]
<1>1. Quote # Slash
  BY DEF Quote, Slash
<1>2. (2 * n + 1) % 2 = 1 /\ (2 * n) % 2 = 0 /\ (2 * n + 1) \div 2 = n /\ (2 * n) \div 2 = n
  OBVIOUS
<1> DEFINE a == p.arg \o Slashes(n)
           halved == [p EXCEPT !.arg = @ \o Slashes(p.slashes \div 2), !.slashes = 0, !.began = TRUE]
           plain == [p EXCEPT !.arg = a, !.slashes = 0]
<1>3. p.slashes \div 2 = n => halved = plain
  <2> SUFFICES ASSUME p.slashes \div 2 = n PROVE halved = plain
    OBVIOUS
  <2>1. halved = [p EXCEPT !.arg = a, !.slashes = 0, !.began = TRUE]
    OBVIOUS
  <2> HIDE DEF a, halved
  <2> QED
    BY <2>1 DEF Parses
<1>4. ASSUME p.slashes = 2 * n + 1
      PROVE  ParseCharacter(p, Quote) = [p EXCEPT !.arg = Append(a, Quote), !.slashes = 0]
  <2>1. ParseCharacter(p, Quote) = [halved EXCEPT !.arg = Append(@, Quote)]
    BY <1>1, <1>2, <1>4 DEF ParseCharacter
  <2>2. halved = plain
    BY <1>2, <1>3, <1>4
  <2> HIDE DEF a, halved
  <2> QED
    BY <2>1, <2>2 DEF Parses
<1>5. ASSUME p.slashes = 2 * n
      PROVE  ParseCharacter(p, Quote) = [p EXCEPT !.arg = a, !.slashes = 0, !.quoted = FALSE]
  <2>1. ParseCharacter(p, Quote) = [halved EXCEPT !.quoted = ~@]
    BY <1>1, <1>2, <1>5 DEF ParseCharacter
  <2>2. halved = plain
    BY <1>2, <1>3, <1>5
  <2> HIDE DEF a, halved
  <2> QED
    BY <2>1, <2>2 DEF Parses
<1> QED
  BY <1>4, <1>5

LEMMA ReadPlainInQuotes ==
  ASSUME NEW C, NEW p \in Parses(C), p.quoted = TRUE, p.began = TRUE, NEW ch, ch # Slash, ch # Quote
  PROVE  ParseCharacter(p, ch)
           = [p EXCEPT !.arg = Append(p.arg \o Slashes(p.slashes), ch), !.slashes = 0]
<1> DEFINE a == p.arg \o Slashes(p.slashes)
           kept == [p EXCEPT !.arg = @ \o Slashes(p.slashes), !.slashes = 0]
<1>1. ParseCharacter(p, ch) = [kept EXCEPT !.arg = Append(@, ch), !.began = TRUE]
  BY DEF ParseCharacter
<1>2. kept = [p EXCEPT !.arg = a, !.slashes = 0]
  OBVIOUS
<1> HIDE DEF a, kept
<1>3. ParseCharacter(p, ch) = [p EXCEPT !.arg = Append(a, ch), !.slashes = 0]
  BY <1>1, <1>2 DEF Parses
<1> QED
  BY <1>3 DEF a

\* So many backslashes more.
WithSlashes(p, n) == [p EXCEPT !.slashes = @ + n]

\* A character behind a run of backslashes.
RunBehind(out, n, ch) == Append(out \o Slashes(n), ch)
Began(p) == p.began = TRUE

\* Behind a text that began an argument.
RunIsRead(C, text, out, n, ch) ==
  /\ text \o RunBehind(out, n, ch) \in Seq(C)
  /\ WithSlashes(Parsed(text \o out), n) \in Parses(C)
  /\ Parsed(text \o RunBehind(out, n, ch)) = ParseCharacter(WithSlashes(Parsed(text \o out), n), ch)

LEMMA ReadRun ==
  ASSUME NEW C, Slash \in C, Quote \in C, NEW text \in Seq(C), NEW out \in Seq(C), NEW n \in Nat,
         NEW ch \in C, Began(Parsed(text \o out))
  PROVE  RunIsRead(C, text, out, n, ch)
<1> DEFINE s == Slashes(n)
           t == text \o out
<1>1. s \in Seq(C) /\ t \in Seq(C) /\ <<ch>> \in Seq(C) /\ out \o s \in Seq(C)
  BY SlashesAre, ConcatProperties
<1>2. t \o s \in Seq(C) /\ Parsed(t \o s) = [Parsed(t) EXCEPT !.slashes = @ + n]
  <2>1. Parsed(t).began = TRUE
    BY DEF Began
  <2> HIDE DEF s, t
  <2>2. t \o Slashes(n) \in Seq(C) /\ Parsed(t \o Slashes(n)) = [Parsed(t) EXCEPT !.slashes = @ + n]
    BY <1>1, <2>1, ReadSlashes
  <2> QED
    BY <2>2 DEF s
<1> HIDE DEF s
<1>3. text \o Append(out \o s, ch) = Append(t \o s, ch)
  <2>1. text \o Append(out \o s, ch) = Append(text \o (out \o s), ch)
    BY <1>1, ConcatAppend
  <2>2. text \o (out \o s) = t \o s
    BY <1>1, ConcatAssociative
  <2> QED
    BY <2>1, <2>2
<1> HIDE DEF t
<1>4. Append(t \o s, ch) \in Seq(C)
  BY <1>2
<1>5. Parsed(t \o s) \in Parses(C) /\ Parsed(Append(t \o s, ch)) = ParseCharacter(Parsed(t \o s), ch)
  BY <1>2, ParsedAppend
<1> QED
  BY <1>2, <1>3, <1>4, <1>5 DEF s, t, WithSlashes, RunBehind, RunIsRead

\* Between the quotes: up to each character of the argument, what is read of the quoted text is
\* the argument but for the backslashes that are still held back.
LEMMA ReadQuoted ==
  ASSUME NEW C, Slash \in C, Quote \in C, Blank \in C, NEW text \in Seq(C), NEW args,
         Parsed(text) = Between(args), NEW arg \in Seq(C)
  PROVE  /\ text \o Quoted(arg) \in Seq(C)
         /\ Parsed(Append(text \o Quoted(arg), Blank)) = Between(Append(args, arg))
<1> DEFINE n == Len(arg)
           Upto(k) == SubSeq(arg, 1, k)
           Q == [slashes : Nat, out : Seq(C)]
<1>1. PICK q \in [0 .. n -> Q] :
         /\ q[0] = [slashes |-> 0, out |-> <<Quote>>]
         /\ \A i \in 1 .. n : q[i] = QuoteCharacter(q[i - 1], arg[i])
         /\ Quoting(arg) = q[n]
  BY QuotingSteps
<1> DEFINE Reads(p, r, k) == /\ p.args = args /\ p.began = TRUE /\ p.quoted = TRUE /\ p.slashes = 0
                             /\ p.arg \o Slashes(r.slashes) = Upto(k)
           S == {k \in Nat : k <= n => Reads(Parsed(text \o q[k].out), q[k], k)}
<1>2. n \in Nat /\ \A k \in 0 .. n : q[k] \in Q /\ q[k].slashes \in Nat /\ q[k].out \in Seq(C)
  <2>1. \A k \in 0 .. n : q[k] \in Q
    OBVIOUS
  <2>2. \A r \in Q : r.slashes \in Nat /\ r.out \in Seq(C)
    OBVIOUS
  <2> QED
    BY <2>1, <2>2
<1>3. Upto(0) = <<>> /\ Upto(n) = arg
      /\ \A k \in Nat : k + 1 <= n =>
           Upto(k) \in Seq(C) /\ arg[k + 1] \in C /\ Upto(k + 1) = Append(Upto(k), arg[k + 1])
  BY Beginnings
<1> HIDE DEF n, Upto, Q
<1>4. 0 \in S
  <2> DEFINE p == Between(args)
             r == Parsed(text \o q[0].out)
  <2>1. q[0].out = <<Quote>> /\ q[0].slashes = 0
    BY <1>1
  <2>2. text \o <<Quote>> = Append(text, Quote)
    BY AppendIsConcat
  <2>3. r = ParseCharacter(p, Quote)
    BY <2>1, <2>2, ParsedAppend
  <2>4. Slashes(0 \div 2) = <<>> /\ Slashes(0) = <<>> /\ 0 % 2 # 1 /\ Quote # Slash
    BY DEF Slashes, Quote, Slash
  <2>5. p.args = args /\ p.quoted = FALSE /\ p.arg = <<>> /\ p.slashes = 0
    BY DEF Between, Parsing
  <2>6. ParseCharacter(p, Quote) = [[p EXCEPT !.arg = @ \o Slashes(p.slashes \div 2), !.slashes = 0,
                                              !.began = TRUE] EXCEPT !.quoted = ~@]
    BY <2>4, <2>5 DEF ParseCharacter
  <2>7. r.args = args /\ r.began = TRUE /\ r.quoted = TRUE /\ r.slashes = 0 /\ r.arg = <<>> \o <<>>
    BY <2>3, <2>4, <2>5, <2>6 DEF Between, Parsing
  <2>8. <<>> \o <<>> = <<>>
    OBVIOUS
  <2> HIDE DEF r
  <2>9. Reads(r, q[0], 0)
    BY <1>3, <2>1, <2>4, <2>7, <2>8
  <2> HIDE DEF Reads
  <2> QED
    BY <2>9 DEF r
<1>5. ASSUME NEW k \in Nat, k \in S PROVE k + 1 \in S
  <2> SUFFICES ASSUME k + 1 <= n PROVE Reads(Parsed(text \o q[k + 1].out), q[k + 1], k + 1)
    <3> HIDE DEF Reads
    <3> QED
      OBVIOUS
  <2> DEFINE r == q[k]
             p == Parsed(text \o r.out)
             ch == arg[k + 1]
             new == q[k + 1]
             after == Parsed(text \o new.out)
  <2>1. k <= n /\ k \in 0 .. n /\ k + 1 \in 1 .. n /\ (k + 1) - 1 = k
    BY <1>2
  <2>2. r.slashes \in Nat /\ r.out \in Seq(C) /\ r \in Q
    BY <1>2, <2>1
  <2>3. Reads(p, r, k)
    BY <1>5, <2>1
  <2>4. new = QuoteCharacter(r, ch)
    BY <1>1, <2>1
  <2>5. ch \in C /\ Upto(k) \in Seq(C) /\ Upto(k + 1) = Append(Upto(k), ch)
    BY <1>3
  <2>6. p \in Parses(C)
    <3>1. text \o r.out \in Seq(C)
      BY <2>2, ConcatProperties
    <3> QED
      BY <3>1, ParsedAppend
  <2>7. p.arg \in Seq(C)
    BY <2>6 DEF Parses
  <2> HIDE DEF r, ch, new, p
  <2>8. CASE ch = Slash
    <3>1. new = [r EXCEPT !.slashes = @ + 1]
      BY <2>4, <2>8 DEF QuoteCharacter
    <3>2. new.out = r.out /\ new.slashes = r.slashes + 1
      BY <2>2, <3>1 DEF Q
    <3>3. after = p
      BY <3>2 DEF p
    <3>4. p.arg \o Slashes(r.slashes + 1) = Append(p.arg \o Slashes(r.slashes), Slash)
      BY <2>2, <2>7, SlashesAre
    <3> HIDE DEF after
    <3>5. Reads(after, new, k + 1)
      BY <2>3, <2>5, <2>8, <3>2, <3>3, <3>4
    <3> HIDE DEF Reads
    <3> QED
      BY <3>5 DEF after, new
  <2>9. CASE ch # Slash
    <3> DEFINE m == IF ch = Quote THEN 2 * r.slashes + 1 ELSE r.slashes
               run == [p EXCEPT !.slashes = m]
               a == Append(p.arg \o Slashes(r.slashes), ch)
    <3>1. m \in Nat
      BY <2>2
    <3>2. new.out = Append(r.out \o Slashes(m), ch) /\ new.slashes = 0
      <4>1. new.out = r.out \o Slashes(m) \o <<ch>> /\ new.slashes = 0
        BY <2>4, <2>9 DEF QuoteCharacter
      <4> HIDE DEF m
      <4>2. r.out \o Slashes(m) \in Seq(C)
        BY <2>2, <3>1, SlashesAre
      <4> QED
        BY <2>5, <4>1, <4>2, AppendIsConcat
    <3>3. (ch = Quote => m = 2 * r.slashes + 1) /\ (ch # Quote => m = r.slashes)
      OBVIOUS
    <3> HIDE DEF m
    <3>4. run \in Parses(C) /\ after = ParseCharacter(run, ch)
      <4>1. WithSlashes(p, m) = run
        BY <2>3, <3>1 DEF WithSlashes
      <4> DEFINE out == r.out
      <4>2. out \in Seq(C) /\ p = Parsed(text \o out)
        BY <2>2 DEF p
      <4>3. Began(Parsed(text \o out))
        BY <2>3, <4>2 DEF Began
      <4> HIDE DEF out, run
      <4>4. /\ WithSlashes(Parsed(text \o out), m) \in Parses(C)
            /\ Parsed(text \o RunBehind(out, m, ch))
                 = ParseCharacter(WithSlashes(Parsed(text \o out), m), ch)
        <5>1. PICK i \in Nat : i = m
          BY <3>1
        <5>2. RunIsRead(C, text, out, i, ch)
          BY <2>5, <4>2, <4>3, ReadRun
        <5> QED
          BY <5>1, <5>2 DEF RunIsRead
      <4> QED
        BY <3>2, <4>1, <4>2, <4>4 DEF out, RunBehind
    <3>5. run.quoted = TRUE /\ run.began = TRUE /\ run.slashes = m /\ run.arg = p.arg /\ run.args = args
      BY <2>3, <2>6 DEF Parses
    <3> HIDE DEF run
    <3>6. after = [run EXCEPT !.arg = a, !.slashes = 0]
      <4> DEFINE s == r.slashes
                 b == Append(run.arg \o Slashes(s), ch)
      <4>1. s \in Nat /\ a = b
        BY <2>2, <3>5
      <4>2. (ch = Quote => run.slashes = 2 * s + 1) /\ (ch # Quote => run.slashes = s)
        BY <3>3, <3>5
      <4>3. after = ParseCharacter(run, ch) /\ run \in Parses(C) /\ run.quoted = TRUE /\ run.began = TRUE
        BY <3>4, <3>5
      <4> HIDE DEF a, s, after
      <4>4. ch = Quote => ParseCharacter(run, ch) = [run EXCEPT !.arg = b, !.slashes = 0]
        <5>1. run.slashes = 2 * s + 1 =>
                ParseCharacter(run, Quote)
                  = [run EXCEPT !.arg = Append(run.arg \o Slashes(s), Quote), !.slashes = 0]
          BY <3>4, <4>1, <4>3, ReadInQuotes
        <5> QED
          BY <4>2, <5>1
      <4>5. ch # Quote => ParseCharacter(run, ch) = [run EXCEPT !.arg = b, !.slashes = 0]
        <5>1. ch # Quote =>
                ParseCharacter(run, ch)
                  = [run EXCEPT !.arg = Append(run.arg \o Slashes(run.slashes), ch), !.slashes = 0]
          BY <2>9, <4>3, ReadPlainInQuotes
        <5> QED
          BY <4>2, <5>1
      <4> HIDE DEF b
      <4> QED
        BY <4>1, <4>3, <4>4, <4>5
    <3>7. a = Upto(k + 1) /\ a \in Seq(C)
      <4>1. p.arg \o Slashes(r.slashes) = Upto(k)
        BY <2>3
      <4>2. Append(Upto(k), ch) \in Seq(C)
        BY <2>5
      <4> QED
        BY <2>5, <4>1, <4>2
    <3> HIDE DEF a, after
    <3>8. after.args = args /\ after.began = TRUE /\ after.quoted = TRUE /\ after.slashes = 0
          /\ after.arg = a
      BY <3>4, <3>5, <3>6 DEF Parses
    <3>9. a \o Slashes(0) = a
      BY <3>7, SlashesAre, 0 \in Nat
    <3>10. Reads(after, new, k + 1)
      BY <3>2, <3>7, <3>8, <3>9
    <3> HIDE DEF Reads
    <3> QED
      BY <3>10 DEF after, new
  <2> QED
    BY <2>8, <2>9
<1> HIDE DEF S
<1>6. n \in S
  BY <1>2, <1>4, <1>5, Counting
<1> DEFINE r == q[n]
           p == Parsed(text \o r.out)
           all == text \o Quoted(arg)
           closed == Parsed(all)
<1>7. Reads(p, r, n)
  <2>1. n <= n
    BY <1>2
  <2> HIDE DEF Reads
  <2> QED
    BY <1>6, <2>1 DEF S
<1>8. r.slashes \in Nat /\ 2 * r.slashes \in Nat /\ r.out \in Seq(C) /\ p \in Parses(C)
  <2>1. r.slashes \in Nat /\ r.out \in Seq(C)
    BY <1>2
  <2> DEFINE t == text \o r.out
  <2>2. t \in Seq(C)
    BY <2>1, ConcatProperties
  <2> HIDE DEF t
  <2>3. Parsed(t) \in Parses(C)
    BY <2>2, ParsedAppend
  <2>4. 2 * r.slashes \in Nat
    BY <2>1
  <2> QED
    BY <2>1, <2>3, <2>4 DEF t
<1>9. Quoted(arg) = Append(r.out \o Slashes(2 * r.slashes), Quote)
  <2>1. Quoted(arg) = r.out \o Slashes(2 * r.slashes) \o <<Quote>>
    BY <1>1 DEF Quoted
  <2>2. r.out \o Slashes(2 * r.slashes) \in Seq(C)
    BY <1>8, SlashesAre
  <2> QED
    BY <2>1, <2>2, AppendIsConcat
<1> HIDE DEF r
<1> DEFINE run == [p EXCEPT !.slashes = 2 * r.slashes]
<1>10. all \in Seq(C) /\ run \in Parses(C) /\ closed = ParseCharacter(run, Quote)
  <2> DEFINE m == 2 * r.slashes
  <2>1. m \in Nat
    BY <1>8
  <2> HIDE DEF m
  <2>2. WithSlashes(p, m) = [p EXCEPT !.slashes = m]
    BY <1>7, <2>1 DEF WithSlashes
  <2> DEFINE out == r.out
  <2>3. out \in Seq(C) /\ p = Parsed(text \o out)
    BY <1>8
  <2>4. Began(Parsed(text \o out))
    BY <1>7, <2>3 DEF Began
  <2> HIDE DEF out, p
  <2>5. /\ text \o RunBehind(out, m, Quote) \in Seq(C)
        /\ WithSlashes(Parsed(text \o out), m) \in Parses(C)
        /\ Parsed(text \o RunBehind(out, m, Quote))
             = ParseCharacter(WithSlashes(Parsed(text \o out), m), Quote)
    <3>1. PICK i \in Nat : i = m
      BY <2>1
    <3>2. RunIsRead(C, text, out, i, Quote)
      BY <2>3, <2>4, ReadRun
    <3> QED
      BY <3>1, <3>2 DEF RunIsRead
  <2> QED
    BY <1>9, <2>2, <2>3, <2>5 DEF m, out, RunBehind
<1> HIDE DEF all, p
<1>11. run.quoted = TRUE /\ run.began = TRUE /\ run.slashes = 2 * r.slashes /\ run.arg = p.arg
       /\ run.args = args
  BY <1>7, <1>8 DEF Parses
<1> HIDE DEF run
<1>12. closed = [run EXCEPT !.arg = run.arg \o Slashes(r.slashes), !.slashes = 0, !.quoted = FALSE]
  <2> DEFINE s == r.slashes
  <2>1. s \in Nat /\ run.slashes = 2 * s
    BY <1>8, <1>11
  <2> HIDE DEF s, closed
  <2>2. ParseCharacter(run, Quote)
          = [run EXCEPT !.arg = run.arg \o Slashes(s), !.slashes = 0, !.quoted = FALSE]
    BY <1>10, <1>11, <2>1, ReadInQuotes
  <2> QED
    BY <1>10, <2>2 DEF s
<1>13. run.arg \o Slashes(r.slashes) = arg
  BY <1>3, <1>7, <1>11
<1>14. closed \in Parses(C) /\ Parsed(Append(all, Blank)) = ParseCharacter(closed, Blank)
  BY <1>10, ParsedAppend
<1> HIDE DEF closed
<1>15. closed.args = args /\ closed.began = TRUE /\ closed.quoted = FALSE /\ closed.slashes = 0
       /\ closed.arg = arg
  BY <1>10, <1>11, <1>12, <1>13 DEF Parses
<1>16. arg \o Slashes(0) = arg
  BY SlashesAre, 0 \in Nat
<1>17. Parsed(Append(all, Blank)) = Between(Append(args, arg))
  BY <1>14, <1>15, <1>16, ReadBlank
<1> QED
  BY <1>10, <1>17 DEF all


\* What is quoted is a text.
LEMMA QuotedIsText ==
  ASSUME NEW C, Slash \in C, Quote \in C, NEW arg \in Seq(C)
  PROVE  QuoteArg(arg) \in Seq(C)
<1> DEFINE n == Len(arg)
<1>1. PICK q \in [0 .. n -> [slashes : Nat, out : Seq(C)]] : Quoting(arg) = q[n]
  BY QuotingSteps
<1>2. n \in 0 .. n
  OBVIOUS
<1> HIDE DEF n
<1>3. Quoting(arg).slashes \in Nat /\ Quoting(arg).out \in Seq(C)
  BY <1>1, <1>2
<1> DEFINE s == Quoting(arg).slashes
           out == Quoting(arg).out
           m == 2 * s
<1>4. s \in Nat /\ out \in Seq(C) /\ m \in Nat
  BY <1>3
<1>5. Quoted(arg) = out \o Slashes(m) \o <<Quote>>
  BY DEF Quoted
<1> HIDE DEF m, out, s
<1>6. out \o Slashes(m) \in Seq(C)
  BY <1>4, SlashesAre
<1>7. Quoted(arg) \in Seq(C)
  BY <1>5, <1>6
<1> QED
  BY <1>7 DEF QuoteArg

\* The line up to each of its arguments.
IsLine(line, args) ==
  line = [i \in 0 .. Len(args) |->
            IF i = 0 THEN <<>>
            ELSE IF i = 1 THEN QuoteArg(args[1])
            ELSE line[i - 1] \o <<Blank>> \o QuoteArg(args[i])]

LEMMA JoiningSteps ==
  ASSUME NEW C, Slash \in C, Quote \in C, Blank \in C, NEW args \in Seq(Seq(C))
  PROVE  \E line : IsLine(line, args) /\ JoinArgs(args) = line[Len(args)]
<1> DEFINE n == Len(args)
           Q == Seq(C)
           joined(l, i) == IF i = 1 THEN QuoteArg(args[1]) ELSE l \o <<Blank>> \o QuoteArg(args[i])
           step == [x \in Q \X (1 .. n) |-> joined(x[1], x[2])]
           start == <<>>
           line == CHOOSE l : IsLine(l, args)
<1>1. n \in Nat /\ start \in Q /\ \A i \in 1 .. n : args[i] \in Q
  OBVIOUS
<1> HIDE DEF n, start
<1>2. ASSUME NEW l \in Q, NEW i \in 1 .. n PROVE joined(l, i) \in Q
  <2>1. args[i] \in Q /\ (i = 1 => args[1] \in Q)
    BY <1>1
  <2> DEFINE a == args[i]
  <2>2. QuoteArg(a) \in Seq(C) /\ (i = 1 => QuoteArg(args[1]) \in Seq(C))
    BY <2>1, QuotedIsText
  <2>3. <<Blank>> \in Seq(C)
    OBVIOUS
  <2>4. l \o <<Blank>> \in Seq(C)
    BY <2>3, ConcatProperties
  <2>5. l \o <<Blank>> \o QuoteArg(a) \in Seq(C)
    BY <2>2, <2>4, ConcatProperties
  <2> QED
    BY <2>2, <2>5
<1> HIDE DEF Q, joined
<1>3. step \in [Q \X (1 .. n) -> Q]
  <2> SUFFICES ASSUME NEW x \in Q \X (1 .. n) PROVE joined(x[1], x[2]) \in Q
    OBVIOUS
  <2>1. x[1] \in Q /\ x[2] \in 1 .. n
    OBVIOUS
  <2> QED
    BY <1>2, <2>1
<1>4. \A l \in Q, i \in 1 .. n : step[<<l, i>>] = joined(l, i)
  OBVIOUS
<1> HIDE DEF step
<1>5. PICK f \in [0 .. n -> Q] : f[0] = start /\ \A i \in 1 .. n : f[i] = step[<<f[i - 1], i>>]
  <2> DEFINE P(f) == Computes(f, Q, n, start, step)
  <2>1. \E f : P(f)
    BY <1>1, <1>3, Steps
  <2> QED
    BY <2>1 DEF Computes
<1>6. IsLine(f, args)
  <2>1. ASSUME NEW i \in 0 .. n, i # 0 PROVE f[i] = joined(f[i - 1], i)
    <3>1. i \in 1 .. n /\ i - 1 \in 0 .. n
      BY <1>1, <2>1
    <3> QED
      BY <1>4, <1>5, <3>1
  <2>2. f = [i \in 0 .. n |-> f[i]]
    OBVIOUS
  <2> QED
    BY <1>5, <2>1, <2>2 DEF IsLine, n, joined, start
<1>7. IsLine(line, args)
  BY <1>6
<1>8. JoinArgs(args) = line[n]
  BY DEF JoinArgs, IsLine, n
<1> HIDE DEF line
<1> QED
  BY <1>7, <1>8 DEF n

\* Either way, an argument is read as it was.
ArgIsRead(C, text, args, arg) ==
  /\ text \o QuoteArg(arg) \in Seq(C)
  /\ Parsed(Append(text \o QuoteArg(arg), Blank)) = Between(Append(args, arg))

LEMMA ReadArg ==
  ASSUME NEW C, Slash \in C, Quote \in C, Blank \in C, NEW text \in Seq(C), NEW args,
         Parsed(text) = Between(args), NEW arg \in Seq(C)
  PROVE  ArgIsRead(C, text, args, arg)
<1>1. CASE NeedsQuotes(arg)
  <2>1. QuoteArg(arg) = Quoted(arg)
    BY <1>1 DEF QuoteArg
  <2>2. /\ text \o Quoted(arg) \in Seq(C)
        /\ Parsed(Append(text \o Quoted(arg), Blank)) = Between(Append(args, arg))
    BY ReadQuoted
  <2> QED
    BY <2>1, <2>2 DEF ArgIsRead
<1>2. CASE ~NeedsQuotes(arg)
  <2>1. QuoteArg(arg) = arg
    BY <1>2 DEF QuoteArg
  <2>2. /\ text \o arg \in Seq(C)
        /\ Parsed(Append(text \o arg, Blank)) = Between(Append(args, arg))
    BY <1>2, ReadUnquoted
  <2> QED
    BY <2>1, <2>2 DEF ArgIsRead
<1> QED
  BY <1>1, <1>2

\* uxplay_host.cpp:52 and 353: the receiver's runtime takes the one string apart into the arguments
\* the host put together, whatever quotes, blanks and backslashes they hold and wherever.
THEOREM CommandLineReadBack ==
  ASSUME NEW C, Slash \in C, Quote \in C, Blank \in C, NEW args \in Seq(Seq(C)), args # <<>>
  PROVE  ParseArgs(JoinArgs(args)) = args
<1> DEFINE n == Len(args)
           First(k) == SubSeq(args, 1, k)
<1>1. PICK line : IsLine(line, args) /\ JoinArgs(args) = line[n]
  BY JoiningSteps
<1>2. n \in Nat /\ n > 0 /\ First(0) = <<>> /\ First(n) = args
      /\ \A k \in Nat : k + 1 <= n => args[k + 1] \in Seq(C) /\ First(k + 1) = Append(First(k), args[k + 1])
  <2> DEFINE D == Seq(C)
  <2>1. args \in Seq(D)
    OBVIOUS
  <2> HIDE DEF D
  <2>2. First(0) = <<>> /\ First(n) = args
        /\ \A k \in Nat : k + 1 <= n => args[k + 1] \in D /\ First(k + 1) = Append(First(k), args[k + 1])
    BY <2>1, Beginnings
  <2>3. n \in Nat /\ n > 0
    OBVIOUS
  <2> QED
    BY <2>2, <2>3 DEF D
<1>3. \A i \in 1 .. n : line[i] = IF i = 1 THEN QuoteArg(args[1])
                                  ELSE line[i - 1] \o <<Blank>> \o QuoteArg(args[i])
  <2>1. \A i \in 1 .. n : i \in 0 .. Len(args) /\ i # 0
    BY <1>2
  <2> QED
    BY <1>1, <2>1 DEF IsLine
<1> HIDE DEF n, First
<1> DEFINE IsRead(k) == line[k] \in Seq(C) /\ Parsed(Append(line[k], Blank)) = Between(First(k))
           S == {k \in Nat : k < n => IsRead(k + 1)}
<1>4. 0 \in S
  <2> DEFINE arg == args[1]
             none == <<>>
  <2>1. arg \in Seq(C) /\ First(1) = Append(<<>>, arg) /\ line[1] = QuoteArg(arg) /\ 0 + 1 = 1
    BY <1>2, <1>3
  <2>2. none \in Seq(C)
    OBVIOUS
  <2>3. Parsed(none) = Between(none)
    <3>1. Between(none) = Parsing
      BY DEF Between, Parsing
    <3> QED
      BY <3>1, ParsedNothing
  <2>4. QuoteArg(arg) \in Seq(C)
    BY <2>1, QuotedIsText
  <2>5. none \o QuoteArg(arg) = QuoteArg(arg)
    BY <2>4
  <2> HIDE DEF arg, none
  <2>6. Parsed(Append(none \o QuoteArg(arg), Blank)) = Between(Append(none, arg))
    <3>1. ArgIsRead(C, none, none, arg)
      BY <2>1, <2>2, <2>3, ReadArg
    <3> QED
      BY <3>1 DEF ArgIsRead
  <2> QED
    BY <2>1, <2>4, <2>5, <2>6 DEF none
<1>5. ASSUME NEW k \in Nat, k \in S PROVE k + 1 \in S
  <2> SUFFICES ASSUME k + 1 < n PROVE IsRead((k + 1) + 1)
    OBVIOUS
  <2> DEFINE i == k + 1
             j == i + 1
             arg == args[j]
             text == Append(line[i], Blank)
  <2>1. i \in Nat /\ j <= n /\ j \in 1 .. n /\ j # 1 /\ j - 1 = i /\ k < n
    BY <1>2
  <2>2. IsRead(i)
    BY <1>5, <2>1
  <2> HIDE DEF i
  <2>3. arg \in Seq(C) /\ First(j) = Append(First(i), arg)
    BY <1>2, <2>1
  <2>4. line[j] = line[i] \o <<Blank>> \o QuoteArg(arg)
    BY <1>3, <2>1
  <2> HIDE DEF arg, j
  <2>5. line[i] \in Seq(C) /\ Parsed(text) = Between(First(i))
    BY <2>2
  <2>6. text = line[i] \o <<Blank>> /\ text \in Seq(C)
    BY <2>5, AppendIsConcat
  <2> HIDE DEF text
  <2>7. text \o QuoteArg(arg) \in Seq(C)
        /\ Parsed(Append(text \o QuoteArg(arg), Blank)) = Between(Append(First(i), arg))
    <3>1. ArgIsRead(C, text, First(i), arg)
      BY <2>3, <2>5, <2>6, ReadArg
    <3> QED
      BY <3>1 DEF ArgIsRead
  <2>8. IsRead(j)
    BY <2>3, <2>4, <2>6, <2>7
  <2> QED
    BY <2>8 DEF i, j
<1> HIDE DEF S
<1>6. PICK m \in Nat : m + 1 = n
  BY <1>2
<1>7. m \in S
  BY <1>4, <1>5, Counting
<1>8. IsRead(n)
  <2>1. m < n
    BY <1>6
  <2> HIDE DEF IsRead
  <2>2. IsRead(m + 1)
    BY <1>7, <2>1 DEF S
  <2> QED
    BY <1>6, <2>2
<1>9. Parsed(Append(JoinArgs(args), Blank)) = Between(args)
  BY <1>1, <1>2, <1>8
<1> QED
  BY <1>9 DEF ParseArgs, Between, Parsing

-----------------------------------------------------------------------------
\* What the receiver's main() has taken of its arguments, up to each of them.
Nothing == [option |-> <<>>, told |-> {}, lacking |-> {}]
IsMain(main, args) ==
  main = [i \in 0 .. Len(args) |->
            IF i < 2 THEN Nothing ELSE TakeArgument(main[i - 1], args[i])]

LEMMA MainSteps ==
  ASSUME NEW D, <<>> \in D, NEW args \in Seq(D)
  PROVE  /\ \E main : IsMain(main, args) /\ Main(args) = main[Len(args)]
         /\ Main(args) \in [option : D, told : SUBSET (D \X D), lacking : SUBSET D]
<1> DEFINE n == Len(args)
           Q == [option : D, told : SUBSET (D \X D), lacking : SUBSET D]
           taken(m, i) == IF i < 2 THEN Nothing ELSE TakeArgument(m, args[i])
           step == [x \in Q \X (1 .. n) |-> taken(x[1], x[2])]
           start == Nothing
           main == CHOOSE m : IsMain(m, args)
<1>1. n \in Nat /\ start \in Q /\ \A i \in 1 .. n : args[i] \in D
  BY DEF Nothing
<1>2. ASSUME NEW m \in Q, NEW arg \in D PROVE TakeArgument(m, arg) \in Q
  <2>1. m.option \in D /\ m.told \in SUBSET (D \X D) /\ <<m.option, arg>> \in D \X D
        /\ <<arg, <<>>>> \in D \X D
    OBVIOUS
  <2>2. m.told \cup {<<m.option, arg>>} \in SUBSET (D \X D)
        /\ m.told \cup {<<arg, <<>>>>} \in SUBSET (D \X D)
    BY <2>1
  <2>3. CASE m.lacking # {}
    BY <2>3 DEF TakeArgument
  <2>4. CASE m.lacking = {} /\ Takes(m.option, arg)
    <3>1. TakeArgument(m, arg)
            = [m EXCEPT !.option = <<>>, !.told = m.told \cup {<<m.option, arg>>}]
      BY <2>4 DEF TakeArgument
    <3> QED
      BY <2>2, <3>1
  <2>5. CASE m.lacking = {} /\ ~Takes(m.option, arg)
    <3>1. TakeArgument(m, arg)
            = [option |-> arg,
               told |-> IF arg \in Valued THEN m.told ELSE m.told \cup {<<arg, <<>>>>},
               lacking |-> {m.option} \cap (Valued \ {Flag("p")})]
      BY <2>5 DEF TakeArgument
    <3> QED
      BY <2>1, <2>2, <3>1
  <2> QED
    BY <2>3, <2>4, <2>5
<1> HIDE DEF n, Q
<1>3. ASSUME NEW m \in Q, NEW i \in 1 .. n PROVE taken(m, i) \in Q
  BY <1>1, <1>2
<1> HIDE DEF taken
<1>4. step \in [Q \X (1 .. n) -> Q]
  <2> SUFFICES ASSUME NEW x \in Q \X (1 .. n) PROVE taken(x[1], x[2]) \in Q
    OBVIOUS
  <2>1. x[1] \in Q /\ x[2] \in 1 .. n
    OBVIOUS
  <2> QED
    BY <1>3, <2>1
<1>5. \A m \in Q, i \in 1 .. n : step[<<m, i>>] = taken(m, i)
  OBVIOUS
<1> HIDE DEF step, start
<1>6. PICK f \in [0 .. n -> Q] : f[0] = start /\ \A i \in 1 .. n : f[i] = step[<<f[i - 1], i>>]
  <2> DEFINE P(f) == Computes(f, Q, n, start, step)
  <2>1. \E f : P(f)
    BY <1>1, <1>4, Steps
  <2> QED
    BY <2>1 DEF Computes
<1>7. IsMain(f, args)
  <2>1. ASSUME NEW i \in 0 .. n, i # 0 PROVE f[i] = taken(f[i - 1], i)
    <3>1. i \in 1 .. n /\ i - 1 \in 0 .. n
      BY <1>1, <2>1
    <3> QED
      BY <1>5, <1>6, <3>1
  <2>2. f = [i \in 0 .. n |-> f[i]]
    OBVIOUS
  <2>3. f = [i \in 0 .. n |-> IF i < 2 THEN Nothing
                              ELSE TakeArgument(f[i - 1], args[i])]
    BY <1>6, <2>1, <2>2 DEF taken, start
  <2> QED
    BY <2>3 DEF IsMain, n
<1>8. IsMain(main, args)
  BY <1>7
<1>9. Main(args) = main[n]
  BY DEF Main, IsMain, Nothing, n
<1> HIDE DEF main
<1>10. \A i \in 0 .. n : main[i] = IF i < 2 THEN Nothing ELSE TakeArgument(main[i - 1], args[i])
  BY <1>8 DEF IsMain, n
<1> DEFINE S == {k \in Nat : k <= n => main[k] \in Q}
<1>11. 0 \in S
  BY <1>1, <1>10 DEF start
<1>12. ASSUME NEW k \in Nat, k \in S PROVE k + 1 \in S
  <2> SUFFICES ASSUME k + 1 <= n PROVE main[k + 1] \in Q
    OBVIOUS
  <2>1. k + 1 \in 0 .. n /\ (k + 1) - 1 = k /\ k + 1 \in 1 .. n /\ main[k] \in Q
    BY <1>1, <1>12
  <2> QED
    BY <1>1, <1>2, <1>10, <2>1 DEF start
<1> HIDE DEF S
<1>13. n \in S
  BY <1>1, <1>11, <1>12, Counting
<1>14. main[n] \in Q
  BY <1>1, <1>13 DEF S
<1> QED
  BY <1>8, <1>9, <1>14 DEF n, Q

\* The next argument is taken behind the ones before it.
LEMMA MainAppend ==
  ASSUME NEW D, <<>> \in D, NEW args \in Seq(D), args # <<>>, NEW arg \in D
  PROVE  Main(Append(args, arg)) = TakeArgument(Main(args), arg)
<1> DEFINE n == Len(args)
           longer == Append(args, arg)
<1>1. n \in Nat /\ n > 0 /\ longer \in Seq(D) /\ Len(longer) = n + 1 /\ longer[n + 1] = arg
      /\ \A i \in 1 .. n : longer[i] = args[i]
  OBVIOUS
<1> HIDE DEF longer
<1>2. PICK p : IsMain(p, args) /\ Main(args) = p[n]
  BY MainSteps
<1>3. PICK q : IsMain(q, longer) /\ Main(longer) = q[Len(longer)]
  BY <1>1, MainSteps
<1> HIDE DEF n
<1>4. \A i \in 0 .. n : p[i] = IF i < 2 THEN Nothing
                               ELSE TakeArgument(p[i - 1], args[i])
  BY <1>2 DEF IsMain, n
<1>5. \A i \in 0 .. n + 1 : q[i] = IF i < 2 THEN Nothing
                                   ELSE TakeArgument(q[i - 1], longer[i])
  BY <1>1, <1>3 DEF IsMain
<1> DEFINE S == {k \in Nat : k <= n => p[k] = q[k]}
<1>6. 0 \in S
  BY <1>1, <1>4, <1>5
<1>7. ASSUME NEW k \in Nat, k \in S PROVE k + 1 \in S
  <2> SUFFICES ASSUME k + 1 <= n PROVE p[k + 1] = q[k + 1]
    OBVIOUS
  <2>1. k + 1 \in 0 .. n /\ k + 1 \in 0 .. n + 1 /\ (k + 1) - 1 = k /\ k + 1 \in 1 .. n
        /\ p[k] = q[k]
    BY <1>1, <1>7
  <2>2. args[k + 1] = longer[k + 1]
    BY <1>1, <2>1
  <2> QED
    BY <1>4, <1>5, <2>1, <2>2
<1> HIDE DEF S
<1>8. n \in S
  BY <1>1, <1>6, <1>7, Counting
<1>9. p[n] = q[n]
  BY <1>1, <1>8 DEF S
<1>10. n + 1 \in 0 .. n + 1 /\ ~(n + 1 < 2) /\ (n + 1) - 1 = n
  BY <1>1
<1>11. q[n + 1] = TakeArgument(q[n], arg)
  BY <1>1, <1>5, <1>10
<1> QED
  BY <1>1, <1>2, <1>3, <1>9, <1>11 DEF longer

\* Behind the program's own name nothing has been told.
LEMMA MainOfName ==
  ASSUME NEW D, <<>> \in D, NEW exe \in D
  PROVE  Main(<<exe>>) = Nothing
<1>1. <<exe>> \in Seq(D) /\ Len(<<exe>>) = 1
  OBVIOUS
<1>2. PICK p : IsMain(p, <<exe>>) /\ Main(<<exe>>) = p[1]
  BY <1>1, MainSteps
<1> QED
  BY <1>1, <1>2 DEF IsMain

\* The options and the values that are spelled out.
Spelled == {"uxplay.exe", "AirPlay-PC", "d3d11videosink", "autoaudiosink", "n", "nh", "p", "vs", "as",
            "fs", "nohold", "fps", "FPSdata", "reset"}

\* Every text the settings are made of, and every option and number.
Characters ==
  Letters \cup {Blank, Quote, Slash, Dash, Apostrophe} \cup {<<w>> : w \in Spelled}
    \cup {<<"number", n>> : n \in Nat}
Texts == Seq(Characters)

LEMMA TextsAre ==
  /\ <<>> \in Texts
  /\ \A w \in Spelled : Word(w) \in Texts /\ Flag(w) \in Texts
  /\ \A n \in Nat : Number(n) \in Texts
<1>1. \A ch \in Characters : <<ch>> \in Texts /\ <<Dash, ch>> \in Texts
  <2>1. Dash \in Characters
    BY DEF Characters
  <2> QED
    BY <2>1 DEF Texts
<1>2. <<>> \in Texts
  BY DEF Texts
<1>3. ASSUME NEW w \in Spelled PROVE <<w>> \in Characters
  BY DEF Characters
<1>4. ASSUME NEW n \in Nat PROVE <<"number", n>> \in Characters
  BY DEF Characters
<1> QED
  BY <1>1, <1>2, <1>3, <1>4 DEF Word, Flag, Number

\* What the receiver has taken of some texts is made of texts.
LEMMA MainIsRecord ==
  ASSUME NEW args \in Seq(Texts)
  PROVE  Main(args) \in [option : Texts, told : SUBSET (Texts \X Texts), lacking : SUBSET Texts]
<1> DEFINE D == Texts
<1>1. <<>> \in D /\ args \in Seq(D)
  BY TextsAre
<1> HIDE DEF D
<1> QED
  BY <1>1, MainSteps DEF D

LEMMA FlagsDiffer == \A v, w : Flag(v) = Flag(w) => v = w
<1> SUFFICES ASSUME NEW v, NEW w, Flag(v) = Flag(w) PROVE v = w
  OBVIOUS
<1>1. Flag(v)[2][1] = v /\ Flag(w)[2][1] = w
  BY DEF Flag
<1> QED
  BY <1>1

\* An option begins with a dash; a number and the sinks do not.
LEMMA DashesAre ==
  /\ \A w : Dashed(Flag(w))
  /\ \A w \in Spelled : ~Dashed(Word(w))
  /\ \A n : ~Dashed(Number(n))
<1>1. \A w : Flag(w) # <<>> /\ Flag(w)[1] = Dash
  BY DEF Flag
<1>2. ASSUME NEW w \in Spelled PROVE Word(w)[1] # Dash
  <2>1. Word(w)[1][1] = w /\ Dash[1] = "dash" /\ w # "dash"
    BY DEF Word, Dash, Spelled
  <2> QED
    BY <2>1
<1>3. ASSUME NEW n PROVE Number(n)[1] # Dash
  <2>1. Len(Number(n)[1]) = 2 /\ Len(Dash) = 1
    BY DEF Number, Dash
  <2> QED
    BY <2>1
<1> QED
  BY <1>1, <1>2, <1>3 DEF Dashed

\* The receiver has refused its arguments, if the name begins with a dash, or knows so much, and
\* the next option will be taken for one.
Settled(args, told, name) ==
  /\ args \in Seq(Texts) /\ args # <<>>
  /\ Dashed(name) => Main(args).lacking # {}
  /\ ~Dashed(name) => /\ Main(args).told = told
                      /\ Main(args).lacking = {}
                      /\ Main(args).option \in Valued => Main(args).option = Flag("p")

LEMMA NextSettled ==
  ASSUME NEW args \in Seq(Texts), args # <<>>, NEW arg \in Texts
  PROVE  /\ args \o <<arg>> \in Seq(Texts) /\ args \o <<arg>> # <<>>
         /\ Main(args \o <<arg>>) = TakeArgument(Main(args), arg)
<1> DEFINE D == Texts
<1>1. <<>> \in D
  BY TextsAre
<1> HIDE DEF D
<1>2. Main(Append(args, arg)) = TakeArgument(Main(args), arg)
  BY <1>1, MainAppend DEF D
<1>3. Append(args, arg) = args \o <<arg>> /\ Append(args, arg) \in Seq(Texts)
      /\ Append(args, arg) # <<>>
  BY AppendIsConcat
<1> QED
  BY <1>2, <1>3

\* An option is taken for one.
LEMMA OptionTaken ==
  ASSUME NEW m, m.lacking = {}, m.option \in Valued => m.option = Flag("p"), NEW arg, Dashed(arg)
  PROVE  /\ TakeArgument(m, arg).option = arg
         /\ TakeArgument(m, arg).told
              = IF arg \in Valued THEN m.told ELSE m.told \cup {<<arg, <<>>>>}
         /\ TakeArgument(m, arg).lacking = {}
<1>1. ~Takes(m.option, arg)
  BY DEF Takes
<1>2. {m.option} \cap (Valued \ {Flag("p")}) = {}
  OBVIOUS
<1>3. TakeArgument(m, arg)
        = [option |-> arg,
           told |-> IF arg \in Valued THEN m.told ELSE m.told \cup {<<arg, <<>>>>},
           lacking |-> {}]
  BY <1>1, <1>2 DEF TakeArgument
<1> QED
  BY <1>3

\* A value that begins with a dash is refused, any other is taken.
LEMMA ValueTaken ==
  ASSUME NEW m \in [option : Texts, told : SUBSET (Texts \X Texts), lacking : SUBSET Texts],
         m.lacking = {}, m.option \in Valued, NEW value \in Texts
  PROVE  /\ Dashed(value) /\ m.option # Flag("p") => TakeArgument(m, value).lacking # {}
         /\ ~Dashed(value) => /\ TakeArgument(m, value).option = <<>>
                              /\ TakeArgument(m, value).told = m.told \cup {<<m.option, value>>}
                              /\ TakeArgument(m, value).lacking = {}
<1>1. ASSUME Dashed(value), m.option # Flag("p") PROVE TakeArgument(m, value).lacking # {}
  <2>1. ~Takes(m.option, value)
    BY <1>1 DEF Takes
  <2>2. TakeArgument(m, value)
          = [option |-> value,
             told |-> IF value \in Valued THEN m.told ELSE m.told \cup {<<value, <<>>>>},
             lacking |-> {m.option} \cap (Valued \ {Flag("p")})]
    BY <2>1 DEF TakeArgument
  <2>3. TakeArgument(m, value).lacking = {m.option} \cap (Valued \ {Flag("p")})
    BY <2>2
  <2> QED
    BY <1>1, <2>3
<1>2. ASSUME ~Dashed(value)
      PROVE  /\ TakeArgument(m, value).option = <<>>
             /\ TakeArgument(m, value).told = m.told \cup {<<m.option, value>>}
             /\ TakeArgument(m, value).lacking = {}
  <2>1. Takes(m.option, value)
    BY <1>2 DEF Takes
  <2>2. TakeArgument(m, value)
          = [m EXCEPT !.option = <<>>, !.told = m.told \cup {<<m.option, value>>}]
    BY <2>1 DEF TakeArgument
  <2> QED
    BY <2>2
<1> QED
  BY <1>1, <1>2

\* An option without a value.
LEMMA TellTick ==
  ASSUME NEW args, NEW told, NEW name, Settled(args, told, name),
         NEW w \in Spelled, Flag(w) \notin Valued
  PROVE  Settled(args \o <<Flag(w)>>, told \cup {<<Flag(w), <<>>>>}, name)
<1> DEFINE arg == Flag(w)
           m == Main(args)
           after == args \o <<arg>>
<1>1. arg \in Texts /\ Dashed(arg) /\ arg \notin Valued
  BY TextsAre, DashesAre
<1> HIDE DEF arg
<1>2. /\ args \in Seq(Texts) /\ args # <<>>
      /\ Dashed(name) => m.lacking # {}
      /\ ~Dashed(name) => /\ m.told = told /\ m.lacking = {}
                          /\ m.option \in Valued => m.option = Flag("p")
  BY DEF Settled
<1>3. after \in Seq(Texts) /\ after # <<>> /\ Main(after) = TakeArgument(m, arg)
  BY <1>1, <1>2, NextSettled
<1> HIDE DEF m, after
<1>4. CASE Dashed(name)
  <2>1. Main(after).lacking # {}
    BY <1>2, <1>3, <1>4 DEF TakeArgument
  <2> QED
    BY <1>3, <1>4, <2>1 DEF Settled, after, arg
<1>5. CASE ~Dashed(name)
  <2>1. /\ Main(after).option = arg /\ Main(after).told = told \cup {<<arg, <<>>>>}
        /\ Main(after).lacking = {}
    <3>1. m.lacking = {} /\ (m.option \in Valued => m.option = Flag("p")) /\ m.told = told
      BY <1>2, <1>5
    <3>2. /\ TakeArgument(m, arg).option = arg /\ TakeArgument(m, arg).lacking = {}
          /\ TakeArgument(m, arg).told = IF arg \in Valued THEN m.told ELSE m.told \cup {<<arg, <<>>>>}
      BY <1>1, <3>1, OptionTaken, Zenon
    <3> QED
      BY <1>1, <1>3, <3>1, <3>2
  <2>2. Settled(after, told \cup {<<arg, <<>>>>}, name)
    BY <1>1, <1>3, <1>5, <2>1 DEF Settled
  <2> QED
    BY <2>2 DEF after, arg
<1> QED
  BY <1>4, <1>5

\* An option that needs a value, which the port's option does not.
LEMMA TellOption ==
  ASSUME NEW args, NEW told, NEW name, Settled(args, told, name),
         NEW w \in Spelled, Flag(w) \in Valued
  PROVE  /\ args \o <<Flag(w)>> \in Seq(Texts) /\ args \o <<Flag(w)>> # <<>>
         /\ Dashed(name) => Main(args \o <<Flag(w)>>).lacking # {}
         /\ ~Dashed(name) => /\ Main(args \o <<Flag(w)>>).option = Flag(w)
                             /\ Main(args \o <<Flag(w)>>).told = told
                             /\ Main(args \o <<Flag(w)>>).lacking = {}
         /\ w = "p" => Settled(args \o <<Flag(w)>>, told, name)
<1> DEFINE arg == Flag(w)
           m == Main(args)
           after == args \o <<arg>>
<1>1. arg \in Texts /\ Dashed(arg) /\ arg \in Valued
  BY TextsAre, DashesAre
<1> HIDE DEF arg
<1>2. /\ args \in Seq(Texts) /\ args # <<>>
      /\ Dashed(name) => m.lacking # {}
      /\ ~Dashed(name) => /\ m.told = told /\ m.lacking = {}
                          /\ m.option \in Valued => m.option = Flag("p")
  BY DEF Settled
<1>3. after \in Seq(Texts) /\ after # <<>> /\ Main(after) = TakeArgument(m, arg)
  BY <1>1, <1>2, NextSettled
<1> HIDE DEF m, after
<1>4. Dashed(name) => Main(after).lacking # {}
  BY <1>2, <1>3 DEF TakeArgument
<1>5. ~Dashed(name) => /\ Main(after).option = arg /\ Main(after).told = told
                       /\ Main(after).lacking = {}
  <2> SUFFICES ASSUME ~Dashed(name)
               PROVE  /\ Main(after).option = arg /\ Main(after).told = told
                      /\ Main(after).lacking = {}
    OBVIOUS
  <2>1. m.lacking = {} /\ (m.option \in Valued => m.option = Flag("p")) /\ m.told = told
    BY <1>2
  <2>2. /\ TakeArgument(m, arg).option = arg /\ TakeArgument(m, arg).lacking = {}
        /\ TakeArgument(m, arg).told = IF arg \in Valued THEN m.told ELSE m.told \cup {<<arg, <<>>>>}
    BY <1>1, <2>1, OptionTaken, Zenon
  <2> QED
    BY <1>1, <1>3, <2>1, <2>2
<1>6. w = "p" => Settled(after, told, name)
  BY <1>3, <1>4, <1>5 DEF Settled, arg
<1> QED
  BY <1>3, <1>4, <1>5, <1>6 DEF after, arg

\* An option and its value in a row.
LEMMA OptionAndValue ==
  ASSUME NEW args \in Seq(Texts), NEW w \in Spelled, NEW value \in Texts
  PROVE  args \o <<Flag(w)>> \o <<value>> = args \o <<Flag(w), value>>
<1>1. Flag(w) \in Texts
  BY TextsAre
<1> QED
  BY <1>1

\* An option and a value that the receiver takes.
LEMMA TellValue ==
  ASSUME NEW args, NEW told, NEW name, Settled(args, told, name),
         NEW w \in Spelled, Flag(w) \in Valued, NEW value \in Texts, ~Dashed(value)
  PROVE  Settled(args \o <<Flag(w), value>>, told \cup {<<Flag(w), value>>}, name)
<1> DEFINE arg == Flag(w)
           named == args \o <<arg>>
           after == named \o <<value>>
           m == Main(named)
<1>1. /\ named \in Seq(Texts) /\ named # <<>>
      /\ Dashed(name) => m.lacking # {}
      /\ ~Dashed(name) => m.option = arg /\ m.told = told /\ m.lacking = {}
  BY TellOption
<1>2. after = args \o <<arg, value>>
  BY OptionAndValue DEF Settled
<1>3. arg \in Valued
  OBVIOUS
<1> HIDE DEF arg, named
<1>4. after \in Seq(Texts) /\ after # <<>> /\ Main(after) = TakeArgument(m, value)
  BY <1>1, NextSettled
<1>5. m \in [option : Texts, told : SUBSET (Texts \X Texts), lacking : SUBSET Texts]
  BY <1>1, MainIsRecord
<1> HIDE DEF after, m
<1>6. <<>> \notin Valued
  <2>1. \A v : Flag(v) # <<>>
    BY DEF Flag
  <2> QED
    BY <2>1 DEF Valued
<1>7. Dashed(name) => Main(after).lacking # {}
  BY <1>1, <1>4 DEF TakeArgument
<1>8. ~Dashed(name) => /\ Main(after).option = <<>> /\ Main(after).told = told \cup {<<arg, value>>}
                       /\ Main(after).lacking = {}
  BY <1>1, <1>3, <1>4, <1>5, ValueTaken
<1>9. Settled(after, told \cup {<<arg, value>>}, name)
  BY <1>4, <1>6, <1>7, <1>8 DEF Settled
<1> QED
  BY <1>2, <1>9 DEF arg

\* The name: it decides whether the receiver goes on.
LEMMA TellName ==
  ASSUME NEW args, NEW told, Settled(args, told, <<>>),
         Flag("n") \in Valued, NEW name \in Texts
  PROVE  Settled(args \o <<Flag("n"), name>>, told \cup {<<Flag("n"), name>>}, name)
<1> DEFINE arg == Flag("n")
           named == args \o <<arg>>
           after == named \o <<name>>
           m == Main(named)
<1>1. "n" \in Spelled /\ ~Dashed(<<>>)
  BY DEF Spelled, Dashed
<1>2. /\ named \in Seq(Texts) /\ named # <<>>
      /\ m.option = arg /\ m.told = told /\ m.lacking = {}
  BY <1>1, TellOption
<1>3. after = args \o <<arg, name>>
  BY <1>1, OptionAndValue DEF Settled
<1>4. arg \in Valued /\ arg # Flag("p")
  BY FlagsDiffer
<1> HIDE DEF arg, named
<1>5. after \in Seq(Texts) /\ after # <<>> /\ Main(after) = TakeArgument(m, name)
  BY <1>2, NextSettled
<1>6. m \in [option : Texts, told : SUBSET (Texts \X Texts), lacking : SUBSET Texts]
  BY <1>2, MainIsRecord
<1> HIDE DEF after, m
<1>7. <<>> \notin Valued
  <2>1. \A v : Flag(v) # <<>>
    BY DEF Flag
  <2> QED
    BY <2>1 DEF Valued
<1>8. Dashed(name) => Main(after).lacking # {}
  BY <1>2, <1>4, <1>5, <1>6, ValueTaken
<1>9. ~Dashed(name) => /\ Main(after).option = <<>> /\ Main(after).told = told \cup {<<arg, name>>}
                       /\ Main(after).lacking = {}
  BY <1>2, <1>4, <1>5, <1>6, ValueTaken
<1>10. Settled(after, told \cup {<<arg, name>>}, name)
  BY <1>5, <1>7, <1>8, <1>9 DEF Settled
<1> QED
  BY <1>3, <1>10 DEF arg

\* What the receiver is told of the settings.
ToldOf(c) ==
  {<<Flag("n"), c.name>>} \cup {<<Flag("nh"), <<>>>>}
    \cup (IF c.port > 0 THEN {<<Flag("p"), Number(c.port)>>} ELSE {})
    \cup {<<Flag("vs"), Word("d3d11videosink")>>} \cup {<<Flag("as"), Word("autoaudiosink")>>}
    \cup (IF c.fullscreen /\ ~c.embedVideo THEN {<<Flag("fs"), <<>>>>} ELSE {})
    \cup {<<Flag("nohold"), <<>>>>} \cup {<<Flag("fps"), Number(c.maxFps)>>}
    \cup {<<Flag("FPSdata"), <<>>>>} \cup {<<Flag("reset"), Number(0)>>}

LEMMA ValuedAre ==
  /\ \A w \in {"n", "p", "vs", "as", "fps", "reset"} : w \in Spelled /\ Flag(w) \in Valued
  /\ \A w \in {"nh", "fs", "nohold", "FPSdata"} : w \in Spelled /\ Flag(w) \notin Valued
<1>1. \A w : Flag(w) \in Valued <=> w \in {"n", "p", "vs", "as", "fps", "vd", "reset"}
  BY FlagsDiffer DEF Valued
<1> QED
  BY <1>1 DEF Spelled

\* Tuples in a row.
LEMMA PairIs ==
  ASSUME NEW T, NEW a \in T, NEW b \in T
  PROVE  <<a>> \o <<b>> = <<a, b>>
<1> DEFINE s == <<a>> \o <<b>>
           t == <<a, b>>
<1>1. t \in Seq(T) /\ Len(t) = 2 /\ t[1] = a /\ t[2] = b
  OBVIOUS
<1>2. s \in Seq(T) /\ Len(s) = 2 /\ s[1] = a /\ s[2] = b
  <2>1. <<a>> \in Seq(T) /\ <<b>> \in Seq(T) /\ Len(<<a>>) = 1 /\ Len(<<b>>) = 1
    OBVIOUS
  <2> QED
    BY <2>1, ConcatProperties
<1> HIDE DEF s, t
<1>3. \A i \in 1 .. 2 : i = 1 \/ i = 2
  OBVIOUS
<1>4. \A i \in 1 .. Len(s) : s[i] = t[i]
  BY <1>1, <1>2, <1>3
<1>5. s = t
  BY <1>1, <1>2, <1>4, SeqEqual
<1> QED
  BY <1>5 DEF s, t

LEMMA TripleIs ==
  ASSUME NEW T, NEW a \in T, NEW b \in T, NEW c \in T
  PROVE  <<a>> \o <<b, c>> = <<a, b, c>>
<1> DEFINE s == <<a>> \o <<b, c>>
           t == <<a, b, c>>
<1>1. t \in Seq(T) /\ Len(t) = 3 /\ t[1] = a /\ t[2] = b /\ t[3] = c
  OBVIOUS
<1>2. s \in Seq(T) /\ Len(s) = 3 /\ s[1] = a /\ s[2] = b /\ s[3] = c
  OBVIOUS
<1> HIDE DEF s, t
<1>3. \A i \in 1 .. 3 : i = 1 \/ i = 2 \/ i = 3
  OBVIOUS
<1>4. \A i \in 1 .. Len(s) : s[i] = t[i]
  BY <1>1, <1>2, <1>3
<1>5. s = t
  BY <1>1, <1>2, <1>4, SeqEqual
<1> QED
  BY <1>5 DEF s, t

LEMMA FourAre ==
  ASSUME NEW T, NEW a \in T, NEW b \in T, NEW c \in T, NEW d \in T
  PROVE  <<a, b, c>> \o <<d>> = <<a, b, c, d>>
<1> DEFINE s == <<a, b, c>> \o <<d>>
           t == <<a, b, c, d>>
<1>1. t \in Seq(T) /\ Len(t) = 4 /\ t[1] = a /\ t[2] = b /\ t[3] = c /\ t[4] = d
  OBVIOUS
<1>2. s \in Seq(T) /\ Len(s) = 4 /\ s[1] = a /\ s[2] = b /\ s[3] = c /\ s[4] = d
  OBVIOUS
<1> HIDE DEF s, t
<1>3. \A i \in 1 .. 4 : i = 1 \/ i = 2 \/ i = 3 \/ i = 4
  OBVIOUS
<1>4. \A i \in 1 .. Len(s) : s[i] = t[i]
  BY <1>1, <1>2, <1>3
<1>5. s = t
  BY <1>1, <1>2, <1>4, SeqEqual
<1> QED
  BY <1>5 DEF s, t

LEMMA FiveAre ==
  ASSUME NEW T, NEW a \in T, NEW b \in T, NEW c \in T, NEW d \in T, NEW e \in T
  PROVE  <<a, b, c, d>> \o <<e>> = <<a, b, c, d, e>>
<1> DEFINE s == <<a, b, c, d>> \o <<e>>
           t == <<a, b, c, d, e>>
<1>1. t \in Seq(T) /\ Len(t) = 5 /\ t[1] = a /\ t[2] = b /\ t[3] = c /\ t[4] = d /\ t[5] = e
  OBVIOUS
<1>2. s \in Seq(T) /\ Len(s) = 5 /\ s[1] = a /\ s[2] = b /\ s[3] = c /\ s[4] = d /\ s[5] = e
  OBVIOUS
<1> HIDE DEF s, t
<1>3. \A i \in 1 .. 5 : i = 1 \/ i = 2 \/ i = 3 \/ i = 4 \/ i = 5
  OBVIOUS
<1>4. \A i \in 1 .. Len(s) : s[i] = t[i]
  BY <1>1, <1>2, <1>3
<1>5. s = t
  BY <1>1, <1>2, <1>4, SeqEqual
<1> QED
  BY <1>5 DEF s, t

\* Behind a text, too.
InARow(s, a, b, c, d) ==
  /\ s \o <<a>> \o <<b>> = s \o <<a, b>>
  /\ s \o <<a>> \o <<b, c>> = s \o <<a, b, c>>
  /\ s \o <<a, b>> \o <<c, d>> = s \o <<a, b, c, d>>

LEMMA RowsAre ==
  ASSUME NEW s \in Seq(Texts), NEW a \in Texts, NEW b \in Texts, NEW c \in Texts, NEW d \in Texts
  PROVE  InARow(s, a, b, c, d)
<1>1. s \o <<a>> \in Seq(Texts) /\ Len(s \o <<a>>) = Len(s) + 1
  OBVIOUS
<1>2. s \o <<a, b>> \in Seq(Texts) /\ Len(s \o <<a, b>>) = Len(s) + 2
  OBVIOUS
<1>3. s \o <<a, b, c>> \in Seq(Texts) /\ Len(s \o <<a, b, c>>) = Len(s) + 3
  OBVIOUS
<1>4. s \o <<a, b, c, d>> \in Seq(Texts) /\ Len(s \o <<a, b, c, d>>) = Len(s) + 4
  OBVIOUS
<1>5. s \o <<a>> \o <<b>> = s \o <<a, b>>
  <2> DEFINE x == <<a>>
             y == <<b>>
  <2>1. x \in Seq(Texts) /\ y \in Seq(Texts)
    OBVIOUS
  <2>2. x \o y = <<a, b>>
    BY PairIs
  <2> HIDE DEF x, y
  <2>3. s \o x \o y = s \o (x \o y)
    BY <2>1, ConcatAssociative
  <2> QED
    BY <2>2, <2>3 DEF x, y
<1>6. s \o <<a>> \o <<b, c>> = s \o <<a, b, c>>
  BY <1>1, <1>3
<1>7. s \o <<a, b>> \o <<c, d>> = s \o <<a, b, c, d>>
  BY <1>2, <1>4
<1> QED
  BY <1>5, <1>6, <1>7 DEF InARow

LEMMA ToldAre ==
  ASSUME NEW c, c.name \in Texts, c.port \in Nat, c.maxFps \in Nat, c.maxFps > 0
  PROVE  Settled(BuildArgs(ToHostConfig(c)), ToldOf(c), c.name)
<1> DEFINE hc == ToHostConfig(c)
           exe == Word("uxplay.exe")
           start == <<exe>>
           fs == c.fullscreen /\ ~c.embedVideo
           nm == c.name
           g1 == start \o <<Flag("n"), c.name>>
           g2 == g1 \o <<Flag("nh")>>
           g3 == IF c.port > 0 THEN g2 \o <<Flag("p"), Number(c.port)>> ELSE g2 \o <<Flag("p")>>
           g4 == g3 \o <<Flag("vs"), Word("d3d11videosink")>>
           g5 == g4 \o <<Flag("as"), Word("autoaudiosink")>>
           g6 == IF fs THEN g5 \o <<Flag("fs")>> ELSE g5
           g7 == g6 \o <<Flag("nohold")>>
           g8 == g7 \o <<Flag("fps"), Number(c.maxFps)>>
           g9 == g8 \o <<Flag("FPSdata")>>
           g10 == g9 \o <<Flag("reset"), Number(0)>>
           t1 == {<<Flag("n"), c.name>>}
           t2 == t1 \cup {<<Flag("nh"), <<>>>>}
           t3 == t2 \cup (IF c.port > 0 THEN {<<Flag("p"), Number(c.port)>>} ELSE {})
           t4 == t3 \cup {<<Flag("vs"), Word("d3d11videosink")>>}
           t5 == t4 \cup {<<Flag("as"), Word("autoaudiosink")>>}
           t6 == t5 \cup (IF fs THEN {<<Flag("fs"), <<>>>>} ELSE {})
           t7 == t6 \cup {<<Flag("nohold"), <<>>>>}
           t8 == t7 \cup {<<Flag("fps"), Number(c.maxFps)>>}
           t9 == t8 \cup {<<Flag("FPSdata"), <<>>>>}
           t10 == t9 \cup {<<Flag("reset"), Number(0)>>}
<1> HIDE DEF g1, g2, g3, g4, g5, g6, g7, g8, g9, g10, t1, t2, t3, t4, t5, t6, t7, t8, t9, t10, start, exe
<1>1. Settled(start, {}, <<>>)
  <2>1. exe \in Texts /\ <<>> \in Texts
    BY TextsAre DEF exe, Spelled
  <2> DEFINE D == Texts
  <2>2. exe \in D /\ <<>> \in D
    BY <2>1
  <2> HIDE DEF D
  <2>3. Main(<<exe>>) = Nothing
    BY <2>2, MainOfName
  <2>4. start \in Seq(Texts) /\ start # <<>>
    BY <2>1 DEF start
  <2>5. <<>> \notin Valued
    <3>1. \A v : Flag(v) # <<>>
      BY DEF Flag
    <3> QED
      BY <3>1 DEF Valued
  <2>6. Main(start).option = <<>> /\ Main(start).told = {} /\ Main(start).lacking = {}
    BY <2>3 DEF Nothing, start
  <2>7. ~Dashed(<<>>)
    BY DEF Dashed
  <2> QED
    BY <2>4, <2>5, <2>6, <2>7 DEF Settled
<1>2. Settled(g1, t1, nm)
  <2>1. Settled(g1, {} \cup {<<Flag("n"), c.name>>}, nm)
    BY <1>1, ValuedAre, TellName DEF g1
  <2> QED
    BY <2>1 DEF t1
<1> HIDE DEF nm
<1>3. Settled(g2, t2, nm)
  BY <1>2, ValuedAre, TellTick DEF g2, t2
<1>4. Settled(g3, t3, nm)
  <2>1. CASE c.port > 0
    <3>1. Number(c.port) \in Texts /\ ~Dashed(Number(c.port))
      BY TextsAre, DashesAre
    <3>2. Settled(g2 \o <<Flag("p"), Number(c.port)>>, t2 \cup {<<Flag("p"), Number(c.port)>>}, nm)
      BY <1>3, <3>1, ValuedAre, TellValue
    <3> QED
      BY <2>1, <3>2 DEF g3, t3
  <2>2. CASE ~(c.port > 0)
    <3>1. Settled(g2 \o <<Flag("p")>>, t2, nm)
      BY <1>3, ValuedAre, TellOption
    <3> QED
      BY <2>2, <3>1 DEF g3, t3
  <2> QED
    BY <2>1, <2>2
<1>5. Settled(g4, t4, nm)
  <2>1. Word("d3d11videosink") \in Texts /\ ~Dashed(Word("d3d11videosink"))
    BY TextsAre, DashesAre DEF Spelled
  <2> QED
    BY <1>4, <2>1, ValuedAre, TellValue DEF g4, t4
<1>6. Settled(g5, t5, nm)
  <2>1. Word("autoaudiosink") \in Texts /\ ~Dashed(Word("autoaudiosink"))
    BY TextsAre, DashesAre DEF Spelled
  <2> QED
    BY <1>5, <2>1, ValuedAre, TellValue DEF g5, t5
<1>7. Settled(g6, t6, nm)
  <2>1. Settled(g5 \o <<Flag("fs")>>, t5 \cup {<<Flag("fs"), <<>>>>}, nm)
    BY <1>6, ValuedAre, TellTick
  <2> QED
    BY <1>6, <2>1 DEF g6, t6
<1>8. Settled(g7, t7, nm)
  BY <1>7, ValuedAre, TellTick DEF g7, t7
<1>9. Settled(g8, t8, nm)
  <2>1. Number(c.maxFps) \in Texts /\ ~Dashed(Number(c.maxFps))
    BY TextsAre, DashesAre
  <2> QED
    BY <1>8, <2>1, ValuedAre, TellValue DEF g8, t8
<1>10. Settled(g9, t9, nm)
  BY <1>9, ValuedAre, TellTick DEF g9, t9
<1>11. Settled(g10, t10, nm)
  <2>1. Number(0) \in Texts /\ ~Dashed(Number(0))
    BY TextsAre, DashesAre
  <2> QED
    BY <1>10, <2>1, ValuedAre, TellValue DEF g10, t10
<1>12. t10 = ToldOf(c)
  BY DEF ToldOf, t1, t2, t3, t4, t5, t6, t7, t8, t9, t10
<1>13. BuildArgs(hc) = g10
  <2> DEFINE h3 == <<exe, Flag("n"), c.name, Flag("nh"), Flag("p")>>
                     \o Option(c.port > 0, <<Number(c.port)>>)
             h5 == h3 \o <<Flag("vs"), Word("d3d11videosink"), Flag("as"), Word("autoaudiosink")>>
             h6 == h5 \o Option(fs, <<Flag("fs")>>)
             h7 == h6 \o Option(FALSE, <<Flag("h265")>>) \o Option(FALSE, <<Flag("d")>>)
                      \o Option(TRUE, <<Flag("nohold")>>)
             h8 == h7 \o Option(c.maxFps > 0, <<Flag("fps"), Number(c.maxFps)>>)
                      \o Option(<<>> # <<>>, <<Flag("vd"), <<>>>>)
             h10 == h8 \o <<Flag("FPSdata"), Flag("reset"), Number(0)>> \o <<>>
  <2>1. BuildArgs(hc) = h10
    BY DEF BuildArgs, ToHostConfig, exe
  <2>2. \A s \in Seq(Texts) : s \o <<>> = s
    BY ConcatEmptySeq
  <2>3. \A args : Option(TRUE, args) = args /\ Option(FALSE, args) = <<>>
    BY DEF Option
  <2>4. g2 \in Seq(Texts) /\ g3 \in Seq(Texts) /\ g5 \in Seq(Texts) /\ g6 \in Seq(Texts)
        /\ g7 \in Seq(Texts) /\ g8 \in Seq(Texts) /\ g10 \in Seq(Texts)
    BY <1>3, <1>4, <1>6, <1>7, <1>8, <1>9, <1>11 DEF Settled
  <2>5. Flag("p") \in Texts /\ Number(c.port) \in Texts /\ Number(0) \in Texts /\ Flag("vs") \in Texts
        /\ Flag("as") \in Texts /\ Flag("FPSdata") \in Texts /\ Flag("reset") \in Texts
        /\ Flag("n") \in Texts /\ Flag("nh") \in Texts /\ exe \in Texts
        /\ Word("d3d11videosink") \in Texts /\ Word("autoaudiosink") \in Texts
    BY TextsAre DEF Spelled, exe
  <2> HIDE DEF h3, h5, h6, h7, h8, h10
  <2>6. h3 = g3
    <3> DEFINE s == <<exe, Flag("n"), c.name, Flag("nh")>>
    <3>1. g2 = s
      <4> DEFINE x == Flag("n")
                 y == Flag("nh")
                 name == c.name
      <4>1. x \in Texts /\ y \in Texts /\ name \in Texts
        BY <2>5
      <4> HIDE DEF x, y, name
      <4>2. <<exe>> \o <<x, name>> = <<exe, x, name>>
        BY <2>5, <4>1, TripleIs
      <4>3. <<exe, x, name>> \o <<y>> = <<exe, x, name, y>>
        BY <2>5, <4>1, FourAre
      <4> QED
        BY <4>2, <4>3 DEF g2, g1, start, x, y, name
    <3>2. <<exe, Flag("n"), c.name, Flag("nh"), Flag("p")>> = g2 \o <<Flag("p")>>
      <4> DEFINE x == Flag("n")
                 y == Flag("nh")
                 z == Flag("p")
                 name == c.name
      <4>1. x \in Texts /\ y \in Texts /\ z \in Texts /\ name \in Texts
        BY <2>5
      <4> HIDE DEF x, y, z, name
      <4>2. <<exe, x, name, y>> \o <<z>> = <<exe, x, name, y, z>>
        BY <2>5, <4>1, FiveAre
      <4> QED
        BY <3>1, <4>2 DEF x, y, z, name
    <3>3. g2 \o <<Flag("p")>> \in Seq(Texts)
      BY <2>4, <2>5
    <3>4. CASE c.port > 0
      <4> DEFINE x == Flag("p")
                 y == Number(c.port)
      <4>1. x \in Texts /\ y \in Texts
        BY <2>5
      <4> HIDE DEF x, y
      <4>2. InARow(g2, x, y, x, x)
        BY <2>4, <4>1, RowsAre
      <4>3. g2 \o <<x>> \o <<y>> = g2 \o <<x, y>>
        BY <4>2 DEF InARow
      <4>4. Option(c.port > 0, <<y>>) = <<y>>
        BY <2>3, <3>4
      <4> QED
        BY <3>2, <3>4, <4>3, <4>4 DEF g3, h3, x, y
    <3>5. CASE ~(c.port > 0)
      <4>1. Option(c.port > 0, <<Number(c.port)>>) = <<>>
        BY <3>5 DEF Option
      <4> HIDE DEF s
      <4>2. h3 = g2 \o <<Flag("p")>> \o <<>>
        BY <3>2, <4>1 DEF h3
      <4> DEFINE g == g2 \o <<Flag("p")>>
      <4> HIDE DEF g
      <4>3. g \o <<>> = g
        BY <2>2, <3>3 DEF g
      <4> QED
        BY <3>5, <4>2, <4>3 DEF g3, g
    <3> QED
      BY <3>4, <3>5
  <2>7. h5 = g5
    <3> DEFINE w == Flag("vs")
               x == Word("d3d11videosink")
               y == Flag("as")
               z == Word("autoaudiosink")
    <3>1. w \in Texts /\ x \in Texts /\ y \in Texts /\ z \in Texts
      BY <2>5
    <3> HIDE DEF w, x, y, z
    <3>2. InARow(g3, w, x, y, z)
      BY <2>4, <3>1, RowsAre
    <3>3. g3 \o <<w, x>> \o <<y, z>> = g3 \o <<w, x, y, z>>
      BY <3>2 DEF InARow
    <3> QED
      BY <2>6, <3>3 DEF g4, g5, h5, w, x, y, z
  <2>8. h6 = g6
    BY <2>2, <2>3, <2>4, <2>7 DEF g6, h6
  <2>9. h7 = g7
    BY <2>2, <2>3, <2>4, <2>8 DEF g7, h7
  <2>10. h8 = g8
    BY <2>2, <2>3, <2>4, <2>9 DEF g8, h8
  <2>11. h10 = g10
    <3> DEFINE x == Flag("FPSdata")
               y == Flag("reset")
               z == Number(0)
    <3>1. x \in Texts /\ y \in Texts /\ z \in Texts
      BY <2>5
    <3> HIDE DEF x, y, z
    <3>2. InARow(g8, x, y, z, z)
      BY <2>4, <3>1, RowsAre
    <3>3. g8 \o <<x>> \o <<y, z>> = g8 \o <<x, y, z>>
      BY <3>2 DEF InARow
    <3>4. h10 = g10 \o <<>>
      BY <2>10, <3>3 DEF g9, g10, h10, x, y, z
    <3> QED
      BY <2>2, <2>4, <3>4
  <2> QED
    BY <2>1, <2>11
<1> QED
  BY <1>11, <1>12, <1>13 DEF nm

-----------------------------------------------------------------------------
\* The smallest and the largest of some places in a text are two of them.
LEMMA MinMaxAreIn ==
  ASSUME NEW n \in Nat, NEW S, S \subseteq 1 .. n, S # {}
  PROVE  Min(S) \in S /\ Max(S) \in S
<1> DEFINE HasBoth(R) == (\E x \in R : \A y \in R : x <= y) /\ (\E x \in R : \A y \in R : x >= y)
           T == {m \in Nat : \A R \in SUBSET (1 .. m) : R # {} => HasBoth(R)}
<1>1. 0 \in T
  <2>1. \A R \in SUBSET (1 .. 0) : R = {}
    OBVIOUS
  <2> HIDE DEF HasBoth
  <2> QED
    BY <2>1
<1>2. ASSUME NEW m \in Nat, m \in T PROVE m + 1 \in T
  <2> SUFFICES ASSUME NEW R \in SUBSET (1 .. m + 1), R # {} PROVE HasBoth(R)
    OBVIOUS
  <2> DEFINE L == R \ {m + 1}
  <2>1. L \in SUBSET (1 .. m) /\ \A y \in R : y \in L \/ y = m + 1
    OBVIOUS
  <2>2. CASE L = {}
    <3>1. m + 1 \in R /\ \A y \in R : y = m + 1
      BY <2>1, <2>2
    <3> QED
      BY <3>1
  <2>3. CASE L # {}
    <3>1. HasBoth(L)
      <4> HIDE DEF HasBoth, L
      <4> QED
        BY <1>2, <2>1, <2>3
    <3>2. \E x \in R : \A y \in R : x <= y
      <4>1. PICK x \in L : \A y \in L : x <= y
        BY <3>1
      <4>2. x \in R /\ x <= m + 1
        BY <2>1
      <4> QED
        BY <2>1, <4>1, <4>2
    <3>3. \E x \in R : \A y \in R : x >= y
      <4>1. PICK x \in L : \A y \in L : x >= y
        BY <3>1
      <4>2. x \in R /\ x <= m + 1
        BY <2>1
      <4>3. CASE m + 1 \in R
        BY <4>3
      <4>4. CASE m + 1 \notin R
        BY <2>1, <4>1, <4>2, <4>4
      <4> QED
        BY <4>3, <4>4
    <3> QED
      BY <3>2, <3>3
  <2> QED
    BY <2>2, <2>3
<1> HIDE DEF T
<1>3. n \in T
  BY <1>1, <1>2, Counting
<1>4. HasBoth(S)
  BY <1>3 DEF T
<1> QED
  BY <1>4 DEF Min, Max

\* What the file's reader makes of a text is a text.
LEMMA ReadValueIsText ==
  ASSUME NEW text \in Texts
  PROVE  ReadValue(text) \in Texts
<1>1. ASSUME NEW s \in Texts, NEW a \in Nat, NEW b \in Nat, a > 0, b <= Len(s)
      PROVE  SubSeq(s, a, b) \in Texts
  <2>1. \A i \in a .. b : i \in 1 .. Len(s)
    <3>1. Len(s) \in Nat
      BY DEF Texts
    <3> DEFINE n == Len(s)
    <3> HIDE DEF n
    <3> QED
      BY <1>1, <3>1 DEF n
  <2>2. \A i \in a .. b : s[i] \in Characters
    BY <2>1, ElementOfSeq DEF Texts
  <2> QED
    BY <2>2, SubSeqProperties DEF Texts
<1> DEFINE solid == {i \in DOMAIN text : text[i] # Blank}
           t == Trimmed(text)
<1>2. t \in Texts
  <2>1. CASE solid = {}
    BY <2>1, TextsAre DEF Trimmed
  <2>2. CASE solid # {}
    <3>1. Len(text) \in Nat /\ solid \subseteq 1 .. Len(text)
      BY DEF Texts
    <3>2. t = SubSeq(text, Min(solid), Max(solid))
      BY <2>2 DEF Trimmed
    <3> HIDE DEF solid, t
    <3>3. Min(solid) \in 1 .. Len(text) /\ Max(solid) \in 1 .. Len(text)
      BY <2>2, <3>1, MinMaxAreIn
    <3>4. Min(solid) \in Nat /\ Max(solid) \in Nat /\ Min(solid) > 0 /\ Max(solid) <= Len(text)
      BY <3>1, <3>3
    <3> QED
      BY <1>1, <3>2, <3>4
  <2> QED
    BY <2>1, <2>2
<1> HIDE DEF t
<1>3. Unquoted(t) \in Texts
  <2>1. Len(t) \in Nat
    BY <1>2 DEF Texts
  <2>2. Len(t) > 1 => Len(t) - 1 \in Nat /\ Len(t) - 1 <= Len(t)
    BY <2>1
  <2>3. 2 \in Nat /\ 2 > 0
    OBVIOUS
  <2>4. Len(t) > 1 => SubSeq(t, 2, Len(t) - 1) \in Texts
    BY <1>1, <1>2, <2>2, <2>3
  <2> QED
    BY <1>2, <2>4 DEF Unquoted
<1> DEFINE u == Unquoted(t)
<1> HIDE DEF u
<1>4. Len(u) > Longest => SubSeq(u, 1, Longest) \in Texts
  <2>1. u \in Texts /\ Longest \in Nat /\ 1 \in Nat /\ 1 > 0
    BY <1>3, FormAssumption DEF FormAssumption, u
  <2>2. Len(u) > Longest => Longest <= Len(u)
    BY <2>1 DEF Texts
  <2> QED
    BY <1>1, <2>1, <2>2
<1> QED
  BY <1>3, <1>4 DEF ReadValue, t, u

-----------------------------------------------------------------------------
\* What config.ini, AppConfig and the boxes hold.
InFile == [name : Texts, port : Nat \cup {Missing}, maxFps : Nat, fullscreen : BOOLEAN,
           embedVideo : BOOLEAN]
InConfig == [name : Texts, port : 0 .. LastPort, maxFps : Nat, fullscreen : BOOLEAN,
             embedVideo : BOOLEAN]
InBoxes == [name : Texts, port : Nat \cup {Missing}, maxFps : {60, 30}, fullscreen : BOOLEAN,
            embedVideo : BOOLEAN]

FormInv ==
  /\ up \in BOOLEAN
  /\ ini \in InFile
  /\ up => cfg \in InConfig /\ form \in InBoxes

LEMMA FpsValuesAre == Range(FpsValues) = {60, 30} /\ FpsValues[1] = 60
<1>1. DOMAIN FpsValues = {1, 2} /\ FpsValues[1] = 60 /\ FpsValues[2] = 30
  BY DEF FpsValues
<1> QED
  BY <1>1 DEF Range

LEMMA NamesAreTexts == FormAssumption => Names \subseteq Texts
<1>1. Letters \cup {Blank, Quote, Slash, Dash, Apostrophe} \subseteq Characters
  BY DEF Characters
<1> SUFFICES ASSUME FormAssumption, NEW name \in Names PROVE name \in Texts
  OBVIOUS
<1>2. name \in Seq(Letters \cup {Blank, Quote, Slash, Dash, Apostrophe})
  BY DEF FormAssumption
<1> QED
  BY <1>1, <1>2, SeqMonotonic DEF Texts

LEMMA DefaultsAre ==
  /\ DefaultName \in Texts
  /\ DefaultPort \in 0 .. LastPort /\ DefaultPort \in Nat /\ LastPort \in Nat
<1>1. DefaultPort \in Nat /\ LastPort \in Nat /\ DefaultPort <= LastPort
  BY DEF DefaultPort, LastPort
<1>2. DefaultName \in Texts
  BY TextsAre DEF DefaultName, Spelled
<1> QED
  BY <1>1, <1>2

\* What is loaded can be shown, and what is taken from the boxes can be kept.
LEMMA Loading ==
  ASSUME NEW f \in InFile
  PROVE  LoadedForm(f) \in InConfig
<1> DEFINE name == ReadValue(f.name)
<1>1. f.name \in Texts /\ f.port \in Nat \cup {Missing}
  BY DEF InFile
<1>2. name \in Texts
  BY <1>1, ReadValueIsText
<1>3. PortOfFile(f.port) \in 0 .. LastPort
  BY <1>1, DefaultsAre DEF PortOfFile, Missing
<1>4. LoadedForm(f) = [f EXCEPT !.name = IF name = <<>> THEN DefaultName ELSE name,
                               !.port = PortOfFile(f.port)]
  BY DEF LoadedForm
<1> HIDE DEF name
<1> QED
  BY <1>2, <1>3, <1>4, DefaultsAre DEF InFile, InConfig

LEMMA Showing ==
  ASSUME NEW c \in InConfig
  PROVE  ControlsFromConfig(c) \in InBoxes /\ (c.maxFps \in {60, 30} => ControlsFromConfig(c) = c)
<1>1. ControlsFromConfig(c) = [c EXCEPT !.maxFps = IF c.maxFps \in {60, 30} THEN c.maxFps ELSE 60]
  BY FpsValuesAre DEF ControlsFromConfig
<1> QED
  BY <1>1 DEF InConfig, InBoxes

LEMMA Taking ==
  ASSUME NEW c \in InConfig, NEW box \in InBoxes
  PROVE  /\ ConfigFromControls(c, box) \in InConfig
         /\ ConfigFromControls(c, box).maxFps = box.maxFps
         /\ ConfigFromControls(c, box).fullscreen = box.fullscreen
         /\ ConfigFromControls(c, box).embedVideo = box.embedVideo
         /\ box.name # <<>> => ConfigFromControls(c, box).name = box.name
         /\ box.port \in 0 .. LastPort => ConfigFromControls(c, box).port = box.port
<1>1. PortOfBox(box.port) \in 0 .. LastPort /\ (box.port \in 0 .. LastPort => PortOfBox(box.port) = box.port)
  BY DefaultsAre DEF PortOfBox, Missing, InBoxes
<1>2. ConfigFromControls(c, box) = [box EXCEPT !.name = IF box.name = <<>> THEN c.name ELSE box.name,
                                             !.port = PortOfBox(box.port)]
  BY DEF ConfigFromControls
<1>3. c.name \in Texts
  BY DEF InConfig
<1> DEFINE name == IF box.name = <<>> THEN c.name ELSE box.name
           port == PortOfBox(box.port)
           after == [box EXCEPT !.name = name, !.port = port]
<1>4. name \in Texts /\ (box.name # <<>> => name = box.name)
  BY <1>3 DEF InBoxes
<1> HIDE DEF name, port
<1>5. after.name = name /\ after.port = port /\ after.maxFps = box.maxFps
      /\ after.fullscreen = box.fullscreen /\ after.embedVideo = box.embedVideo
  BY DEF InBoxes
<1>6. port \in 0 .. LastPort
  BY <1>1 DEF port
<1>7. after \in InConfig
  <2>1. box \in InFile
    <3>1. {60, 30} \subseteq Nat
      OBVIOUS
    <3> QED
      BY <3>1 DEF InBoxes, InFile
  <2> QED
    BY <1>4, <1>6, <2>1 DEF InFile, InConfig
<1>8. ConfigFromControls(c, box) = after
  BY <1>2 DEF name, port
<1> HIDE DEF after
<1> QED
  BY <1>1, <1>4, <1>5, <1>7, <1>8 DEF port

LEMMA ConfigInFile == InConfig \subseteq InFile
  BY DefaultsAre DEF InConfig, InFile

THEOREM FormAlwaysInv == FormSpec => []FormInv
<1>1. ASSUME FormInit PROVE FormInv
  <2>1. ini \in InFile
    BY <1>1, DefaultsAre DEF FormInit, InFile
  <2> QED
    BY <1>1, <2>1 DEF FormInit, FormInv
<1>2. ASSUME FormInv, [FormNext]_formVars PROVE FormInv'
  <2> USE <1>2
  <2>1. CASE Opens
    <3>1. up' = TRUE /\ cfg' = LoadedForm(ini) /\ form' = ControlsFromConfig(cfg') /\ ini' = ini
      BY <2>1 DEF Opens
    <3>2. ini \in InFile
      BY DEF FormInv
    <3>3. cfg' \in InConfig
      BY <3>1, <3>2, Loading
    <3>4. form' \in InBoxes
      BY <3>1, <3>3, Showing
    <3> QED
      BY <3>1, <3>2, <3>3, <3>4 DEF FormInv
  <2>2. CASE EditBoxes
    <3>1. up /\ up' = up /\ ini' = ini /\ cfg' = cfg
      BY <2>2 DEF EditBoxes
    <3>2. form \in InBoxes
      BY <3>1 DEF FormInv
    <3>3. form' \in InBoxes
      <4>1. CASE \E text \in Names \cup {<<>>} : form' = [form EXCEPT !.name = text]
        <5>1. Names \cup {<<>>} \subseteq Texts
          BY NamesAreTexts, TextsAre, FormAssumption
        <5> QED
          BY <3>2, <4>1, <5>1 DEF InBoxes
      <4>2. CASE \E port \in Ports \cup {Missing} : form' = [form EXCEPT !.port = port]
        BY <3>2, <4>2, FormAssumption DEF InBoxes, FormAssumption
      <4>3. CASE \E rate \in Range(FpsValues) : form' = [form EXCEPT !.maxFps = rate]
        BY <3>2, <4>3, FpsValuesAre DEF InBoxes
      <4>4. CASE form' = [form EXCEPT !.fullscreen = ~@]
        BY <3>2, <4>4 DEF InBoxes
      <4> QED
        BY <2>2, <4>1, <4>2, <4>3, <4>4 DEF EditBoxes
    <3> QED
      BY <3>1, <3>3 DEF FormInv
  <2>3. CASE TickEmbed
    <3>1. up /\ up' = up /\ form' = [form EXCEPT !.embedVideo = ~@]
          /\ cfg' = [cfg EXCEPT !.embedVideo = ~form.embedVideo] /\ ini' = cfg'
      BY <2>3 DEF TickEmbed
    <3>2. form \in InBoxes /\ cfg \in InConfig
      BY <3>1 DEF FormInv
    <3>3. form' \in InBoxes
      BY <3>1, <3>2 DEF InBoxes
    <3>4. cfg' \in InConfig
      BY <3>1, <3>2 DEF InConfig
    <3> QED
      BY <3>1, <3>3, <3>4, ConfigInFile DEF FormInv
  <2>4. CASE Saves
    BY <2>4, ConfigInFile DEF Saves, FormInv
  <2>5. CASE Starts
    <3>1. up /\ up' = up /\ form' = form /\ cfg' = ConfigFromControls(cfg, form) /\ ini' = cfg'
      BY <2>5 DEF Starts
    <3>2. form \in InBoxes /\ cfg \in InConfig
      BY <3>1 DEF FormInv
    <3>3. cfg' \in InConfig
      BY <3>1, <3>2, Taking
    <3> QED
      BY <3>1, <3>2, <3>3, ConfigInFile DEF FormInv
  <2>6. CASE Leave
    <3>1. up /\ up' = FALSE /\ ini' = ConfigFromControls(cfg, form)
      BY <2>6 DEF Leave, Ends
    <3>2. form \in InBoxes /\ cfg \in InConfig
      BY <3>1 DEF FormInv
    <3>3. ini' \in InConfig
      BY <3>1, <3>2, Taking
    <3> QED
      BY <3>1, <3>3, ConfigInFile DEF FormInv
  <2>7. CASE Dies
    BY <2>7 DEF Dies, Ends, FormInv
  <2>8. CASE EditFile
    <3>1. ~up /\ up' = up /\ ini \in InFile
      BY <2>8 DEF EditFile, FormInv
    <3>2. ini' \in InFile
      <4>1. CASE \E text \in Names \cup {<<>>} : ini' = [ini EXCEPT !.name = text]
        <5>1. Names \cup {<<>>} \subseteq Texts
          BY NamesAreTexts, TextsAre, FormAssumption
        <5> QED
          BY <3>1, <4>1, <5>1 DEF InFile
      <4>2. CASE \E port \in Ports \cup {Missing} : ini' = [ini EXCEPT !.port = port]
        BY <3>1, <4>2, FormAssumption DEF InFile, FormAssumption
      <4>3. CASE \E rate \in Rates : ini' = [ini EXCEPT !.maxFps = rate]
        BY <3>1, <4>3, FormAssumption DEF InFile, FormAssumption
      <4> QED
        BY <2>8, <4>1, <4>2, <4>3 DEF EditFile
    <3> QED
      BY <3>1, <3>2 DEF FormInv
  <2>9. CASE UNCHANGED formVars
    BY <2>9 DEF formVars, FormInv
  <2> QED
    BY <2>1, <2>2, <2>3, <2>4, <2>5, <2>6, <2>7, <2>8, <2>9 DEF FormNext
<1> QED
  BY <1>1, <1>2, PTL DEF FormSpec

-----------------------------------------------------------------------------
\* What the receiver gets.
LEMMA ReceivedAre ==
  ASSUME NEW c \in InConfig, c.maxFps > 0
  PROVE  /\ Refused(Received(c)) <=> Dashed(c.name)
         /\ ~Dashed(c.name) => Told(Received(c)) = ToldOf(c)
<1> DEFINE args == BuildArgs(ToHostConfig(c))
<1>1. c.name \in Texts /\ c.port \in Nat /\ c.maxFps \in Nat
  BY DefaultsAre DEF InConfig
<1>2. Settled(args, ToldOf(c), c.name)
  BY <1>1, ToldAre
<1> HIDE DEF args
<1>3. /\ args \in Seq(Seq(Characters)) /\ args # <<>>
      /\ Refused(args) <=> Dashed(c.name)
      /\ ~Dashed(c.name) => Told(args) = ToldOf(c)
  BY <1>2 DEF Settled, Texts, Told, Refused
<1>4. Blank \in Characters /\ Quote \in Characters /\ Slash \in Characters
  BY DEF Characters
<1>5. ParseArgs(JoinArgs(args)) = args
  BY <1>3, <1>4, CommandLineReadBack
<1> QED
  BY <1>3, <1>5 DEF Received, args

LEMMA TellingIs ==
  ASSUME NEW args, NEW c, Told(args) = ToldOf(c)
  PROVE  /\ ValuesOf("n", args) = {c.name}
         /\ ValuesOf("fps", args) = {Number(c.maxFps)}
         /\ c.port > 0 => ValuesOf("p", args) = {Number(c.port)}
         /\ ~(c.port > 0) => ValuesOf("p", args) = {}
         /\ Ticked("fs", args) <=> c.fullscreen /\ ~c.embedVideo
<1>1. \A w, x : <<Flag(w), x>> \in ToldOf(c) <=>
                   \/ w = "n" /\ x = c.name
                   \/ w \in {"nh", "nohold", "FPSdata"} /\ x = <<>>
                   \/ w = "p" /\ c.port > 0 /\ x = Number(c.port)
                   \/ w = "vs" /\ x = Word("d3d11videosink")
                   \/ w = "as" /\ x = Word("autoaudiosink")
                   \/ w = "fs" /\ c.fullscreen /\ ~c.embedVideo /\ x = <<>>
                   \/ w = "fps" /\ x = Number(c.maxFps)
                   \/ w = "reset" /\ x = Number(0)
  BY FlagsDiffer DEF ToldOf
<1>2. \A t \in ToldOf(c) : t = <<t[1], t[2]>>
  BY DEF ToldOf
<1>3. \A w, x : x \in ValuesOf(w, args) <=> <<Flag(w), x>> \in ToldOf(c)
  <2> DEFINE T == ToldOf(c)
  <2>1. \A t \in T : t = <<t[1], t[2]>>
    BY <1>2
  <2> HIDE DEF T
  <2>2. \A w, x : x \in ValuesOf(w, args) <=> \E t \in T : t[1] = Flag(w) /\ t[2] = x
    BY DEF ValuesOf, T
  <2> SUFFICES ASSUME NEW w, NEW x PROVE x \in ValuesOf(w, args) <=> <<Flag(w), x>> \in T
    BY DEF T
  <2>3. ASSUME x \in ValuesOf(w, args) PROVE <<Flag(w), x>> \in T
    <3>1. PICK t \in T : t[1] = Flag(w) /\ t[2] = x
      BY <2>2, <2>3
    <3> QED
      BY <2>1, <3>1
  <2>4. ASSUME <<Flag(w), x>> \in T PROVE x \in ValuesOf(w, args)
    BY <2>2, <2>4
  <2> QED
    BY <2>3, <2>4
<1>4. /\ \A x : <<Flag("n"), x>> \in ToldOf(c) <=> x = c.name
      /\ \A x : <<Flag("fps"), x>> \in ToldOf(c) <=> x = Number(c.maxFps)
      /\ \A x : <<Flag("p"), x>> \in ToldOf(c) <=> c.port > 0 /\ x = Number(c.port)
      /\ <<Flag("fs"), <<>>>> \in ToldOf(c) <=> c.fullscreen /\ ~c.embedVideo
  BY <1>1
<1>5. ValuesOf("n", args) = {c.name}
  <2>1. \A x : x \in ValuesOf("n", args) <=> x \in {c.name}
    BY <1>3, <1>4, Zenon
  <2> QED
    BY <2>1
<1>6. ValuesOf("fps", args) = {Number(c.maxFps)}
  <2>1. \A x : x \in ValuesOf("fps", args) <=> x \in {Number(c.maxFps)}
    BY <1>3, <1>4, Zenon
  <2> QED
    BY <2>1
<1>7. ValuesOf("p", args) = IF c.port > 0 THEN {Number(c.port)} ELSE {}
  <2>1. \A x : x \in ValuesOf("p", args) <=> c.port > 0 /\ x \in {Number(c.port)}
    BY <1>3, <1>4, Zenon
  <2> QED
    BY <2>1
<1>8. Ticked("fs", args) <=> c.fullscreen /\ ~c.embedVideo
  BY <1>4 DEF Ticked
<1> QED
  BY <1>5, <1>6, <1>7, <1>8

\* Only a start gives a receiver its arguments.
LEMMA ArgumentsOfAStart ==
  ASSUME FormInv, [FormNext]_formVars, argv' # argv, argv' # NotRun
  PROVE  /\ Starts /\ form \in InBoxes /\ cfg \in InConfig
         /\ cfg' = ConfigFromControls(cfg, form) /\ cfg' \in InConfig /\ ini' = cfg'
         /\ argv' = Received(cfg')
<1>1. Starts
  BY DEF FormNext, formVars, Opens, EditBoxes, TickEmbed, Saves, Leave, Dies, Ends, EditFile
<1>2. form \in InBoxes /\ cfg \in InConfig
  BY <1>1 DEF Starts, FormInv
<1>3. cfg' = ConfigFromControls(cfg, form) /\ ini' = cfg' /\ argv' = Received(cfg')
  BY <1>1 DEF Starts
<1>4. cfg' \in InConfig
  BY <1>2, <1>3, Taking
<1> QED
  BY <1>1, <1>2, <1>3, <1>4

\* uxplay_host.cpp:52: what the receiver is told is what the window showed when it was started,
\* whatever blanks, quotes and backslashes the name holds; it refuses its arguments for a name that
\* begins with a dash and for nothing else.
THEOREM ReceiverAlwaysGetsTheForm == FormSpec => ReceiverGetsTheForm
<1>1. ASSUME FormInv, [FormNext]_formVars, argv' # argv, argv' # NotRun
      PROVE  /\ Refused(argv') <=> Dashed(cfg'.name)
             /\ ~Refused(argv') =>
                  /\ form.name # <<>> => ValuesOf("n", argv') = {form.name}
                  /\ ValuesOf("fps", argv') = {Number(form.maxFps)}
                  /\ form.port \in 1 .. LastPort => ValuesOf("p", argv') = {Number(form.port)}
                  /\ form.port = 0 => ValuesOf("p", argv') = {}
                  /\ Ticked("fs", argv') <=> form.fullscreen /\ ~form.embedVideo
  <2> DEFINE c == cfg'
  <2>1. form \in InBoxes /\ cfg \in InConfig /\ c = ConfigFromControls(cfg, form) /\ c \in InConfig
        /\ argv' = Received(c)
    BY <1>1, ArgumentsOfAStart
  <2> HIDE DEF c
  <2>2. /\ c.maxFps = form.maxFps /\ c.fullscreen = form.fullscreen /\ c.embedVideo = form.embedVideo
        /\ form.name # <<>> => c.name = form.name
        /\ form.port \in 0 .. LastPort => c.port = form.port
    BY <2>1, Taking
  <2>3. form.maxFps \in {60, 30}
    BY <2>1 DEF InBoxes
  <2>4. c.maxFps > 0
    BY <2>2, <2>3
  <2>5. Refused(argv') <=> Dashed(c.name)
    BY <2>1, <2>4, ReceivedAre
  <2>6. ASSUME ~Refused(argv')
        PROVE  /\ form.name # <<>> => ValuesOf("n", argv') = {form.name}
               /\ ValuesOf("fps", argv') = {Number(form.maxFps)}
               /\ form.port \in 1 .. LastPort => ValuesOf("p", argv') = {Number(form.port)}
               /\ form.port = 0 => ValuesOf("p", argv') = {}
               /\ Ticked("fs", argv') <=> form.fullscreen /\ ~form.embedVideo
    <3>1. Told(argv') = ToldOf(c)
      BY <2>1, <2>4, <2>5, <2>6, ReceivedAre
    <3>2. /\ ValuesOf("n", argv') = {c.name}
          /\ ValuesOf("fps", argv') = {Number(c.maxFps)}
          /\ c.port > 0 => ValuesOf("p", argv') = {Number(c.port)}
          /\ ~(c.port > 0) => ValuesOf("p", argv') = {}
          /\ Ticked("fs", argv') <=> c.fullscreen /\ ~c.embedVideo
      BY <3>1, TellingIs
    <3>3. form.port \in 1 .. LastPort => ValuesOf("p", argv') = {Number(form.port)}
      <4> SUFFICES ASSUME form.port \in 1 .. LastPort
                   PROVE  ValuesOf("p", argv') = {Number(form.port)}
        OBVIOUS
      <4>1. form.port \in 0 .. LastPort /\ form.port > 0
        BY DefaultsAre
      <4> QED
        BY <2>2, <3>2, <4>1
    <3>4. form.port = 0 => ValuesOf("p", argv') = {}
      <4> SUFFICES ASSUME form.port = 0 PROVE ValuesOf("p", argv') = {}
        OBVIOUS
      <4>1. form.port \in 0 .. LastPort /\ ~(form.port > 0)
        BY DefaultsAre
      <4> QED
        BY <2>2, <3>2, <4>1
    <3> QED
      BY <2>2, <3>2, <3>3, <3>4
  <2> QED
    BY <2>5, <2>6 DEF c
<1> QED
  BY <1>1, FormAlwaysInv, PTL DEF FormSpec, ReceiverGetsTheForm

\* config_store.cpp:243: what a start writes into the file comes back through the clamps and the
\* lists of the window as the same arguments.
THEOREM NextLaunchAlwaysTheSame == FormSpec => NextLaunchTheSame
<1>1. ASSUME FormInv, [FormNext]_formVars, argv' # argv, argv' # NotRun, FileKeeps(ini'.name)
      PROVE  LET again == LoadedForm(ini')
             IN  Received(ConfigFromControls(again, ControlsFromConfig(again))) = argv'
  <2> DEFINE c == cfg'
  <2>1. form \in InBoxes /\ cfg \in InConfig /\ c = ConfigFromControls(cfg, form) /\ c \in InConfig
        /\ ini' = c /\ argv' = Received(c)
    BY <1>1, ArgumentsOfAStart
  <2> HIDE DEF c
  <2>2. c.maxFps \in {60, 30}
    <3>1. c.maxFps = form.maxFps
      BY <2>1, Taking
    <3> QED
      BY <2>1, <3>1 DEF InBoxes
  <2>3. ReadValue(c.name) = c.name /\ c.name # <<>>
    BY <1>1, <2>1 DEF FileKeeps
  <2>4. LoadedForm(c) = c
    <3>1. PortOfFile(c.port) = c.port
      BY <2>1, DefaultsAre DEF PortOfFile, InConfig
    <3> QED
      BY <2>1, <2>3, <3>1 DEF LoadedForm, InConfig
  <2>5. ControlsFromConfig(c) = c /\ c \in InBoxes
    BY <2>1, <2>2, Showing
  <2>6. ConfigFromControls(c, c) = c
    <3>1. PortOfBox(c.port) = c.port
      BY <2>1, DefaultsAre DEF PortOfBox, InConfig, Missing
    <3> QED
      BY <2>1, <2>3, <3>1 DEF ConfigFromControls, InConfig
  <2> QED
    BY <2>1, <2>4, <2>5, <2>6
<1> QED
  BY <1>1, FormAlwaysInv, PTL DEF FormSpec, NextLaunchTheSame

\* main_window.cpp:1480: leaving the program, or the session, loses nothing the window shows.
THEOREM LeavingAlwaysKeepsTheForm == FormSpec => LeavingKeepsTheForm
<1>1. ASSUME FormInv, Leave, FileKeeps(form.name), form.port \in 0 .. LastPort
      PROVE  ControlsFromConfig(LoadedForm(ini')) = form
  <2> DEFINE c == ini'
  <2>1. form \in InBoxes /\ cfg \in InConfig /\ c = ConfigFromControls(cfg, form)
    BY <1>1 DEF Leave, FormInv
  <2> HIDE DEF c
  <2>2. ReadValue(form.name) = form.name /\ form.name # <<>>
    BY <1>1 DEF FileKeeps
  <2>3. c = form
    <3>1. PortOfBox(form.port) = form.port
      BY <1>1, DefaultsAre DEF PortOfBox, Missing
    <3> QED
      BY <2>1, <2>2, <3>1 DEF ConfigFromControls, InBoxes
  <2>4. form \in InConfig
    <3>1. c \in InConfig
      BY <2>1, Taking
    <3> QED
      BY <2>3, <3>1
  <2>5. LoadedForm(form) = form
    <3>1. PortOfFile(form.port) = form.port
      BY <1>1, DefaultsAre DEF PortOfFile
    <3> QED
      BY <2>1, <2>2, <3>1 DEF LoadedForm, InBoxes
  <2>6. ControlsFromConfig(form) = form
    <3>1. form.maxFps \in {60, 30}
      BY <2>1 DEF InBoxes
    <3> QED
      BY <2>4, <3>1, Showing
  <2> QED
    BY <2>3, <2>5, <2>6 DEF c
<1> QED
  BY <1>1, FormAlwaysInv, PTL DEF FormSpec, LeavingKeepsTheForm

=============================================================================
