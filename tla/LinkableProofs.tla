--------------------------- MODULE LinkableProofs ---------------------------
(***************************************************************************)
(* Proofs about Linkable: owners keep what they own alive, whatever is     *)
(* linked; and where only new objects are linked nothing leaks, no links   *)
(* are circular and the assertion of _link never fails.                    *)
(***************************************************************************)
EXTENDS Linkable, Naturals, TLAPS

\* What lives has a reference, from outside or from an owner that lives.
Supported == \A o \in live : o \in held \/ \E p \in live : o \in Owned(p)

\* No circles, said of sets: in every set of objects that live one is owned by
\* none of the set. NoLeak needs it: a circle is supported by itself.
OwnersFirst ==
  \A S \in SUBSET live : S # {} => \E o \in S : \A p \in S : o \notin Owned(p)

\* Holds whatever the program links.
AliveInv == TypeOK /\ OwnedStayAlive /\ Supported

IInv == AliveInv /\ OwnersFirst /\ ~failed

-----------------------------------------------------------------------------
(* The operators *)

\* The survivors are a set whose members all have a reference, and every such
\* set is among them.
LEMMA SurvivorsAreSupported ==
  ASSUME NEW H
  PROVE  /\ Survivors(H) \subseteq live
         /\ \A o \in Survivors(H) : o \in H \/ \E p \in Survivors(H) : o \in Owned(p)
         /\ \A S \in SUBSET live :
              (\A o \in S : o \in H \/ \E p \in S : o \in Owned(p))
                => S \subseteq Survivors(H)
  BY DEF Survivors

\* _link adds one object to those that its caller owns.
LEMMA AppendOwns ==
  ASSUME TypeOK, NEW x \in Objects, NEW sp \in Objects,
         links' = [links EXCEPT ![sp] = Append(@, x)]
  PROVE  /\ links' \in [Objects -> Seq(Objects)]
         /\ Owned(sp)' = Owned(sp) \cup {x}
         /\ \A o \in Objects : o # sp => Owned(o)' = Owned(o)
  <1>1. links[sp] \in Seq(Objects) /\ links'[sp] = Append(links[sp], x)
    BY DEF TypeOK
  <1>2. /\ DOMAIN links[sp] = 1 .. Len(links[sp]) /\ Len(links[sp]) \in Nat
        /\ DOMAIN Append(links[sp], x) = 1 .. Len(links[sp]) + 1
        /\ \A i \in DOMAIN links[sp] : Append(links[sp], x)[i] = links[sp][i]
        /\ Append(links[sp], x)[Len(links[sp]) + 1] = x
    BY <1>1
  <1>3. Owned(sp)' = {Append(links[sp], x)[i] : i \in DOMAIN Append(links[sp], x)}
    BY <1>1 DEF Owned
  <1>4. Owned(sp)' = Owned(sp) \cup {x}
    <2>1. \A i \in DOMAIN Append(links[sp], x) :
            Append(links[sp], x)[i] \in Owned(sp) \cup {x}
      BY <1>2 DEF Owned
    <2>2. \A i \in DOMAIN links[sp] : links[sp][i] \in Owned(sp)'
      BY <1>2, <1>3
    <2>3. x \in Owned(sp)'
      BY <1>2, <1>3
    <2> QED  BY <1>3, <2>1, <2>2, <2>3 DEF Owned
  <1>5. links' \in [Objects -> Seq(Objects)]
    BY <1>1 DEF TypeOK
  <1>6. ASSUME NEW o \in Objects, o # sp PROVE Owned(o)' = Owned(o)
    <2>1. links'[o] = links[o]
      BY <1>6 DEF TypeOK
    <2> QED  BY <2>1 DEF Owned
  <1> QED  BY <1>4, <1>5, <1>6

\* What o reaches includes o, and all that its members own.
LEMMA LookupCloses ==
  ASSUME NEW o \in Objects, NEW p \in Objects, NEW q \in Objects,
         Lookup(o, p), q \in Owned(p)
  PROVE  Lookup(o, q)
  BY DEF Lookup

-----------------------------------------------------------------------------
(* Owners keep what they own alive *)

LEMMA SameLinks ==
  ASSUME links' = links
  PROVE  \A o : Owned(o)' = Owned(o)
  BY DEF Owned

LEMMA AliveStarts == Init => AliveInv
  <1> SUFFICES ASSUME Init PROVE AliveInv
    OBVIOUS
  <1>1. live = {} /\ held = {} /\ failed = FALSE /\ links = [o \in Objects |-> <<>>]
    BY DEF Init
  <1>2. links \in [Objects -> Seq(Objects)]
    BY <1>1
  <1> QED  BY <1>1, <1>2 DEF AliveInv, TypeOK, OwnedStayAlive, Supported

LEMMA CreateKeepsAlive ==
  ASSUME AliveInv, NEW o \in Objects, Create(o)
  PROVE  AliveInv' /\ Owned(o)' = {} /\ \A p \in live : Owned(p)' = Owned(p) /\ p # o
  <1> USE DEF AliveInv, TypeOK
  <1>1. /\ o \notin live /\ live' = live \cup {o} /\ held' = held \cup {o}
        /\ links' = [links EXCEPT ![o] = <<>>] /\ failed' = failed
    BY DEF Create
  <1>2. TypeOK'
    BY <1>1
  <1>3. Owned(o)' = {}
    BY <1>1 DEF Owned
  <1>4. \A p \in live : Owned(p)' = Owned(p) /\ p # o
    BY <1>1 DEF Owned
  <1>5. OwnedStayAlive'
    BY <1>1, <1>3, <1>4 DEF OwnedStayAlive
  <1>6. Supported'
    BY <1>1, <1>4 DEF Supported
  <1> QED  BY <1>2, <1>3, <1>4, <1>5, <1>6

LEMMA HoldKeepsAlive ==
  ASSUME AliveInv, NEW o \in Objects, Hold(o)
  PROVE  AliveInv'
  BY DEF AliveInv, TypeOK, OwnedStayAlive, Supported, Owned, Hold

LEMMA LinkWithKeepsAlive ==
  ASSUME AliveInv, NEW x \in Objects, NEW sp \in Objects, LinkWith(x, sp)
  PROVE  AliveInv'
  <1> USE DEF AliveInv
  <1>1. /\ {x, sp} \subseteq live /\ live' = live /\ held' = held
    BY DEF LinkWith, TypeOK
  <1>2. CASE Lookup(sp, x)
    <2>1. links' = links /\ failed' = TRUE
      BY <1>2 DEF LinkWith
    <2> QED  BY <1>1, <2>1 DEF TypeOK, OwnedStayAlive, Supported, Owned
  <1>3. CASE ~Lookup(sp, x)
    <2>1. links' = [links EXCEPT ![sp] = Append(@, x)] /\ failed' = failed
      BY <1>3 DEF LinkWith
    <2>2. /\ links' \in [Objects -> Seq(Objects)]
          /\ Owned(sp)' = Owned(sp) \cup {x}
          /\ \A o \in Objects : o # sp => Owned(o)' = Owned(o)
      BY <2>1, AppendOwns
    <2>3. TypeOK'
      BY <1>1, <2>1, <2>2 DEF TypeOK
    <2>4. live \subseteq Objects
      BY DEF TypeOK
    <2>5. OwnedStayAlive'
      BY <1>1, <2>2, <2>4 DEF OwnedStayAlive
    <2>6. \A o \in live : Owned(o) \subseteq Owned(o)'
      BY <2>2, <2>4
    <2>7. Supported'
      BY <1>1, <2>6 DEF Supported
    <2> QED  BY <2>3, <2>5, <2>7
  <1> QED  BY <1>2, <1>3

\* With an object that lives, what it owns survives: to add it to the
\* survivors gives a set whose members all have a reference.
LEMMA ReleaseKeepsAlive ==
  ASSUME AliveInv, NEW o \in Objects, Release(o)
  PROVE  AliveInv' /\ live' \subseteq live
  <1> USE DEF AliveInv
  <1>1. /\ held' = held \ {o} /\ live' = Survivors(held')
        /\ links' = links /\ failed' = failed
    BY DEF Release
  <1>2. /\ live' \subseteq live
        /\ \A p \in live' : p \in held' \/ \E q \in live' : p \in Owned(q)
        /\ \A S \in SUBSET live :
             (\A p \in S : p \in held' \/ \E q \in S : p \in Owned(q)) => S \subseteq live'
    BY <1>1, SurvivorsAreSupported, Zenon
  <1>3. \A p : Owned(p)' = Owned(p)
    BY <1>1 DEF Owned
  <1>4. held' \subseteq live'
    <2>1. held' \subseteq live
      BY <1>1 DEF TypeOK
    <2> QED  BY <1>2, <2>1
  <1>5. TypeOK'
    BY <1>1, <1>2, <1>4 DEF TypeOK
  <1>6. Supported'
    BY <1>2, <1>3 DEF Supported
  <1>7. OwnedStayAlive'
    <2> SUFFICES ASSUME NEW p \in live', NEW q \in Owned(p)
                 PROVE  q \in live'
      BY <1>3 DEF OwnedStayAlive
    <2>1. live' \cup {q} \in SUBSET live
      BY <1>2 DEF OwnedStayAlive
    <2>2. \A r \in live' \cup {q} : r \in held' \/ \E w \in live' \cup {q} : r \in Owned(w)
      BY <1>2
    <2>3. live' \cup {q} \subseteq live'
      BY <1>2, <2>1, <2>2, Zenon
    <2> QED  BY <2>3
  <1> QED  BY <1>2, <1>5, <1>6, <1>7

LEMMA AliveKept == AliveInv /\ [Next]_vars => AliveInv'
  <1> SUFFICES ASSUME AliveInv, [Next]_vars PROVE AliveInv'
    OBVIOUS
  <1>1. ASSUME NEW o \in Objects, Create(o) PROVE AliveInv'
    BY <1>1, CreateKeepsAlive
  <1>2. ASSUME NEW o \in Objects, Hold(o) PROVE AliveInv'
    BY <1>2, HoldKeepsAlive
  <1>3. ASSUME NEW o \in Objects, Release(o) PROVE AliveInv'
    BY <1>3, ReleaseKeepsAlive
  <1>4. ASSUME NEW x \in Objects, NEW sp \in Objects, LinkWith(x, sp) PROVE AliveInv'
    BY <1>4, LinkWithKeepsAlive
  <1>5. CASE UNCHANGED vars
    BY <1>5 DEF vars, AliveInv, TypeOK, OwnedStayAlive, Supported, Owned
  <1> QED  BY <1>1, <1>2, <1>3, <1>4, <1>5 DEF Next

\* An object lives as long as one of its owners does, whatever the program
\* links, circles included.
THEOREM OwnersKeepAlive == Spec => []OwnedStayAlive
  <1>1. AliveInv => OwnedStayAlive
    BY DEF AliveInv
  <1> QED  BY <1>1, AliveStarts, AliveKept, PTL DEF Spec

-----------------------------------------------------------------------------
(* Nothing leaks where only new objects are linked *)

LEMMA CreateKeepsOrder ==
  ASSUME AliveInv, OwnersFirst, NEW o \in Objects, Create(o)
  PROVE  OwnersFirst'
  <1>1. Owned(o)' = {} /\ (\A p \in live : Owned(p)' = Owned(p)) /\ live' = live \cup {o}
    BY CreateKeepsAlive DEF Create
  <1>2. \A p \in live : o \notin Owned(p)
    BY DEF AliveInv, OwnedStayAlive, Create
  <1> SUFFICES ASSUME NEW S \in SUBSET live', S # {}
               PROVE  \E q \in S : \A p \in S : q \notin Owned(p)'
    BY DEF OwnersFirst
  <1>3. CASE o \in S
    BY <1>1, <1>2, <1>3
  <1>4. CASE o \notin S
    BY <1>1, <1>4 DEF OwnersFirst
  <1> QED  BY <1>3, <1>4

\* Of the two that are linked the new one is owned by none, or is the only one
\* it could stand in the way of.
LEMMA LinkWithKeepsOrder ==
  ASSUME FreshOnly = TRUE, AliveInv, OwnersFirst, ~failed,
         NEW x \in Objects, NEW sp \in Objects, LinkWith(x, sp)
  PROVE  OwnersFirst' /\ ~failed'
  <1>1. /\ {x, sp} \subseteq live /\ live' = live /\ live \subseteq Objects
        /\ x # sp /\ (Fresh(x) \/ Fresh(sp))
    BY DEF LinkWith, AliveInv, TypeOK
  <1>2. ~Lookup(sp, x)
    <2>1. CASE Fresh(sp)
      <3>1. {sp} \in SUBSET Objects /\ \A p \in {sp} : Owned(p) \subseteq {sp}
        BY <2>1 DEF Fresh
      <3> QED  BY <1>1, <3>1 DEF Lookup
    <2>2. CASE Fresh(x)
      <3>1. /\ live \ {x} \in SUBSET Objects /\ sp \in live \ {x}
            /\ \A p \in live \ {x} : Owned(p) \subseteq live \ {x}
        BY <1>1, <2>2 DEF Fresh, AliveInv, OwnedStayAlive
      <3> QED  BY <3>1 DEF Lookup
    <2> QED  BY <1>1, <2>1, <2>2
  <1>3. links' = [links EXCEPT ![sp] = Append(@, x)] /\ failed' = failed
    BY <1>2 DEF LinkWith
  <1>4. /\ Owned(sp)' = Owned(sp) \cup {x}
        /\ \A o \in Objects : o # sp => Owned(o)' = Owned(o)
    BY <1>3, AppendOwns DEF AliveInv
  <1>5. ASSUME NEW S \in SUBSET live, S # {}
        PROVE  \E o \in S : \A p \in S : o \notin Owned(p)'
    <2>1. CASE Fresh(sp) /\ sp \in S
      <3>1. \A p \in S : sp \notin Owned(p)'
        BY <1>1, <1>4, <2>1 DEF Fresh
      <3> QED  BY <2>1, <3>1
    <2>2. CASE sp \notin S
      <3>1. \A p \in S : Owned(p)' = Owned(p)
        BY <1>1, <1>4, <2>2
      <3> QED  BY <1>5, <3>1 DEF OwnersFirst
    <2>3. CASE Fresh(x) /\ S = {x}
      BY <1>1, <1>4, <2>3 DEF Fresh
    <2>4. CASE Fresh(x) /\ S # {x}
      <3>1. PICK o \in S \ {x} : \A p \in S \ {x} : o \notin Owned(p)
        <4>1. S \ {x} # {} /\ S \ {x} \in SUBSET live
          BY <1>5, <2>4
        <4> QED  BY <4>1 DEF OwnersFirst
      <3>2. \A p \in S : o \notin Owned(p)'
        BY <1>1, <1>4, <2>4, <3>1 DEF Fresh
      <3> QED  BY <3>2
    <2> QED  BY <1>1, <2>1, <2>2, <2>3, <2>4
  <1> QED  BY <1>1, <1>3, <1>5 DEF OwnersFirst

LEMMA Kept ==
  ASSUME FreshOnly = TRUE
  PROVE  IInv /\ [Next]_vars => IInv'
  <1> SUFFICES ASSUME IInv, [Next]_vars PROVE IInv'
    OBVIOUS
  <1>1. AliveInv'
    BY AliveKept DEF IInv
  <1>2. ASSUME NEW o \in Objects, Create(o) PROVE OwnersFirst' /\ ~failed'
    BY <1>2, CreateKeepsOrder DEF IInv, Create
  <1>3. ASSUME NEW o \in Objects, Hold(o) PROVE OwnersFirst' /\ ~failed'
    BY <1>3, SameLinks DEF IInv, OwnersFirst, Hold
  <1>4. ASSUME NEW o \in Objects, Release(o) PROVE OwnersFirst' /\ ~failed'
    <2>1. live' \subseteq live
      BY <1>4, ReleaseKeepsAlive DEF IInv
    <2>2. links' = links /\ failed' = failed
      BY <1>4 DEF Release
    <2>3. OwnersFirst'
      BY <2>1, <2>2, SameLinks DEF IInv, OwnersFirst
    <2> QED  BY <2>2, <2>3 DEF IInv
  <1>5. ASSUME NEW x \in Objects, NEW sp \in Objects, LinkWith(x, sp)
        PROVE  OwnersFirst' /\ ~failed'
    BY <1>5, LinkWithKeepsOrder DEF IInv
  <1>6. CASE UNCHANGED vars
    <2>1. live' = live /\ links' = links /\ failed' = failed
      BY <1>6 DEF vars
    <2>2. OwnersFirst'
      BY <2>1, SameLinks DEF IInv, OwnersFirst
    <2>3. ~failed'
      BY <2>1, Zenon DEF IInv
    <2> QED  BY <1>1, <2>2, <2>3 DEF IInv
  <1> QED  BY <1>1, <1>2, <1>3, <1>4, <1>5, <1>6 DEF Next, IInv

\* The objects that live and that nothing outside reaches would each have an
\* owner among them.
LEMMA NoCircleNoLeak == IInv => NoLeak
  <1> SUFFICES ASSUME IInv, NEW o \in live, \A h \in held : ~Lookup(h, o)
               PROVE  FALSE
    BY DEF NoLeak
  <1> DEFINE Lost == {p \in live : \A h \in held : ~Lookup(h, p)}
  <1>1. live \subseteq Objects /\ held \subseteq live
    BY DEF IInv, AliveInv, TypeOK
  <1>2. ASSUME NEW p \in Lost PROVE \E q \in Lost : p \in Owned(q)
    <2>1. p \notin held
      BY <1>1 DEF Lookup
    <2>2. PICK q \in live : p \in Owned(q)
      BY <2>1 DEF IInv, AliveInv, Supported
    <2>3. q \in Lost
      BY <1>1, <2>2, LookupCloses
    <2> QED  BY <2>2, <2>3
  <1>3. Lost \in SUBSET live /\ Lost # {}
    OBVIOUS
  <1> QED  BY <1>2, <1>3 DEF IInv, OwnersFirst

\* What p reaches is owned within what p reaches, p itself included if one of
\* its owners is reached.
LEMMA OrderIsNotCircular == IInv => NotCircular
  <1> SUFFICES ASSUME IInv, NEW o \in live, NEW p \in Owned(o), Lookup(p, o)
               PROVE  FALSE
    BY DEF NotCircular
  <1> DEFINE Reached == {q \in live : Lookup(p, q)}
  <1>1. live \subseteq Objects /\ p \in live
    BY DEF IInv, AliveInv, TypeOK, OwnedStayAlive
  <1>2. o \in Reached /\ p \in Reached
    BY <1>1 DEF Lookup
  <1>3. ASSUME NEW q \in Reached, \A r \in Reached : q \notin Owned(r)
        PROVE  FALSE
    <2>1. q # p
      BY <1>2, <1>3
    <2>2. \A r \in Reached \ {q} : Owned(r) \subseteq Reached \ {q}
      BY <1>1, <1>3, LookupCloses DEF IInv, AliveInv, OwnedStayAlive
    <2>3. Reached \ {q} \in SUBSET Objects /\ p \in Reached \ {q}
      BY <1>1, <1>2, <2>1
    <2> QED  BY <2>2, <2>3 DEF Lookup
  <1>4. Reached \in SUBSET live
    OBVIOUS
  <1> QED  BY <1>2, <1>3, <1>4 DEF IInv, OwnersFirst

LEMMA Starts == Init => IInv
  <1> SUFFICES ASSUME Init PROVE IInv
    OBVIOUS
  <1>1. AliveInv
    BY AliveStarts
  <1>2. OwnersFirst /\ ~failed
    BY DEF Init, OwnersFirst
  <1> QED  BY <1>1, <1>2 DEF IInv

\* Where only new objects are linked, as in the sources, the objects that live
\* are those that something outside reaches, directly or through owners.
THEOREM LifetimesAreRight ==
  ASSUME FreshOnly = TRUE
  PROVE  Spec => []Lifetimes
  <1>1. IInv => Lifetimes
    BY NoCircleNoLeak DEF IInv, AliveInv, Lifetimes
  <1> QED  BY <1>1, Starts, Kept, PTL DEF Spec

\* And the assertion of _link, "Circular linking dependency detected", never
\* fails, for no links are circular.
THEOREM NeverCircular ==
  ASSUME FreshOnly = TRUE
  PROVE  Spec => [](NotCircular /\ ~failed)
  <1>1. IInv => NotCircular /\ ~failed
    BY OrderIsNotCircular DEF IInv
  <1> QED  BY <1>1, Starts, Kept, PTL DEF Spec
=============================================================================
