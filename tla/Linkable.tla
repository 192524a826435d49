------------------------------ MODULE Linkable ------------------------------
(***************************************************************************)
(* Linkable: which shared objects keep which others alive.                 *)
(*                                                                         *)
(* x->LinkWith(sp) makes sp an owner of x: sp's m_vecLinks holds a         *)
(* shared_ptr to x.  An object is destroyed, and lets go of what it owns,  *)
(* when neither an owner nor anything outside (a variable of the program,  *)
(* a record of the loop, a callback in the NextTick queue) refers to it.   *)
(***************************************************************************)
EXTENDS Sequences

CONSTANTS
  Objects,    \* the Linkable objects of the program
  FreshOnly   \* whether the program links only objects it has just made

ASSUME FreshAssumption == FreshOnly \in BOOLEAN

VARIABLES
  live,    \* the objects that exist
  held,    \* those that something outside refers to
  links,   \* m_vecLinks: what each object owns
  failed   \* the assertion of _link has failed

vars == <<live, held, links, failed>>

Owned(o) == {links[o][i] : i \in DOMAIN links[o]}

TypeOK ==
  /\ live \subseteq Objects
  /\ held \subseteq live
  /\ links \in [Objects -> Seq(Objects)]
  /\ failed \in BOOLEAN

Init ==
  /\ live = {}
  /\ held = {}
  /\ links = [o \in Objects |-> <<>>]
  /\ failed = FALSE

\* _lookup: whether o owns t, or is t, or owns an owner of t. (On links that
\* are circular the recursion of the code may not end.)
Lookup(o, t) ==
  \A S \in SUBSET Objects : o \in S /\ (\A p \in S : Owned(p) \subseteq S) => t \in S

\* The objects that survive if h is what is referred to from outside: of the
\* sets all of whose members still have a reference, the largest.
Survivors(h) ==
  UNION {S \in SUBSET live : \A o \in S : o \in h \/ \E p \in S : o \in Owned(p)}

\* make_shared.
Create(o) ==
  /\ o \notin live
  /\ live' = live \cup {o}
  /\ held' = held \cup {o}
  /\ links' = [links EXCEPT ![o] = <<>>]
  /\ UNCHANGED failed

\* One more reference to an object that can be reached, from outside.
Hold(o) ==
  /\ o \in live \ held
  /\ held' = held \cup {o}
  /\ UNCHANGED <<live, links, failed>>

Fresh(o) == Owned(o) = {} /\ \A p \in live : o \notin Owned(p)

\* x->LinkWith(sp), that is sp->_link(x).
LinkWith(x, sp) ==
  /\ {x, sp} \subseteq held
  /\ FreshOnly => x # sp /\ (Fresh(x) \/ Fresh(sp))
  /\ IF Lookup(sp, x)
     THEN failed' = TRUE /\ UNCHANGED links
     ELSE links' = [links EXCEPT ![sp] = Append(@, x)] /\ UNCHANGED failed
  /\ UNCHANGED <<live, held>>

\* Faulty variant: the object is destroyed with its last reference from outside.
ReleaseAtOnce(o) ==
  /\ o \in held
  /\ held' = held \ {o}
  /\ live' = Survivors(held') \ {o}
  /\ UNCHANGED <<links, failed>>

\* The last reference from outside to o goes, and with it every object that
\* is left without one.
Release(o) ==
  /\ o \in held
  /\ held' = held \ {o}
  /\ live' = Survivors(held')
  /\ UNCHANGED <<links, failed>>

Next ==
  /\ ~failed
  /\ \/ \E o \in Objects : Create(o) \/ Hold(o) \/ Release(o)
     \/ \E x, sp \in Objects : LinkWith(x, sp)

Spec == Init /\ [][Next]_vars

-----------------------------------------------------------------------------

\* An object lives as long as one of its owners does: the socket that a
\* record's IOEvent owns is there when the IOEvent calls it.
OwnedStayAlive == \A o \in live : Owned(o) \subseteq live

\* Nothing leaks: every object that lives is reached from outside. A program
\* that links only objects it has just made never breaks this.
NoLeak == \A o \in live : \E h \in held : Lookup(h, o)

\* Both: what lives is what something refers to, directly or through owners.
Lifetimes == OwnedStayAlive /\ NoLeak

\* "Circular linking dependency detected": links that are not refused are
\* not circular.
NotCircular ==
  \A o \in live : \A p \in Owned(o) : ~Lookup(p, o)
=============================================================================
