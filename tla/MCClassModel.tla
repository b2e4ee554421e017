---------------------------- MODULE MCClassModel ----------------------------
(***************************************************************************)
(* A program for ClassModel: builtins Object, Iterator, $MapIterator and  *)
(* Map as builtins.c registers them, and five user classes:               *)
(*   class A { x; f() { this.x } iterator() {...} hashCode() {...} }      *)
(*   class B : A { y; B() {...} f() {...} g() { super.f(); this.y } }     *)
(*   class C : B { z; static s; h() { this.z } }                           *)
(*   class E : A { k() { super.g() } equals(o) {...} }  -- A has no g      *)
(*   class UI : Iterator { hasNext() {...} next() {...} }                 *)
(* Base ids are distinct primes in the order primeGen hands them out.     *)
(* ctor_ stands for a method named after its own class.  Object's native *)
(* hashCode is kept; its toString is not a name any access here uses.   *)
(***************************************************************************)
EXTENDS ClassModel, TLC

CONSTANTS Object_, Iterator_, MapIter_, Map_, A, B, C, E, UI,
          x, y, z, f, g, h, k, s_, iterator_, hasNext_, next_,
          hashCode_, equals_, ctor_, None_

MCBuiltins == {Object_, Iterator_, MapIter_, Map_}
MCUserClasses == {A, B, C, E, UI}
MCNames == {x, y, z, f, g, h, k, s_, iterator_, hasNext_, next_, hashCode_, equals_, ctor_}

MCBaseId == (Object_ :> 2 @@ Iterator_ :> 3 @@ MapIter_ :> 5 @@ Map_ :> 7
             @@ A :> 11 @@ B :> 13 @@ C :> 17 @@ E :> 19 @@ UI :> 23)
MCBuiltinSuper == (Object_ :> None_ @@ Iterator_ :> Object_
                   @@ MapIter_ :> Iterator_ @@ Map_ :> Object_)
MCBuiltinMethods == (Object_ :> {hashCode_} @@ Iterator_ :> {hasNext_, next_}
                     @@ MapIter_ :> {hasNext_, next_} @@ Map_ :> {iterator_})
MCSuperDecl == (A :> None_ @@ B :> A @@ C :> B @@ E :> A @@ UI :> Iterator_)
MCFieldDecl == (A :> {x} @@ B :> {y} @@ C :> {z} @@ E :> {} @@ UI :> {})
\* For MCClassModelFieldShadow.cfg: B also declares the field x it inherits.
MCFieldDeclShadow == (A :> {x} @@ B :> {x, y} @@ C :> {z} @@ E :> {} @@ UI :> {})
MCMethodDecl == (A :> {f, iterator_, hashCode_} @@ B :> {ctor_, f, g} @@ C :> {h}
                 @@ E :> {k, equals_}
                 @@ UI :> {hasNext_, next_})
MCStaticDecl == (A :> {} @@ B :> {} @@ C :> {s_} @@ E :> {} @@ UI :> {})
MCRefDecl ==
  (A :> << [super |-> FALSE, name |-> x] >>
   @@ B :> << [super |-> TRUE, name |-> f], [super |-> FALSE, name |-> y] >>
   @@ C :> << [super |-> FALSE, name |-> z] >>
   @@ E :> << [super |-> TRUE, name |-> g] >>
   @@ UI :> << >>)
=============================================================================
