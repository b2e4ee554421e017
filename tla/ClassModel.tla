----------------------------- MODULE ClassModel -----------------------------
(***************************************************************************)
(* Classes of src/elox/lib/vm.c: a class declaration runs CLASS, INHERIT,  *)
(* FIELD / METHOD and RESOLVE_MEMBERS; instances of declared classes then  *)
(* execute member-ref opcodes inside methods and are iterated by           *)
(* FOREACH_INIT.  The compiled program is given by constants: each user    *)
(* class's declared superclass, fields, methods and the member references  *)
(* its methods make, in the slot order the compiler numbers them.          *)
(***************************************************************************)
EXTENDS Integers, Sequences, FiniteSets

CONSTANTS
  Builtins,      \* classes registerBuiltins creates
  UserClasses,   \* classes the program declares
  Object, Iterator, MapIteratorClass, MapClass,   \* builtin classes used here
  Names,         \* member names
  IteratorName,  \* the name "iterator"
  HasNextName, NextName,  \* the names "hasNext" and "next"
  HashCodeName, EqualsName,  \* the names "hashCode" and "equals"
  CtorName,      \* a method named after its own class: the initializer
  None,
  BaseId,        \* newClass: the prime each class draws from vm->primeGen
  BuiltinSuper,  \* registerStaticClass's super argument for each builtin
  BuiltinMethods,  \* names of the native methods added to each builtin
  SuperDecl,     \* a user class's declared superclass, or None
  FieldDecl,     \* FIELD names of a user class
  MethodDecl,    \* METHOD names of a user class
  StaticDecl,    \* STATIC names of a user class
  RefDecl,       \* RESOLVE_MEMBERS records: slot i+1 is [super, name]
  MaxRefs        \* the longest RefDecl

Classes == Builtins \cup UserClasses

VARIABLES
  defined,     \* classes whose CLASS opcode (or registration) has run
  usable,      \* classes whose declaration completed: they can be named
  superOf,     \* clazz->super
  classId,     \* clazz->classId
  methods,     \* clazz->methods: name -> class whose closure it holds, or None
  initializer, \* clazz->initializer: the class whose closure it holds, or None
  hashCodeM,   \* clazz->hashCode, the fast slot hashValue uses
  equalsM,     \* clazz->equals, the fast slot valuesEquals uses
  statics,     \* clazz->statics: name -> index into staticValues, or None
  fields,      \* clazz->fields: name -> offset, or None
  memberRefs,  \* clazz->memberRefs after RESOLVE_MEMBERS
  building,    \* the class whose declaration is running, or None
  phase,       \* where that declaration is: "inherit", "members"
  access,      \* last member-ref opcode: [op, expected, got]
  foreach      \* last FOREACH_INIT: [value, path, accepted, iter, bound, delta]

cvars == <<defined, usable, superOf, classId, methods, initializer, hashCodeM, equalsM,
           statics, fields, memberRefs, building, phase>>
vars == <<cvars, access, foreach>>
\* The members defineMethod and defineStatic set besides the method table.
slots == <<initializer, hashCodeM, equalsM, statics>>

NoMethods == [n \in Names |-> None]

\* The super-chain of c, c included.
RECURSIVE Chain(_)
Chain(c) == IF superOf[c] = None THEN {c} ELSE {c} \cup Chain(superOf[c])

\* instanceOf(clazz, instanceClass): instanceClass->classId % clazz->classId == 0.
instanceOf(clazz, instanceClass) == classId[instanceClass] % classId[clazz] = 0

(***************************************************************************)
(* registerBuiltins / registerStaticClass: each builtin gets its super,   *)
(* classId = baseId * super->classId, and the super's methods copied      *)
(* before its own native methods are added.                               *)
(***************************************************************************)
RECURSIVE BuiltinId(_)
BuiltinId(c) == IF BuiltinSuper[c] = None THEN BaseId[c]
                ELSE BaseId[c] * BuiltinId(BuiltinSuper[c])

RECURSIVE BuiltinMethodSet(_)
BuiltinMethodSet(c) == BuiltinMethods[c] \cup
  (IF BuiltinSuper[c] = None THEN {} ELSE BuiltinMethodSet(BuiltinSuper[c]))

Init ==
  /\ defined = Builtins
  /\ usable = Builtins
  /\ superOf = [c \in Classes |-> IF c \in Builtins THEN BuiltinSuper[c] ELSE None]
  /\ classId = [c \in Classes |-> IF c \in Builtins THEN BuiltinId(c) ELSE BaseId[c]]
  /\ methods = [c \in Classes |->
                  [n \in Names |-> IF c \in Builtins /\ n \in BuiltinMethodSet(c)
                                   THEN c ELSE None]]
  /\ initializer = [c \in Classes |-> None]
  /\ hashCodeM = [c \in Classes |-> None]
  /\ equalsM = [c \in Classes |-> None]
  /\ statics = [c \in Classes |-> [n \in Names |-> None]]
  /\ fields = [c \in Classes |-> [n \in Names |-> None]]
  /\ memberRefs = [c \in Classes |-> <<>>]
  /\ building = None
  /\ phase = None
  /\ access = None
  /\ foreach = None


-----------------------------------------------------------------------------
(***************************************************************************)
(* A class declaration: CLASS pushes newClass(name), whose classId is its *)
(* baseId; INHERIT runs when the class names a superclass; then FIELD and *)
(* METHOD in source order; RESOLVE_MEMBERS ends it.                        *)
(***************************************************************************)
CLASS(c) ==
  /\ building = None
  /\ c \in UserClasses \ defined
  /\ SuperDecl[c] = None \/ SuperDecl[c] \in usable
  /\ defined' = defined \cup {c}
  /\ building' = c
  /\ phase' = IF SuperDecl[c] = None THEN "members" ELSE "inherit"
  /\ UNCHANGED <<usable, superOf, classId, methods, slots, fields, memberRefs, access, foreach>>

\* Mutant: the subclass id is built from the superclass's own prime only.
inherit_superBaseId(sub, sup) ==
  /\ classId' = [classId EXCEPT ![sub] = BaseId[sub] * BaseId[sup]]
  /\ fields' = [fields EXCEPT ![sub] = fields[sup]]
  /\ methods' = [methods EXCEPT ![sub] = methods[sup]]
  /\ superOf' = [superOf EXCEPT ![sub] = sup]

\* inherit(): classId = baseId * super->classId; the superclass's fields
\* (with their offsets) and methods are copied into the fresh class.
inherit(sub, sup) ==
  /\ classId' = [classId EXCEPT ![sub] = BaseId[sub] * classId[sup]]
  /\ fields' = [fields EXCEPT ![sub] = fields[sup]]
  /\ methods' = [methods EXCEPT ![sub] = methods[sup]]
  /\ superOf' = [superOf EXCEPT ![sub] = sup]

INHERIT ==
  /\ phase = "inherit"
  /\ inherit(building, SuperDecl[building])
  /\ phase' = "members"
  /\ UNCHANGED <<defined, usable, slots, memberRefs, building, access, foreach>>

\* Own members of the class under construction not yet defined.  A field
\* the class redeclares is pending while it still has the offset inherit
\* copied from the superclass: defineField never checks for the name.
FieldPending(c, n) ==
  /\ n \in FieldDecl[c]
  /\ \/ fields[c][n] = None
     \/ superOf[c] /= None /\ fields[c][n] = fields[superOf[c]][n]
MethodPending(c, n) == n \in MethodDecl[c] /\
                        IF n = CtorName THEN initializer[c] /= c ELSE methods[c][n] /= c
StaticPending(c, n) == n \in StaticDecl[c] /\ statics[c][n] = None
Pending(c) == \E n \in Names : FieldPending(c, n) \/ MethodPending(c, n) \/ StaticPending(c, n)

\* Mutant: the offset counts only the fields the class itself declares.
FIELD_ownCount(n) ==
  /\ phase = "members"
  /\ FieldPending(building, n)
  /\ fields' = [fields EXCEPT ![building][n] =
                  Cardinality({m \in FieldDecl[building] : fields[building][m] /= None})]
  /\ UNCHANGED <<defined, usable, superOf, classId, methods, slots, memberRefs, building, phase,
                 access, foreach>>

\* defineField(): the field's offset is fields.count, and tableSet replaces
\* an inherited entry of the same name without adding to the count.
FIELD(n) ==
  /\ phase = "members"
  /\ FieldPending(building, n)
  /\ fields' = [fields EXCEPT ![building][n] =
                  Cardinality({m \in Names : fields[building][m] /= None})]
  /\ UNCHANGED <<defined, usable, superOf, classId, methods, slots, memberRefs, building, phase,
                 access, foreach>>

(***************************************************************************)
(* defineMethod(): the closure's parentClass is the class.  A method named *)
(* after the class becomes the initializer; any other replaces an         *)
(* inherited method of the same name in the table, and hashCode / equals  *)
(* also fill the class's fast slot.                                        *)
(***************************************************************************)
METHOD(n) ==
  LET c == building IN
  /\ phase = "members"
  /\ MethodPending(c, n)
  /\ \/ /\ n = CtorName
        /\ initializer' = [initializer EXCEPT ![c] = c]
        /\ UNCHANGED <<methods, hashCodeM, equalsM>>
     \/ /\ n /= CtorName
        /\ methods' = [methods EXCEPT ![c][n] = c]
        /\ hashCodeM' = IF n = HashCodeName THEN [hashCodeM EXCEPT ![c] = c] ELSE hashCodeM
        /\ equalsM' = IF n = EqualsName THEN [equalsM EXCEPT ![c] = c] ELSE equalsM
        /\ UNCHANGED initializer
  /\ UNCHANGED <<defined, usable, superOf, classId, statics, fields, memberRefs, building,
                 phase, access, foreach>>

(***************************************************************************)
(* defineStatic(): a new name gets index statics.count and its value is   *)
(* appended to staticValues; a name already there has its value replaced, *)
(* which leaves the index (all the model keeps) as it was.                *)
(***************************************************************************)
STATIC(n) ==
  /\ phase = "members"
  /\ StaticPending(building, n)
  /\ statics' = [statics EXCEPT ![building][n] =
                   Cardinality({m \in Names : statics[building][m] /= None})]
  /\ UNCHANGED <<defined, usable, superOf, classId, methods, initializer, hashCodeM, equalsM,
                 fields, memberRefs, building, phase, access, foreach>>

(***************************************************************************)
(* RESOLVE_MEMBERS: a super reference points at the superclass's method   *)
(* cell; otherwise a field reference is the field's offset, falling back  *)
(* to the class's own method cell.  A name found nowhere raises           *)
(* "Undefined property" and the declaration is abandoned.                 *)
(***************************************************************************)
Resolve(c, r) ==
  IF r.super
  THEN IF methods[superOf[c]][r.name] = None THEN None
       ELSE [kind |-> "method", owner |-> methods[superOf[c]][r.name], name |-> r.name]
  ELSE IF fields[c][r.name] /= None
       THEN [kind |-> "field", offset |-> fields[c][r.name]]
       ELSE IF methods[c][r.name] = None THEN None
       ELSE [kind |-> "method", owner |-> methods[c][r.name], name |-> r.name]

\* Mutant: an unresolved name is not reported; the class is completed.
RESOLVE_MEMBERS_noError ==
  LET c == building
      refs == [s \in 1..Len(RefDecl[c]) |-> Resolve(c, RefDecl[c][s])]
  IN
  /\ phase = "members"
  /\ ~Pending(c)
  /\ memberRefs' = [memberRefs EXCEPT ![c] = refs]
  /\ usable' = usable \cup {c}
  /\ building' = None
  /\ phase' = None
  /\ UNCHANGED <<defined, superOf, classId, methods, slots, fields, access, foreach>>

RESOLVE_MEMBERS ==
  LET c == building
      refs == [s \in 1..Len(RefDecl[c]) |-> Resolve(c, RefDecl[c][s])]
  IN
  /\ phase = "members"
  /\ ~Pending(c)
  /\ \/ /\ \A s \in DOMAIN refs : refs[s] /= None
        /\ memberRefs' = [memberRefs EXCEPT ![c] = refs]
        /\ usable' = usable \cup {c}
     \/ /\ \E s \in DOMAIN refs : refs[s] = None
        /\ UNCHANGED <<memberRefs, usable>>
  /\ building' = None
  /\ phase' = None
  /\ UNCHANGED <<defined, superOf, classId, methods, slots, fields, access, foreach>>

-----------------------------------------------------------------------------
(***************************************************************************)
(* Member-ref opcodes, executed by a method whose parentClass is p on an  *)
(* instance of class i (p on i's super-chain), for the reference the      *)
(* compiler numbered s in p's RESOLVE_MEMBERS.  GET_MEMBER_PROPERTY and   *)
(* SET_MEMBER_PROPERTY read p's memberRefs; GET_SUPER, MEMBER_INVOKE and  *)
(* SUPER_INVOKE read instance->clazz->memberRefs.  A slot past the end of *)
(* that array is an out-of-bounds read: Garbage.                          *)
(***************************************************************************)
Garbage == [kind |-> "garbage"]

instanceClassRef(p, i, s) ==
  IF s <= Len(memberRefs[i]) THEN memberRefs[i][s] ELSE Garbage

\* Mutant: the property opcodes index the instance's class like the others.
parentClassRef_instanceClass(p, i, s) == instanceClassRef(p, i, s)

parentClassRef(p, i, s) == memberRefs[p][s]

SuperOps == {"GET_SUPER", "SUPER_INVOKE"}
PropertyOps == {"GET_MEMBER_PROPERTY", "SET_MEMBER_PROPERTY"}
MemberOps == PropertyOps \cup {"MEMBER_INVOKE"}

memberRefOp(op, i, p, s) ==
  /\ building = None
  /\ i \in usable \cap UserClasses
  /\ p \in Chain(i) \cap UserClasses
  /\ s \in DOMAIN RefDecl[p]
  /\ op \in IF RefDecl[p][s].super THEN SuperOps ELSE MemberOps
  /\ access' = [op |-> op, cls |-> i, parent |-> p,
                expected |-> memberRefs[p][s],
                got |-> IF op \in PropertyOps THEN parentClassRef(p, i, s)
                        ELSE instanceClassRef(p, i, s)]
  /\ UNCHANGED <<cvars, foreach>>

(***************************************************************************)
(* Access by name.  A receiver is an instance of a class other than Map,  *)
(* a map, a class value, or a value classOfValue has no class for (nil).  *)
(* What an access reaches is a field offset, a method (the class whose    *)
(* closure the table holds), a static index, or a raised error.           *)
(***************************************************************************)
Receivers == {[kind |-> "instance", cls |-> c] : c \in usable \ {MapClass}}
               \cup {[kind |-> "map", cls |-> MapClass], [kind |-> "nil", cls |-> None]}
               \cup {[kind |-> "class", cls |-> c] : c \in usable}

Failed == [kind |-> "error"]

\* getInstanceValue(): the instance's class's fields table gives the offset.
getInstanceValue(c, n) == fields[c][n] /= None

\* bindMethod(): the method table's entry bound to the receiver, or raise.
bindMethod(c, n) ==
  IF methods[c][n] = None THEN Failed ELSE [kind |-> "method", owner |-> methods[c][n]]

\* Mutant: the instance case does not fall through to the class's methods.
invoke_noFallthrough(v, n) ==
  CASE v.kind = "nil"                                 -> Failed
    [] v.kind = "instance" /\ getInstanceValue(v.cls, n)
                                                      -> [kind |-> "field", offset |-> fields[v.cls][n]]
    [] v.kind = "instance"                            -> Failed
    [] v.kind = "map"                                 -> bindMethod(v.cls, n)
    [] v.kind = "class" /\ statics[v.cls][n] /= None   -> [kind |-> "static", index |-> statics[v.cls][n]]
    [] OTHER                                          -> Failed

(***************************************************************************)
(* invoke(): classOfValue gives the receiver's class and how it was found. *)
(* An instance's field is called if there is one, and otherwise (the      *)
(* FALLTHROUGH) the class's method, as for a map; a class value calls its *)
(* static; a value without class raises "Only instances have methods".    *)
(***************************************************************************)
invoke(v, n) ==
  CASE v.kind = "nil"                                 -> Failed
    [] v.kind = "instance" /\ getInstanceValue(v.cls, n)
                                                      -> [kind |-> "field", offset |-> fields[v.cls][n]]
    [] v.kind \in {"instance", "map"}                  -> bindMethod(v.cls, n)
    [] v.kind = "class" /\ statics[v.cls][n] /= None   -> [kind |-> "static", index |-> statics[v.cls][n]]
    [] OTHER                                          -> Failed

(***************************************************************************)
(* GET_PROPERTY: an instance's field, else bindMethod on instance->clazz; *)
(* for any other value bindMethod on classOfValue's class, which for a    *)
(* class value is the class itself and its method table; raise if there  *)
(* is no class ("This value doesn't have properties").                    *)
(***************************************************************************)
getProperty(v, n) ==
  CASE v.kind = "nil"                                 -> Failed
    [] v.kind = "instance" /\ getInstanceValue(v.cls, n)
                                                      -> [kind |-> "field", offset |-> fields[v.cls][n]]
    [] OTHER                                          -> bindMethod(v.cls, n)

(***************************************************************************)
(* SET_PROPERTY on an instance: setInstanceField() stores into the offset  *)
(* the class's fields table gives and returns false, or returns true when *)
(* there is no such field; the opcode raises "Undefined field" when the   *)
(* result is false.  Any other receiver raises "Only instances have       *)
(* fields".  The result records the store and whether the opcode raised.  *)
(***************************************************************************)
setProperty(v, n) ==
  LET notFound == ~getInstanceValue(v.cls, n) IN
  IF v.kind /= "instance" THEN [stored |-> None, raised |-> TRUE]
  ELSE [stored |-> IF notFound THEN None ELSE fields[v.cls][n], raised |-> ~notFound]

(***************************************************************************)
(* Calling a class value (callValue, OBJ_CLASS): a new instance takes the *)
(* callee's slot; the initializer is called if the class has one, else    *)
(* any argument raises "Expected 0 arguments".                            *)
(***************************************************************************)
callClass(c, argCount) ==
  IF initializer[c] /= None THEN [kind |-> "method", owner |-> initializer[c]]
  ELSE IF argCount /= 0 THEN Failed ELSE [kind |-> "instance", cls |-> c]

\* The opcodes record the kind of what they reached.
ByNameOps == {"INVOKE", "GET_PROPERTY", "SET_PROPERTY", "CALL"}

INVOKE(v, n) ==
  /\ building = None
  /\ v \in Receivers
  /\ access' = [op |-> "INVOKE", got |-> invoke(v, n).kind]
  /\ UNCHANGED <<cvars, foreach>>

GET_PROPERTY(v, n) ==
  /\ building = None
  /\ v \in Receivers
  /\ access' = [op |-> "GET_PROPERTY", got |-> getProperty(v, n).kind]
  /\ UNCHANGED <<cvars, foreach>>

SET_PROPERTY(v, n) ==
  /\ building = None
  /\ v \in Receivers
  /\ access' = [op |-> "SET_PROPERTY", got |-> IF setProperty(v, n).raised THEN "error" ELSE "field"]
  /\ UNCHANGED <<cvars, foreach>>

CALL(c, argCount) ==
  /\ building = None
  /\ c \in usable
  /\ access' = [op |-> "CALL", got |-> callClass(c, argCount).kind]
  /\ UNCHANGED <<cvars, foreach>>

(***************************************************************************)
(* FOREACH_INIT over a value: an instance of a class other than Map, or a *)
(* map (classOf gives mapClass).  The direct test is written              *)
(* instanceOf(value's class, iteratorClass).  Otherwise the class's       *)
(* iterator() is bound, called and both stack cells popped; the result is *)
(* kept when it is an instance and instanceOf(iteratorClass, its class).  *)
(* A map's iterator() returns a $MapIterator; a user method may return    *)
(* any instance, a non-instance value, or throw.  The direct path leaves  *)
(* the iterable on the stack (net 0); the iterator() path consumes it.   *)
(***************************************************************************)
Values == {[kind |-> "instance", cls |-> c] : c \in usable \ {MapClass}}
            \cup {[kind |-> "map", cls |-> MapClass]}

IteratorResults(c) ==
  IF c = MapClass THEN {[kind |-> "instance", cls |-> MapIteratorClass]}
  ELSE {[kind |-> "instance", cls |-> r] : r \in usable \ {MapClass}}
         \cup {[kind |-> "other", cls |-> None], [kind |-> "exception", cls |-> None]}

\* Mutant: the result test has the same argument order as the direct test.
iteratorResultAccepted_swapped(r) ==
  r.kind = "instance" /\ instanceOf(r.cls, Iterator)

iteratorResultAccepted(r) ==
  r.kind = "instance" /\ instanceOf(Iterator, r.cls)

\* The bound hasNext / next exist: bindMethod's failure is ignored here.
Bindable(c) == methods[c][HasNextName] /= None /\ methods[c][NextName] /= None

FOREACH_INIT(v) ==
  /\ building = None
  /\ v \in Values
  /\ \/ /\ v.kind = "instance" /\ instanceOf(v.cls, Iterator)
        /\ foreach' = [value |-> v, path |-> "direct", accepted |-> TRUE,
                       iter |-> v.cls, bound |-> Bindable(v.cls), delta |-> 0]
     \/ /\ ~(v.kind = "instance" /\ instanceOf(v.cls, Iterator))
        /\ methods[v.cls][IteratorName] = None
        /\ foreach' = [value |-> v, path |-> "none", accepted |-> FALSE,
                       iter |-> None, bound |-> FALSE, delta |-> 0]
     \/ /\ ~(v.kind = "instance" /\ instanceOf(v.cls, Iterator))
        /\ methods[v.cls][IteratorName] /= None
        /\ \E r \in IteratorResults(v.cls) :
             foreach' = [value |-> v, path |-> "iterator",
                         accepted |-> iteratorResultAccepted(r),
                         iter |-> r.cls,
                         bound |-> iteratorResultAccepted(r) /\ Bindable(r.cls),
                         delta |-> -1]
  /\ UNCHANGED <<cvars, access>>

Next ==
  \/ \E c \in UserClasses : CLASS(c)
  \/ INHERIT
  \/ \E n \in Names : FIELD(n) \/ METHOD(n) \/ STATIC(n)
  \/ RESOLVE_MEMBERS
  \/ \E i, p \in UserClasses, op \in SuperOps \cup MemberOps, s \in 1..MaxRefs :
       memberRefOp(op, i, p, s)
  \/ \E v \in Values : FOREACH_INIT(v)
  \/ \E v \in Receivers, n \in Names : INVOKE(v, n) \/ GET_PROPERTY(v, n) \/ SET_PROPERTY(v, n)
  \/ \E c \in Classes, a \in 0..1 : CALL(c, a)

Spec == Init /\ [][Next]_vars

-----------------------------------------------------------------------------
Ref == [kind : {"field"}, offset : 0..Cardinality(Names)]
         \cup [kind : {"method"}, owner : Classes, name : Names]
         \cup {Garbage}

ClassTypeOK ==
  /\ usable \subseteq defined /\ defined \subseteq Classes
  /\ superOf \in [Classes -> Classes \cup {None}]
  /\ methods \in [Classes -> [Names -> Classes \cup {None}]]
  /\ fields \in [Classes -> [Names -> Nat \cup {None}]]
  /\ \A slot \in {initializer, hashCodeM, equalsM} : slot \in [Classes -> Classes \cup {None}]
  /\ statics \in [Classes -> [Names -> Nat \cup {None}]]
  /\ \A c \in Classes : memberRefs[c] \in Seq(Ref)
  /\ building \in UserClasses \cup {None}
  /\ foreach = None \/ foreach.delta \in {-1, 0}

(***************************************************************************)
(* instanceOf(A, B) holds exactly when A is on B's super-chain (spec.md 8: *)
(* "instanceOf(A,B) iff B is A or a subclass of A"): the classId products  *)
(* built by registerStaticClass and inherit, over distinct primes, never   *)
(* make an unrelated class look like an ancestor.                          *)
(***************************************************************************)
InstanceOfIsSubclass ==
  \A a, b \in defined : instanceOf(a, b) <=> a \in Chain(b)

(***************************************************************************)
(* Field offsets: a class's fields have distinct offsets 0..n-1, and a    *)
(* subclass keeps every superclass field at the superclass's offset.       *)
(* GET_MEMBER_PROPERTY resolves a field in the method's class and reads   *)
(* that offset from an instance of any subclass, so inherit's copy and    *)
(* defineField's "index = fields.count" must agree.                        *)
(***************************************************************************)
FieldOffsetsConsistent ==
  \A c \in defined :
    LET own == {n \in Names : fields[c][n] /= None}
    IN  /\ {fields[c][n] : n \in own} = 0..Cardinality(own) - 1
        /\ superOf[c] /= None =>
             \A n \in Names : fields[superOf[c]][n] /= None =>
                                fields[c][n] = fields[superOf[c]][n]

(***************************************************************************)
(* Every member-ref opcode reaches the member its compiler slot names in  *)
(* the class whose method runs (spec.md 4.H: memberRefs are indexed by a  *)
(* compile-time slot of that class).  GET_SUPER, MEMBER_INVOKE and        *)
(* SUPER_INVOKE index instance->clazz->memberRefs instead.                *)
(***************************************************************************)
MemberRefUsesMethodClassRef ==
  access /= None /\ access.op \notin ByNameOps => access.got = access.expected

(***************************************************************************)
(* When FOREACH_INIT takes an iterator from iterator(), that iterator is  *)
(* an instance of an Iterator subclass, so hasNext and next exist.        *)
(***************************************************************************)
ForeachIteratorIsIterator ==
  (foreach /= None /\ foreach.path = "iterator" /\ foreach.accepted)
    => Iterator \in Chain(foreach.iter)

(***************************************************************************)
(* FOREACH_INIT uses an instance of an Iterator subclass directly         *)
(* (spec.md 4.J): such a value is always accepted.                        *)
(***************************************************************************)
ForeachAcceptsIteratorInstances ==
  (foreach /= None /\ foreach.value.kind = "instance"
     /\ Iterator \in Chain(foreach.value.cls))
    => foreach.accepted

(***************************************************************************)
(* Calling a member by name on an instance or a map (INVOKE) reaches the  *)
(* member that reading it (GET_PROPERTY) and calling the result would:    *)
(* the instance's field if it has one, else the method its class's table  *)
(* holds, and both raise together.  It is about invoke()'s FALLTHROUGH    *)
(* from the instance case into the class-method case.                     *)
(***************************************************************************)
InvokeMatchesProperty ==
  \A v \in Receivers, n \in Names :
    v.kind /= "class" => invoke(v, n) = getProperty(v, n)

(***************************************************************************)
(* A member reached by name on a class value is its static (spec.md 1:    *)
(* "instance and static class members"): INVOKE looks in clazz->statics,  *)
(* while GET_PROPERTY binds from clazz->methods, so A.s() and (A.s)()    *)
(* differ.                                                                *)
(***************************************************************************)
StaticsReachableByName ==
  \A c \in usable, n \in Names :
    invoke([kind |-> "class", cls |-> c], n) = getProperty([kind |-> "class", cls |-> c], n)

(***************************************************************************)
(* Assigning a declared field of an instance by name stores into its      *)
(* offset and raises nothing; assigning an undeclared one raises          *)
(* (SET_PROPERTY's "Undefined field").  It is about the sense of          *)
(* setInstanceField()'s result.                                           *)
(***************************************************************************)
SetPropertyStoresFields ==
  \A c \in usable \ {MapClass}, n \in Names :
    setProperty([kind |-> "instance", cls |-> c], n) =
      IF fields[c][n] /= None THEN [stored |-> fields[c][n], raised |-> FALSE]
      ELSE [stored |-> None, raised |-> TRUE]

(***************************************************************************)
(* The fast hashCode and equals slots agree with the method table: a      *)
(* class whose table holds a user-defined hashCode or equals has it in    *)
(* the slot hashValue and valuesEquals use (spec.md 3 and 4.A: instances *)
(* hash and compare through the user-defined methods).  It is about      *)
(* inherit(), which copies the method table but not the slots.            *)
(***************************************************************************)
FastSlotsFollowMethods ==
  \A c \in defined :
    /\ methods[c][HashCodeName] \in UserClasses => hashCodeM[c] = methods[c][HashCodeName]
    /\ methods[c][EqualsName] \in UserClasses => equalsM[c] = methods[c][EqualsName]
=============================================================================
