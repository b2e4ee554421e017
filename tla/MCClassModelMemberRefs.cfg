\* GET_SUPER, MEMBER_INVOKE and SUPER_INVOKE index the instance's class memberRefs.
CONSTANTS
  Object_ = Object_  Iterator_ = Iterator_  MapIter_ = MapIter_  Map_ = Map_
  A = A  B = B  C = C  E = E  UI = UI
  x = x  y = y  z = z  f = f  g = g  h = h  k = k  s_ = s_
  hashCode_ = hashCode_  equals_ = equals_  ctor_ = ctor_
  iterator_ = iterator_  hasNext_ = hasNext_  next_ = next_  None_ = None_
  Builtins <- MCBuiltins
  UserClasses <- MCUserClasses
  Names <- MCNames
  Object <- Object_
  Iterator <- Iterator_
  MapIteratorClass <- MapIter_
  MapClass <- Map_
  IteratorName <- iterator_
  HasNextName <- hasNext_
  NextName <- next_
  HashCodeName <- hashCode_
  EqualsName <- equals_
  CtorName <- ctor_
  None <- None_
  BaseId <- MCBaseId
  BuiltinSuper <- MCBuiltinSuper
  BuiltinMethods <- MCBuiltinMethods
  SuperDecl <- MCSuperDecl
  FieldDecl <- MCFieldDecl
  MethodDecl <- MCMethodDecl
  StaticDecl <- MCStaticDecl
  RefDecl <- MCRefDecl
  MaxRefs = 2
SPECIFICATION Spec
INVARIANT MemberRefUsesMethodClassRef
