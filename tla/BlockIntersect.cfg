SPECIFICATION Spec
CONSTANT Lists <- MCLists
INVARIANTS TypeOK OutExact FilterDecides
PROPERTIES ImplementsIntersection StepsAdvance
